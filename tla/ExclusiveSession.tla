-------------------------- MODULE ExclusiveSession --------------------------
(***************************************************************************)
(* What the native library promises the app: "a single exclusive native    *)
(* worker" (NATIVE_ENGINE.md).  Sessions are opened in order; each one is  *)
(* refused, or runs until it is told to stop or ends by itself, and is over*)
(* when its worker has given back everything a session holds.  No session  *)
(* begins before.                                                          *)
(***************************************************************************)
EXTENDS Naturals

CONSTANT Session   \* a set of numbers
VARIABLE state     \* what has become of each session

Init == state = [s \in Session |-> "none"]

Becomes(s, from, to) ==
  /\ state[s] = from
  /\ state' = [state EXCEPT ![s] = to]

\* The sessions before s have begun or been refused.
Turn(s) == \A t \in Session : t < s => state[t] # "none"

NobodyRuns == \A t \in Session : state[t] \notin {"running", "ending"}

\* nativeStart returns a handle ...
Begin(s) == Turn(s) /\ NobodyRuns /\ Becomes(s, "none", "running")

\* ... or 0.
Refuse(s) == Turn(s) /\ Becomes(s, "none", "refused")

\* nativeStop, or run_android returns.
End(s) == Becomes(s, "running", "ending")

\* The runtime is dropped, the handle forgotten and ACTIVE cleared.
Over(s) == Becomes(s, "ending", "over")

Next == \E s \in Session : Begin(s) \/ Refuse(s) \/ End(s) \/ Over(s)

Spec == Init /\ [][Next]_state

FairSpec == Spec /\ \A s \in Session : WF_state(Over(s))
=============================================================================
