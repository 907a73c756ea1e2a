--------------------------- MODULE TeamJobsProofs ---------------------------
(***************************************************************************)
(* The sign-in panel and the library's tables, for any number of taps and  *)
(* edits.  The invariant follows a session from the job that adds it to    *)
(* the coroutine that brings it and the panel that holds it.               *)
(***************************************************************************)
EXTENDS TeamJobs, TLAPS

USE TeamAssumption DEF panelVars, taskVars, libVars, history

\* A job belongs to the coroutine that polls it, or is left behind.
JobInv ==
  \A t \in Task :
    /\ state[t] # "none" => pc[t] \in {"poll", "free", "back", "ended"}
    /\ state[t] = "running" /\ kind[t] = "request" => pc[t] = "poll" \/ t \in lost
    /\ pc[t] = "poll" => t \in jobs

\* The coroutine of t is about to bring the session that its job has added.
Brings(t) == \/ pc[t] = "poll" /\ state[t] = "ok"
             \/ pc[t] \in {"free", "back"} /\ result[t] = "ok"

\* Every session is held, about to be brought, or lost ...
Owned ==
  \A t \in sessions :
    /\ kind[t] = "request" /\ pc[t] # "idle"
    /\ t = session \/ t \in lost \/ Brings(t)

\* ... and what is about to be brought, or held, is there.
Kept ==
  /\ \A t \in Task : kind[t] = "request" /\ Brings(t) => t \in sessions
  /\ session # None => session \in sessions /\ pc[session] = "ended"

\* A request for another team than the field's was under way when it changed.
TeamInv ==
  /\ \A t \in UnderWay : kind[t] = "request" /\ of[t] # team => t \in overtaken
  /\ SessionOfTeam

IInv == TypeOK /\ JobInv /\ Owned /\ Kept /\ TeamInv

-----------------------------------------------------------------------------
LEMMA IInvInit == Init => IInv
<1> SUFFICES ASSUME Init PROVE IInv
    OBVIOUS
<1>1. TypeOK
  <2>1. 0 \in Team BY DEF Team
  <2> QED BY <2>1 DEF Init, TypeOK, Kind
<1>2. JobInv BY DEF Init, JobInv
<1>3. Owned /\ Kept BY DEF Init, Owned, Kept, Brings
<1>4. TeamInv BY DEF Init, TeamInv, SessionOfTeam, UnderWay
<1> QED BY <1>1, <1>2, <1>3, <1>4 DEF IInv

LEMMA IInvSafe == IInv => TypeOK /\ HandleAlive /\ LeftOnlyLate /\ SessionOfTeam
<1> SUFFICES ASSUME IInv PROVE HandleAlive /\ LeftOnlyLate
    BY DEF IInv, TeamInv
<1>1. HandleAlive BY DEF IInv, Kept, HandleAlive
<1>2. LeftOnlyLate
      BY DEF IInv, TypeOK, Owned, Brings, LeftOnlyLate, UnderWay
<1> QED BY <1>1, <1>2

\* None is no coroutine.
LEMMA NoneIsNone == None \notin Task
  BY DEF None, Task

-----------------------------------------------------------------------------
(* Every action keeps the invariant.                                       *)

LEMMA TapKeeps ==
  ASSUME IInv, NEW t \in Task, NEW k \in Kind, Tap(t, k)
  PROVE  IInv'
<1> USE DEF IInv
<1>1. TypeOK' BY DEF Tap, TypeOK
<1>2. JobInv' BY DEF Tap, TypeOK, JobInv
<1>3. Owned' BY DEF Tap, TypeOK, Owned, Brings
<1>4. Kept' BY DEF Tap, TypeOK, Kept, Brings
<1>5. TeamInv' BY DEF Tap, TypeOK, Kept, TeamInv, SessionOfTeam, UnderWay
<1> QED BY <1>1, <1>2, <1>3, <1>4, <1>5

LEMMA LaunchKeeps == ASSUME IInv, NEW t \in Task, Launch(t) PROVE IInv'
<1> USE DEF IInv
<1>1. TypeOK'
  <2>1. CASE open
    <3>1. sid' \in [Task -> Task \cup {None}] BY <2>1 DEF Launch, TypeOK
    <3> QED BY <2>1, <3>1 DEF Launch, TypeOK
  <2>2. CASE ~open BY <2>2 DEF Launch, TypeOK
  <2> QED BY <2>1, <2>2
<1>2. JobInv' BY DEF Launch, TypeOK, JobInv
<1>3. Owned' BY DEF Launch, TypeOK, Owned, Brings
<1>4. Kept' BY DEF Launch, TypeOK, Kept, Brings
<1>5. TeamInv' BY DEF Launch, TypeOK, TeamInv, SessionOfTeam, UnderWay
<1> QED BY <1>1, <1>2, <1>3, <1>4, <1>5

LEMMA CallKeeps == ASSUME IInv, NEW t \in Task, Call(t) PROVE IInv'
<1> USE DEF IInv
<1>1. TypeOK' BY DEF Call, Leaves, Requests, TypeOK
<1>2. JobInv' BY DEF Call, Leaves, Requests, TypeOK, JobInv
<1>3. Owned' BY DEF Call, Leaves, Requests, TypeOK, Owned, Brings, JobInv
<1>4. Kept' BY DEF Call, Leaves, TypeOK, Kept, Brings, JobInv
<1>5. TeamInv' BY DEF Call, Leaves, TypeOK, TeamInv, SessionOfTeam, UnderWay
<1> QED BY <1>1, <1>2, <1>3, <1>4, <1>5

LEMMA PollKeeps ==
  ASSUME IInv, NEW t \in Task, Poll(t) \/ GivesUp(t)
  PROVE  IInv'
<1> USE DEF IInv
<1>1. TypeOK' BY DEF Poll, GivesUp, Leaves, Requests, TypeOK
<1>2. JobInv' BY DEF Poll, GivesUp, Leaves, Requests, TypeOK, JobInv
<1>3. Owned' BY DEF Poll, GivesUp, Leaves, Requests, TypeOK, Owned, Brings
<1>4. Kept' BY DEF Poll, GivesUp, Leaves, TypeOK, Kept, Brings
<1>5. TeamInv'
      BY DEF Poll, GivesUp, Leaves, TypeOK, TeamInv, SessionOfTeam, UnderWay
<1> QED BY <1>1, <1>2, <1>3, <1>4, <1>5

LEMMA FreeKeeps == ASSUME IInv, NEW t \in Task, Free(t) PROVE IInv'
<1> USE DEF IInv
<1>1. TypeOK' BY DEF Free, TypeOK
<1>2. JobInv' BY DEF Free, TypeOK, JobInv
<1>3. Owned' BY DEF Free, TypeOK, Owned, Brings
<1>4. Kept' BY DEF Free, TypeOK, Kept, Brings
<1>5. TeamInv' BY DEF Free, TypeOK, TeamInv, SessionOfTeam, UnderWay
<1> QED BY <1>1, <1>2, <1>3, <1>4, <1>5

LEMMA JobEndsKeeps == ASSUME IInv, NEW t \in Task, JobEnds(t) PROVE IInv'
<1> USE DEF IInv
<1>1. TypeOK' BY DEF JobEnds, Success, TypeOK
<1>2. JobInv' BY DEF JobEnds, Success, TypeOK, JobInv
<1>3. Owned' BY DEF JobEnds, Success, TypeOK, JobInv, Owned, Brings
<1>4. Kept' BY DEF JobEnds, Success, TypeOK, JobInv, Kept, Brings
<1>5. TeamInv' BY DEF JobEnds, TeamInv, SessionOfTeam, UnderWay
<1> QED BY <1>1, <1>2, <1>3, <1>4, <1>5

\* The panel's session goes: its coroutine has ended, so nobody brings it.
LEMMA PanelKeeps == ASSUME IInv, ChangeTeam \/ Close PROVE IInv'
<1> USE DEF IInv
<1>0. /\ sessions' = sessions \ {session} /\ session' = None
      /\ UNCHANGED <<taskVars, jobs, state, lost>>
      BY DEF ChangeTeam, Close, FreeSession
<1>1. TypeOK'
  <2>1. team' \in Team BY DEF ChangeTeam, Close, TypeOK, Team
  <2>2. open' \in BOOLEAN /\ busy' \in BOOLEAN /\ overtaken' \in SUBSET Task
        BY DEF ChangeTeam, Close, TypeOK, Requests, UnderWay
  <2> QED BY <1>0, <2>1, <2>2 DEF TypeOK
<1>2. JobInv' BY <1>0 DEF JobInv
<1>3. Owned' BY <1>0 DEF Owned, Brings
<1>4. Kept' BY <1>0, NoneIsNone DEF Kept, Brings, TypeOK
<1>5. TeamInv'
      BY <1>0 DEF ChangeTeam, Close, TeamInv, SessionOfTeam, UnderWay, Requests
<1> QED BY <1>1, <1>2, <1>3, <1>4, <1>5

LEMMA BackKeeps == ASSUME IInv, NEW t \in Task, Back(t) PROVE IInv'
<1> USE DEF IInv
<1>0. /\ pc[t] = "back" /\ pc' = [pc EXCEPT ![t] = "ended"] /\ t # session
      /\ UNCHANGED <<kind, team, jobs, state>>
      BY NoneIsNone DEF Back, Kept
<1>1. \/ sessions' = sessions \ {session} /\ session' = t /\ open
           /\ result[t] = "ok" /\ kind[t] = "request"
      \/ sessions' = sessions \ {session} /\ session' = None /\ open
           /\ kind[t] = "submit"
      \/ sessions' = sessions /\ session' = session
           /\ ~(open /\ result[t] = "ok" /\ kind[t] = "request")
  <2>1. CASE open /\ result[t] = "ok" /\ kind[t] = "request"
        BY <2>1 DEF Back, TakeSession
  <2>2. CASE open /\ result[t] = "ok" /\ kind[t] = "submit"
        BY <2>2 DEF Back, FreeSession
  <2>3. CASE ~(open /\ result[t] = "ok" /\ kind[t] \in {"request", "submit"})
        BY <2>3 DEF Back
  <2> QED BY <2>1, <2>2, <2>3
<1>2. /\ lost' = IF open THEN lost ELSE lost \cup Requests({t})
      /\ overtaken' = IF session' = t THEN overtaken ELSE overtaken \ {t}
      /\ of' = [of EXCEPT ![t] = IF session' = t THEN @ ELSE 0]
      /\ result' = [result EXCEPT ![t] = "none"]
      BY DEF Back
<1>3. TypeOK'
  <2>1. 0 \in Team BY DEF Team
  <2>2. /\ session' \in Task \cup {None} /\ sessions' \in SUBSET Task
        /\ lost' \in SUBSET Task /\ overtaken' \in SUBSET Task
        BY <1>1, <1>2 DEF TypeOK, Requests
  <2>3. /\ pc' \in [Task -> {"idle", "launched", "call", "poll", "free", "back", "ended"}]
        /\ of' \in [Task -> Team] /\ sid' \in [Task -> Task \cup {None}]
        BY <1>0, <1>2, <2>1 DEF Back, TypeOK
  <2>4. open' \in BOOLEAN /\ busy' \in BOOLEAN BY DEF Back, TypeOK
  <2>5. result' \in [Task -> {"none", "timeout", "cancelled", "ok", "rejected", "failed"}]
        BY <1>2 DEF TypeOK
  <2> QED BY <1>0, <2>2, <2>3, <2>4, <2>5 DEF TypeOK
<1>4. JobInv' BY <1>0, <1>2 DEF TypeOK, JobInv, Requests
<1>5. Owned' BY <1>0, <1>1, <1>2 DEF TypeOK, Owned, Kept, Brings, Requests
<1>6. Kept' BY <1>0, <1>1, <1>2, NoneIsNone DEF TypeOK, Kept, Brings
<1>7. TeamInv'
      BY <1>0, <1>1, <1>2, NoneIsNone DEF TypeOK, Kept, TeamInv, SessionOfTeam, UnderWay
<1> QED BY <1>3, <1>4, <1>5, <1>6, <1>7

LEMMA StepKeeps == IInv /\ [Next]_vars => IInv'
<1> SUFFICES ASSUME IInv, [Next]_vars PROVE IInv'
    OBVIOUS
<1>1. ASSUME NEW t \in Task, Step(t) PROVE IInv'
      BY <1>1, LaunchKeeps, CallKeeps, PollKeeps, FreeKeeps, BackKeeps DEF Step
<1>2. ASSUME NEW t \in Task, JobEnds(t) PROVE IInv' BY <1>2, JobEndsKeeps
<1>3. ASSUME NEW t \in Task, NEW k \in Kind, Tap(t, k) PROVE IInv' BY <1>3, TapKeeps
<1>4. CASE ChangeTeam \/ Close BY <1>4, PanelKeeps
<1>5. CASE UNCHANGED vars
  <2> USE <1>5 DEF vars, IInv
  <2>1. TypeOK' BY DEF TypeOK
  <2>2. JobInv' BY DEF JobInv
  <2>3. Owned' /\ Kept' BY DEF Owned, Kept, Brings
  <2>4. TeamInv' BY DEF TeamInv, SessionOfTeam, UnderWay
  <2> QED BY <2>1, <2>2, <2>3, <2>4
<1> QED BY <1>1, <1>2, <1>3, <1>4, <1>5 DEF Next

\* The inductive invariant.
THEOREM Invariance == Spec => []IInv
  BY IInvInit, StepKeeps, PTL DEF Spec

THEOREM TypeCorrect == Spec => []TypeOK
  BY IInvSafe, Invariance, PTL

\* The handle that the panel shows a code field for is one the library has.
THEOREM HandleNeverStale == Spec => []HandleAlive
  BY IInvSafe, Invariance, PTL

\* Only requests that gave up leave a session behind.
THEOREM SessionsOwned == Spec => []LeftOnlyLate
  BY IInvSafe, Invariance, PTL

\* A session of another team is one of a request that was already under way.
THEOREM SessionsOfTheTeam == Spec => []SessionOfTeam
  BY IInvSafe, Invariance, PTL
=============================================================================
