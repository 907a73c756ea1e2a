------------------------------ MODULE WgTunnel ------------------------------
(***************************************************************************)
(* A WireGuard tunnel (wireguard.rs): its validation, which is one loop    *)
(* (verify_endpoint_keep_session, verify_dataplane), and its run, which is *)
(* four tasks over one socket: recv, send, timer and health.               *)
(*                                                                         *)
(* boringtun is external: what it makes of a packet is the packet's kind.  *)
(* The packets it sends by its own timers, and those of the send task,     *)
(* only matter by what they bring back, and packets come in when they      *)
(* like: late answers, duplicates, handshakes, keepalives, and packets     *)
(* that do not decrypt.                                                    *)
(*                                                                         *)
(* Time passes in Ticks, and what is due happens before time goes on.      *)
(* silence and probes are history.                                         *)
(***************************************************************************)
EXTENDS Naturals

CONSTANTS Deadline,           \* the timeout of the validation
          Retry1, Retry2,     \* VERIFY_RETRY_DELAYS
          Resend,             \* the 700 ms after which a probe is repeated
          Gap,                \* DATAPLANE_PROBE_GAP
          MinPause, MaxPause, \* what health_check_pause returns
          Stale,              \* wg_stale_timeout
          MaxErrors,          \* MAX_TRANSIENT_RECV_ERRORS
          SockCap             \* bound: packets in the socket's buffer

ASSUME WgAssumption ==
  /\ Deadline \in Nat \ {0} /\ Resend \in Nat \ {0} /\ Gap \in Nat
  /\ Retry1 \in Nat /\ Retry2 \in Nat /\ Retry1 <= Retry2
  /\ MinPause \in Nat \ {0} /\ MaxPause \in Nat /\ MinPause <= MaxPause
  /\ Stale \in Nat \ {0} /\ MaxErrors \in Nat /\ SockCap \in Nat

DATAPLANE_REQUIRED_SUCCESSES == 2

VARIABLES
  dataCheck, \* AETHER_WG_NO_DATA_CHECK is not set
  phase,     \* which loop runs, or ran last
  why,       \* how it ended; "no" before it has
  left,      \* time left of the validation
  retry,     \* retry_index
  successes, \* round trips confirmed by verify_dataplane
  resend,    \* time until resend_at
  pause,     \* time until the health task wakes
  recv,      \* the recv task is at the socket, or held by a full inbound_tx
  errors,    \* transient_errors
  socket,    \* packets in the socket
  idle,      \* time since last_valid_rx
  silence,   \* time since the last round trip or, in the run, the last packet
             \* that decrypted was read
  probes     \* probes sent since then

validationVars == <<left, retry, successes, resend>>
runVars == <<pause, recv, errors, idle>>
history == <<silence, probes>>
vars == <<dataCheck, phase, why, validationVars, runVars, socket, history>>

Init ==
  /\ dataCheck \in BOOLEAN
  /\ phase = "handshake" /\ why = "no"
  /\ left = Deadline /\ retry = 0 /\ successes = 0 /\ resend = 0
  /\ pause = 0 /\ recv = "ready" /\ errors = 0
  /\ idle = 0
  /\ socket = 0 /\ silence = 0 /\ probes = 0

At(p) == phase = p /\ why = "no"

\* What decapsulate makes of a packet: data for the tunnel; nothing or an
\* answer to send, for handshakes, cookies and keepalives; an error.
Kind == {"data", "control", "junk"}

Ends(reason) ==
  /\ why' = reason
  /\ UNCHANGED <<dataCheck, phase, validationVars, runVars, socket, history>>

-----------------------------------------------------------------------------
(* The validation.                                                         *)

\* The validation returns, and WgTunnel::run begins: last_valid_rx is now, and
\* the health task sleeps.
Runs ==
  /\ phase' = "run"
  /\ left' = 0 /\ retry' = 0 /\ resend' = 0
  /\ idle' = 0 /\ silence' = 0 /\ probes' = 0
  /\ pause' \in MinPause .. MaxPause

\* A control packet ends the handshake, be it a response or a cookie, and the
\* first probe is sent; anything else is skipped.
ReadsHandshake(kind) ==
  /\ At("handshake")
  /\ \/ /\ kind = "control" /\ dataCheck
        /\ phase' = "dataplane"
        /\ resend' = Resend /\ silence' = 0 /\ probes' = 1
        /\ UNCHANGED <<left, retry, pause, idle>>
     \/ kind = "control" /\ ~dataCheck /\ Runs
     \/ /\ kind # "control"
        /\ UNCHANGED <<phase, left, retry, resend, pause, idle, history>>
  /\ UNCHANGED <<successes, recv, errors>>

Later(a, b) == IF a > b THEN a ELSE b

\* Mutant of Confirmed: one round trip more.
ConfirmedLate == successes >= DATAPLANE_REQUIRED_SUCCESSES

\* This round trip is the last one that is wanted.
Confirmed == successes + 1 >= DATAPLANE_REQUIRED_SUCCESSES

\* A data packet is a round trip, whichever probe it answers.  The next probe
\* is sent at once; its repetition keeps a distance from the one before.
ReadsDataplane(kind) ==
  /\ At("dataplane")
  /\ \/ /\ kind = "data" /\ Confirmed
        /\ successes' = successes + 1
        /\ Runs
     \/ /\ kind = "data" /\ ~Confirmed
        /\ successes' = successes + 1
        /\ resend' = Later(resend + Gap, Resend)
        /\ silence' = 0 /\ probes' = 1
        /\ UNCHANGED <<phase, left, retry, pause, idle>>
     \/ /\ kind # "data"
        /\ UNCHANGED <<phase, validationVars, pause, idle, history>>
  /\ UNCHANGED <<recv, errors>>

Elapsed == Deadline - left

\* Mutant of RetryDue: only the first delay is used.
RetryDueOnce == retry = 0 /\ Elapsed >= Retry1

\* The next of VERIFY_RETRY_DELAYS has passed.
RetryDue == \/ retry = 0 /\ Elapsed >= Retry1
            \/ retry = 1 /\ Elapsed >= Retry2

\* The initial handshake is sent again.
Retransmits ==
  /\ At("handshake") /\ RetryDue
  /\ retry' = retry + 1
  /\ UNCHANGED <<dataCheck, phase, why, left, successes, resend, runVars, socket,
                 history>>

\* A probe without an answer is sent again.
Resends ==
  /\ At("dataplane") /\ left > 0 /\ resend = 0
  /\ probes' = probes + 1
  /\ resend' = Resend
  /\ UNCHANGED <<dataCheck, phase, why, left, retry, successes, runVars, socket,
                 silence>>

\* Mutant of Expires: the second loop does not look at the deadline.
ExpiresHandshake == At("handshake") /\ left = 0 /\ Ends("unanswered")

\* The deadline passes.
Expires ==
  \/ At("handshake") /\ left = 0 /\ Ends("unanswered")
  \/ At("dataplane") /\ left = 0 /\ Ends("dataless")

-----------------------------------------------------------------------------
(* The run.                                                                *)

\* Mutant of Heard: a packet that does not decrypt counts.
HeardAnything(kind) == TRUE

\* What sets last_valid_rx.
Heard(kind) == kind # "junk"

\* The recv task takes a packet.  inbound_tx may be full: then the task waits
\* for the stack before it reads again.
ReadsRun(kind) ==
  /\ At("run") /\ recv = "ready"
  /\ errors' = 0
  /\ idle' = IF Heard(kind) THEN 0 ELSE idle
  /\ silence' = IF kind = "junk" THEN silence ELSE 0
  /\ probes' = IF kind = "junk" THEN probes ELSE 0
  /\ recv' \in IF kind = "data" THEN {"ready", "held"} ELSE {"ready"}
  /\ UNCHANGED <<phase, validationVars, pause>>

\* A transient error, such as an unreachable port, is waited out; one too many
\* in a row ends the recv task and with it the tunnel.
RecvError ==
  /\ At("run") /\ recv = "ready"
  /\ errors' = errors + 1
  /\ why' = IF errors' > MaxErrors THEN "recv" ELSE why
  /\ UNCHANGED <<dataCheck, phase, validationVars, pause, recv, idle, socket,
                 history>>

\* The stack makes room in inbound_tx.
StackTakes ==
  /\ At("run") /\ recv = "held"
  /\ recv' = "ready"
  /\ UNCHANGED <<dataCheck, phase, why, validationVars, pause, errors, idle, socket,
                 history>>

\* Nothing valid for wg_stale_timeout.
FoundStale == idle >= Stale

\* Mutant of Checks: it looks and does not ask.
ChecksOnly ==
  /\ At("run") /\ pause = 0
  /\ \/ FoundStale /\ Ends("stale")
     \/ /\ ~FoundStale
        /\ pause' \in MinPause .. MaxPause
        /\ UNCHANGED <<dataCheck, phase, why, validationVars, recv, errors, idle, socket,
                       history>>

\* The health task ends the tunnel or sends a probe, and sleeps again.
Checks ==
  /\ At("run") /\ pause = 0
  /\ \/ FoundStale /\ Ends("stale")
     \/ /\ ~FoundStale
        /\ probes' = probes + 1
        /\ pause' \in MinPause .. MaxPause
        /\ UNCHANGED <<dataCheck, phase, why, validationVars, recv, errors, idle, socket,
                       silence>>

-----------------------------------------------------------------------------
\* A packet comes in; the socket drops what it has no room for.
Arrives ==
  /\ why = "no" /\ socket < SockCap
  /\ socket' = socket + 1
  /\ UNCHANGED <<dataCheck, phase, why, validationVars, runVars, history>>

\* One is read, by the loop of the phase.
Reads ==
  /\ socket > 0
  /\ \E kind \in Kind : ReadsHandshake(kind) \/ ReadsDataplane(kind) \/ ReadsRun(kind)
  /\ socket' = socket - 1
  /\ UNCHANGED <<dataCheck, why>>

\* Any socket error ends the validation; in the run it is one that is not
\* transient, or the channel of the send task is closed.
Breaks == why = "no" /\ Ends("broken")

\* The next Tick has to wait.
Due ==
  \/ socket > 0 /\ recv = "ready"
  \/ phase = "handshake" /\ (left = 0 \/ RetryDue)
  \/ phase = "dataplane" /\ (left = 0 \/ resend = 0)
  \/ phase = "run" /\ pause = 0

Tick ==
  /\ why = "no" /\ ~Due
  /\ left' = IF phase = "run" THEN left ELSE left - 1
  /\ resend' = IF phase = "dataplane" THEN resend - 1 ELSE resend
  /\ pause' = IF phase = "run" THEN pause - 1 ELSE pause
  /\ idle' = IF phase = "run" THEN idle + 1 ELSE idle
  /\ silence' = IF phase = "handshake" THEN silence ELSE silence + 1
  /\ UNCHANGED <<dataCheck, phase, why, retry, successes, recv, errors, socket, probes>>

\* What the tasks do by themselves.
Progress == Retransmits \/ Resends \/ Expires \/ Checks \/ Reads \/ Tick

Next == Progress \/ Arrives \/ RecvError \/ StackTakes \/ Breaks

Spec == Init /\ [][Next]_vars

\* The runtime runs its tasks and time passes.  Nothing is assumed of the peer,
\* the network or the stack.
FairSpec == Spec /\ WF_vars(Progress)

-----------------------------------------------------------------------------
\* The type invariant; every timer is within what it times.
TypeOK ==
  /\ dataCheck \in BOOLEAN
  /\ phase \in {"handshake", "dataplane", "run"}
  /\ why \in {"no", "unanswered", "dataless", "stale", "recv", "broken"}
  /\ left \in 0 .. Deadline /\ retry \in 0 .. 2
  /\ successes \in 0 .. DATAPLANE_REQUIRED_SUCCESSES
  /\ resend \in 0 .. Resend + Gap /\ pause \in 0 .. MaxPause
  /\ recv \in {"ready", "held"} /\ errors \in 0 .. MaxErrors + 1
  /\ socket \in 0 .. SockCap /\ idle \in Nat
  /\ silence \in Nat /\ probes \in Nat

\* wireguard.rs, "endpoint_verification_retransmits_a_lost_initial_handshake":
\* a gateway is given up for want of a handshake only after every
\* retransmission that the deadline leaves time for.
HandshakeRetried ==
  why = "unanswered" => /\ Retry1 < Deadline => retry >= 1
                        /\ Retry2 < Deadline => retry = 2

\* Silence is never for want of asking.  While round trips are awaited, and
\* while the tunnel runs, whatever stalls, errors and junk packets come in
\* between, the probes sent since the last valid packet are as many as the
\* silence is long: with the code's 10 seconds and 3.5, a tunnel that is given
\* up as stale has left at least two probes unanswered.
Probed ==
  /\ phase = "dataplane" => silence <= probes * (Resend + Gap)
  /\ phase = "run" => silence <= (probes + 1) * MaxPause

\* Koku-v0.3.0.md: "stale-tunnel detection so a silent tunnel triggers the
\* Android reconnect supervisor".  A tunnel runs less than the time-out and one
\* pause without a packet that decrypts, whatever else comes in, and also while
\* its recv task waits for the stack.
SilentLeft == At("run") => silence < Stale + MaxPause

\* A peer that has gone is left: a gateway from which nothing comes any more
\* does not hold the supervisor, in whatever phase it falls silent.
SilentEnds == []<><<Arrives>>_vars \/ <>(why # "no")
=============================================================================
