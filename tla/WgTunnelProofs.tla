--------------------------- MODULE WgTunnelProofs ---------------------------
(***************************************************************************)
(* WgTunnel for every choice of its times: the type invariant, that every  *)
(* retransmission is made before a gateway is given up, that silence is    *)
(* always asked about, and that a silent tunnel is left in time.           *)
(***************************************************************************)
EXTENDS WgTunnel, TLAPS

USE DEF validationVars, runVars, history, DATAPLANE_REQUIRED_SUCCESSES

\* Where the validation stands: the retransmissions that were due are made,
\* the repetition of a probe is put off once, and the counts are in bounds.
Validation ==
  /\ phase = "handshake" => /\ successes = 0
                            /\ retry = 0 => Elapsed <= Retry1
                            /\ retry = 1 => Elapsed <= Retry2
  /\ phase = "dataplane" => /\ successes \in {0, 1}
                            /\ successes = 0 => resend <= Resend
  /\ why = "unanswered" => phase = "handshake" /\ left = 0
  /\ why = "no" => errors <= MaxErrors

\* The silence, together with the time until somebody asks again.
Asked ==
  /\ phase = "dataplane" => silence + resend <= probes * (Resend + Gap)
  /\ phase = "run" => silence + pause <= (probes + 1) * MaxPause

\* The health task sees the silence as long as it is, and in time.
Watched ==
  /\ phase = "run" => idle = silence
  /\ At("run") => silence + pause < Stale + MaxPause

IInv == TypeOK /\ Validation /\ Asked /\ Watched

-----------------------------------------------------------------------------
\* The invariant holds at the start and implies the properties.
LEMMA IInvInit == Init => IInv
BY WgAssumption
DEF Init, IInv, TypeOK, Validation, Asked, Watched, Elapsed, At

LEMMA IInvSafe == IInv => HandshakeRetried /\ Probed /\ SilentLeft
<1> SUFFICES ASSUME IInv PROVE HandshakeRetried /\ Probed /\ SilentLeft
    OBVIOUS
<1>1. HandshakeRetried
      BY WgAssumption DEF IInv, TypeOK, Validation, HandshakeRetried, Elapsed
<1>2. Probed
  <2>1. ASSUME phase = "dataplane" PROVE silence <= probes * (Resend + Gap)
    <3>1. probes * (Resend + Gap) \in Nat
          BY WgAssumption DEF IInv, TypeOK
    <3> QED BY <2>1, <3>1 DEF IInv, TypeOK, Asked
  <2>2. ASSUME phase = "run" PROVE silence <= (probes + 1) * MaxPause
    <3>1. (probes + 1) * MaxPause \in Nat
          BY WgAssumption DEF IInv, TypeOK
    <3> QED BY <2>2, <3>1 DEF IInv, TypeOK, Asked
  <2> QED BY <2>1, <2>2 DEF Probed
<1>3. SilentLeft
      BY WgAssumption DEF IInv, TypeOK, Watched, SilentLeft, At
<1> QED BY <1>1, <1>2, <1>3

\* What is left of a sleep or a wait, added to a silence.
LEMMA SumsBelow ==
  ASSUME NEW s \in Nat, NEW a \in Nat, a < s, NEW m \in Nat, NEW b \in 0 .. m
  PROVE  a + b < s + m
OBVIOUS

LEMMA Sums ==
  ASSUME NEW a, NEW m \in Nat, NEW b \in 0 .. m, a = 0
  PROVE  a + b <= m /\ a + b \in Nat
OBVIOUS

\* One probe more covers one interval more.
LEMMA OneMore ==
  ASSUME NEW n \in Nat, NEW w \in Nat
  PROVE  /\ (n + 1) * w = n * w + w
         /\ n * w \in Nat /\ 1 * w = w /\ (0 + 1) * w = w
OBVIOUS

-----------------------------------------------------------------------------
(* Every action keeps the invariant.                                       *)

\* What Ends leaves alone is most of the state.
LEMMA EndsKeep ==
  ASSUME IInv, NEW r \in {"dataless", "stale", "broken"}, Ends(r)
  PROVE  IInv'
<1>1. TypeOK' BY DEF Ends, IInv, TypeOK
<1>2. Validation' BY DEF Ends, IInv, Validation, Elapsed
<1>3. Asked' BY DEF Ends, IInv, Asked
<1>4. Watched' BY DEF Ends, IInv, Watched, At
<1> QED BY <1>1, <1>2, <1>3, <1>4 DEF IInv

\* The run begins with nothing owed.
LEMMA RunsKeep ==
  ASSUME IInv, Runs, why' = why, why = "no", dataCheck' = dataCheck,
         successes' \in 0 .. DATAPLANE_REQUIRED_SUCCESSES,
         recv' = recv, errors' = errors, socket' \in 0 .. SockCap
  PROVE  IInv'
<1>1. TypeOK' BY WgAssumption DEF Runs, IInv, TypeOK
<1>2. Validation' BY DEF Runs, IInv, Validation
<1>3. /\ silence' = 0 /\ probes' = 0 /\ idle' = 0
      /\ pause' \in 0 .. MaxPause /\ phase' = "run"
      BY WgAssumption DEF Runs
<1>4. /\ silence' + pause' <= (probes' + 1) * MaxPause
      /\ silence' + pause' < Stale + MaxPause
  <2>0. MaxPause \in Nat /\ Stale \in Nat /\ Stale > 0 BY WgAssumption
  <2>1. silence' + pause' <= MaxPause /\ silence' + pause' \in Nat
        BY <1>3, <2>0, Sums, Zenon
  <2>2. (probes' + 1) * MaxPause = MaxPause BY <1>3, WgAssumption
  <2> QED BY <2>0, <2>1, <2>2
<1>5. Asked' /\ Watched' BY <1>3, <1>4 DEF Asked, Watched, At
<1> QED BY <1>1, <1>2, <1>5 DEF IInv

\* What Reads leaves alone.
Read(kind) == socket > 0 /\ socket' = socket - 1 /\ dataCheck' = dataCheck /\ why' = why

LEMMA HandshakeKeeps ==
  ASSUME IInv, NEW kind \in Kind, ReadsHandshake(kind), Read(kind)
  PROVE  IInv'
<1> USE DEF Read, At
<1>0. phase = "handshake" /\ why = "no" /\ successes' = successes /\ successes = 0
      BY DEF ReadsHandshake, IInv, Validation
<1>1. CASE kind = "control" /\ dataCheck
  <2> USE <1>0, <1>1
  <2>1. TypeOK' BY WgAssumption DEF ReadsHandshake, Runs, IInv, TypeOK
  <2>2. Validation' BY WgAssumption DEF ReadsHandshake, IInv, Validation
  <2>3. Asked'
    <3>1. /\ phase' = "dataplane" /\ silence' = 0
          /\ resend' = Resend /\ probes' = 1
          BY DEF ReadsHandshake
    <3> QED BY <3>1, OneMore, WgAssumption DEF Asked
  <2>4. Watched' BY DEF ReadsHandshake, Watched
  <2> QED BY <2>1, <2>2, <2>3, <2>4 DEF IInv
<1>2. CASE kind = "control" /\ ~dataCheck
  <2>1. Runs /\ recv' = recv /\ errors' = errors BY <1>2 DEF ReadsHandshake
  <2>2. socket' \in 0 .. SockCap BY WgAssumption DEF IInv, TypeOK
  <2> QED BY <2>1, <2>2, <1>0, RunsKeep
<1>3. CASE kind # "control"
  <2> USE <1>0, <1>3
  <2>1. TypeOK' BY WgAssumption DEF ReadsHandshake, IInv, TypeOK
  <2>2. Validation' BY DEF ReadsHandshake, IInv, Validation, Elapsed
  <2>3. Asked' BY DEF ReadsHandshake, IInv, Asked
  <2>4. Watched' BY DEF ReadsHandshake, IInv, Watched
  <2> QED BY <2>1, <2>2, <2>3, <2>4 DEF IInv
<1> QED BY <1>1, <1>2, <1>3

LEMMA DataplaneKeeps ==
  ASSUME IInv, NEW kind \in Kind, ReadsDataplane(kind), Read(kind)
  PROVE  IInv'
<1> USE DEF Read, At
<1>0. phase = "dataplane" /\ why = "no" /\ successes \in {0, 1}
      BY DEF ReadsDataplane, IInv, Validation
<1>1. CASE kind = "data" /\ Confirmed
  <2>1. Runs /\ recv' = recv /\ errors' = errors /\ successes' = successes + 1
        BY <1>1 DEF ReadsDataplane
  <2>2. socket' \in 0 .. SockCap BY WgAssumption DEF IInv, TypeOK
  <2> QED BY <2>1, <2>2, <1>0, RunsKeep
<1>2. CASE kind = "data" /\ ~Confirmed
  <2> USE <1>0, <1>2
  <2>1. successes = 0 /\ resend \in 0 .. Resend /\ resend' \in 0 .. Resend + Gap
        BY WgAssumption DEF ReadsDataplane, IInv, Validation, TypeOK, Confirmed, Later
  <2>2. TypeOK' BY <2>1, WgAssumption DEF ReadsDataplane, IInv, TypeOK
  <2>3. Validation' BY <2>1 DEF ReadsDataplane, IInv, Validation
  <2>4. Asked'
    <3>1. phase' = "dataplane" /\ silence' = 0 /\ probes' = 1
          BY DEF ReadsDataplane
    <3>0. Resend + Gap \in Nat BY WgAssumption
    <3>2. silence' + resend' <= Resend + Gap BY <2>1, <3>0, <3>1, Sums, Zenon
    <3>3. probes' * (Resend + Gap) = Resend + Gap BY <3>1, WgAssumption
    <3> QED BY <3>1, <3>2, <3>3 DEF Asked
  <2>5. Watched' BY DEF ReadsDataplane, Watched
  <2> QED BY <2>2, <2>3, <2>4, <2>5 DEF IInv
<1>3. CASE kind # "data"
  <2> USE <1>0, <1>3
  <2>1. TypeOK' BY WgAssumption DEF ReadsDataplane, IInv, TypeOK
  <2>2. Validation' BY DEF ReadsDataplane, IInv, Validation, Elapsed
  <2>3. Asked' BY DEF ReadsDataplane, IInv, Asked
  <2>4. Watched' BY DEF ReadsDataplane, IInv, Watched
  <2> QED BY <2>1, <2>2, <2>3, <2>4 DEF IInv
<1> QED BY <1>1, <1>2, <1>3

LEMMA RunKeeps ==
  ASSUME IInv, NEW kind \in Kind, ReadsRun(kind), Read(kind)
  PROVE  IInv'
<1> USE DEF Read, At
<1>0. phase = "run" /\ why = "no" /\ phase' = "run" /\ why' = "no" /\ pause' = pause
      BY DEF ReadsRun
<1>1. TypeOK' BY WgAssumption DEF ReadsRun, IInv, TypeOK, Heard
<1>2. Validation' BY <1>0, WgAssumption DEF ReadsRun, Validation
<1>3. CASE kind = "junk"
  <2>1. Asked' BY <1>0, <1>3 DEF ReadsRun, IInv, Asked
  <2>2. Watched' BY <1>0, <1>3 DEF ReadsRun, IInv, Watched, Heard
  <2> QED BY <1>1, <1>2, <2>1, <2>2 DEF IInv
<1>4. CASE kind # "junk"
  <2>1. silence' = 0 /\ probes' = 0 /\ idle' = 0 /\ pause \in 0 .. MaxPause
        BY <1>4 DEF ReadsRun, Heard, IInv, TypeOK
  <2>2. Asked' BY <2>1, <1>0, OneMore, WgAssumption DEF Asked
  <2>3. Watched' BY <2>1, <1>0, WgAssumption DEF Watched
  <2> QED BY <1>1, <1>2, <2>2, <2>3 DEF IInv
<1> QED BY <1>3, <1>4

LEMMA ChecksKeep == ASSUME IInv, Checks PROVE IInv'
<1>1. CASE FoundStale /\ Ends("stale") BY <1>1, EndsKeep
<1>2. CASE ~(FoundStale /\ Ends("stale"))
  <2>0. /\ phase = "run" /\ why = "no" /\ pause = 0 /\ ~FoundStale
        /\ phase' = phase /\ why' = why /\ probes' = probes + 1
        /\ silence' = silence /\ idle' = idle /\ pause' \in MinPause .. MaxPause
        BY <1>2 DEF Checks, At
  <2>1. TypeOK' BY <1>2, WgAssumption DEF Checks, IInv, TypeOK
  <2>2. Validation' BY <1>2, <2>0 DEF Checks, IInv, Validation
  <2>3. Asked'
    <3>1. /\ silence <= (probes + 1) * MaxPause /\ silence \in Nat
          /\ probes + 1 \in Nat /\ MaxPause \in Nat
          BY <2>0, WgAssumption DEF IInv, Asked, TypeOK
    <3>2. ((probes + 1) + 1) * MaxPause = (probes + 1) * MaxPause + MaxPause
          /\ (probes + 1) * MaxPause \in Nat
          BY <3>1, OneMore
    <3> QED BY <3>1, <3>2, <2>0, WgAssumption DEF Asked
  <2>4. Watched'
    <3>1. silence < Stale /\ silence \in Nat /\ idle = silence
          BY <2>0, WgAssumption DEF IInv, Watched, FoundStale, TypeOK
    <3>2. silence' \in Nat /\ silence' < Stale /\ pause' \in 0 .. MaxPause
          BY <3>1, <2>0, WgAssumption
    <3>3. Stale \in Nat /\ MaxPause \in Nat BY WgAssumption
    <3>4. silence' + pause' < Stale + MaxPause BY <3>2, <3>3, SumsBelow, Zenon
    <3> QED BY <3>1, <3>4, <2>0 DEF Watched, At
  <2> QED BY <2>1, <2>2, <2>3, <2>4 DEF IInv
<1> QED BY <1>1, <1>2

LEMMA ResendsKeep == ASSUME IInv, Resends PROVE IInv'
<1>0. /\ phase = "dataplane" /\ phase' = phase /\ why' = why /\ resend = 0
      /\ resend' = Resend /\ probes' = probes + 1 /\ silence' = silence
      BY DEF Resends, At
<1>1. TypeOK' BY WgAssumption DEF Resends, IInv, TypeOK
<1>2. Validation' BY <1>0, WgAssumption DEF Resends, IInv, Validation
<1>3. Asked'
  <2>1. /\ silence <= probes * (Resend + Gap) /\ silence \in Nat
        /\ probes \in Nat /\ Resend + Gap \in Nat
        BY <1>0, WgAssumption DEF IInv, Asked, TypeOK
  <2>2. (probes + 1) * (Resend + Gap) = probes * (Resend + Gap) + (Resend + Gap)
        /\ probes * (Resend + Gap) \in Nat
        BY <2>1, OneMore
  <2> QED BY <1>0, <2>1, <2>2, WgAssumption DEF Asked
<1>4. Watched' BY <1>0 DEF Watched, At
<1> QED BY <1>1, <1>2, <1>3, <1>4 DEF IInv

LEMMA TickKeeps == ASSUME IInv, Tick PROVE IInv'
<1>1. TypeOK' BY WgAssumption DEF Tick, Due, IInv, TypeOK
<1>2. Validation'
      BY WgAssumption DEF Tick, Due, RetryDue, IInv, TypeOK, Validation, Elapsed
<1>3. Asked'
  <2>1. CASE phase = "dataplane"
    <3>1. probes * (Resend + Gap) \in Nat BY WgAssumption DEF IInv, TypeOK
    <3> QED BY <2>1, <3>1, WgAssumption DEF Tick, Due, IInv, Asked, TypeOK
  <2>2. CASE phase = "run"
    <3>1. (probes + 1) * MaxPause \in Nat BY WgAssumption DEF IInv, TypeOK
    <3> QED BY <2>2, <3>1, WgAssumption DEF Tick, Due, IInv, Asked, TypeOK
  <2>3. CASE phase \notin {"dataplane", "run"} BY <2>3 DEF Tick, Asked
  <2> QED BY <2>1, <2>2, <2>3
<1>4. Watched' BY WgAssumption DEF Tick, Due, IInv, Watched, TypeOK, At
<1> QED BY <1>1, <1>2, <1>3, <1>4 DEF IInv

LEMMA OthersKeep ==
  ASSUME IInv, Retransmits \/ Arrives \/ RecvError \/ StackTakes
  PROVE  IInv'
<1>1. TypeOK'
      BY WgAssumption DEF Retransmits, RetryDue, Arrives, RecvError, StackTakes, IInv,
         TypeOK, Validation, At
<1>2. Validation'
      BY WgAssumption DEF Retransmits, RetryDue, Arrives, RecvError, StackTakes, IInv,
         TypeOK, Validation, Elapsed, At
<1>3. Asked' BY DEF Retransmits, Arrives, RecvError, StackTakes, IInv, Asked
<1>4. Watched' BY DEF Retransmits, Arrives, RecvError, StackTakes, IInv, Watched, At
<1> QED BY <1>1, <1>2, <1>3, <1>4 DEF IInv

LEMMA ExpiresKeep == ASSUME IInv, Expires PROVE IInv'
<1>1. CASE At("handshake") /\ left = 0 /\ Ends("unanswered")
  <2>1. TypeOK' BY <1>1 DEF Ends, IInv, TypeOK
  <2>2. Validation' BY <1>1 DEF Ends, IInv, Validation, Elapsed, At
  <2>3. Asked' BY <1>1 DEF Ends, IInv, Asked
  <2>4. Watched' BY <1>1 DEF Ends, IInv, Watched, At
  <2> QED BY <2>1, <2>2, <2>3, <2>4 DEF IInv
<1>2. CASE Ends("dataless") BY <1>2, EndsKeep
<1> QED BY <1>1, <1>2 DEF Expires

LEMMA Step == IInv /\ [Next]_vars => IInv'
<1> SUFFICES ASSUME IInv, [Next]_vars PROVE IInv'
    OBVIOUS
<1>1. CASE Retransmits \/ Arrives \/ RecvError \/ StackTakes BY <1>1, OthersKeep
<1>2. CASE Resends BY <1>2, ResendsKeep
<1>3. CASE Expires BY <1>3, ExpiresKeep
<1>4. CASE Checks BY <1>4, ChecksKeep
<1>5. CASE Tick BY <1>5, TickKeeps
<1>6. CASE Breaks BY <1>6, EndsKeep DEF Breaks
<1>7. CASE Reads
  <2>1. PICK kind \in Kind :
          ReadsHandshake(kind) \/ ReadsDataplane(kind) \/ ReadsRun(kind)
        BY <1>7 DEF Reads
  <2>2. Read(kind) BY <1>7 DEF Reads, Read
  <2> QED BY <2>1, <2>2, HandshakeKeeps, DataplaneKeeps, RunKeeps
<1>8. CASE UNCHANGED vars
  <2>1. TypeOK' BY <1>8 DEF vars, IInv, TypeOK
  <2>2. Validation' BY <1>8 DEF vars, IInv, Validation, Elapsed
  <2>3. Asked' BY <1>8 DEF vars, IInv, Asked
  <2>4. Watched' BY <1>8 DEF vars, IInv, Watched, At
  <2> QED BY <2>1, <2>2, <2>3, <2>4 DEF IInv
<1> QED
  BY <1>1, <1>2, <1>3, <1>4, <1>5, <1>6, <1>7, <1>8 DEF Next, Progress

\* The inductive invariant, for every Deadline, Stale, pause and retry delay.
THEOREM Invariance == Spec => []IInv
BY IInvInit, Step, PTL DEF Spec

\* Every timer of the tunnel stays within what it times.
THEOREM TypeCorrect == Spec => []TypeOK
<1>1. IInv => TypeOK BY DEF IInv
<1> QED BY <1>1, Invariance, PTL

\* No gateway is given up before the retransmissions that its deadline allows.
THEOREM RetriedFirst == Spec => []HandshakeRetried
BY IInvSafe, Invariance, PTL

\* No silence without probes, whatever the peer, the socket and the stack do.
THEOREM SilenceProbed == Spec => []Probed
BY IInvSafe, Invariance, PTL

\* A tunnel without valid packets is left within Stale + MaxPause.
THEOREM SilentTunnelLeft == Spec => []SilentLeft
BY IInvSafe, Invariance, PTL
=============================================================================
