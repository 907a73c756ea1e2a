-------------------------- MODULE ExitGuardProofs --------------------------
(***************************************************************************)
(* The exit checks of ExitGuard, proved for every length of the sleeps and *)
(* of the lookup's timeout.  The invariant adds up a history and a timer:  *)
(* while a lookup that has read a good exit is under way, the time since   *)
(* the exit was good and the time the lookup has left are together at most *)
(* Timeout; over the guard's sleep and over its next lookup the sum grows  *)
(* by what each of them may take.                                          *)
(***************************************************************************)
EXTENDS ExitGuard, TLAPS

\* An exit that is good now was last good now.
GoodInv == (Good => age = 0) /\ (WarpGood => warpAge = 0)

\* What run_android's timer says of the age of the final exit.
AppInv ==
  noIr =>
    /\ app = "bridge" =>
         appTimer <= Interval /\ age + appTimer <= Timeout + Interval
    /\ app = "recheck" => age + appTimer <= Interval + 2 * Timeout
    /\ app \in {"verify", "recheck"} =>
         /\ appTimer <= Timeout
         /\ appSaw = "other" => age + appTimer <= Timeout

\* What the core's timer says of the age of the exit it is settling.
CoreInv ==
  core = "settle" =>
    /\ Policed
    /\ coreTimer <= Timeout
    /\ coreSaw \in {"other", "none"} => warpAge + coreTimer <= Timeout

\* The inductive invariant.
IInv == TypeOK /\ GoodInv /\ AppInv /\ CoreInv

USE DEF config, appVars, coreVars, netVars, ghostVars

\* MaxAge is a number beyond every deadline.
LEMMA MaxAgeType ==
  /\ MaxAge \in Nat
  /\ MaxAge > Interval + 2 * Timeout
  BY TimesAssumption DEF MaxAge

-----------------------------------------------------------------------------
(* Types and histories.                                                    *)

\* The histories stay in range.
LEMMA AgeTypes ==
  ASSUME TypeOK, Next
  PROVE  age' \in 0 .. MaxAge /\ warpAge' \in 0 .. MaxAge
  <1>1. CASE Tick
    BY <1>1, MaxAgeType DEF Tick, Older, TypeOK
  <1>2. CASE Aged
    BY <1>2, MaxAgeType DEF Aged, TypeOK
  <1> QED
    BY <1>1, <1>2 DEF Next

\* A history is zero whenever what it remembers holds.
LEMMA GoodStep ==
  ASSUME IInv, Next
  PROVE  GoodInv'
  <1>1. CASE Tick
    BY <1>1 DEF Tick, GoodInv, Good, WarpGood, Reachable, Listening, FinalLoc
  <1>2. CASE Aged
    BY <1>2 DEF Aged, GoodInv
  <1> QED
    BY <1>1, <1>2 DEF Next

\* Every step of the app, the core, the network and the clock keeps the types.
LEMMA TypeStep ==
  ASSUME TypeOK, Next
  PROVE  TypeOK'
  <1> USE TimesAssumption DEF TypeOK
  <1>a. age' \in 0 .. MaxAge /\ warpAge' \in 0 .. MaxAge
    BY AgeTypes
  <1>1. CASE Tick
    BY <1>1, <1>a DEF Tick, AppTimed, CoreTimed, Policed
  <1>2. CASE App
    BY <1>2, <1>a DEF App, ProxyReady, AppReads, AppAnswers, AppLookupFails,
                      GuardWakes, SessionEnds, FinalLoc, Loc, Unread
  <1>3. CASE Core
    BY <1>3, <1>a DEF Core, Dialed, CoreReads, Settled, SettleFails, WatchWakes,
                      Watched, WatchFails, TunnelEnds, Redial, Loc, Unread
  <1>4. CASE Network
    BY <1>4, <1>a DEF Network, ChainReady, ChainEnds, ExitMoves
  <1> QED
    BY <1>1, <1>2, <1>3, <1>4 DEF Next

-----------------------------------------------------------------------------
(* The timers.                                                             *)

\* A step that takes no time makes no history older but that of a new tunnel.
LEMMA AgedNoOlder ==
  ASSUME TypeOK, Aged
  PROVE  /\ \E n \in Nat : age' = n /\ n <= age
         /\ \E n \in Nat : warpAge' = n /\ (core' # "dial" => n <= warpAge)
  <1>1. age \in Nat /\ warpAge \in Nat
    BY MaxAgeType DEF TypeOK
  <1>2. age' \in {0, age} /\ warpAge' \in {0, MaxAge, warpAge}
    BY DEF Aged
  <1>3. core' # "dial" => warpAge' \in {0, warpAge}
    BY DEF Aged
  <1> QED
    BY <1>1, <1>2, <1>3, MaxAgeType

\* run_android's timers keep their relation to the age of the final exit.
LEMMA AppStep ==
  ASSUME IInv, Next
  PROVE  AppInv'
  <1> USE TimesAssumption DEF IInv
  <1>t. TypeOK
    OBVIOUS
  <1>n. appTimer \in Nat /\ age \in Nat /\ appSaw \in Loc \cup {Unread}
    BY <1>t, MaxAgeType DEF TypeOK
  <1>1. CASE Tick
    BY <1>1, <1>n, MaxAgeType DEF Tick, AppTimed, AppInv, Older
  <1>2. CASE Aged
    <2>1. PICK n \in Nat : age' = n /\ n <= age
      BY <1>2, <1>t, AgedNoOlder
    <2>2. CASE AppReads
      <3>1. appSaw' = "other" => Good'
        BY <2>2 DEF AppReads, Good, Reachable, Listening, FinalLoc
      <3>2. appSaw' = "other" => n = 0
        BY <3>1, <1>2, <2>1 DEF Aged
      <3> QED
        BY <1>n, <2>1, <2>2, <3>2 DEF AppReads, AppInv
    <2>3. CASE AppAnswers
      <3>1. app' = "bridge" => appSaw = "other"
        BY <2>3, <1>n DEF AppAnswers, FinalAccepts, Loc
      <3>2. app' \in {"bridge", "ended"}
        BY <2>3 DEF AppAnswers
      <3>3. app' = "bridge" => appTimer' = Interval
        BY <2>3 DEF AppAnswers
      <3>4. noIr' /\ app' = "bridge" => n <= Timeout
        BY <1>n, <2>1, <2>3, <3>1 DEF AppAnswers, AppInv
      <3> QED
        BY <2>1, <3>2, <3>3, <3>4 DEF AppInv
    <2>4. CASE AppLookupFails \/ SessionEnds
      BY <2>4 DEF AppLookupFails, SessionEnds, AppInv
    <2>5. CASE ProxyReady
      <3>1. CASE noIr
        BY <2>5, <3>1 DEF ProxyReady, AppInv, Unread
      <3>2. CASE ~noIr
        BY <2>5, <3>2 DEF ProxyReady, AppInv
      <3> QED
        BY <3>1, <3>2
    <2>6. CASE GuardWakes
      BY <1>n, <2>1, <2>6 DEF GuardWakes, AppInv, Unread
    <2>7. CASE Core \/ Network
      <3>1. UNCHANGED <<noIr, app, appTimer, appSaw>>
        BY <2>7 DEF Core, Dialed, CoreReads, Settled, SettleFails, WatchWakes,
                    Watched, WatchFails, TunnelEnds, Redial,
                    Network, ChainReady, ChainEnds, ExitMoves
      <3> QED
        BY <1>n, <2>1, <3>1 DEF AppInv
    <2>8. CASE Tick
      BY <2>8, <1>1
    <2> QED
      BY <2>2, <2>3, <2>4, <2>5, <2>6, <2>7, <2>8 DEF Next, App
  <1> QED
    BY <1>1, <1>2 DEF Next

\* So do the core's, while it settles a tunnel.
LEMMA CoreStep ==
  ASSUME IInv, Next
  PROVE  CoreInv'
  <1> USE TimesAssumption DEF IInv
  <1>t. TypeOK
    OBVIOUS
  <1>n. coreTimer \in Nat /\ warpAge \in Nat
    BY <1>t, MaxAgeType DEF TypeOK
  <1>1. CASE Tick
    BY <1>1, <1>n, MaxAgeType DEF Tick, CoreTimed, CoreInv, Older, Policed
  <1>2. CASE Aged
    <2>1. PICK n \in Nat : warpAge' = n /\ (core' # "dial" => n <= warpAge)
      BY <1>2, <1>t, AgedNoOlder
    <2>2. CASE CoreReads
      <3>1. coreSaw' \in {"other", "none"} /\ core' = "settle" => WarpGood'
        BY <2>2 DEF CoreReads, WarpGood
      <3>2. coreSaw' \in {"other", "none"} /\ core' = "settle" => n = 0
        BY <3>1, <1>2, <2>1 DEF Aged
      <3> QED
        BY <1>n, <2>1, <2>2, <3>2 DEF CoreReads, CoreInv, Policed
    <2>3. CASE Core /\ ~CoreReads
      BY <1>n, <2>3 DEF Core, Dialed, Settled, SettleFails, WatchWakes, Watched,
                        WatchFails, TunnelEnds, Redial, CoreInv, Policed, Unread
    <2>4. CASE App \/ Network
      <3>1. UNCHANGED <<noIr, carrier, core, coreTimer, coreSaw>>
        BY <2>4 DEF App, ProxyReady, AppReads, AppAnswers, AppLookupFails,
                    GuardWakes, SessionEnds, Network, ChainReady, ChainEnds,
                    ExitMoves
      <3> QED
        BY <1>n, <2>1, <3>1 DEF CoreInv, Policed
    <2>5. CASE Tick
      BY <2>5, <1>1
    <2> QED
      BY <2>2, <2>3, <2>4, <2>5 DEF Next
  <1> QED
    BY <1>1, <1>2 DEF Next

-----------------------------------------------------------------------------
(* The theorems.                                                           *)

\* The inductive invariant holds of every behaviour.
THEOREM Invariance == Spec => []IInv
  <1>1. Init => IInv
    BY TimesAssumption, MaxAgeType
    DEF Init, IInv, TypeOK, GoodInv, AppInv, CoreInv, Good, WarpGood, Reachable,
        Listening, Unread, Loc, Transport, Carrier
  <1>2. IInv /\ [Next]_vars => IInv'
    <2> SUFFICES ASSUME IInv, [Next]_vars PROVE IInv'
      OBVIOUS
    <2>1. CASE Next
      BY <2>1, TypeStep, GoodStep, AppStep, CoreStep DEF IInv
    <2>2. CASE UNCHANGED vars
      BY <2>2 DEF vars, IInv, TypeOK, GoodInv, AppInv, CoreInv, Good, WarpGood,
                  Reachable, Listening, FinalLoc, Policed
    <2> QED
      BY <2>1, <2>2
  <1> QED
    BY <1>1, <1>2, PTL DEF Spec

\* The session's state keeps its types, and every timer is within what it times.
THEOREM TypeCorrect == Spec => []TypeOK
  <1>1. IInv => TypeOK
    BY DEF IInv
  <1> QED
    BY <1>1, Invariance, PTL

\* Packets are forwarded only while the final exit was good at most one sleep
\* and two lookups ago, for every Interval, Timeout and CoreInterval.
THEOREM ExitFailsClosed == Spec => []FailsClosed
  <1>1. IInv => FailsClosed
    BY TimesAssumption DEF IInv, TypeOK, AppInv, FailsClosed, Forwarding
  <1> QED
    BY <1>1, Invariance, PTL

\* The bridge starts only if the final exit was good within one lookup.
THEOREM BridgeIsProbed == Spec => ProbedBeforeBridge
  <1>1. IInv /\ [Next]_vars =>
          [noIr /\ ~Forwarding /\ Forwarding' => age <= Timeout]_vars
    <2> SUFFICES ASSUME IInv, Next, noIr, ~Forwarding, Forwarding'
                 PROVE  age <= Timeout
      BY DEF vars, Forwarding
    <2>1. app \notin {"bridge", "recheck"} /\ app' \in {"bridge", "recheck"}
      BY DEF Forwarding
    <2>2. AppAnswers
      BY <2>1 DEF Next, Tick, App, ProxyReady, AppReads, AppLookupFails,
                  GuardWakes, SessionEnds, Core, Dialed, CoreReads, Settled,
                  SettleFails, WatchWakes, Watched, WatchFails, TunnelEnds,
                  Redial, Network, ChainReady, ChainEnds, ExitMoves
    <2>3. app = "verify" /\ appSaw = "other"
      BY <2>1, <2>2 DEF AppAnswers, FinalAccepts, IInv, TypeOK, Loc
    <2> QED
      BY <2>3, TimesAssumption DEF IInv, TypeOK, AppInv
  <1> QED
    BY <1>1, Invariance, PTL DEF Spec, ProbedBeforeBridge

\* The core's listener opens only if its exit was not Iranian within one
\* lookup of the tunnel it is opened for.
THEOREM ListenerIsPoliced == Spec => ListenerAfterPolicy
  <1>1. IInv /\ [Next]_vars =>
          [Policed /\ ~Listening /\ Listening' => warpAge <= Timeout]_vars
    <2> SUFFICES ASSUME IInv, Next, Policed, ~Listening, Listening'
                 PROVE  warpAge <= Timeout
      BY DEF vars, Listening
    <2>1. core \notin {"serve", "check"} /\ core' \in {"serve", "check"}
      BY DEF Listening
    <2>2. Settled
      BY <2>1 DEF Next, Tick, App, ProxyReady, AppReads, AppAnswers,
                  AppLookupFails, GuardWakes, SessionEnds, Core, Dialed,
                  CoreReads, SettleFails, WatchWakes, Watched, WatchFails,
                  TunnelEnds, Redial, Network, ChainReady, ChainEnds, ExitMoves
    <2>3. core = "settle" /\ coreSaw \in {"other", "none"}
      BY <2>1, <2>2 DEF Settled, Accepts, IInv, TypeOK, Loc, Unread
    <2> QED
      BY <2>3, TimesAssumption DEF IInv, TypeOK, CoreInv
  <1> QED
    BY <1>1, Invariance, PTL DEF Spec, ListenerAfterPolicy
=============================================================================
