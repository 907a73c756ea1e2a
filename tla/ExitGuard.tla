----------------------------- MODULE ExitGuard -----------------------------
(***************************************************************************)
(* The exit-country checks of one VPN session (NO-IR Exit).                *)
(*                                                                         *)
(*   - The core (engine/aether) supervises its tunnel: it dials, settles   *)
(*     the exit policy with one lookup, opens its SOCKS listener, and      *)
(*     looks the exit up again every CoreInterval until the tunnel ends;   *)
(*     then it dials again, for ever.                                      *)
(*   - run_android (native/src/lib.rs) waits for the final proxy, looks    *)
(*     its exit up, starts the packet bridge and looks the exit up again   *)
(*     every Interval.  It ends the session when a lookup fails.           *)
(*   - The exit belongs to the network: it moves whenever it likes.        *)
(*                                                                         *)
(* Time passes in Ticks.  A timer counts down, and what is due happens     *)
(* before time goes on.  A lookup reads the exit at one moment and answers *)
(* at a later one, at most Timeout after it began.  The variables age and  *)
(* warpAge are history: how long ago the exit was last as the checks want  *)
(* it.  They are set by the network's steps and by time alone.             *)
(***************************************************************************)
EXTENDS Naturals

CONSTANTS Interval,     \* the 60 seconds of watch_final_proxy
          Timeout,      \* LOOKUP_TIMEOUT
          CoreInterval  \* Policy.interval: AETHER_EXIT_LOC_SECS

ASSUME TimesAssumption == /\ Interval \in Nat \ {0}
                          /\ Timeout \in Nat \ {0}
                          /\ CoreInterval \in Nat \ {0}

\* What a trace says of the exit; "none" when it carries no usable loc line.
Loc == {"IR", "other", "none"}
Unread == "unread"

Carrier == {"warp", "chain", "alone"}

\* The nested tunnels spawn their tunnels as MASQUE does.
Transport == {"masque", "wireguard"}

VARIABLES
  noIr,      \* AndroidConfig.no_ir_exit
  carrier,   \* the final proxy: WARP's, Tor or Psiphon inside it, or alone
  transport, \* which run_*_tunnel the core supervises
  app,       \* where run_android stands
  appTimer,  \* time left of its lookup or of the guard's sleep
  appSaw,    \* what its lookup has read
  core,      \* where the core's supervisor stands
  coreTimer, \* time left of its lookup or of the watch's sleep
  coreSaw,   \* what its lookup has read
  chain,     \* the carrier task of the chain modes
  warpLoc,   \* the country the core's own proxy leaves from
  chainLoc,  \* the country the chained carrier leaves from
  age,       \* time since the final exit was last good and reachable
  warpAge    \* time since this tunnel's exit was last not IR

config    == <<noIr, carrier, transport>>
appVars   == <<app, appTimer, appSaw>>
coreVars  == <<core, coreTimer, coreSaw>>
netVars   == <<chain, warpLoc, chainLoc>>
ghostVars == <<age, warpAge>>
vars == <<config, appVars, coreVars, netVars, ghostVars>>

\* The bound on the two ages: what is older than every deadline is just old.
MaxAge == Interval + CoreInterval + 2 * Timeout + 1

Init ==
  /\ noIr \in BOOLEAN /\ carrier \in Carrier /\ transport \in Transport
  /\ app = "wait" /\ appTimer = 0 /\ appSaw = Unread
  /\ core = "dial" /\ coreTimer = 0 /\ coreSaw = Unread
  /\ chain = "wait" /\ warpLoc \in Loc /\ chainLoc \in Loc
  /\ age = MaxAge /\ warpAge = MaxAge

-----------------------------------------------------------------------------
Running == app # "ended"

\* The bridge hands Android packets to the proxy.
Forwarding == app \in {"bridge", "recheck"}

\* The core's listener is open.
Listening == core \in {"serve", "check"}

\* The final proxy of configure() answers a SOCKS greeting.
ProxyUp == IF carrier = "chain" THEN chain = "up" ELSE Listening

\* A request through the final proxy gets out.
Reachable == Listening /\ (carrier = "chain" => chain = "up")

FinalLoc == IF carrier = "chain" THEN chainLoc ELSE warpLoc

\* The core was given the policy "!IR"; Tor or Psiphon alone has none.
Policed == noIr /\ carrier # "alone"

\* Mutant of FinalAccepts: an answer without a country passes.
FinalAcceptsUnknown(loc) == loc # "IR"

\* run_android and its guard want a country, and not IR.
FinalAccepts(loc) == loc \notin {"IR", "none"}

\* Mutant of Accepts: the deny list is not consulted.
AcceptsAny(loc) == TRUE

\* Mutant of Accepts: an allow list that is not set allows nothing.
AcceptsNone(loc) == FALSE

\* Policy.accepts of "!IR"; settle passes it "" when the trace has no country.
Accepts(loc) == loc # "IR"

\* What the two histories remember: the final exit is there and known not to
\* be Iranian; the core has a tunnel and its exit is not Iranian.
Good == Reachable /\ FinalLoc = "other"
WarpGood == core \in {"settle", "serve", "check"} /\ warpLoc # "IR"

-----------------------------------------------------------------------------
(* run_android.                                                            *)

\* Mutant of ProxyReady: the first lookup is given the guard's interval.
ProxyReadyLong ==
  /\ app = "wait" /\ ProxyUp
  /\ app' = IF noIr THEN "verify" ELSE "bridge"
  /\ appTimer' = IF noIr THEN Interval ELSE 0
  /\ appSaw' = Unread
  /\ UNCHANGED <<config, coreVars, netVars>>

\* The SOCKS greeting is answered.
ProxyReady ==
  /\ app = "wait" /\ ProxyUp
  /\ app' = IF noIr THEN "verify" ELSE "bridge"
  /\ appTimer' = IF noIr THEN Timeout ELSE 0
  /\ appSaw' = Unread
  /\ UNCHANGED <<config, coreVars, netVars>>

\* The lookup's request leaves through the final proxy and meets its exit.
AppReads ==
  /\ app \in {"verify", "recheck"} /\ noIr
  /\ appSaw = Unread /\ Reachable
  /\ appSaw' = FinalLoc
  /\ UNCHANGED <<config, app, appTimer, coreVars, netVars>>

\* It answers: the bridge starts or goes on, or the session ends.
AppAnswers ==
  /\ app \in {"verify", "recheck"} /\ noIr
  /\ appSaw # Unread
  /\ app' = IF FinalAccepts(appSaw) THEN "bridge" ELSE "ended"
  /\ appTimer' = IF FinalAccepts(appSaw) THEN Interval ELSE 0
  /\ appSaw' = Unread
  /\ UNCHANGED <<config, coreVars, netVars>>

\* Mutant of AppLookupFails: a check that does not answer is skipped.
AppLookupSkipped ==
  /\ app \in {"verify", "recheck"} /\ noIr
  /\ app' = IF app = "verify" THEN "ended" ELSE "bridge"
  /\ appTimer' = IF app = "verify" THEN 0 ELSE Interval
  /\ appSaw' = Unread
  /\ UNCHANGED <<config, coreVars, netVars>>

\* It fails or times out: report_through_socks is None.
AppLookupFails ==
  /\ app \in {"verify", "recheck"} /\ noIr
  /\ app' = "ended" /\ appTimer' = 0 /\ appSaw' = Unread
  /\ UNCHANGED <<config, coreVars, netVars>>

\* watch_final_proxy's sleep is over.
GuardWakes ==
  /\ app = "bridge" /\ noIr /\ appTimer = 0
  /\ app' = "recheck" /\ appTimer' = Timeout /\ appSaw' = Unread
  /\ UNCHANGED <<config, coreVars, netVars>>

\* The user stops the session, or the core or the bridge ends it.
SessionEnds ==
  /\ Running
  /\ app' = "ended" /\ appTimer' = 0 /\ appSaw' = Unread
  /\ UNCHANGED <<config, coreVars, netVars>>

App == \/ ProxyReady \/ AppReads \/ AppAnswers \/ AppLookupFails \/ GuardWakes
       \/ SessionEnds

-----------------------------------------------------------------------------
(* The core's supervisor, as long as the session keeps polling it.         *)

\* A tunnel is established and validated; its exit is anywhere.
Dialed ==
  /\ Running /\ core = "dial"
  /\ core' = IF Policed THEN "settle" ELSE "serve"
  /\ coreTimer' = IF Policed THEN Timeout ELSE 0
  /\ coreSaw' = Unread
  /\ warpLoc' \in Loc
  /\ UNCHANGED <<config, appVars, chain, chainLoc>>

\* Somebody carries the packets of the core's stack: establish_masque spawns
\* the tunnel, run_wireguard_tunnel polls tunnel.run only after settle.
Pumped == transport = "wireguard" => core # "settle"

\* The lookup's request leaves through the tunnel and meets its exit.
CoreReads ==
  /\ Running /\ core \in {"settle", "check"} /\ Policed /\ Pumped
  /\ coreSaw = Unread
  /\ coreSaw' = warpLoc
  /\ UNCHANGED <<config, appVars, core, coreTimer, netVars>>

\* settle has its answer: the listener opens, or the tunnel is refused.
Settled ==
  /\ Running /\ core = "settle" /\ coreSaw # Unread
  /\ core' = IF Accepts(coreSaw) THEN "serve" ELSE "pause"
  /\ coreTimer' = IF Accepts(coreSaw) THEN CoreInterval ELSE 0
  /\ coreSaw' = Unread
  /\ UNCHANGED <<config, appVars, netVars>>

SettleFails ==
  /\ Running /\ core = "settle"
  /\ core' = "pause" /\ coreTimer' = 0 /\ coreSaw' = Unread
  /\ UNCHANGED <<config, appVars, netVars>>

\* watch's sleep is over.
WatchWakes ==
  /\ Running /\ core = "serve" /\ Policed /\ coreTimer = 0
  /\ core' = "check" /\ coreTimer' = Timeout /\ coreSaw' = Unread
  /\ UNCHANGED <<config, appVars, netVars>>

\* lookup has its answer: only a country that the policy rejects ends the
\* tunnel; an answer without one is an error, which is ignored.
Watched ==
  /\ Running /\ core = "check" /\ coreSaw # Unread
  /\ core' = IF Accepts(coreSaw) THEN "serve" ELSE "pause"
  /\ coreTimer' = IF Accepts(coreSaw) THEN CoreInterval ELSE 0
  /\ coreSaw' = Unread
  /\ UNCHANGED <<config, appVars, netVars>>

WatchFails ==
  /\ Running /\ core = "check"
  /\ core' = "serve" /\ coreTimer' = CoreInterval /\ coreSaw' = Unread
  /\ UNCHANGED <<config, appVars, netVars>>

\* The tunnel closes or fails; its listeners are aborted with it.
TunnelEnds ==
  /\ Running /\ core \in {"settle", "serve", "check"} /\ carrier # "alone"
  /\ core' = "pause" /\ coreTimer' = 0 /\ coreSaw' = Unread
  /\ UNCHANGED <<config, appVars, netVars>>

\* The reconnect delay is over.
Redial ==
  /\ Running /\ core = "pause"
  /\ core' = "dial"
  /\ UNCHANGED <<config, appVars, coreTimer, coreSaw, netVars>>

Core == \/ Dialed \/ CoreReads \/ Settled \/ SettleFails \/ WatchWakes
        \/ Watched \/ WatchFails \/ TunnelEnds \/ Redial

-----------------------------------------------------------------------------
(* The carrier task inside the tunnel, and the network.                    *)

ChainReady ==
  /\ Running /\ carrier = "chain" /\ chain = "wait" /\ Listening
  /\ chain' = "up"
  /\ UNCHANGED <<config, appVars, coreVars, warpLoc, chainLoc>>

\* run_chain returns; nothing starts it again.
ChainEnds ==
  /\ Running /\ carrier = "chain" /\ chain # "dead"
  /\ chain' = "dead"
  /\ UNCHANGED <<config, appVars, coreVars, warpLoc, chainLoc>>

ExitMoves ==
  /\ Running
  /\ \/ warpLoc' \in Loc \ {warpLoc} /\ UNCHANGED chainLoc
     \/ carrier = "chain" /\ chainLoc' \in Loc \ {chainLoc} /\ UNCHANGED warpLoc
  /\ UNCHANGED <<config, appVars, coreVars, chain>>

Network == ChainReady \/ ChainEnds \/ ExitMoves

-----------------------------------------------------------------------------
Older(a) == IF a < MaxAge THEN a + 1 ELSE a

\* The ages after a step that takes no time.  A new tunnel owes nothing to
\* the exit of the one before.
Aged ==
  /\ age' = IF Good' THEN 0 ELSE age
  /\ warpAge' = CASE WarpGood' -> 0
                  [] ~WarpGood' /\ core' = "dial" -> MaxAge
                  [] OTHER -> warpAge

AppTimed == noIr /\ app \in {"verify", "bridge", "recheck"}
CoreTimed == Policed /\ core \in {"settle", "serve", "check"}

\* A unit of time passes; nothing is overdue.
Tick ==
  /\ Running
  /\ AppTimed => appTimer > 0
  /\ CoreTimed => coreTimer > 0
  /\ appTimer' = IF AppTimed THEN appTimer - 1 ELSE appTimer
  /\ coreTimer' = IF CoreTimed THEN coreTimer - 1 ELSE coreTimer
  /\ age' = IF Good THEN 0 ELSE Older(age)
  /\ warpAge' = IF WarpGood THEN 0 ELSE Older(warpAge)
  /\ UNCHANGED <<config, app, appSaw, core, coreSaw, netVars>>

Next == Tick \/ ((App \/ Core \/ Network) /\ Aged)

Spec == Init /\ [][Next]_vars

\* The supervisor is polled, a lookup ends by its timeout, and one that can be
\* answered over and over again is answered one time.
Fairness ==
  /\ WF_vars(Dialed /\ Aged) /\ WF_vars(Redial /\ Aged)
  /\ WF_vars(SettleFails /\ Aged)
  /\ SF_vars(CoreReads /\ Aged) /\ SF_vars(Settled /\ Aged)

FairSpec == Spec /\ Fairness

-----------------------------------------------------------------------------
\* The type invariant of the session's state; a timer is within what it times.
TypeOK ==
  /\ noIr \in BOOLEAN /\ carrier \in Carrier /\ transport \in Transport
  /\ app \in {"wait", "verify", "bridge", "recheck", "ended"}
  /\ appTimer \in 0 .. (IF app = "bridge" THEN Interval ELSE Timeout)
  /\ appSaw \in Loc \cup {Unread}
  /\ core \in {"dial", "settle", "serve", "check", "pause"}
  /\ coreTimer \in 0 .. (IF core = "serve" THEN CoreInterval ELSE Timeout)
  /\ coreSaw \in Loc \cup {Unread}
  /\ chain \in {"wait", "up", "dead"} /\ warpLoc \in Loc /\ chainLoc \in Loc
  /\ age \in 0 .. MaxAge /\ warpAge \in 0 .. MaxAge

\* NATIVE_ENGINE.md: NO-IR "fails closed when the final country is IR or
\* unavailable, and monitors that proxy every 60 seconds".  While packets are
\* forwarded, the final exit was good at most one sleep and two lookups ago,
\* whatever the core's own fail-open watch, its reconnects and the chained
\* carrier do meanwhile: 80 seconds with the code's constants.
FailsClosed == noIr /\ Forwarding => age <= Interval + 2 * Timeout

\* NATIVE_ENGINE.md: NO-IR "probes the selected final proxy before any Android
\* packets are forwarded".  When the bridge starts, the final exit was good
\* within the time of one lookup.
ProbedBeforeBridge ==
  [][noIr /\ ~Forwarding /\ Forwarding' => age <= Timeout]_vars

\* NATIVE_ENGINE.md: "Aether opens its WARP listener only after tunnel
\* validation and its exit policy have passed."  Whichever attempt it is, the
\* listener opens only if the exit was not Iranian within the time of one
\* lookup.
ListenerAfterPolicy ==
  [][Policed /\ ~Listening /\ Listening' => warpAge <= Timeout]_vars

\* The policy lets a good exit through: a MASQUE session that runs on while
\* its exit is not Iranian has its listener open again and again, however
\* lookups fail and tunnels end in between.
PolicyLetsThrough ==
  <>[](Running /\ warpLoc = "other" /\ transport = "masque") => []<>Listening

\* CHANGELOG.md: "Routed NO-IR verification through the candidate tunnel's
\* native netstack so it works consistently across all three transports."
PolicyOnEveryTransport == <>[](Running /\ warpLoc = "other") => []<>Listening
=============================================================================
