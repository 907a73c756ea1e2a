----------------------------- MODULE Supervisor -----------------------------
(***************************************************************************)
(* The core's reconnect supervisors, run_wireguard and run_masque, and the *)
(* file of remembered gateways (lastconn) that outlives them.              *)
(*                                                                         *)
(* A session runs on one carrier.  It may begin with a gateway it need not *)
(* scan for, then goes round a loop: choose a gateway, remember it, run a  *)
(* tunnel over it until the tunnel ends, pause.  WireGuard counts the      *)
(* failures of a gateway and sets one that fails MaxFails times in a row   *)
(* aside for Cooldown.  A session ends when it is stopped, or its process  *)
(* killed, at any point; the next one finds the file.                      *)
(*                                                                         *)
(* The file belongs to an identity: WireGuard and MASQUE share that of a   *)
(* team when the core runs by itself; in the app only the two transports   *)
(* of MASQUE share one.  Carrier is the set of those that share it.        *)
(*                                                                         *)
(* Time passes in Ticks.  A cooldown that has run out is dropped at the    *)
(* top of the loop, not before.  The variables row, last and idle are      *)
(* history.                                                                *)
(***************************************************************************)
EXTENDS Naturals, Sequences, FiniteSets

CONSTANTS Peer,      \* gateways
          NoPeer,    \* None
          Carrier,   \* the carriers in use
          WireGuard, \* the one of run_wireguard; the others are run_masque's
          RecentCap, \* RECENT_CAP
          MaxFails,  \* MAX_CONSECUTIVE_FAILS
          Cooldown   \* wg_endpoint_cooldown, in ticks

\* The carrier of a file that an older build wrote.
Unnamed == "unnamed"

ASSUME SupervisorAssumption ==
  /\ NoPeer \notin Peer /\ WireGuard \in Carrier /\ Unnamed \notin Carrier
  /\ RecentCap \in Nat \ {0} /\ MaxFails \in Nat \ {0} /\ Cooldown \in Nat \ {0}

NoFile == [peer |-> NoPeer, carrier |-> Unnamed, recent |-> <<>>]

VARIABLES
  file,     \* LastConnection; an entry of recent carries the carrier it was
            \* saved on (history: the file itself names only one carrier)
  phase,    \* where the supervisor stands; "off" between sessions
  carrier,  \* the session's carrier
  forced,   \* AETHER_WG_PEER or AETHER_PEER
  quick,    \* a gateway verified before the loop
  lastGood, \* last_good, last_good_peer
  fails,    \* consecutive_fails_on_peer
  cooled,   \* the keys of endpoint_cooldowns
  left,     \* the time each of them has left
  cur,      \* the gateway of this round
  last,     \* the gateway of the session's latest tunnel
  row,      \* tunnels over it in a row, none a Cooldown after the one before
  idle      \* time since the latest tunnel ended, up to Cooldown

loopVars  == <<quick, lastGood, fails, cur>>
coolVars  == <<cooled, left>>
ghostVars == <<last, row, idle>>
setup     == <<carrier, forced>>
vars == <<file, phase, setup, loopVars, coolVars, ghostVars>>

Fresh ==
  /\ quick = NoPeer /\ lastGood = NoPeer /\ fails = 0 /\ cur = NoPeer
  /\ cooled = {} /\ left = [p \in Peer |-> 0]
  /\ last = NoPeer /\ row = 0 /\ idle = 0

Init ==
  /\ \/ file = NoFile
     \/ \E p \in Peer : file = [peer |-> p, carrier |-> Unnamed, recent |-> <<>>]
  /\ phase = "off" /\ carrier = WireGuard /\ forced = NoPeer
  /\ Fresh

-----------------------------------------------------------------------------
(* lastconn.                                                               *)

\* Mutant of CarriedOver: the ring is kept whatever carrier it was for.
CarriedOverAlways(c) == file.recent

\* The ring is kept when it was proved on this carrier, or on none by name.
CarriedOver(c) == IF file.carrier \in {Unnamed, c} THEN file.recent ELSE <<>>

\* An entry is pushed unless it is the newest one or there is no room.
Pushed(r, e, p) ==
  IF e.peer # p /\ Len(r) < RecentCap THEN Append(r, e) ELSE r

\* The newest gateway first, then what is carried over, as far as it fits.
Ring(p, c) ==
  LET old == CarriedOver(c)
      recent[k \in 0 .. Len(old)] ==
        IF k = 0 THEN <<[peer |-> p, on |-> c]>>
        ELSE Pushed(recent[k - 1], old[k], p)
  IN recent[Len(old)]

\* What save writes ...
Saved(p, c) == [peer |-> p, carrier |-> c, recent |-> Ring(p, c)]

\* ... and what it leaves: an error to open the file leaves the old one, an
\* error after the file was truncated leaves none that load can read.
AfterSave(p, c) == {Saved(p, c), file, NoFile}

RingPeers == {file.recent[k].peer : k \in DOMAIN file.recent}

\* usable_peers
UsablePeers(c) ==
  IF file = NoFile \/ file.carrier \notin {Unnamed, c}
  THEN {}
  ELSE {file.peer} \cup RingPeers

-----------------------------------------------------------------------------
(* A session begins and ends.                                              *)

Start(c, f) ==
  /\ phase = "off"
  /\ phase' = "boot"
  /\ carrier' = c /\ forced' = f
  /\ UNCHANGED <<file, loopVars, coolVars, ghostVars>>

\* The endpoint the organisation assigned, or one of the remembered ones,
\* answers: the loop begins with it.
QuickVerified(p) ==
  /\ phase = "boot" /\ forced = NoPeer
  /\ quick' = p
  /\ phase' = "top"
  /\ UNCHANGED <<file, setup, lastGood, fails, cur, coolVars, ghostVars>>

Assigned(p) == QuickVerified(p)

Remembered(p) == p \in UsablePeers(carrier) /\ QuickVerified(p)

\* None does, or none is asked.
NoQuick ==
  /\ phase = "boot"
  /\ phase' = "top"
  /\ UNCHANGED <<file, setup, loopVars, coolVars, ghostVars>>

\* The session is stopped or its process killed.  Killed inside save, after
\* the file was truncated and before it was written, it leaves no file.
Stop ==
  /\ phase # "off"
  /\ phase' = "off"
  /\ file' \in IF phase = "use" /\ forced = NoPeer THEN {file, NoFile} ELSE {file}
  /\ quick' = NoPeer /\ lastGood' = NoPeer /\ fails' = 0 /\ cur' = NoPeer
  /\ cooled' = {} /\ left' = [p \in Peer |-> 0]
  /\ last' = NoPeer /\ row' = 0 /\ idle' = 0
  /\ carrier' = WireGuard /\ forced' = NoPeer

-----------------------------------------------------------------------------
(* The loop.                                                               *)

\* Mutant of Unexpired: a cooldown never runs out.
UnexpiredForever == cooled

\* endpoint_cooldowns.retain
Unexpired == {p \in cooled : left[p] > 0}

\* Mutant of SetAside: one failure more is allowed.
SetAsideLate ==
  carrier = WireGuard /\ fails > MaxFails /\ lastGood # NoPeer

\* The last gateway has failed too often: it is put on cooldown.
SetAside == carrier = WireGuard /\ fails >= MaxFails /\ lastGood # NoPeer

\* ... and the count begins again.
CountAfter == IF fails >= MaxFails THEN 0 ELSE fails

\* Mutant of Top: the failures are counted and never looked at.
TopWithoutLimit ==
  /\ phase = "top"
  /\ cooled' = Unexpired
  /\ cur' = quick /\ quick' = NoPeer
  /\ phase' = IF quick # NoPeer THEN "use" ELSE "retry"
  /\ UNCHANGED <<file, setup, left, lastGood, fails, ghostVars>>

\* The top of the loop, up to quick.take().
Top ==
  /\ phase = "top"
  /\ cooled' = Unexpired \cup (IF SetAside THEN {lastGood} ELSE {})
  /\ left' = IF SetAside THEN [left EXCEPT ![lastGood] = Cooldown] ELSE left
  /\ lastGood' = IF SetAside THEN NoPeer ELSE lastGood
  /\ fails' = CountAfter
  /\ cur' = quick /\ quick' = NoPeer
  /\ phase' = IF quick # NoPeer THEN "use" ELSE "retry"
  /\ UNCHANGED <<file, setup, ghostVars>>

\* This round's gateway is p.
Choose(p) ==
  /\ cur' = p
  /\ phase' = "use"
  /\ UNCHANGED <<file, setup, quick, lastGood, fails, coolVars, ghostVars>>

\* The last known-good gateway still answers ...
RetryAnswers == phase = "retry" /\ lastGood # NoPeer /\ Choose(lastGood)

\* ... or not, or there is none.
RetryFails ==
  /\ phase = "retry"
  /\ phase' = "pick"
  /\ UNCHANGED <<file, setup, loopVars, coolVars, ghostVars>>

\* The forced gateway: WireGuard tests it first, MASQUE does not.
ForcedUsed == phase = "pick" /\ forced # NoPeer /\ Choose(forced)

ForcedFails ==
  /\ phase = "pick" /\ forced # NoPeer /\ carrier = WireGuard
  /\ phase' = "pause"
  /\ UNCHANGED <<file, setup, loopVars, coolVars, ghostVars>>

\* Mutant of Excluded: the scan is given no exclusions.
ExcludedNone == {}

\* What the scan leaves out; the MASQUE one leaves nothing out.
Excluded == IF carrier = WireGuard THEN cooled ELSE {}

HuntFinds(p) ==
  /\ phase = "pick" /\ forced = NoPeer
  /\ p \notin Excluded
  /\ Choose(p)

HuntFails ==
  /\ phase = "pick" /\ forced = NoPeer
  /\ phase' = "pause"
  /\ UNCHANGED <<file, setup, loopVars, coolVars, ghostVars>>

\* The bound on row: beyond MaxFails, too many is too many.
OneMore(n) == IF n <= MaxFails THEN n + 1 ELSE n

\* save, the reset of the counter for another gateway, last_good, and the
\* tunnel is tried.
Use ==
  /\ phase = "use"
  /\ file' \in IF forced = NoPeer THEN AfterSave(cur, carrier) ELSE {file}
  /\ fails' = IF lastGood # cur THEN 0 ELSE fails
  /\ lastGood' = cur
  /\ phase' = "tunnel"
  /\ last' = cur
  /\ row' = IF cur = last /\ idle < Cooldown THEN OneMore(row) ELSE 1
  /\ idle' = 0
  /\ UNCHANGED <<setup, quick, cur, coolVars>>

\* It closes, or it fails: run_wireguard counts both.
TunnelEnds ==
  /\ phase = "tunnel"
  /\ fails' = IF carrier = WireGuard THEN fails + 1 ELSE fails
  /\ phase' = "pause"
  /\ cur' = NoPeer
  /\ UNCHANGED <<file, setup, quick, lastGood, coolVars, ghostVars>>

\* The reconnect delay is over.
Resume ==
  /\ phase = "pause"
  /\ phase' = "top"
  /\ UNCHANGED <<file, setup, loopVars, coolVars, ghostVars>>

-----------------------------------------------------------------------------
Tick ==
  /\ phase # "off"
  /\ \/ \E p \in Peer : left[p] > 0
     \/ phase # "tunnel" /\ last # NoPeer /\ idle < Cooldown
  /\ left' = [p \in Peer |-> IF left[p] > 0 THEN left[p] - 1 ELSE 0]
  /\ idle' = IF phase # "tunnel" /\ last # NoPeer /\ idle < Cooldown
             THEN idle + 1 ELSE idle
  /\ UNCHANGED <<file, phase, setup, loopVars, cooled, last, row>>

Boot == NoQuick \/ \E p \in Peer : Assigned(p) \/ Remembered(p)

Loop == \/ Top \/ RetryAnswers \/ RetryFails \/ ForcedUsed \/ ForcedFails
        \/ HuntFails \/ Use \/ Resume
        \/ \E p \in Peer : HuntFinds(p)

Next ==
  \/ \E c \in Carrier, f \in Peer \cup {NoPeer} : Start(c, f)
  \/ Boot \/ Loop \/ TunnelEnds \/ Stop \/ Tick

Spec == Init /\ [][Next]_vars

\* The supervisor keeps going and time passes; a scan that is allowed some
\* gateway again and again finds one in the end, and a forced gateway that is
\* tried again and again passes.  Nothing is assumed of sessions or tunnels.
Fairness ==
  /\ WF_vars(Boot) /\ WF_vars(Loop) /\ WF_vars(Tick)
  /\ SF_vars(\E p \in Peer : HuntFinds(p)) /\ SF_vars(ForcedUsed)

FairSpec == Spec /\ Fairness

-----------------------------------------------------------------------------
Entry == [peer : Peer, on : Carrier]

\* The type invariant of the supervisor and its file.
TypeOK ==
  /\ file.peer \in Peer \cup {NoPeer} /\ file.carrier \in Carrier \cup {Unnamed}
  /\ file.recent \in Seq(Entry)
  /\ phase \in {"off", "boot", "top", "retry", "pick", "use", "tunnel", "pause"}
  /\ carrier \in Carrier /\ forced \in Peer \cup {NoPeer}
  /\ quick \in Peer \cup {NoPeer} /\ lastGood \in Peer \cup {NoPeer}
  /\ fails \in 0 .. MaxFails /\ cur \in Peer \cup {NoPeer}
  /\ cooled \in SUBSET Peer /\ left \in [Peer -> 0 .. Cooldown]
  /\ last \in Peer \cup {NoPeer} /\ row \in Nat /\ idle \in 0 .. Cooldown

\* "excluding it for ..." (run_wireguard): no WireGuard tunnel runs over a
\* gateway whose cooldown has time left, unless the user forces it, whichever
\* of quick reconnect, retry and scan chose it.
CooldownRespected ==
  phase \in {"use", "tunnel"} /\ carrier = WireGuard /\ forced = NoPeer
    => left[cur] = 0

\* A gateway is not tried more than MaxFails times in a row without a full
\* Cooldown before the next try, however its tunnels, the checks before them
\* and the scans turn out.
NoTryTooMany ==
  carrier = WireGuard /\ forced = NoPeer => row <= MaxFails

\* The remembered ring after any number of sessions on any carriers: the
\* newest gateway leads it, none appears twice, it keeps within RECENT_CAP,
\* and "gateways proved on one carrier are not reused on another" (lastconn's
\* test of that name): all were saved on the carrier that the file names.
RingSound ==
  file.carrier # Unnamed =>
    /\ Len(file.recent) \in 1 .. RecentCap
    /\ file.recent[1].peer = file.peer
    /\ Cardinality(RingPeers) = Len(file.recent)
    /\ \A k \in DOMAIN file.recent : file.recent[k].on = file.carrier

\* FEATURE_PARITY.md: "Automatic reconnect".  A supervisor that pauses gets to
\* another tunnel or is stopped; even when every gateway is on cooldown.
KeepsReconnecting == phase = "pause" ~> phase \in {"tunnel", "off"}
=============================================================================
