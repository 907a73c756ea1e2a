-------------------------- MODULE SupervisorProofs --------------------------
(***************************************************************************)
(* The cooldown of run_wireguard, proved for any number of gateways, any   *)
(* MaxFails and any Cooldown.  The invariant ties the history of tries to  *)
(* the counter: as long as last_good is kept, the tries in a row are at    *)
(* most consecutive_fails_on_peer (one more while a tunnel runs); once it  *)
(* has been set aside, what its cooldown has left and the time since its   *)
(* last tunnel make up a full Cooldown.  The second part is about the file *)
(* of remembered gateways: FileInv says what the loop of save makes of it. *)
(***************************************************************************)
EXTENDS Supervisor, RecursionTheorems, FiniteSetTheorems, TLAPS

\* The types of what the loop keeps in memory.
LoopType ==
  /\ phase \in {"off", "boot", "top", "retry", "pick", "use", "tunnel", "pause"}
  /\ carrier \in Carrier /\ forced \in Peer \cup {NoPeer}
  /\ quick \in Peer \cup {NoPeer} /\ lastGood \in Peer \cup {NoPeer}
  /\ fails \in 0 .. MaxFails /\ cur \in Peer \cup {NoPeer}
  /\ cooled \in SUBSET Peer /\ left \in [Peer -> 0 .. Cooldown]
  /\ last \in Peer \cup {NoPeer} /\ row \in 0 .. MaxFails + 1
  /\ idle \in 0 .. Cooldown

\* Where cur, quick and the counter stand in the phases of the loop.
PhaseInv ==
  /\ phase \in {"off", "boot"} => Fresh
  /\ phase \in {"use", "tunnel"} => cur \in Peer
  /\ phase = "tunnel" => lastGood = cur /\ fails < MaxFails
  /\ phase \in {"retry", "pick", "use"} => fails < MaxFails
  /\ quick # NoPeer => /\ phase = "top" /\ lastGood = NoPeer /\ last = NoPeer
                       /\ left = [p \in Peer |-> 0]

\* A cooldown with time left is still in the map.
CoolInv == \A p \in Peer : left[p] > 0 => p \in cooled

\* A WireGuard session that scans for its gateways.
Scanning == carrier = WireGuard /\ forced = NoPeer

\* The history of tries against the counter, the cooldowns and the time.
RowInv ==
  Scanning =>
    /\ lastGood # NoPeer => lastGood = last /\ left[lastGood] = 0
    /\ lastGood # NoPeer /\ phase # "tunnel" => row <= fails
    /\ phase = "tunnel" => row <= fails + 1
    /\ lastGood = NoPeer /\ last # NoPeer => idle + left[last] >= Cooldown

\* The inductive invariant.
IInv == /\ LoopType /\ PhaseInv /\ CoolInv /\ RowInv
        /\ CooldownRespected /\ NoTryTooMany

USE SupervisorAssumption DEF loopVars, coolVars, ghostVars, setup

-----------------------------------------------------------------------------
\* A session that has not begun satisfies all of it.
LEMMA FreshIInv ==
  ASSUME Fresh, phase \in {"off", "boot"},
         carrier \in Carrier, forced \in Peer \cup {NoPeer}
  PROVE  IInv
  <1>1. LoopType /\ PhaseInv /\ CoolInv
    BY DEF Fresh, LoopType, PhaseInv, CoolInv
  <1>2. RowInv /\ CooldownRespected /\ NoTryTooMany
    BY DEF Fresh, RowInv, CooldownRespected, NoTryTooMany
  <1> QED
    BY <1>1, <1>2 DEF IInv

\* The steps before the loop.
LEMMA BootStep ==
  ASSUME IInv, Boot
  PROVE  IInv'
  <1> USE DEF IInv
  <1>1. phase = "boot" /\ phase' = "top" /\ Fresh
    BY DEF Boot, NoQuick, Assigned, Remembered, QuickVerified, PhaseInv
  <1>2. /\ UNCHANGED <<setup, lastGood, fails, cur, coolVars, ghostVars>>
        /\ quick' \in Peer \cup {NoPeer}
    BY DEF Boot, NoQuick, Assigned, Remembered, QuickVerified, LoopType
  <1>3. LoopType' /\ CoolInv'
    BY <1>1, <1>2 DEF LoopType, CoolInv
  <1>4. PhaseInv'
    BY <1>1, <1>2 DEF PhaseInv, Fresh
  <1>5. RowInv' /\ CooldownRespected' /\ NoTryTooMany'
    BY <1>1, <1>2 DEF RowInv, Scanning, CooldownRespected, NoTryTooMany, Fresh
  <1> QED
    BY <1>3, <1>4, <1>5

\* A session's end forgets all but the file; a session's start finds it so.
LEMMA EndsStep ==
  ASSUME IInv, \/ Stop
               \/ \E c \in Carrier, f \in Peer \cup {NoPeer} : Start(c, f)
  PROVE  IInv'
  <1>1. Fresh' /\ phase' \in {"off", "boot"}
    BY DEF Stop, Start, Fresh, IInv, PhaseInv
  <1>2. carrier' \in Carrier /\ forced' \in Peer \cup {NoPeer}
    BY DEF Stop, Start
  <1>3. LoopType' /\ PhaseInv' /\ CoolInv'
    BY <1>1, <1>2 DEF Fresh, LoopType, PhaseInv, CoolInv
  <1>4. RowInv' /\ CooldownRespected' /\ NoTryTooMany'
    BY <1>1, <1>2 DEF Fresh, RowInv, CooldownRespected, NoTryTooMany
  <1> QED
    BY <1>3, <1>4 DEF IInv

\* The top of the loop: cooldowns run out, a failing gateway is set aside.
LEMMA TopStep ==
  ASSUME IInv, Top
  PROVE  IInv'
  <1> USE DEF IInv
  <1>1. LoopType'
    BY DEF LoopType, Top, Unexpired, SetAside, CountAfter
  <1>2. PhaseInv'
    BY DEF LoopType, PhaseInv, Top, Unexpired, SetAside, CountAfter
  <1>3. CoolInv'
    BY DEF LoopType, CoolInv, Top, Unexpired, SetAside
  <1>4. RowInv'
    BY DEF LoopType, PhaseInv, RowInv, Scanning, Top, SetAside, CountAfter
  <1>5. CooldownRespected'
    BY DEF LoopType, PhaseInv, CooldownRespected, Top, SetAside
  <1>6. NoTryTooMany'
    BY DEF NoTryTooMany, Top
  <1> QED
    BY <1>1, <1>2, <1>3, <1>4, <1>5, <1>6

\* A gateway is chosen, by the retry, by force or by the scan.
LEMMA ChooseStep ==
  ASSUME IInv, \/ RetryAnswers \/ ForcedUsed \/ \E p \in Peer : HuntFinds(p)
  PROVE  IInv'
  <1> USE DEF IInv
  <1>1. PICK p \in Peer :
          /\ Choose(p) /\ phase \in {"retry", "pick"}
          /\ Scanning => left[p] = 0
    <2>1. CASE RetryAnswers
      BY <2>1 DEF RetryAnswers, LoopType, RowInv
    <2>2. CASE ForcedUsed
      BY <2>2 DEF ForcedUsed, LoopType, Scanning
    <2>3. ASSUME NEW q \in Peer, HuntFinds(q) PROVE Scanning => left[q] = 0
      BY <2>3 DEF HuntFinds, Excluded, Scanning, CoolInv, LoopType
    <2>4. CASE \E q \in Peer : HuntFinds(q)
      BY <2>3, <2>4 DEF HuntFinds
    <2> QED
      BY <2>1, <2>2, <2>4
  <1>2. LoopType' /\ PhaseInv' /\ CoolInv'
    BY <1>1 DEF LoopType, PhaseInv, CoolInv, Choose, Fresh
  <1>3. RowInv'
    BY <1>1 DEF RowInv, Scanning, Choose
  <1>4. CooldownRespected' /\ NoTryTooMany'
    BY <1>1 DEF CooldownRespected, NoTryTooMany, Scanning, Choose
  <1> QED
    BY <1>2, <1>3, <1>4

\* No gateway is chosen, or the pause is over.
LEMMA PauseStep ==
  ASSUME IInv, RetryFails \/ ForcedFails \/ HuntFails \/ Resume
  PROVE  IInv'
  <1> USE DEF IInv
  <1>1. /\ UNCHANGED <<setup, loopVars, coolVars, ghostVars>>
        /\ \/ phase = "retry" /\ phase' = "pick"
           \/ phase = "pick" /\ phase' = "pause"
           \/ phase = "pause" /\ phase' = "top"
    BY DEF RetryFails, ForcedFails, HuntFails, Resume
  <1>2. LoopType' /\ PhaseInv' /\ CoolInv'
    BY <1>1 DEF LoopType, PhaseInv, CoolInv
  <1>3. RowInv' /\ CooldownRespected' /\ NoTryTooMany'
    BY <1>1 DEF RowInv, Scanning, CooldownRespected, NoTryTooMany
  <1> QED
    BY <1>2, <1>3

\* The tunnel is tried: a gateway that was set aside is back after a full
\* Cooldown, one that was kept is one try further, another one begins anew.
LEMMA UseStep ==
  ASSUME IInv, Use
  PROVE  IInv'
  <1> USE DEF IInv
  <1>1. /\ phase = "use" /\ phase' = "tunnel" /\ cur \in Peer /\ fails < MaxFails
        /\ lastGood' = cur /\ last' = cur /\ idle' = 0
        /\ fails' = IF lastGood # cur THEN 0 ELSE fails
        /\ row' = IF cur = last /\ idle < Cooldown THEN OneMore(row) ELSE 1
        /\ UNCHANGED <<setup, quick, cur, coolVars>>
    BY DEF Use, PhaseInv
  <1>2. quick = NoPeer
    BY <1>1 DEF PhaseInv, LoopType
  <1>3. LoopType'
    BY <1>1 DEF LoopType, OneMore
  <1>4. PhaseInv' /\ CoolInv'
    BY <1>1, <1>2, <1>3 DEF PhaseInv, CoolInv, LoopType
  <1>5. Scanning => left[cur] = 0
    BY <1>1 DEF Scanning, CooldownRespected
  <1>6. Scanning => row' <= fails' + 1
    <2> SUFFICES ASSUME Scanning PROVE row' <= fails' + 1
      OBVIOUS
    <2>1. CASE lastGood = cur
      <3>1. row <= fails /\ row \in Nat /\ fails \in Nat
        BY <1>1, <2>1 DEF RowInv, LoopType
      <3> QED
        BY <1>1, <2>1, <3>1 DEF OneMore, LoopType
    <2>2. CASE lastGood # cur
      <3>1. ~(cur = last /\ idle < Cooldown)
        BY <1>1, <1>5, <2>2 DEF RowInv, LoopType
      <3> QED
        BY <1>1, <2>2, <3>1
    <2> QED
      BY <2>1, <2>2
  <1>7. RowInv'
    BY <1>1, <1>5, <1>6 DEF RowInv, Scanning
  <1>8. CooldownRespected'
    BY <1>1, <1>5 DEF CooldownRespected, Scanning
  <1>9. NoTryTooMany'
    <2>1. PICK f \in 0 .. MaxFails : fails' = f /\ f < MaxFails
      BY <1>1 DEF LoopType
    <2>2. PICK r \in Nat : row' = r
      BY <1>3 DEF LoopType
    <2> QED
      BY <1>1, <1>6, <2>1, <2>2 DEF NoTryTooMany, Scanning
  <1> QED
    BY <1>3, <1>4, <1>7, <1>8, <1>9

\* The tunnel ends and is counted.
LEMMA TunnelStep ==
  ASSUME IInv, TunnelEnds
  PROVE  IInv'
  <1> USE DEF IInv
  <1>1. LoopType' /\ PhaseInv' /\ CoolInv'
    BY DEF TunnelEnds, LoopType, PhaseInv, CoolInv
  <1>2. RowInv'
    BY DEF TunnelEnds, LoopType, PhaseInv, RowInv, Scanning
  <1>3. CooldownRespected' /\ NoTryTooMany'
    BY DEF TunnelEnds, CooldownRespected, NoTryTooMany
  <1> QED
    BY <1>1, <1>2, <1>3

\* Time passes: what a cooldown loses, the time since the last tunnel gains.
LEMMA TickStep ==
  ASSUME IInv, Tick
  PROVE  IInv'
  <1> USE DEF IInv
  <1>1. /\ left' = [p \in Peer |-> IF left[p] > 0 THEN left[p] - 1 ELSE 0]
        /\ UNCHANGED <<phase, setup, loopVars, cooled, last, row>>
        /\ phase # "off"
    BY DEF Tick
  <1>2. LoopType'
    BY <1>1 DEF Tick, LoopType
  <1>3. PhaseInv' /\ CoolInv'
    <2>1. phase # "boot"
      BY DEF Tick, PhaseInv, Fresh
    <2>2. left = [p \in Peer |-> 0] => left' = left
      BY <1>1
    <2>3. PhaseInv'
      BY <1>1, <2>1, <2>2 DEF LoopType, PhaseInv
    <2>4. CoolInv'
      BY <1>1 DEF LoopType, CoolInv
    <2> QED
      BY <2>3, <2>4
  <1>4. CooldownRespected' /\ NoTryTooMany'
    BY <1>1 DEF LoopType, PhaseInv, CooldownRespected, NoTryTooMany
  <1>5. RowInv'
    BY <1>1 DEF Tick, LoopType, PhaseInv, RowInv, Scanning
  <1> QED
    BY <1>2, <1>3, <1>4, <1>5

-----------------------------------------------------------------------------
(* The remembered gateways.                                               *)

\* No gateway is in the ring twice.
Distinct(r) == \A i, j \in 1 .. Len(r) : r[i].peer = r[j].peer => i = j

\* All of it was saved on c.
AllOn(r, c) == \A i \in 1 .. Len(r) : r[i].on = c

\* All but the newest are among the first k of old.
Offered(r, old, k) == \A i \in 2 .. Len(r) : \E j \in 1 .. k : r[i] = old[j]

\* What save makes of the remembered gateways: a ring that p leads.
RingOf(r, p, c) ==
  /\ r \in Seq(Entry) /\ Len(r) \in 1 .. RecentCap
  /\ r[1].peer = p
  /\ Distinct(r) /\ AllOn(r, c)

\* The file as the sessions so far have left it.
FileInv ==
  /\ file \in [peer : Peer \cup {NoPeer}, carrier : Carrier \cup {Unnamed},
               recent : Seq(Entry)]
  /\ file.carrier = Unnamed => file.recent = <<>>
  /\ file.carrier # Unnamed => RingOf(file.recent, file.peer, file.carrier)

\* The loop of save: what each round makes of the round before.
LEMMA RingLoop ==
  ASSUME NEW p \in Peer, NEW c \in Carrier,
         NEW old \in Seq(Entry), old = CarriedOver(c)
  PROVE  \E f : /\ f[0] = <<[peer |-> p, on |-> c]>>
                /\ \A k \in 1 .. Len(old) : f[k] = Pushed(f[k - 1], old[k], p)
                /\ Ring(p, c) = f[Len(old)]
  <1> DEFINE n == Len(old)
             R == Seq(Entry)
             b == <<[peer |-> p, on |-> c]>>
             step == [k \in 1 .. n |-> [r \in Seq(Entry) |-> Pushed(r, old[k], p)]]
             Rounds(f) == [k \in 0 .. n |-> IF k = 0 THEN b
                                            ELSE Pushed(f[k - 1], old[k], p)]
             h == CHOOSE f : f = Rounds(f)
  <1>1. n \in Nat /\ b \in R
    BY DEF Entry
  <1>2. step \in [1 .. n -> [R -> R]]
    BY DEF Pushed
  <1>3. PICK g \in [0 .. n -> R] :
          g[0] = b /\ \A k \in 1 .. n : g[k] = step[k][g[k - 1]]
    <2> HIDE DEF n, R, b, step
    <2> QED
      BY <1>1, <1>2, Recursion, SMTT(30)
  <1>4. \A k \in 1 .. n : g[k] = Pushed(g[k - 1], old[k], p)
    <2> TAKE k \in 1 .. n
    <2>1. k - 1 \in 0 .. n
      BY <1>1
    <2>2. g[k - 1] \in R
      BY <2>1
    <2> QED
      BY <1>3, <2>2
  <1>5. g = Rounds(g)
    <2> HIDE DEF b
    <2>1. \A k \in 0 .. n : k # 0 => k \in 1 .. n
      BY <1>1
    <2>2. \A k \in 0 .. n : g[k] = Rounds(g)[k]
      BY <1>3, <1>4, <2>1
    <2> QED
      BY <1>3, <2>2, Zenon
  <1>6. h = Rounds(h)
    <2> HIDE DEF Rounds
    <2> QED
      BY <1>5, Zenon
  <1>7. Ring(p, c) = h[n]
    BY Zenon DEF Ring
  <1> HIDE DEF h
  <1>8. h[0] = b
    BY <1>1, <1>6
  <1>9. ASSUME NEW k \in 1 .. n PROVE h[k] = Pushed(h[k - 1], old[k], p)
    <2>1. k \in 0 .. n /\ k # 0
      BY <1>1
    <2> HIDE DEF n, b
    <2> QED
      BY <1>6, <2>1
  <1> QED
    BY <1>7, <1>8, <1>9, Zenon

\* One round keeps the ring, and takes no entry but those it was offered.
LEMMA RingRound ==
  ASSUME NEW p \in Peer, NEW c \in Carrier, NEW old \in Seq(Entry), NEW r,
         NEW k \in 1 .. Len(old),
         Distinct(old), AllOn(old, c),
         RingOf(r, p, c), Offered(r, old, k - 1),
         NEW s, s = Pushed(r, old[k], p)
  PROVE  RingOf(s, p, c) /\ Offered(s, old, k)
  <1> USE DEF Distinct, AllOn, Offered
  <1> DEFINE e == old[k]
  <1>1. e \in Entry /\ e.on = c /\ k \in Nat /\ Len(old) \in Nat /\ k <= Len(old)
    OBVIOUS
  <1>2. r \in Seq(Entry) /\ Len(r) \in Nat /\ Len(r) >= 1
    BY DEF RingOf
  <1>3. CASE ~(e.peer # p /\ Len(r) < RecentCap)
    <2>1. s = r
      BY <1>3 DEF Pushed
    <2>2. \A i \in 2 .. Len(r) : \E j \in 1 .. k : r[i] = old[j]
      OBVIOUS
    <2> QED
      BY <2>1, <2>2
  <1>4. CASE e.peer # p /\ Len(r) < RecentCap
    <2>1. s = Append(r, e)
      BY <1>4 DEF Pushed
    <2>2. /\ s \in Seq(Entry) /\ Len(s) = Len(r) + 1 /\ s[Len(r) + 1] = e
          /\ \A i \in 1 .. Len(r) : s[i] = r[i]
      BY <1>1, <1>2, <2>1
    <2>3. \A i \in 1 .. Len(s) : i \in 1 .. Len(r) \/ i = Len(r) + 1
      BY <1>2, <2>2
    <2>4. \A i \in 1 .. Len(r) : r[i].peer # e.peer
      <3> SUFFICES ASSUME NEW i \in 1 .. Len(r), r[i].peer = e.peer PROVE FALSE
        OBVIOUS
      <3>1. CASE i = 1
        BY <1>4, <3>1 DEF RingOf
      <3>2. CASE i # 1
        <4>1. i \in 2 .. Len(r)
          BY <1>2, <3>2
        <4>2. PICK j \in 1 .. k - 1 : r[i] = old[j]
          BY <4>1
        <4>3. j \in 1 .. Len(old) /\ j # k
          BY <1>1
        <4> QED
          BY <4>2, <4>3
      <3> QED
        BY <3>1, <3>2
    <2>5. ASSUME NEW i \in 1 .. Len(s), NEW j \in 1 .. Len(s), s[i].peer = s[j].peer
          PROVE  i = j
      <3>1. CASE i \in 1 .. Len(r) /\ j \in 1 .. Len(r)
        BY <2>2, <2>5, <3>1 DEF RingOf
      <3>2. CASE i \in 1 .. Len(r) /\ j = Len(r) + 1
        BY <2>2, <2>4, <2>5, <3>2
      <3>3. CASE i = Len(r) + 1 /\ j \in 1 .. Len(r)
        BY <2>2, <2>4, <2>5, <3>3
      <3> QED
        BY <2>3, <3>1, <3>2, <3>3
    <2>6. \A i \in 1 .. Len(s) : s[i].on = c
      BY <1>1, <2>2, <2>3 DEF RingOf
    <2>7. Len(s) \in 1 .. RecentCap /\ s[1].peer = p
      BY <1>2, <1>4, <2>2 DEF RingOf
    <2>8. RingOf(s, p, c)
      BY <2>2, <2>5, <2>6, <2>7 DEF RingOf
    <2>9. ASSUME NEW i \in 2 .. Len(s) PROVE \E j \in 1 .. k : s[i] = old[j]
      <3>1. CASE i = Len(r) + 1
        BY <1>1, <2>2, <3>1
      <3>2. CASE i \in 2 .. Len(r)
        <4>1. PICK j \in 1 .. k - 1 : r[i] = old[j]
          BY <3>2
        <4>2. j \in 1 .. k /\ s[i] = r[i]
          BY <1>1, <2>2, <3>2
        <4> QED
          BY <4>1, <4>2
      <3> QED
        BY <1>2, <2>2, <3>1, <3>2
    <2> QED
      BY <2>8, <2>9
  <1> QED
    BY <1>3, <1>4

\* save writes a ring.
LEMMA RingIsRing ==
  ASSUME FileInv, NEW p \in Peer, NEW c \in Carrier
  PROVE  RingOf(Ring(p, c), p, c)
  <1>1. PICK old \in Seq(Entry) : old = CarriedOver(c)
    <2>1. file.recent \in Seq(Entry) /\ <<>> \in Seq(Entry)
      BY DEF FileInv
    <2> QED
      BY <2>1, Zenon DEF CarriedOver
  <1>2. Distinct(old) /\ AllOn(old, c)
    <2>1. CASE old = <<>>
      BY <2>1 DEF Distinct, AllOn
    <2>2. CASE old # <<>>
      <3>1. file.carrier = c /\ old = file.recent
        BY <1>1, <2>2 DEF FileInv, CarriedOver
      <3> QED
        BY <3>1 DEF FileInv, RingOf
    <2> QED
      BY <2>1, <2>2
  <1>3. PICK f : /\ f[0] = <<[peer |-> p, on |-> c]>>
                 /\ \A k \in 1 .. Len(old) : f[k] = Pushed(f[k - 1], old[k], p)
                 /\ Ring(p, c) = f[Len(old)]
    BY <1>1, RingLoop
  <1> DEFINE G == {k \in 0 .. Len(old) : RingOf(f[k], p, c) /\ Offered(f[k], old, k)}
  <1>4. 0 \in G
    <2>1. /\ f[0] \in Seq(Entry) /\ Len(f[0]) = 1
          /\ f[0][1].peer = p /\ f[0][1].on = c
      BY <1>3 DEF Entry
    <2>2. \A i \in 1 .. 1 : i = 1
      OBVIOUS
    <2>3. \A i \in 2 .. 1 : FALSE
      OBVIOUS
    <2>4. RingOf(f[0], p, c)
      BY <2>1, <2>2 DEF RingOf, Distinct, AllOn
    <2>5. Offered(f[0], old, 0)
      BY <2>1, <2>3 DEF Offered
    <2>6. 0 \in 0 .. Len(old)
      OBVIOUS
    <2> QED
      BY <2>4, <2>5, <2>6
  <1>5. ASSUME NEW k \in 1 .. Len(old), k - 1 \in G PROVE k \in G
    <2>1. RingOf(f[k - 1], p, c) /\ Offered(f[k - 1], old, k - 1)
      BY <1>5
    <2>2. f[k] = Pushed(f[k - 1], old[k], p)
      BY <1>3
    <2>3. RingOf(f[k], p, c) /\ Offered(f[k], old, k)
      BY <1>2, <2>1, <2>2, RingRound, Zenon
    <2> QED
      BY <2>3
  <1>6. Len(old) \in G
    <2> HIDE DEF G
    <2>1. \A m \in 0 .. Len(old) : m \in G
      <3>1. Len(old) \in Nat
        OBVIOUS
      <3> QED
        BY <3>1, <1>4, <1>5, InductionUpTo
    <2> QED
      BY <2>1
  <1> QED
    BY <1>3, <1>6

\* A set that the numbers up to n count, each once, has n elements.
LEMMA CountedOnce ==
  ASSUME NEW n \in Nat, NEW T, NEW f \in Bijection(1 .. n, T)
  PROVE  Cardinality(T) = n
  <1> DEFINE S == 1 .. n
  <1>1. IsFiniteSet(S) /\ Cardinality(S) = n
    <2>1. 1 \in Int /\ n \in Int /\ (IF 1 > n THEN 0 ELSE n - 1 + 1) = n
      OBVIOUS
    <2> QED
      BY <2>1, FS_Interval
  <1>2. ExistsBijection(S, T)
    BY Zenon DEF ExistsBijection
  <1> HIDE DEF S
  <1>3. Cardinality(T) = Cardinality(S)
    BY <1>1, <1>2, FS_Bijection
  <1> QED
    BY <1>1, <1>3

\* What FileInv says of the ring is what RingSound counts.
LEMMA FileIsSound ==
  ASSUME FileInv
  PROVE  RingSound
  <1> SUFFICES ASSUME file.carrier # Unnamed PROVE RingSound
    BY DEF RingSound
  <1> DEFINE r == file.recent
  <1>1. RingOf(r, file.peer, file.carrier) /\ r \in Seq(Entry) /\ Len(r) \in Nat
    BY DEF FileInv, RingOf
  <1>2. DOMAIN r = 1 .. Len(r)
    BY <1>1
  <1>3. Cardinality(RingPeers) = Len(r)
    <2> DEFINE name == [k \in 1 .. Len(r) |-> r[k].peer]
    <2>1. name \in Bijection(1 .. Len(r), RingPeers)
      BY <1>1, <1>2 DEF Bijection, Injection, IsInjective, Surjection, RingPeers,
                        RingOf, Distinct
    <2> HIDE DEF name
    <2> QED
      BY <1>1, <2>1, CountedOnce
  <1> QED
    BY <1>1, <1>2, <1>3 DEF RingSound, RingOf, AllOn

\* Every step leaves the file alone, saves or loses it.
LEMMA FileStep ==
  ASSUME IInv, FileInv, [Next]_vars
  PROVE  FileInv'
  <1>1. CASE file' = file
    BY <1>1 DEF FileInv
  <1>2. CASE file' = NoFile
    <2>1. <<>> \in Seq(Entry)
      OBVIOUS
    <2> QED
      BY <1>2, <2>1 DEF FileInv, NoFile
  <1>3. CASE Use /\ file' = Saved(cur, carrier)
    <2>1. cur \in Peer /\ carrier \in Carrier
      BY <1>3 DEF Use, IInv, PhaseInv, LoopType
    <2>2. RingOf(Ring(cur, carrier), cur, carrier)
      BY <2>1, RingIsRing
    <2>3. PICK r \in Seq(Entry) : r = Ring(cur, carrier)
      BY <2>2 DEF RingOf
    <2>4. file' = [peer |-> cur, carrier |-> carrier, recent |-> r]
      BY <1>3, <2>3 DEF Saved
    <2> QED
      BY <2>1, <2>2, <2>3, <2>4 DEF FileInv
  <1>4. \/ file' = file \/ file' = NoFile
        \/ Use /\ file' = Saved(cur, carrier)
    <2>1. CASE Boot \/ \E c \in Carrier, f \in Peer \cup {NoPeer} : Start(c, f)
      BY <2>1 DEF Boot, Start, NoQuick, Assigned, Remembered, QuickVerified
    <2>2. CASE Loop /\ ~Use
      BY <2>2 DEF Loop, Top, RetryAnswers, RetryFails, ForcedUsed, ForcedFails,
                  HuntFails, Resume, HuntFinds, Choose
    <2>3. CASE Use
      BY <2>3 DEF Use, AfterSave
    <2>4. CASE TunnelEnds \/ Tick
      BY <2>4 DEF TunnelEnds, Tick
    <2>5. CASE Stop
      BY <2>5 DEF Stop
    <2>6. CASE UNCHANGED vars
      BY <2>6 DEF vars
    <2> QED
      BY <2>1, <2>2, <2>3, <2>4, <2>5, <2>6 DEF Next
  <1> QED
    BY <1>1, <1>2, <1>3, <1>4

-----------------------------------------------------------------------------
(* The theorems.                                                           *)

\* The inductive invariant holds of every behaviour.
THEOREM Invariance == Spec => []IInv
  <1>1. Init => IInv
    BY FreshIInv DEF Init
  <1>2. IInv /\ [Next]_vars => IInv'
    <2> SUFFICES ASSUME IInv, [Next]_vars PROVE IInv'
      OBVIOUS
    <2>1. CASE Next
      BY <2>1, BootStep, EndsStep, TopStep, ChooseStep, PauseStep, UseStep,
         TunnelStep, TickStep DEF Next, Loop
    <2>2. CASE UNCHANGED vars
      BY <2>2 DEF vars, IInv, LoopType, PhaseInv, CoolInv, RowInv, Scanning,
                  CooldownRespected, NoTryTooMany, Fresh
    <2> QED
      BY <2>1, <2>2
  <1> QED
    BY <1>1, <1>2, PTL DEF Spec

\* No WireGuard tunnel that was scanned for runs over a gateway on cooldown.
THEOREM CooldownHolds == Spec => []CooldownRespected
  BY Invariance, PTL DEF IInv

\* No gateway is tried more than MaxFails times in a row without a Cooldown.
THEOREM TriesAreBounded == Spec => []NoTryTooMany
  BY Invariance, PTL DEF IInv

\* The file stays what saves have made of it, across sessions and kills.
THEOREM FileInvariance == Spec => [](IInv /\ FileInv)
  <1>1. Init => FileInv
    <2>1. <<>> \in Seq(Entry)
      OBVIOUS
    <2> SUFFICES ASSUME Init PROVE FileInv
      OBVIOUS
    <2>2. PICK p \in Peer \cup {NoPeer} :
            file = [peer |-> p, carrier |-> Unnamed, recent |-> <<>>]
      BY DEF Init, NoFile
    <2> QED
      BY <2>1, <2>2 DEF FileInv
  <1>2. IInv /\ FileInv /\ [Next]_vars => FileInv'
    BY FileStep
  <1> QED
    BY <1>1, <1>2, Invariance, PTL DEF Spec

\* Every variable of the supervisor, and the file, keeps its type.
THEOREM TypeCorrect == Spec => []TypeOK
  <1>1. IInv /\ FileInv => TypeOK
    <2> SUFFICES ASSUME IInv, FileInv PROVE TypeOK
      OBVIOUS
    <2>1. /\ file.peer \in Peer \cup {NoPeer} /\ file.recent \in Seq(Entry)
          /\ file.carrier \in Carrier \cup {Unnamed}
      BY DEF FileInv
    <2>2. row \in Nat
      BY DEF IInv, LoopType
    <2> QED
      BY <2>1, <2>2 DEF IInv, LoopType, TypeOK
  <1> QED
    BY <1>1, FileInvariance, PTL

\* The ring of remembered gateways is led by the newest, has each once and
\* keeps within RecentCap, and all of it was saved on the carrier that the
\* file names, after any sequence of sessions, failed saves and kills.
THEOREM RingIsSound == Spec => []RingSound
  BY FileIsSound, FileInvariance, PTL
=============================================================================
