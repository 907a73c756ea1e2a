--------------------------- MODULE NetstackProofs ---------------------------
(***************************************************************************)
(* The stack for any connections, any buffers and any channel capacities:  *)
(* no buffer grows past its limit, a client that is told its answer is     *)
(* complete has all of it (IInv), no unit of a request is lost, and its    *)
(* end does not overtake it (RInv, which needs what Held computes).        *)
(***************************************************************************)
EXTENDS Netstack, RecursionTheorems, TLAPS

USE NetstackAssumption DEF taskVars, relayVars, chanVars, ghosts

\* A connection is opened once: before that nothing is known of it, and what
\* remains afterwards are the chunks of its relay.
Once ==
  \A c \in Conn :
    /\ ~Live(c) => conn[c].rx = 0 /\ ~conn[c].established /\ ~conn[c].aborted
    /\ call[c] = "idle" \/ c \in cmds =>
         ~Live(c) /\ relay[c] = "none" /\ conn[c].app = 0 /\ downOwed[c] = 0
    /\ relay[c] # "none" => call[c] = "ok"
    /\ relay[c] = "eof" => ~Live(c)
    /\ c \in cmds => call[c] # "idle"

\* Until the stack has found it established, a socket is only connecting,
\* connected, or closed by the far end; an aborted one is cut.
Early ==
  \A c \in Conn :
    /\ conn[c].sock = "synsent" => conn[c].rx = 0 /\ ~conn[c].established
    /\ ~conn[c].established =>
         conn[c].sock \in {"none", "synsent", "established", "closewait", "closed"}
    /\ ~conn[c].established /\ conn[c].sock = "closed" => cut[c] # "no"
    /\ conn[c].aborted => cut[c] # "no"

\* The answer's half of Conserved, and what of it outlives the connection.
Answered ==
  \A c \in Conn : ~AppGone(c) =>
    /\ Live(c) => downOwed[c] = conn[c].app + conn[c].rx
    /\ ~Live(c) /\ cut[c] = "no" => downOwed[c] = conn[c].app

IInv == TypeOK /\ Once /\ Early /\ Answered /\ AnswerWhole

-----------------------------------------------------------------------------
(* What the parts of a pass do with one connection.                        *)

LEMMA MinBounds ==
  ASSUME NEW a \in Nat, NEW b \in Nat
  PROVE  Min2(a, b) \in Nat /\ Min2(a, b) <= a /\ Min2(a, b) <= b
         /\ (a <= b => Min2(a, b) = a)
  BY DEF Min2

LEMMA ClosedType == ASSUME NEW st \in TcpState PROVE Closed(st) \in TcpState
  BY DEF Closed, TcpState

LEMMA FlushedType ==
  ASSUME NEW k \in ConnState
  PROVE  /\ Flushed(k) \in ConnState /\ Flushed(k).rx = k.rx
         /\ Flushed(k).app = k.app /\ Flushed(k).sock = k.sock
         /\ Flushed(k).aborted = k.aborted /\ Flushed(k).established = k.established
<1>1. k.pending \in 0 .. MaxPending /\ k.tx \in 0 .. TxBuf BY DEF ConnState
<1>2. CASE k.sock \in {"established", "closewait"} /\ k.tx < TxBuf
  <2> DEFINE n == Min2(k.pending, TxBuf - k.tx)
  <2>0. k.pending \in Nat /\ TxBuf - k.tx \in Nat BY <1>1, <1>2
  <2>1. n \in Nat /\ n <= k.pending /\ n <= TxBuf - k.tx BY <2>0, MinBounds, Zenon
  <2>2. k.tx + n \in 0 .. TxBuf /\ k.pending - n \in 0 .. MaxPending BY <1>1, <2>1
  <2>3. Flushed(k) = [k EXCEPT !.tx = k.tx + n, !.pending = k.pending - n]
        BY <1>2 DEF Flushed
  <2> HIDE DEF n
  <2> QED BY <2>2, <2>3 DEF ConnState
<1>3. CASE ~(k.sock \in {"established", "closewait"} /\ k.tx < TxBuf)
      BY <1>3 DEF Flushed
<1> QED BY <1>2, <1>3

LEMMA HalfClosedType ==
  ASSUME NEW k \in ConnState
  PROVE  /\ HalfClosed(k) \in ConnState /\ HalfClosed(k).rx = k.rx
         /\ HalfClosed(k).app = k.app /\ HalfClosed(k).aborted = k.aborted
         /\ HalfClosed(k).established = k.established
         /\ HalfClosed(k).sock \in {k.sock, Closed(k.sock)}
  BY ClosedType DEF HalfClosed, ConnState

LEMMA DeliveredType ==
  ASSUME NEW k \in ConnState
  PROVE  /\ Delivered(k) \in ConnState
         /\ Delivered(k).app + Delivered(k).rx = k.app + k.rx
         /\ k.app + k.rx <= AppQueue => Delivered(k).rx = 0
         /\ Delivered(k).sock = k.sock /\ Delivered(k).aborted = k.aborted
         /\ Delivered(k).established = k.established
<1> DEFINE n == Min2(k.rx, AppQueue - k.app)
<1>1. k.rx \in 0 .. RxBuf /\ k.app \in 0 .. AppQueue BY DEF ConnState
<1>2. /\ n \in Nat /\ n <= k.rx /\ n <= AppQueue - k.app
      /\ k.rx <= AppQueue - k.app => n = k.rx
  <2>1. k.rx \in Nat /\ AppQueue - k.app \in Nat BY <1>1
  <2> QED BY <2>1, MinBounds, Zenon
<1>3. k.rx - n \in 0 .. RxBuf /\ k.app + n \in 0 .. AppQueue BY <1>1, <1>2
<1>4. Delivered(k) = [k EXCEPT !.rx = k.rx - n, !.app = k.app + n] BY DEF Delivered
<1> HIDE DEF n
<1>5. /\ Delivered(k) \in ConnState
      /\ Delivered(k).rx = k.rx - n /\ Delivered(k).app = k.app + n
      /\ Delivered(k).sock = k.sock /\ Delivered(k).aborted = k.aborted
      /\ Delivered(k).established = k.established
      BY <1>3, <1>4 DEF ConnState
<1> QED BY <1>1, <1>2, <1>5

LEMMA OrphanedType ==
  ASSUME NEW k \in ConnState
  PROVE  /\ Orphaned(k) \in ConnState /\ Orphaned(k).rx = k.rx
         /\ Orphaned(k).established = k.established
         /\ Orphaned(k).sock \in {"closed", Closed(k.sock)}
  BY ClosedType DEF Orphaned, ConnState, TcpState

LEMMA RemovedType ==
  ASSUME NEW k \in ConnState
  PROVE  /\ Removed(k) \in ConnState /\ Removed(k).sock = "none"
         /\ Removed(k).rx = 0 /\ Removed(k).app = k.app
         /\ ~Removed(k).established /\ ~Removed(k).aborted
<1>1. k.app \in 0 .. AppQueue BY DEF ConnState
<1>2. Removed(k) = [sock |-> "none", established |-> FALSE, due |-> FALSE,
                    half_closed |-> FALSE, orphan |-> "no", aborted |-> FALSE,
                    pending |-> 0, tx |-> 0, rx |-> 0, app |-> k.app]
      BY DEF Removed, Vacant
<1>3. 0 \in 0 .. MaxPending /\ 0 \in 0 .. TxBuf /\ 0 \in 0 .. RxBuf OBVIOUS
<1> QED BY <1>1, <1>2, <1>3 DEF ConnState, TcpState

LEMMA SettledType ==
  ASSUME NEW k \in ConnState
  PROVE  /\ Settled(k) \in ConnState
         /\ \/ Settled(k) = Removed(k)
            \/ /\ Settled(k).rx = k.rx /\ Settled(k).app = k.app
               /\ Settled(k).established = k.established
               /\ Settled(k).aborted = k.aborted
               /\ Settled(k).sock \in {k.sock, Closed(k.sock)}
<1>1. CASE k.aborted
  <2>1. Settled(k) = k BY <1>1 DEF Settled
  <2> QED BY <2>1
<1>2. CASE ~k.aborted /\ k.sock = "closewait"
  <2>1. Settled(k) = [k EXCEPT !.sock = Closed(k.sock)] BY <1>2 DEF Settled
  <2> QED BY <2>1, ClosedType DEF ConnState
<1>3. CASE ~k.aborted /\ k.sock \in {"closed", "timewait"}
  <2>1. Settled(k) = Removed(k) BY <1>3 DEF Settled
  <2> QED BY <2>1, RemovedType
<1>4. CASE ~k.aborted /\ k.sock \notin {"closewait", "closed", "timewait"}
  <2>1. Settled(k) = k BY <1>4 DEF Settled
  <2> QED BY <2>1
<1> QED BY <1>1, <1>2, <1>3, <1>4

-----------------------------------------------------------------------------
LEMMA IInvInit == Init => IInv
<1> SUFFICES ASSUME Init PROVE IInv
    OBVIOUS
<1>1. NoConn \in ConnState /\ SteadyConn \in ConnState
  <2>1. /\ 0 \in 0 .. MaxPending /\ 0 \in 0 .. TxBuf /\ 0 \in 0 .. RxBuf
        /\ 0 \in 0 .. AppQueue
        OBVIOUS
  <2>2. NoConn \in ConnState BY <2>1 DEF NoConn, Vacant, ConnState, TcpState
  <2> QED BY <2>2 DEF SteadyConn, ConnState, TcpState
<1>2. TypeOK
  <2>1. dataIn \in Seq(Message) /\ Len(dataIn) = 0 /\ deferred \in Seq(Message)
        /\ Len(deferred) = 0
        BY DEF Init
  <2>2. conn \in [Conn -> ConnState] BY <1>1 DEF Init
  <2>3. cut \in [Conn -> CutKind] BY DEF Init, CutKind
  <2>4. running \in BOOLEAN /\ inbound \in BOOLEAN /\ fin \in [Conn -> BOOLEAN]
        BY Zenon DEF Init
  <2>5. upOwed \in [Conn -> Int] /\ downOwed \in [Conn -> Int] /\ cmds \in SUBSET Conn
        BY DEF Init
  <2>6. /\ call \in [Conn -> {"idle", "waiting", "abandoned", "ok", "failed"}]
        /\ relay \in [Conn -> {"none", "both", "down", "eof", "over"}]
        BY DEF Init
  <2> QED BY <2>1, <2>2, <2>3, <2>4, <2>5, <2>6 DEF TypeOK
<1>3. /\ NoConn.sock = "none" /\ NoConn.rx = 0 /\ NoConn.app = 0
      /\ ~NoConn.established /\ ~NoConn.aborted
      /\ SteadyConn.sock = "established" /\ SteadyConn.rx = 0 /\ SteadyConn.app = 0
      /\ SteadyConn.established /\ ~SteadyConn.aborted
      BY DEF NoConn, Vacant, SteadyConn
<1>4. Once BY <1>3 DEF Init, Once, Live
<1>5. Early BY <1>3 DEF Init, Early
<1>6. Answered BY <1>3 DEF Init, Answered, Live
<1>7. AnswerWhole BY DEF Init, AnswerWhole
<1> QED BY <1>2, <1>4, <1>5, <1>6, <1>7 DEF IInv

(* A step that changes only the connection c, the relay's and the caller's *)
(* state of c, and its ghosts: what holds of the others goes on to hold.   *)

\* The parts of the invariant, for one connection.
OnceOf(c) ==
  /\ ~Live(c) => conn[c].rx = 0 /\ ~conn[c].established /\ ~conn[c].aborted
  /\ call[c] = "idle" \/ c \in cmds =>
       ~Live(c) /\ relay[c] = "none" /\ conn[c].app = 0 /\ downOwed[c] = 0
  /\ relay[c] # "none" => call[c] = "ok"
  /\ relay[c] = "eof" => ~Live(c)
  /\ c \in cmds => call[c] # "idle"

EarlyOf(c) ==
  /\ conn[c].sock = "synsent" => conn[c].rx = 0 /\ ~conn[c].established
  /\ ~conn[c].established =>
       conn[c].sock \in {"none", "synsent", "established", "closewait", "closed"}
  /\ ~conn[c].established /\ conn[c].sock = "closed" => cut[c] # "no"
  /\ conn[c].aborted => cut[c] # "no"

AnsweredOf(c) ==
  /\ ~AppGone(c) =>
       /\ Live(c) => downOwed[c] = conn[c].app + conn[c].rx
       /\ ~Live(c) /\ cut[c] = "no" => downOwed[c] = conn[c].app
  /\ relay[c] = "eof" /\ fin[c] /\ cut[c] = "no" => downOwed[c] = 0

LEMMA Parts ==
  /\ Once <=> \A c \in Conn : OnceOf(c)
  /\ Early <=> \A c \in Conn : EarlyOf(c)
  /\ Answered /\ AnswerWhole <=> \A c \in Conn : AnsweredOf(c)
  BY DEF Once, Early, Answered, AnswerWhole, OnceOf, EarlyOf, AnsweredOf

LEMMA Local ==
  ASSUME IInv, NEW c \in Conn, TypeOK',
         \A d \in Conn \ {c} :
           /\ conn'[d] = conn[d] /\ call'[d] = call[d] /\ relay'[d] = relay[d]
           /\ downOwed'[d] = downOwed[d] /\ fin'[d] = fin[d] /\ cut'[d] = cut[d]
           /\ d \in cmds' => d \in cmds,
         OnceOf(c)', EarlyOf(c)', AnsweredOf(c)'
  PROVE  IInv'
<1>1. ASSUME NEW d \in Conn, d # c
      PROVE  OnceOf(d)' /\ EarlyOf(d)' /\ AnsweredOf(d)'
  <2>1. OnceOf(d) /\ EarlyOf(d) /\ AnsweredOf(d) BY Parts DEF IInv
  <2>2. OnceOf(d)' BY <1>1, <2>1 DEF OnceOf, Live
  <2>3. EarlyOf(d)' BY <1>1, <2>1 DEF EarlyOf
  <2>4. AnsweredOf(d)' BY <1>1, <2>1 DEF AnsweredOf, AppGone, Live
  <2> QED BY <2>2, <2>3, <2>4
<1>2. \A d \in Conn : OnceOf(d)' /\ EarlyOf(d)' /\ AnsweredOf(d)' BY <1>1
<1>3. Once' /\ Early' /\ Answered' /\ AnswerWhole'
      BY <1>2 DEF Once, Early, Answered, AnswerWhole, OnceOf, EarlyOf, AnsweredOf
<1> QED BY <1>3 DEF IInv

\* The invariant, of one connection.
LEMMA Of == ASSUME IInv, NEW c \in Conn PROVE OnceOf(c) /\ EarlyOf(c) /\ AnsweredOf(c)
  BY Parts DEF IInv

-----------------------------------------------------------------------------
(* Every action keeps the invariant.                                       *)

\* How the far end moves a socket on.
Moves(from, to) ==
  \/ from = "synsent" /\ to = "established"
  \/ from = "established" /\ to = "closewait"
  \/ from \in {"finwait1", "finwait2", "closing", "lastack"}
       /\ to \in {"closing", "timewait", "finwait2", "closed"}

LEMMA SockKeeps ==
  ASSUME IInv, NEW c \in Conn, Accepted(c) \/ Fin(c) \/ AcksFin(c)
  PROVE  IInv'
<1>1. PICK from \in TcpState, to \in TcpState : Sock(c, from, to) /\ Moves(from, to)
  <2> USE DEF Moves, TcpState
  <2>1. CASE Accepted(c) BY <2>1 DEF Accepted
  <2>2. CASE Fin(c) BY <2>2 DEF Fin
  <2>3. CASE AcksFin(c) BY <2>3 DEF AcksFin
  <2> QED BY <2>1, <2>2, <2>3
<1>2. /\ UNCHANGED <<taskVars, cmds, call, relay, dataIn, deferred, upOwed, downOwed, cut>>
      /\ fin' \in [Conn -> BOOLEAN] /\ \A d \in Conn \ {c} : fin'[d] = fin[d]
      BY DEF Accepted, Fin, AcksFin, IInv, TypeOK
<1>3. /\ conn' = [conn EXCEPT ![c].sock = to] /\ conn[c].sock = from
      /\ conn[c] \in ConnState
      BY <1>1 DEF Sock, IInv, TypeOK
<1>4. /\ conn'[c] \in ConnState /\ conn'[c].sock = to /\ conn'[c].rx = conn[c].rx
      /\ conn'[c].app = conn[c].app /\ conn'[c].established = conn[c].established
      /\ conn'[c].aborted = conn[c].aborted
      BY <1>3 DEF IInv, TypeOK, ConnState
<1>5. TypeOK' BY <1>2, <1>3, <1>4 DEF IInv, TypeOK
<1>6. OnceOf(c) /\ EarlyOf(c) /\ AnsweredOf(c) BY Of
<1>7. OnceOf(c)' BY <1>1, <1>2, <1>3, <1>4, <1>6 DEF OnceOf, Live, Moves
<1>8. EarlyOf(c)' BY <1>1, <1>2, <1>3, <1>4, <1>6 DEF EarlyOf, Moves
<1>9. AnsweredOf(c)'
  <2>1. Live(c) /\ Live(c)' /\ (AppGone(c) <=> AppGone(c)') /\ relay'[c] # "eof"
        BY <1>1, <1>2, <1>3, <1>4, <1>6 DEF OnceOf, Live, AppGone, Moves
  <2> QED BY <1>2, <1>4, <1>6, <2>1 DEF AnsweredOf
<1> QED BY <1>2, <1>3, <1>5, <1>7, <1>8, <1>9, Local DEF IInv, TypeOK

\* Data and acknowledgements arrive, the connection is reset, a clock is due:
\* steps of an open connection that the relay does not see.
LEMMA ArrivesKeeps == ASSUME IInv, NEW c \in Conn, Arrives(c) PROVE IInv'
<1>1. /\ conn' = [conn EXCEPT ![c].rx = conn[c].rx + 1] /\ conn[c].rx < RxBuf
      /\ conn[c].sock \in {"established", "finwait1", "finwait2"}
      /\ downOwed' = [downOwed EXCEPT ![c] = downOwed[c] + 1]
      /\ UNCHANGED <<taskVars, cmds, call, relay, dataIn, deferred, upOwed, fin, cut>>
      BY DEF Arrives
<1>2. conn[c] \in ConnState /\ conn[c].rx \in 0 .. RxBuf /\ conn[c].app \in 0 .. AppQueue
      /\ downOwed[c] \in Int
      BY DEF IInv, TypeOK, ConnState
<1>3. conn[c].rx + 1 \in 0 .. RxBuf BY <1>1, <1>2
<1>4. /\ conn'[c] \in ConnState /\ conn'[c].rx = conn[c].rx + 1
      /\ conn'[c].sock = conn[c].sock /\ conn'[c].app = conn[c].app
      /\ conn'[c].established = conn[c].established /\ conn'[c].aborted = conn[c].aborted
      BY <1>1, <1>2, <1>3 DEF IInv, TypeOK, ConnState
<1>5. TypeOK' BY <1>1, <1>4 DEF IInv, TypeOK
<1>6. OnceOf(c) /\ EarlyOf(c) /\ AnsweredOf(c) BY Of
<1>7. OnceOf(c)' BY <1>1, <1>4, <1>6 DEF OnceOf, Live
<1>8. EarlyOf(c)' BY <1>1, <1>4, <1>6 DEF EarlyOf
<1>9. AnsweredOf(c)'
  <2>1. /\ Live(c) /\ Live(c)' /\ (AppGone(c) <=> AppGone(c)') /\ relay'[c] # "eof"
        /\ downOwed'[c] = downOwed[c] + 1
        BY <1>1, <1>4, <1>6 DEF OnceOf, Live, AppGone, IInv, TypeOK
  <2> QED BY <1>2, <1>4, <1>6, <2>1 DEF AnsweredOf
<1> QED BY <1>1, <1>5, <1>7, <1>8, <1>9, Local DEF IInv, TypeOK

\* A step that leaves the answer, the socket's state and the callers alone.
Aside(c) ==
  /\ UNCHANGED <<cmds, call, downOwed, fin>>
  /\ \A d \in Conn \ {c} :
       conn'[d] = conn[d] /\ relay'[d] = relay[d] /\ cut'[d] = cut[d]
  /\ \/ relay'[c] = relay[c]
     \/ relay[c] # "none" /\ relay'[c] = "over"
     \/ relay[c] = "both" /\ relay'[c] = "down"
  /\ cut[c] # "no" => cut'[c] # "no"
  /\ \/ conn'[c].sock = conn[c].sock
     \/ Live(c) /\ conn'[c].sock = "closed" /\ cut'[c] # "no"
  /\ conn'[c].app = conn[c].app \/ relay'[c] = "over"
  /\ conn'[c].rx = conn[c].rx /\ conn'[c].established = conn[c].established
  /\ conn'[c].aborted = conn[c].aborted

LEMMA AsideKeeps ==
  ASSUME IInv, NEW c \in Conn, TypeOK', Aside(c)
  PROVE  IInv'
<1> USE DEF Aside
<1>1. OnceOf(c) /\ EarlyOf(c) /\ AnsweredOf(c) BY Of
<1>2. OnceOf(c)' BY <1>1 DEF OnceOf, Live
<1>3. EarlyOf(c)' BY <1>1 DEF EarlyOf, Live
<1>4. AnsweredOf(c)'
  <2>1. AppGone(c) => AppGone(c)' BY DEF AppGone
  <2>2. Live(c) <=> Live(c)' BY DEF Live
  <2> QED BY <1>1, <2>1, <2>2 DEF AnsweredOf, AppGone
<1> QED BY <1>2, <1>3, <1>4, Local

LEMMA OpenAsideKeeps ==
  ASSUME IInv, NEW c \in Conn, Acks(c) \/ Resets(c) \/ ConnectDue(c) \/ OrphanDue(c)
  PROVE  IInv'
<1>1. conn[c] \in ConnState /\ cut \in [Conn -> CutKind] /\ upOwed \in [Conn -> Int]
      /\ conn \in [Conn -> ConnState]
      BY DEF IInv, TypeOK
<1>2. /\ UNCHANGED <<taskVars, cmds, call, relay, dataIn, deferred, downOwed, fin>>
      /\ cut' \in [Conn -> CutKind] /\ upOwed' \in [Conn -> Int]
      /\ \A d \in Conn \ {c} : conn'[d] = conn[d] /\ cut'[d] = cut[d]
      /\ cut[c] # "no" => cut'[c] # "no"
  <2>1. CASE Acks(c) BY <1>1, <2>1 DEF Acks
  <2>2. CASE Resets(c) BY <1>1, <2>2 DEF Resets, CutKind
  <2>3. CASE ConnectDue(c) BY <1>1, <2>3 DEF ConnectDue
  <2>4. CASE OrphanDue(c) BY <1>1, <2>4 DEF OrphanDue
  <2> QED BY <2>1, <2>2, <2>3, <2>4
<1>3. CASE Acks(c)
  <2>1. conn[c].tx - 1 \in 0 .. TxBuf BY <1>1, <1>3 DEF Acks, ConnState
  <2>2. /\ conn' \in [Conn -> ConnState] /\ conn'[c].sock = conn[c].sock
        /\ conn'[c].rx = conn[c].rx /\ conn'[c].app = conn[c].app
        /\ conn'[c].established = conn[c].established
        /\ conn'[c].aborted = conn[c].aborted
        BY <1>1, <1>3, <2>1 DEF Acks, ConnState
  <2>3. TypeOK' BY <1>2, <2>2 DEF IInv, TypeOK
  <2>4. Aside(c) BY <1>2, <2>2 DEF Aside
  <2> QED BY <2>3, <2>4, AsideKeeps
<1>4. CASE Resets(c)
  <2>1. /\ conn' \in [Conn -> ConnState] /\ Live(c) /\ conn'[c].sock = "closed"
        /\ cut'[c] # "no"
        /\ conn'[c].rx = conn[c].rx /\ conn'[c].app = conn[c].app
        /\ conn'[c].established = conn[c].established
        /\ conn'[c].aborted = conn[c].aborted
        BY <1>1, <1>4 DEF Resets, ConnState, TcpState, Live
  <2>2. TypeOK' BY <1>2, <2>1 DEF IInv, TypeOK
  <2>3. Aside(c) BY <1>2, <2>1 DEF Aside
  <2> QED BY <2>2, <2>3, AsideKeeps
<1>5. CASE ConnectDue(c) \/ OrphanDue(c)
  <2>1. /\ conn' \in [Conn -> ConnState] /\ conn'[c].sock = conn[c].sock
        /\ conn'[c].rx = conn[c].rx /\ conn'[c].app = conn[c].app
        /\ conn'[c].established = conn[c].established
        /\ conn'[c].aborted = conn[c].aborted
    <3>1. CASE ConnectDue(c) BY <1>1, <3>1 DEF ConnectDue, ConnState
    <3>2. CASE OrphanDue(c) BY <1>1, <3>2 DEF OrphanDue, ConnState
    <3> QED BY <1>5, <3>1, <3>2
  <2>2. TypeOK' BY <1>2, <2>1 DEF IInv, TypeOK
  <2>3. Aside(c) BY <1>2, <2>1 DEF Aside
  <2> QED BY <2>2, <2>3, AsideKeeps
<1> QED BY <1>3, <1>4, <1>5
-----------------------------------------------------------------------------
\* A caller opens a connection, gives it up, or is told that it failed.
LEMMA OpenKeeps == ASSUME IInv, NEW c \in Conn, Open(c) PROVE IInv'
<1>1. /\ call[c] = "idle" /\ call'[c] # "idle" /\ call'[c] # "abandoned"
      /\ \A d \in Conn \ {c} : call'[d] = call[d] /\ (d \in cmds' => d \in cmds)
      /\ call' \in [Conn -> {"idle", "waiting", "abandoned", "ok", "failed"}]
      /\ cmds' \in SUBSET Conn
      /\ UNCHANGED <<taskVars, conn, relay, dataIn, deferred, upOwed, downOwed, fin, cut>>
      BY DEF Open, IInv, TypeOK
<1>2. TypeOK' BY <1>1 DEF IInv, TypeOK
<1>3. OnceOf(c) /\ EarlyOf(c) /\ AnsweredOf(c) BY Of
<1>4. OnceOf(c)' BY <1>1, <1>3 DEF OnceOf, Live
<1>5. EarlyOf(c)' BY <1>1, <1>3 DEF EarlyOf
<1>6. AnsweredOf(c)' BY <1>1, <1>3 DEF AnsweredOf, OnceOf, AppGone, Live
<1> QED BY <1>1, <1>2, <1>4, <1>5, <1>6, Local

LEMMA AbandonKeeps == ASSUME IInv, NEW c \in Conn, Abandon(c) PROVE IInv'
<1>1. /\ call[c] = "waiting" /\ call'[c] = "abandoned"
      /\ \A d \in Conn \ {c} : call'[d] = call[d]
      /\ call' \in [Conn -> {"idle", "waiting", "abandoned", "ok", "failed"}]
      /\ UNCHANGED <<taskVars, conn, cmds, relay, dataIn, deferred, upOwed, downOwed,
                     fin, cut>>
      BY DEF Abandon, IInv, TypeOK
<1>2. TypeOK' BY <1>1 DEF IInv, TypeOK
<1>3. OnceOf(c) /\ EarlyOf(c) /\ AnsweredOf(c) BY Of
<1>4. OnceOf(c)' BY <1>1, <1>3 DEF OnceOf, Live
<1>5. EarlyOf(c)' BY <1>1, <1>3 DEF EarlyOf
<1>6. AnsweredOf(c)' BY <1>1, <1>3 DEF AnsweredOf, AppGone
<1> QED BY <1>1, <1>2, <1>4, <1>5, <1>6, Local

\* What an answer does with the caller's state.
LEMMA AnswerType ==
  ASSUME TypeOK, NEW c \in Conn, NEW a \in {"ok", "failed"}, call' = Answer(c, a)
  PROVE  /\ call' \in [Conn -> {"idle", "waiting", "abandoned", "ok", "failed"}]
         /\ \A d \in Conn \ {c} : call'[d] = call[d]
         /\ call'[c] = IF call[c] = "waiting" THEN a ELSE call[c]
  BY DEF TypeOK, Answer

LEMMA HandleCmdKeeps == ASSUME IInv, NEW c \in Conn, HandleCmd(c) PROVE IInv'
<1>1. /\ c \in cmds /\ c \notin cmds' /\ cmds' \in SUBSET Conn
      /\ \A d \in Conn : d \in cmds' => d \in cmds
      /\ UNCHANGED <<taskVars, relay, dataIn, deferred, upOwed, downOwed, fin, cut>>
      BY DEF HandleCmd, IInv, TypeOK
<1>2. OnceOf(c) /\ EarlyOf(c) /\ AnsweredOf(c) BY Of
<1>3. /\ conn[c] \in ConnState /\ conn[c].rx = 0 /\ conn[c].app = 0 /\ ~Live(c)
      /\ ~conn[c].established /\ ~conn[c].aborted /\ call[c] # "idle"
      /\ relay[c] = "none" /\ downOwed[c] = 0
      BY <1>1, <1>2 DEF OnceOf, IInv, TypeOK
<1>4. CASE conn' = [conn EXCEPT ![c].sock = "synsent"] /\ call' = call
  <2>1. /\ conn' \in [Conn -> ConnState] /\ conn'[c].sock = "synsent"
        /\ conn'[c].rx = 0 /\ conn'[c].app = 0 /\ ~conn'[c].established
        /\ ~conn'[c].aborted /\ \A d \in Conn \ {c} : conn'[d] = conn[d]
        BY <1>3, <1>4 DEF IInv, TypeOK, ConnState, TcpState
  <2>2. TypeOK' BY <1>1, <1>4, <2>1 DEF IInv, TypeOK
  <2>3. OnceOf(c)' BY <1>1, <1>3, <1>4, <2>1 DEF OnceOf, Live
  <2>4. EarlyOf(c)' BY <2>1 DEF EarlyOf
  <2>5. AnsweredOf(c)' BY <1>1, <1>3, <2>1 DEF AnsweredOf, Live
  <2> QED BY <1>1, <1>4, <2>1, <2>2, <2>3, <2>4, <2>5, Local
<1>5. CASE call' = Answer(c, "failed") /\ conn' = conn
  <2>1. /\ call' \in [Conn -> {"idle", "waiting", "abandoned", "ok", "failed"}]
        /\ \A d \in Conn \ {c} : call'[d] = call[d]
        /\ call'[c] = IF call[c] = "waiting" THEN "failed" ELSE call[c]
        BY <1>5, AnswerType DEF IInv
  <2>2. TypeOK' BY <1>1, <1>5, <2>1 DEF IInv, TypeOK
  <2>3. OnceOf(c)' BY <1>1, <1>2, <1>3, <1>5, <2>1 DEF OnceOf, Live
  <2>4. EarlyOf(c)' BY <1>1, <1>2, <1>5 DEF EarlyOf
  <2>5. AnsweredOf(c)' BY <1>1, <1>3, <1>5 DEF AnsweredOf, Live
  <2> QED BY <1>1, <1>5, <2>1, <2>2, <2>3, <2>4, <2>5, Local
<1> QED BY <1>4, <1>5 DEF HandleCmd

-----------------------------------------------------------------------------
(* A pass over one connection.                                             *)

LEMMA ServeAbortedKeeps == ASSUME IInv, NEW c \in Conn, ServeAborted(c) PROVE IInv'
<1>1. /\ conn[c].aborted /\ conn' = [conn EXCEPT ![c] = Removed(conn[c])]
      /\ UNCHANGED <<taskVars, cmds, call, relay, dataIn, deferred, downOwed, fin, cut>>
      /\ upOwed' = [upOwed EXCEPT ![c] = IF conn'[c].sock = "none" THEN 0 ELSE upOwed[c]]
      BY DEF ServeAborted, Forget
<1>2. conn \in [Conn -> ConnState] /\ conn[c] \in ConnState BY DEF IInv, TypeOK
<1>3. conn'[c] = Removed(conn[c]) /\ \A d \in Conn \ {c} : conn'[d] = conn[d]
      BY <1>1, <1>2
<1>4. /\ conn'[c] \in ConnState /\ conn'[c].sock = "none" /\ conn'[c].rx = 0
      /\ conn'[c].app = conn[c].app /\ ~conn'[c].established /\ ~conn'[c].aborted
      BY <1>2, <1>3, RemovedType
<1>5. conn' \in [Conn -> ConnState] BY <1>1, <1>2, <1>3, <1>4
<1>6. upOwed' \in [Conn -> Int] BY <1>1 DEF IInv, TypeOK
<1>7. TypeOK' BY <1>1, <1>5, <1>6 DEF IInv, TypeOK
<1>8. OnceOf(c) /\ EarlyOf(c) /\ AnsweredOf(c) BY Of
<1>9. OnceOf(c)' BY <1>1, <1>4, <1>8 DEF OnceOf, Live
<1>10. EarlyOf(c)' BY <1>4 DEF EarlyOf
<1>11. AnsweredOf(c)' BY <1>1, <1>4, <1>8 DEF AnsweredOf, EarlyOf, Live
<1> QED BY <1>1, <1>3, <1>7, <1>9, <1>10, <1>11, Local

LEMMA ServeConnectingKeeps ==
  ASSUME IInv, NEW c \in Conn, ServeConnecting(c) PROVE IInv'
<1>1. /\ Live(c) /\ ~conn[c].established /\ Unanswered(c)
      /\ conn' = [conn EXCEPT ![c] = Removed(conn[c])] /\ call' = Answer(c, "failed")
      /\ UNCHANGED <<taskVars, cmds, relay, dataIn, deferred, upOwed, downOwed, fin, cut>>
      BY DEF ServeConnecting
<1>2. conn \in [Conn -> ConnState] /\ conn[c] \in ConnState BY DEF IInv, TypeOK
<1>3. conn'[c] = Removed(conn[c]) /\ \A d \in Conn \ {c} : conn'[d] = conn[d]
      BY <1>1, <1>2
<1>4. /\ conn'[c] \in ConnState /\ conn'[c].sock = "none" /\ conn'[c].rx = 0
      /\ conn'[c].app = conn[c].app /\ ~conn'[c].established /\ ~conn'[c].aborted
      BY <1>2, <1>3, RemovedType
<1>5. conn' \in [Conn -> ConnState] BY <1>1, <1>2, <1>3, <1>4
<1>6. /\ call' \in [Conn -> {"idle", "waiting", "abandoned", "ok", "failed"}]
      /\ \A d \in Conn \ {c} : call'[d] = call[d]
      /\ call'[c] = IF call[c] = "waiting" THEN "failed" ELSE call[c]
      BY <1>1, AnswerType DEF IInv
<1>7. TypeOK' BY <1>1, <1>5, <1>6 DEF IInv, TypeOK
<1>8. OnceOf(c) /\ EarlyOf(c) /\ AnsweredOf(c) BY Of
<1>9. OnceOf(c)' BY <1>1, <1>4, <1>6, <1>8 DEF OnceOf, Live
<1>10. EarlyOf(c)' BY <1>4 DEF EarlyOf
<1>11. AnsweredOf(c)'
  <2>1. cut[c] # "no" \/ conn[c].rx = 0 BY <1>1, <1>8 DEF EarlyOf, Unanswered
  <2>2. AppGone(c) <=> AppGone(c)' BY <1>1, <1>6 DEF AppGone
  <2>3. conn[c].app \in Int BY <1>2 DEF ConnState
  <2>4. conn[c].rx = 0 => conn[c].app + conn[c].rx = conn[c].app BY <2>3
  <2>5. ~Live(c)' BY <1>4 DEF Live
  <2> QED BY <1>1, <1>4, <1>8, <2>1, <2>2, <2>4, <2>5 DEF AnsweredOf
<1> QED BY <1>1, <1>3, <1>6, <1>7, <1>9, <1>10, <1>11, Local

\* The channel of the relays' messages takes one more.
LEMMA AppendType ==
  ASSUME TypeOK, NEW m \in Message, Len(dataIn) < DataCap
  PROVE  Append(dataIn, m) \in Seq(Message) /\ Len(Append(dataIn, m)) <= DataCap
  BY DEF TypeOK

LEMMA TrySendCloseType ==
  ASSUME TypeOK, NEW c \in Conn
  PROVE  TrySendClose(c) \in Seq(Message) /\ Len(TrySendClose(c)) <= DataCap
<1>1. [id |-> c, size |-> 0] \in Message BY DEF Message
<1>2. CASE Len(dataIn) < DataCap BY <1>1, <1>2, AppendType DEF TrySendClose
<1>3. CASE ~(Len(dataIn) < DataCap) BY <1>3 DEF TrySendClose, TypeOK
<1> QED BY <1>2, <1>3

\* What the pass makes of an open connection k; gone tells whether its relay
\* is.
Pass(k, gone) ==
  Settled(LET h == HalfClosed(Flushed([k EXCEPT !.established = TRUE, !.due = FALSE]))
          IN  IF gone THEN Orphaned(h) ELSE Delivered(h))

LEMMA PassType ==
  ASSUME NEW k \in ConnState, NEW gone \in BOOLEAN, k.sock # "synsent", k.sock # "none"
  PROVE  /\ Pass(k, gone) \in ConnState
         /\ Pass(k, gone).sock # "synsent"
         /\ Pass(k, gone).sock # "none" => Pass(k, gone).established
         /\ Pass(k, gone).sock = "none" =>
              /\ Pass(k, gone).rx = 0
              /\ ~Pass(k, gone).established /\ ~Pass(k, gone).aborted
         /\ ~gone =>
              /\ Pass(k, gone).sock # "none" =>
                   Pass(k, gone).app + Pass(k, gone).rx = k.app + k.rx
              /\ Pass(k, gone).sock = "none" /\ k.app + k.rx <= AppQueue =>
                   Pass(k, gone).app = k.app + k.rx
<1> DEFINE e == [k EXCEPT !.established = TRUE, !.due = FALSE]
           f == Flushed(e)
           h == HalfClosed(f)
           o == IF gone THEN Orphaned(h) ELSE Delivered(h)
<1>1. /\ e \in ConnState /\ e.established /\ e.sock = k.sock /\ e.rx = k.rx
      /\ e.app = k.app
      BY DEF ConnState
<1>2. Pass(k, gone) = Settled(o) BY DEF Pass
<1> HIDE DEF e
<1>3. /\ f \in ConnState /\ f.established = e.established /\ f.sock = e.sock
      /\ f.rx = e.rx /\ f.app = e.app
      BY <1>1, FlushedType, Zenon
<1> HIDE DEF f
<1>4. /\ h \in ConnState /\ h.established = f.established /\ h.rx = f.rx
      /\ h.app = f.app /\ h.sock \in {f.sock, Closed(f.sock)}
      BY <1>3, HalfClosedType, Zenon
<1>5. h.sock \notin {"synsent", "none"} BY <1>1, <1>3, <1>4 DEF Closed
<1> HIDE DEF h
<1>6. /\ o \in ConnState /\ o.established = h.established
      /\ o.sock \in {h.sock, "closed", Closed(h.sock)}
      /\ ~gone => /\ o.app + o.rx = h.app + h.rx
                  /\ h.app + h.rx <= AppQueue => o.rx = 0
  <2>1. CASE gone BY <1>4, <2>1, OrphanedType
  <2>2. CASE ~gone BY <1>4, <2>2, DeliveredType
  <2> QED BY <2>1, <2>2
<1>7. o.sock \notin {"synsent", "none"} BY <1>5, <1>6 DEF Closed
<1> HIDE DEF o
<1>8. o.app \in Int /\ o.rx \in Int BY <1>6 DEF ConnState
<1>9. /\ Settled(o) \in ConnState
      /\ \/ Settled(o) = Removed(o)
         \/ /\ Settled(o).rx = o.rx /\ Settled(o).app = o.app
            /\ Settled(o).established = o.established
            /\ Settled(o).aborted = o.aborted
            /\ Settled(o).sock \in {o.sock, Closed(o.sock)}
      BY <1>6, SettledType
<1>10. CASE Settled(o) = Removed(o)
  <2>1. /\ Settled(o).sock = "none" /\ Settled(o).rx = 0 /\ Settled(o).app = o.app
        /\ ~Settled(o).established /\ ~Settled(o).aborted
        BY <1>6, <1>10, RemovedType
  <2>2. ~gone /\ k.app + k.rx <= AppQueue => Settled(o).app = k.app + k.rx
        BY <1>1, <1>3, <1>4, <1>6, <1>8, <2>1
  <2> QED BY <1>2, <1>9, <2>1, <2>2
<1>11. CASE Settled(o) # Removed(o)
  <2>1. Settled(o).sock \notin {"synsent", "none"} BY <1>7, <1>9, <1>11 DEF Closed
  <2>2. Settled(o).established BY <1>1, <1>3, <1>4, <1>6, <1>9, <1>11
  <2>3. ~gone => Settled(o).app + Settled(o).rx = k.app + k.rx
        BY <1>1, <1>3, <1>4, <1>6, <1>9, <1>11
  <2> QED BY <1>2, <1>9, <2>1, <2>2, <2>3
<1> QED BY <1>10, <1>11

LEMMA ServeOpenKeeps == ASSUME IInv, NEW c \in Conn, ServeOpen(c) PROVE IInv'
<1> DEFINE k == Pass(conn[c], AppGone(c))
<1>1. /\ conn \in [Conn -> ConnState] /\ conn[c] \in ConnState /\ AppGone(c) \in BOOLEAN
      /\ conn[c].app \in Int /\ conn[c].rx \in Int
      BY DEF IInv, TypeOK, AppGone, ConnState
<1>2. OnceOf(c) /\ EarlyOf(c) /\ AnsweredOf(c) BY Of
<1>3. conn[c].sock # "synsent" /\ conn[c].sock # "none"
      BY <1>2 DEF ServeOpen, OnceOf, EarlyOf, Live
<1>4. conn' = [conn EXCEPT ![c] = k] BY DEF ServeOpen, Pass
<1>5. /\ k \in ConnState /\ k.sock # "synsent"
      /\ k.sock # "none" => k.established
      /\ k.sock = "none" => k.rx = 0 /\ ~k.established /\ ~k.aborted
      /\ ~AppGone(c) =>
           /\ k.sock # "none" => k.app + k.rx = conn[c].app + conn[c].rx
           /\ k.sock = "none" /\ conn[c].app + conn[c].rx <= AppQueue =>
                k.app = conn[c].app + conn[c].rx
      BY <1>1, <1>3, PassType
<1> HIDE DEF k
<1>6. conn'[c] = k /\ conn' \in [Conn -> ConnState]
      /\ \A d \in Conn \ {c} : conn'[d] = conn[d]
      BY <1>1, <1>4, <1>5
<1>7. /\ call' \in [Conn -> {"idle", "waiting", "abandoned", "ok", "failed"}]
      /\ \A d \in Conn \ {c} : call'[d] = call[d]
      /\ call'[c] = IF call[c] = "waiting" THEN "ok" ELSE call[c]
      BY AnswerType DEF IInv, ServeOpen
<1>8. /\ relay' \in [Conn -> {"none", "both", "down", "eof", "over"}]
      /\ \A d \in Conn \ {c} : relay'[d] = relay[d]
      /\ relay'[c] = relay[c] \/ (call[c] = "waiting" /\ relay'[c] = "both")
      BY DEF IInv, TypeOK, ServeOpen
<1>9. dataIn' \in Seq(Message) /\ Len(dataIn') <= DataCap
  <2>1. dataIn' \in {dataIn, TrySendClose(c)} BY DEF ServeOpen
  <2> QED BY <2>1, TrySendCloseType DEF IInv, TypeOK
<1>10. /\ cut' \in [Conn -> CutKind] /\ \A d \in Conn \ {c} : cut'[d] = cut[d]
       /\ cut[c] # "no" => cut'[c] # "no"
       /\ conn'[c].aborted => cut'[c] # "no"
       /\ conn'[c].sock = "none" /\ conn[c].app + conn[c].rx > AppQueue => cut'[c] # "no"
  <2>1. conn'[c].aborted \in BOOLEAN BY <1>5, <1>6 DEF ConnState
  <2>2. cut' = [cut EXCEPT ![c] =
                  IF conn'[c].aborted THEN "reset"
                  ELSE IF cut[c] = "no" /\ conn'[c].sock = "none"
                            /\ conn[c].app + conn[c].rx > AppQueue THEN "full"
                  ELSE cut[c]]
        BY DEF ServeOpen
  <2>3. cut \in [Conn -> CutKind] BY DEF IInv, TypeOK
  <2> QED BY <2>1, <2>2, <2>3 DEF CutKind
<1>11. /\ UNCHANGED <<taskVars, cmds, deferred, downOwed, fin>>
       /\ upOwed' \in [Conn -> Int]
       BY DEF ServeOpen, Forget, IInv, TypeOK
<1>12. TypeOK' BY <1>6, <1>7, <1>8, <1>9, <1>10, <1>11 DEF IInv, TypeOK
<1>13. Live(c) /\ relay[c] # "eof" /\ call[c] # "idle" /\ c \notin cmds
       BY <1>2, <1>3 DEF OnceOf, Live
<1>14. OnceOf(c)'
       BY <1>2, <1>5, <1>6, <1>7, <1>8, <1>11, <1>13 DEF OnceOf, Live
<1>15. EarlyOf(c)'
  <2>1. conn'[c].sock # "synsent" /\ (conn'[c].established \/ conn'[c].sock = "none")
        BY <1>5, <1>6, Zenon
  <2>2. conn'[c].aborted => cut'[c] # "no" BY <1>10, Zenon
  <2> QED BY <2>1, <2>2, Zenon DEF EarlyOf
<1>16. AnsweredOf(c)'
  <2>1. AppGone(c) <=> AppGone(c)' BY <1>2, <1>7, <1>8, <1>13 DEF AppGone, OnceOf
  <2>2. relay'[c] # "eof" BY <1>8, <1>13
  <2>3. ~AppGone(c) => downOwed[c] = conn[c].app + conn[c].rx
        BY <1>2, <1>13 DEF AnsweredOf
  <2>4. conn'[c].sock = "none" /\ cut'[c] = "no" => conn[c].app + conn[c].rx <= AppQueue
        BY <1>1, <1>10
  <2> QED BY <1>5, <1>6, <1>11, <2>1, <2>2, <2>3, <2>4 DEF AnsweredOf, Live
<1> QED BY <1>6, <1>7, <1>8, <1>10, <1>11, <1>12, <1>14, <1>15, <1>16, Local

-----------------------------------------------------------------------------
(* The messages of the relays, and the end of the stack.                   *)

LEMMA HandlesKeeps ==
  ASSUME IInv, NEW d \in Message, TryHandleData(d),
         dataIn' \in Seq(Message), Len(dataIn') <= DataCap,
         UNCHANGED <<taskVars, cmds, relayVars, ghosts>>
  PROVE  IInv'
<1> DEFINE c == d.id
<1>1. c \in Conn /\ d.size \in 0 .. Chunk BY DEF Message
<1>2. /\ conn \in [Conn -> ConnState] /\ conn[c] \in ConnState
      /\ conn[c].pending \in 0 .. MaxPending
      BY <1>1 DEF IInv, TypeOK, ConnState
<1>3. deferred' \in Seq(Message) /\ Len(deferred') <= 1
  <2> DEFINE space == MaxPending - conn[c].pending
  <2>1. deferred' = IF Live(c) /\ d.size > space
                    THEN <<[d EXCEPT !.size = d.size - space]>> ELSE <<>>
        BY DEF TryHandleData, Left
  <2>2. CASE Live(c) /\ d.size > space
    <3>1. d.size - space \in 0 .. Chunk
      <4>1. space \in Nat /\ d.size \in Nat /\ d.size <= Chunk BY <1>1, <1>2
      <4> HIDE DEF space, c
      <4> QED BY <2>2, <4>1
    <3>2. [d EXCEPT !.size = d.size - space] \in Message BY <3>1 DEF Message
    <3> QED BY <2>1, <2>2, <3>2
  <2>3. CASE ~(Live(c) /\ d.size > space)
    <3>1. deferred' = <<>> BY <2>1, <2>3
    <3> QED BY <3>1
  <2> QED BY <2>2, <2>3
<1>4. /\ conn' \in [Conn -> ConnState] /\ \A e \in Conn \ {c} : conn'[e] = conn[e]
      /\ conn'[c].sock = conn[c].sock /\ conn'[c].app = conn[c].app
      /\ conn'[c].rx = conn[c].rx /\ conn'[c].established = conn[c].established
      /\ conn'[c].aborted = conn[c].aborted
  <2>1. CASE ~Live(c)
    <3>1. conn' = conn BY <2>1 DEF TryHandleData
    <3> QED BY <1>2, <3>1
  <2>2. CASE Live(c) /\ d.size = 0
    <3>1. conn' = [conn EXCEPT ![c].half_closed = TRUE] BY <2>2 DEF TryHandleData
    <3> QED BY <1>1, <1>2, <3>1 DEF ConnState
  <2>3. CASE Live(c) /\ d.size # 0
    <3> DEFINE p == Min2(conn[c].pending + d.size, MaxPending)
    <3>1. conn' = [conn EXCEPT ![c].pending = p] BY <2>3 DEF TryHandleData
    <3>2. conn[c].pending + d.size \in Nat /\ MaxPending \in Nat BY <1>1, <1>2
    <3>3. p \in Nat /\ p <= MaxPending BY <3>2 DEF Min2
    <3>4. p \in 0 .. MaxPending BY <3>3
    <3> HIDE DEF p
    <3> QED BY <1>1, <1>2, <3>1, <3>4 DEF ConnState
  <2> QED BY <2>1, <2>2, <2>3
<1>5. TypeOK' BY <1>3, <1>4 DEF IInv, TypeOK
<1>6. Aside(c) BY <1>4 DEF Aside
<1> HIDE DEF c
<1> QED BY <1>1, <1>5, <1>6, AsideKeeps

LEMMA DriverKeeps == ASSUME IInv, Driver PROVE IInv'
<1>1. CASE HandleData
  <2>1. /\ dataIn # <<>> /\ TryHandleData(Head(dataIn)) /\ dataIn' = Tail(dataIn)
        /\ UNCHANGED <<taskVars, cmds, relayVars, ghosts>>
        BY <1>1 DEF HandleData
  <2>2. dataIn \in Seq(Message) /\ Len(dataIn) <= DataCap BY DEF IInv, TypeOK
  <2>3. /\ Head(dataIn) \in Message /\ dataIn' \in Seq(Message)
        /\ Len(dataIn') <= DataCap
        BY <2>1, <2>2
  <2> QED BY <2>1, <2>3, HandlesKeeps
<1>2. CASE RetryDeferred
  <2>1. /\ deferred # <<>> /\ TryHandleData(Head(deferred)) /\ dataIn' = dataIn
        /\ UNCHANGED <<taskVars, cmds, relayVars, ghosts>>
        BY <1>2 DEF RetryDeferred
  <2>2. /\ deferred \in Seq(Message) /\ dataIn' \in Seq(Message)
        /\ Len(dataIn') <= DataCap
        BY <2>1 DEF IInv, TypeOK
  <2>3. Head(deferred) \in Message BY <2>1, <2>2
  <2> QED BY <2>1, <2>2, <2>3, HandlesKeeps
<1> QED BY <1>1, <1>2 DEF Driver

LEMMA StackEndsKeeps == ASSUME IInv, StackEnds PROVE IInv'
<1>1. /\ conn' = [c \in Conn |-> Removed(conn[c])] /\ cmds' = {}
      /\ call' = [c \in Conn |-> IF call[c] = "waiting" THEN "failed" ELSE call[c]]
      /\ dataIn' = <<>> /\ deferred' = <<>> /\ running' = FALSE /\ inbound' = FALSE
      /\ cut' = [c \in Conn |-> "reset"] /\ upOwed' = [c \in Conn |-> 0]
      /\ UNCHANGED <<relay, downOwed, fin>>
      BY DEF StackEnds
<1>2. \A c \in Conn : conn[c] \in ConnState BY DEF IInv, TypeOK
<1>3. \A c \in Conn :
        /\ conn'[c] \in ConnState /\ conn'[c].sock = "none" /\ conn'[c].rx = 0
        /\ conn'[c].app = conn[c].app /\ ~conn'[c].established /\ ~conn'[c].aborted
      BY <1>1, <1>2, RemovedType
<1>4. TypeOK'
  <2>1. conn' \in [Conn -> ConnState] BY <1>1, <1>3
  <2>2. call' \in [Conn -> {"idle", "waiting", "abandoned", "ok", "failed"}]
        BY <1>1 DEF IInv, TypeOK
  <2>3. /\ dataIn' \in Seq(Message) /\ Len(dataIn') = 0
        /\ deferred' \in Seq(Message) /\ Len(deferred') = 0
        BY <1>1
  <2>4. /\ cut' \in [Conn -> CutKind] /\ running' \in BOOLEAN /\ inbound' \in BOOLEAN
        /\ cmds' \in SUBSET Conn
        BY <1>1, Zenon DEF CutKind
  <2>5. upOwed' \in [Conn -> Int] BY <1>1
  <2>6. Len(dataIn') <= DataCap /\ Len(deferred') <= 1 BY <2>3
  <2> QED BY <1>1, <2>1, <2>2, <2>3, <2>4, <2>5, <2>6 DEF IInv, TypeOK
<1>5. ASSUME NEW c \in Conn PROVE OnceOf(c)' /\ EarlyOf(c)' /\ AnsweredOf(c)'
  <2>1. OnceOf(c) BY Of
  <2>2. OnceOf(c)' BY <1>1, <1>3, <2>1 DEF OnceOf, Live
  <2>3. EarlyOf(c)' BY <1>1, <1>3 DEF EarlyOf
  <2>4. AnsweredOf(c)' BY <1>1, <1>3 DEF AnsweredOf, Live
  <2> QED BY <2>2, <2>3, <2>4
<1>6. Once' /\ Early' /\ Answered' /\ AnswerWhole'
      BY <1>5 DEF Once, Early, Answered, AnswerWhole, OnceOf, EarlyOf, AnsweredOf
<1> QED BY <1>4, <1>6 DEF IInv

-----------------------------------------------------------------------------
(* The relay.                                                              *)

LEMMA UploadKeeps ==
  ASSUME IInv, NEW c \in Conn, UploadEnds(c) \/ \E n \in 1 .. Chunk : Upload(c, n)
  PROVE  IInv'
<1>1. /\ UNCHANGED <<taskVars, conn, cmds, call, deferred, downOwed, fin, cut>>
      /\ relay' \in [Conn -> {"none", "both", "down", "eof", "over"}]
      /\ \A d \in Conn \ {c} : relay'[d] = relay[d]
      /\ relay'[c] = relay[c] \/ (relay[c] = "both" /\ relay'[c] = "down")
      /\ upOwed' \in [Conn -> Int]
  <2>1. CASE UploadEnds(c) BY <2>1 DEF UploadEnds, IInv, TypeOK
  <2>2. CASE \E n \in 1 .. Chunk : Upload(c, n)
    <3>1. PICK n \in 1 .. Chunk : Upload(c, n) BY <2>2
    <3> QED BY <3>1 DEF Upload, IInv, TypeOK
  <2> QED BY <2>1, <2>2
<1>2. dataIn' \in Seq(Message) /\ Len(dataIn') <= DataCap
  <2>1. CASE UploadEnds(c)
    <3>1. [id |-> c, size |-> 0] \in Message BY DEF Message
    <3>2. CASE running BY <2>1, <3>1, <3>2, AppendType DEF UploadEnds, IInv
    <3>3. CASE ~running BY <2>1, <3>3 DEF UploadEnds, IInv, TypeOK
    <3> QED BY <3>2, <3>3
  <2>2. ASSUME NEW n \in 1 .. Chunk, Upload(c, n)
        PROVE  dataIn' \in Seq(Message) /\ Len(dataIn') <= DataCap
    <3>1. [id |-> c, size |-> n] \in Message BY DEF Message
    <3> QED BY <2>2, <3>1, AppendType DEF Upload, IInv
  <2> QED BY <2>1, <2>2
<1>3. TypeOK' BY <1>1, <1>2 DEF IInv, TypeOK
<1>4. Aside(c) BY <1>1 DEF Aside
<1> QED BY <1>3, <1>4, AsideKeeps

LEMMA DownloadKeeps == ASSUME IInv, NEW c \in Conn, Download(c) PROVE IInv'
<1>1. /\ conn' = [conn EXCEPT ![c].app = conn[c].app - 1] /\ conn[c].app > 0
      /\ relay[c] \in {"both", "down"}
      /\ downOwed' = [downOwed EXCEPT ![c] = downOwed[c] - 1]
      /\ UNCHANGED <<taskVars, cmds, call, relay, dataIn, deferred, upOwed, fin, cut>>
      BY DEF Download
<1>2. conn[c] \in ConnState /\ conn[c].rx \in 0 .. RxBuf /\ conn[c].app \in 0 .. AppQueue
      /\ downOwed[c] \in Int
      BY DEF IInv, TypeOK, ConnState
<1>3. conn[c].app - 1 \in 0 .. AppQueue BY <1>1, <1>2
<1>4. /\ conn'[c] \in ConnState /\ conn'[c].app = conn[c].app - 1
      /\ conn'[c].sock = conn[c].sock /\ conn'[c].rx = conn[c].rx
      /\ conn'[c].established = conn[c].established /\ conn'[c].aborted = conn[c].aborted
      /\ downOwed'[c] = downOwed[c] - 1
      BY <1>1, <1>2, <1>3 DEF IInv, TypeOK, ConnState
<1>5. TypeOK' BY <1>1, <1>4 DEF IInv, TypeOK
<1>6. OnceOf(c) /\ EarlyOf(c) /\ AnsweredOf(c) BY Of
<1>7. OnceOf(c)' BY <1>1, <1>4, <1>6 DEF OnceOf, Live
<1>8. EarlyOf(c)' BY <1>1, <1>4, <1>6 DEF EarlyOf
<1>9. AnsweredOf(c)'
  <2>1. (Live(c) <=> Live(c)') /\ (AppGone(c) <=> AppGone(c)') /\ relay'[c] # "eof"
        BY <1>1, <1>4 DEF Live, AppGone
  <2> QED BY <1>1, <1>2, <1>4, <1>6, <2>1 DEF AnsweredOf
<1> QED BY <1>1, <1>5, <1>7, <1>8, <1>9, Local DEF IInv, TypeOK

LEMMA RelayEndsType ==
  ASSUME IInv, NEW c \in Conn, NEW how \in {"eof", "over"}, RelayEnds(c, how)
  PROVE  /\ relay' \in [Conn -> {"none", "both", "down", "eof", "over"}]
         /\ relay'[c] = how /\ \A d \in Conn \ {c} : relay'[d] = relay[d]
         /\ dataIn' \in Seq(Message) /\ Len(dataIn') <= DataCap
<1>1. dataIn' \in {dataIn, TrySendClose(c)} BY DEF RelayEnds
<1>2. dataIn' \in Seq(Message) /\ Len(dataIn') <= DataCap
      BY <1>1, TrySendCloseType DEF IInv, TypeOK
<1> QED BY <1>2 DEF RelayEnds, IInv, TypeOK

LEMMA DownloadEndsKeeps == ASSUME IInv, NEW c \in Conn, DownloadEnds(c) PROVE IInv'
<1>1. PICK how \in {"eof", "over"} : RelayEnds(c, how) BY DEF DownloadEnds
<1>2. /\ relay[c] \in {"both", "down"} /\ conn[c].app = 0 /\ ~Live(c)
      /\ UNCHANGED <<taskVars, conn, cmds, call, deferred, upOwed, downOwed, fin, cut>>
      BY DEF DownloadEnds
<1>3. /\ relay' \in [Conn -> {"none", "both", "down", "eof", "over"}]
      /\ relay'[c] = how /\ \A d \in Conn \ {c} : relay'[d] = relay[d]
      /\ dataIn' \in Seq(Message) /\ Len(dataIn') <= DataCap
      BY <1>1, RelayEndsType
<1>4. TypeOK' BY <1>2, <1>3 DEF IInv, TypeOK
<1>5. OnceOf(c) /\ EarlyOf(c) /\ AnsweredOf(c) BY Of
<1>6. OnceOf(c)' BY <1>2, <1>3, <1>5 DEF OnceOf, Live
<1>7. EarlyOf(c)' BY <1>2, <1>5 DEF EarlyOf
<1>8. AnsweredOf(c)'
  <2>1. ~AppGone(c) BY <1>2, <1>5 DEF AppGone, OnceOf
  <2>2. AppGone(c)' BY <1>3 DEF AppGone
  <2> QED BY <1>2, <1>5, <2>1, <2>2 DEF AnsweredOf
<1> QED BY <1>2, <1>3, <1>4, <1>6, <1>7, <1>8, Local

LEMMA RelayOverKeeps == ASSUME IInv, NEW c \in Conn, RelayOver(c) PROVE IInv'
<1>1. /\ relay[c] \in {"both", "down"} /\ RelayEnds(c, "over")
      /\ conn' = [conn EXCEPT ![c].app = 0]
      /\ UNCHANGED <<taskVars, cmds, call, deferred, upOwed, downOwed, fin, cut>>
      BY DEF RelayOver
<1>2. /\ relay' \in [Conn -> {"none", "both", "down", "eof", "over"}]
      /\ relay'[c] = "over" /\ \A d \in Conn \ {c} : relay'[d] = relay[d]
      /\ dataIn' \in Seq(Message) /\ Len(dataIn') <= DataCap
      BY <1>1, RelayEndsType
<1>3. 0 \in 0 .. AppQueue /\ conn[c] \in ConnState /\ conn \in [Conn -> ConnState]
      BY DEF IInv, TypeOK
<1>4. /\ conn' \in [Conn -> ConnState] /\ \A d \in Conn \ {c} : conn'[d] = conn[d]
      /\ conn'[c].sock = conn[c].sock /\ conn'[c].rx = conn[c].rx
      /\ conn'[c].established = conn[c].established /\ conn'[c].aborted = conn[c].aborted
      BY <1>1, <1>3 DEF ConnState
<1>5. TypeOK' BY <1>1, <1>2, <1>4 DEF IInv, TypeOK
<1>6. Aside(c) BY <1>1, <1>2, <1>4 DEF Aside
<1> QED BY <1>5, <1>6, AsideKeeps

-----------------------------------------------------------------------------
LEMMA StepKeeps == IInv /\ [Next]_vars => IInv'
<1> SUFFICES ASSUME IInv, [Next]_vars PROVE IInv'
    OBVIOUS
<1>1. CASE Packets \/ UNCHANGED vars
  <2>1. /\ UNCHANGED <<running, conn, cmds, call, relay, dataIn, deferred, upOwed,
                       downOwed, fin, cut>>
        /\ inbound' \in {inbound, TRUE, FALSE}
        BY <1>1 DEF vars, Packets, PacketsCome, Ingest
  <2>2. TypeOK' BY <2>1 DEF IInv, TypeOK
  <2>3. Once' /\ Early' /\ Answered' /\ AnswerWhole'
        BY <2>1 DEF IInv, Once, Early, Answered, AnswerWhole, Live, AppGone
  <2> QED BY <2>2, <2>3 DEF IInv
<1>2. ASSUME NEW c \in Conn, FarEnd(c) PROVE IInv'
      BY <1>2, SockKeeps, ArrivesKeeps, OpenAsideKeeps DEF FarEnd
<1>3. ASSUME NEW c \in Conn, Open(c) \/ Abandon(c) \/ HandleCmd(c) PROVE IInv'
      BY <1>3, OpenKeeps, AbandonKeeps, HandleCmdKeeps
<1>4. ASSUME NEW c \in Conn, Clock(c) PROVE IInv'
      BY <1>4, OpenAsideKeeps DEF Clock
<1>5. ASSUME NEW c \in Conn, Service(c) PROVE IInv'
      BY <1>5, ServeAbortedKeeps, ServeConnectingKeeps, ServeOpenKeeps DEF Service
<1>6. ASSUME NEW c \in Conn, Relay(c) PROVE IInv'
      BY <1>6, DownloadKeeps, UploadKeeps, DownloadEndsKeeps, RelayOverKeeps DEF Relay
<1> QED BY <1>1, <1>2, <1>3, <1>4, <1>5, <1>6, DriverKeeps, StackEndsKeeps DEF Next

\* The inductive invariant holds of every reachable state.
THEOREM Invariance == Spec => []IInv
  BY IInvInit, StepKeeps, PTL DEF Spec

\* No buffer, no channel and no deferred message of the stack (netstack.rs)
\* grows past its limit, with any connections and any limits.
THEOREM TypeCorrect == Spec => []TypeOK
<1>1. IInv => TypeOK BY DEF IInv
<1> QED BY <1>1, Invariance, PTL

\* A client of relay_tunneled that has ended its request and is told that the
\* answer is complete has all of it, unless the connection was cut.
THEOREM AnswersAreWhole == Spec => []AnswerWhole
<1>1. IInv => AnswerWhole BY DEF IInv
<1> QED BY <1>1, Invariance, PTL

-----------------------------------------------------------------------------
(* What the messages of a channel hold.                                    *)

\* f adds up what the first messages of ch hold for c.
Sums(f, ch, c) ==
  /\ f[0] = 0
  /\ \A k \in 1 .. Len(ch) : f[k] = f[k - 1] + Part(ch[k], c)

LEMMA PartType == ASSUME NEW d \in Message, NEW c PROVE Part(d, c) \in Nat
  BY DEF Part, Message

\* There is such a function.
LEMMA SumsExist ==
  ASSUME NEW ch \in Seq(Message), NEW c
  PROVE  \E f \in [0 .. Len(ch) -> Nat] : Sums(f, ch, c)
<1> DEFINE n == Len(ch)
           R == Nat
           b == 0
           step == [k \in 1 .. n |-> [s \in R |-> s + Part(ch[k], c)]]
<1>1. n \in Nat /\ b \in R
      OBVIOUS
<1>2. \A k \in 1 .. n : Part(ch[k], c) \in Nat
      BY PartType
<1>3. step \in [1 .. n -> [R -> R]]
      BY <1>2
<1>4. PICK f \in [0 .. n -> R] :
        f[0] = b /\ \A k \in 1 .. n : f[k] = step[k][f[k - 1]]
  <2> HIDE DEF n, R, b, step
  <2> QED BY <1>1, <1>3, Recursion
<1>5. ASSUME NEW k \in 1 .. n PROVE f[k] = f[k - 1] + Part(ch[k], c)
  <2>1. k - 1 \in 0 .. n BY <1>1
  <2>2. f[k - 1] \in Nat BY <2>1
  <2> QED BY <1>4, <2>2
<1> QED BY <1>4, <1>5 DEF Sums

\* Two functions that add up the same messages agree.
LEMMA SumsUnique ==
  ASSUME NEW ch \in Seq(Message), NEW c, NEW f, NEW g, Sums(f, ch, c), Sums(g, ch, c)
  PROVE  \A k \in 0 .. Len(ch) : f[k] = g[k]
<1> DEFINE G == {k \in 0 .. Len(ch) : f[k] = g[k]}
<1>1. Len(ch) \in Nat OBVIOUS
<1>2. 0 \in G BY <1>1 DEF Sums
<1>3. ASSUME NEW m \in 1 .. Len(ch), m - 1 \in G PROVE m \in G
  <2>1. f[m - 1] = g[m - 1] BY <1>3
  <2>2. f[m] = g[m] BY <2>1 DEF Sums
  <2> QED BY <1>1, <2>2
<1>4. \A m \in 0 .. Len(ch) : m \in G
  <2> HIDE DEF G
  <2> QED BY <1>1, <1>2, <1>3, InductionUpTo
<1> QED BY <1>4

\* What Held computes.
LEMMA HeldIs ==
  ASSUME NEW ch \in Seq(Message), NEW c, NEW f, Sums(f, ch, c)
  PROVE  Held(ch, c) = f[Len(ch)]
<1> DEFINE n == Len(ch)
           Totals(f0) == [k \in 0 .. n |-> IF k = 0 THEN 0
                                           ELSE f0[k - 1] + Part(ch[k], c)]
           h == CHOOSE f0 : f0 = Totals(f0)
<1>1. n \in Nat OBVIOUS
<1>2. PICK g \in [0 .. n -> Nat] : Sums(g, ch, c) BY SumsExist
<1>3. g = Totals(g)
  <2>1. \A k \in 0 .. n : k # 0 => k \in 1 .. n BY <1>1
  <2>2. \A k \in 0 .. n : g[k] = Totals(g)[k] BY <1>2, <2>1 DEF Sums
  <2> QED BY <2>2, Zenon
<1>4. h = Totals(h)
  <2> HIDE DEF Totals
  <2> QED BY <1>3, Zenon
<1>5. Held(ch, c) = h[n] BY Zenon DEF Held
<1> HIDE DEF h
<1>6. Sums(h, ch, c)
  <2>1. h[0] = 0 BY <1>1, <1>4
  <2>2. ASSUME NEW k \in 1 .. n PROVE h[k] = h[k - 1] + Part(ch[k], c)
    <3>1. k \in 0 .. n /\ k # 0 BY <1>1
    <3> HIDE DEF n
    <3> QED BY <1>4, <3>1
  <2> QED BY <2>1, <2>2 DEF Sums
<1>7. \A k \in 0 .. n : f[k] = h[k] BY <1>6, SumsUnique
<1> QED BY <1>1, <1>5, <1>7

\* It is a number, 0 of no messages, grows by what is sent and shrinks by what
\* is taken.
LEMMA HeldNat == ASSUME NEW ch \in Seq(Message), NEW c PROVE Held(ch, c) \in Nat
<1>1. PICK f \in [0 .. Len(ch) -> Nat] : Sums(f, ch, c) BY SumsExist
<1>2. Len(ch) \in 0 .. Len(ch) OBVIOUS
<1>3. f[Len(ch)] \in Nat BY <1>2
<1> QED BY <1>1, <1>3, HeldIs

LEMMA HeldEmpty == ASSUME NEW c PROVE Held(<<>>, c) = 0
<1>1. <<>> \in Seq(Message) /\ Len(<<>>) = 0 OBVIOUS
<1>2. PICK f \in [0 .. Len(<<>>) -> Nat] : Sums(f, <<>>, c) BY <1>1, SumsExist
<1>3. Held(<<>>, c) = f[Len(<<>>)] BY <1>1, <1>2, HeldIs
<1> QED BY <1>1, <1>2, <1>3 DEF Sums

LEMMA HeldAppend ==
  ASSUME NEW ch \in Seq(Message), NEW d \in Message, NEW c
  PROVE  Held(Append(ch, d), c) = Held(ch, c) + Part(d, c)
<1> DEFINE n == Len(ch)
           e == Append(ch, d)
<1>1. /\ e \in Seq(Message) /\ n \in Nat /\ Len(e) = n + 1 /\ e[n + 1] = d
      /\ \A k \in 1 .. n : e[k] = ch[k]
      OBVIOUS
<1> HIDE DEF e
<1>2. PICK f \in [0 .. Len(e) -> Nat] : Sums(f, e, c) BY <1>1, SumsExist
<1>3. Sums(f, ch, c) BY <1>1, <1>2 DEF Sums
<1>4. Held(ch, c) = f[n] BY <1>3, HeldIs
<1>5. Held(e, c) = f[n + 1] BY <1>1, <1>2, HeldIs
<1>6. n + 1 \in 1 .. Len(e) /\ (n + 1) - 1 = n BY <1>1
<1>7. f[n + 1] = f[n] + Part(d, c) BY <1>1, <1>2, <1>6 DEF Sums
<1> QED BY <1>4, <1>5, <1>7 DEF e

LEMMA HeldTail ==
  ASSUME NEW ch \in Seq(Message), ch # <<>>, NEW c
  PROVE  Held(ch, c) = Part(Head(ch), c) + Held(Tail(ch), c)
<1> DEFINE n == Len(ch)
           t == Tail(ch)
           p == Part(Head(ch), c)
<1>1. /\ n \in Nat \ {0} /\ t \in Seq(Message) /\ Len(t) = n - 1
      /\ Head(ch) = ch[1] /\ Head(ch) \in Message
      /\ \A k \in 1 .. n - 1 : t[k] = ch[k + 1]
      OBVIOUS
<1>2. p \in Nat BY <1>1, PartType
<1> HIDE DEF t
<1>3. PICK f \in [0 .. n -> Nat] : Sums(f, ch, c) BY SumsExist
<1> DEFINE g == [k \in 0 .. n - 1 |-> f[k + 1] - p]
<1>4. f[1] = p
  <2>1. 1 \in 1 .. n /\ 1 - 1 = 0 BY <1>1
  <2> QED BY <1>1, <1>2, <1>3, <2>1 DEF Sums
<1> HIDE DEF p
<1>5. Sums(g, t, c)
  <2>1. g[0] = 0 BY <1>1, <1>2, <1>4
  <2>2. ASSUME NEW k \in 1 .. Len(t) PROVE g[k] = g[k - 1] + Part(t[k], c)
    <3>1. /\ k \in 1 .. n - 1 /\ k + 1 \in 1 .. n /\ k \in 0 .. n /\ (k + 1) - 1 = k
          /\ k - 1 \in 0 .. n - 1 /\ (k - 1) + 1 = k /\ k \in 0 .. n - 1
          BY <1>1
    <3>2. t[k] = ch[k + 1] BY <1>1, <3>1
    <3>3. t[k] \in Message /\ Part(t[k], c) \in Nat BY <1>1, PartType
    <3>4. f[k + 1] = f[k] + Part(t[k], c) BY <1>3, <3>1, <3>2 DEF Sums
    <3>5. f[k] \in Nat BY <3>1
    <3>6. g[k] = f[k + 1] - p /\ g[k - 1] = f[k] - p BY <3>1
    <3> HIDE DEF g
    <3> QED BY <1>2, <3>3, <3>4, <3>5, <3>6
  <2> QED BY <2>1, <2>2 DEF Sums
<1>6. Held(t, c) = g[n - 1] BY <1>1, <1>5, HeldIs
<1>7. g[n - 1] = f[n] - p BY <1>1
<1>8. Held(ch, c) = f[n] BY <1>3, HeldIs
<1>9. f[n] \in Nat BY <1>1
<1> QED BY <1>2, <1>6, <1>7, <1>8, <1>9 DEF t, p

LEMMA HeldNone ==
  ASSUME NEW ch \in Seq(Message), NEW c, \A k \in DOMAIN ch : ch[k].id # c
  PROVE  Held(ch, c) = 0
<1>1. PICK f \in [0 .. Len(ch) -> Nat] : Sums(f, ch, c) BY SumsExist
<1>2. Len(ch) \in Nat /\ DOMAIN ch = 1 .. Len(ch) OBVIOUS
<1>3. \A k \in 1 .. Len(ch) : Part(ch[k], c) = 0 BY <1>2 DEF Part
<1> DEFINE G == {k \in 0 .. Len(ch) : f[k] = 0}
<1>4. 0 \in G BY <1>1, <1>2 DEF Sums
<1>5. ASSUME NEW m \in 1 .. Len(ch), m - 1 \in G PROVE m \in G
  <2>1. f[m - 1] = 0 BY <1>5
  <2>2. f[m] = 0 BY <1>1, <1>3, <2>1 DEF Sums
  <2> QED BY <1>2, <2>2
<1>6. \A m \in 0 .. Len(ch) : m \in G
  <2> HIDE DEF G
  <2> QED BY <1>2, <1>4, <1>5, InductionUpTo
<1> QED BY <1>1, <1>2, <1>6, HeldIs

-----------------------------------------------------------------------------
(* The request: nothing of it is lost, and its end does not overtake it.   *)

\* Nothing of c is in the channel.
NoneOf(ch, c) == \A k \in DOMAIN ch : ch[k].id # c

\* A TcpClose of c is in the channel.
HasClose(ch, c) == \E k \in DOMAIN ch : ch[k].id = c /\ ch[k].size = 0

\* Nothing of c comes after a TcpClose of c.
CloseLast(ch, c) ==
  \A k \in DOMAIN ch : ch[k].id = c /\ ch[k].size = 0 =>
    \A j \in DOMAIN ch : j > k => ch[j].id # c

\* The request's half of Conserved, and that nothing is on its way for a
\* connection that has no relay yet.
SentOf(c) ==
  /\ Live(c) => upOwed[c] = conn[c].tx + conn[c].pending
                              + Held(deferred, c) + Held(dataIn, c)
  /\ ~Live(c) => conn[c].tx = 0 /\ conn[c].pending = 0
  /\ relay[c] = "none" =>
       upOwed[c] = 0 /\ Held(deferred, c) = 0 /\ Held(dataIn, c) = 0

\* How a relay that still reads has its request end: its TcpClose is the last
\* it sends, the stack takes it after all that was deferred, and the socket is
\* closed when nothing is pending.
ClosingOf(c) ==
  ~AppGone(c) =>
    /\ HasClose(dataIn, c) => relay[c] = "down"
    /\ CloseLast(dataIn, c)
    /\ conn[c].half_closed =>
         relay[c] = "down" /\ NoneOf(dataIn, c) /\ NoneOf(deferred, c)
    /\ conn[c].sock \in {"finwait1", "finwait2"} =>
         conn[c].half_closed /\ conn[c].pending = 0
    /\ conn[c].sock = "finwait2" => conn[c].tx = 0

\* Only data is deferred.
DeferredData == \A k \in DOMAIN deferred : deferred[k].size > 0

\* The inductive invariant of the requests, relative to IInv.
RInv == DeferredData /\ \A c \in Conn : SentOf(c) /\ ClosingOf(c)

\* What the channels hold, as numbers.
LEMMA HeldTypes ==
  ASSUME TypeOK, NEW c \in Conn
  PROVE  /\ Held(deferred, c) \in Nat /\ Held(dataIn, c) \in Nat
         /\ conn[c].tx \in Nat /\ conn[c].pending \in Nat /\ upOwed[c] \in Int
         /\ conn[c].half_closed \in BOOLEAN
         /\ conn[c].tx <= TxBuf /\ conn[c].pending <= MaxPending
<1>1. Held(deferred, c) \in Nat /\ Held(dataIn, c) \in Nat BY HeldNat DEF TypeOK
<1>2. conn[c] \in ConnState /\ upOwed[c] \in Int BY DEF TypeOK
<1> QED BY <1>1, <1>2 DEF ConnState

\* A message more, of another connection or of c, and one less.
LEMMA AppendOrder ==
  ASSUME NEW ch \in Seq(Message), NEW m \in Message, NEW c
  PROVE  /\ m.id # c =>
              /\ NoneOf(ch, c) => NoneOf(Append(ch, m), c)
              /\ HasClose(Append(ch, m), c) => HasClose(ch, c)
              /\ CloseLast(ch, c) => CloseLast(Append(ch, m), c)
         /\ ~HasClose(ch, c) => CloseLast(Append(ch, m), c)
         /\ ~HasClose(ch, c) /\ m.size # 0 => ~HasClose(Append(ch, m), c)
<1> DEFINE e == Append(ch, m)
           n == Len(ch)
<1>1. /\ n \in Nat /\ DOMAIN ch = 1 .. n /\ DOMAIN e = 1 .. n + 1
      /\ e[n + 1] = m /\ \A k \in 1 .. n : e[k] = ch[k]
      OBVIOUS
<1> HIDE DEF e, n
<1>2. \A k \in DOMAIN e : k = n + 1 \/ (k \in DOMAIN ch /\ e[k] = ch[k]) BY <1>1
<1>3. ASSUME m.id # c
      PROVE  /\ NoneOf(ch, c) => NoneOf(e, c)
             /\ HasClose(e, c) => HasClose(ch, c)
             /\ CloseLast(ch, c) => CloseLast(e, c)
      BY <1>1, <1>2, <1>3 DEF NoneOf, HasClose, CloseLast
<1>4. ASSUME ~HasClose(ch, c) PROVE CloseLast(e, c)
  <2>1. \A k \in DOMAIN e : e[k].id = c /\ e[k].size = 0 => k = n + 1
        BY <1>2, <1>4 DEF HasClose
  <2>2. \A j \in DOMAIN e : ~(j > n + 1) BY <1>1
  <2> QED BY <2>1, <2>2 DEF CloseLast
<1>5. ASSUME ~HasClose(ch, c), m.size # 0 PROVE ~HasClose(e, c)
      BY <1>1, <1>2, <1>5 DEF HasClose
<1> QED BY <1>3, <1>4, <1>5 DEF e

LEMMA TailOrder ==
  ASSUME NEW ch \in Seq(Message), ch # <<>>, NEW c
  PROVE  /\ NoneOf(ch, c) => NoneOf(Tail(ch), c) /\ Head(ch).id # c
         /\ HasClose(Tail(ch), c) => HasClose(ch, c)
         /\ CloseLast(ch, c) => CloseLast(Tail(ch), c)
         /\ Head(ch).id = c /\ Head(ch).size = 0 =>
              HasClose(ch, c) /\ (CloseLast(ch, c) => NoneOf(Tail(ch), c))
<1> DEFINE t == Tail(ch)
           n == Len(ch)
<1>1. /\ n \in Nat \ {0} /\ DOMAIN ch = 1 .. n /\ DOMAIN t = 1 .. n - 1
      /\ Head(ch) = ch[1] /\ \A k \in 1 .. n - 1 : t[k] = ch[k + 1]
      OBVIOUS
<1> HIDE DEF t, n
<1>2. 1 \in DOMAIN ch BY <1>1
<1>3. \A k \in DOMAIN t : k + 1 \in DOMAIN ch /\ t[k] = ch[k + 1] /\ k + 1 > 1 BY <1>1
<1>4. NoneOf(ch, c) => NoneOf(t, c) /\ Head(ch).id # c
      BY <1>1, <1>2, <1>3 DEF NoneOf
<1>5. HasClose(t, c) => HasClose(ch, c) BY <1>3 DEF HasClose
<1>6. ASSUME CloseLast(ch, c) PROVE CloseLast(t, c)
  <2> SUFFICES ASSUME NEW k \in DOMAIN t, t[k].id = c, t[k].size = 0,
                      NEW j \in DOMAIN t, j > k
               PROVE  t[j].id # c
      BY DEF CloseLast
  <2>1. j + 1 > k + 1 BY <1>1
  <2> QED BY <1>3, <1>6, <2>1 DEF CloseLast
<1>7. ASSUME Head(ch).id = c, Head(ch).size = 0
      PROVE  HasClose(ch, c) /\ (CloseLast(ch, c) => NoneOf(t, c))
      BY <1>1, <1>2, <1>3, <1>7 DEF HasClose, CloseLast, NoneOf
<1> QED BY <1>4, <1>5, <1>6, <1>7 DEF t

-----------------------------------------------------------------------------
\* The channels are the same for d.
SameFor(d) ==
  /\ Held(dataIn', d) = Held(dataIn, d) /\ Held(deferred', d) = Held(deferred, d)
  /\ NoneOf(dataIn, d) => NoneOf(dataIn', d)
  /\ NoneOf(deferred, d) => NoneOf(deferred', d)
  /\ HasClose(dataIn', d) => HasClose(dataIn, d)
  /\ CloseLast(dataIn, d) => CloseLast(dataIn', d)

\* What a step of another connection leaves alone.
Bystander(d) ==
  /\ conn'[d].sock = conn[d].sock /\ conn'[d].tx = conn[d].tx
  /\ conn'[d].pending = conn[d].pending
  /\ conn'[d].half_closed = conn[d].half_closed
  /\ relay'[d] = relay[d] /\ call'[d] = call[d] /\ upOwed'[d] = upOwed[d]

LEMMA BystanderKeeps ==
  ASSUME NEW d \in Conn, SentOf(d), ClosingOf(d), Bystander(d), SameFor(d)
  PROVE  SentOf(d)' /\ ClosingOf(d)'
<1>1. (Live(d) <=> Live(d)') /\ (AppGone(d) <=> AppGone(d)')
      BY DEF Live, AppGone, Bystander
<1>2. SentOf(d)' BY <1>1 DEF SentOf, Bystander, SameFor
<1>3. ClosingOf(d)' BY <1>1 DEF ClosingOf, Bystander, SameFor
<1> QED BY <1>2, <1>3

LEMMA SameChannels == ASSUME UNCHANGED <<dataIn, deferred>>, NEW d PROVE SameFor(d)
  BY DEF SameFor

\* One message of c more is the same for the others, and a TcpClose counts
\* for nothing.
LEMMA SameAppended ==
  ASSUME TypeOK, NEW m \in Message, NEW d \in Conn,
         dataIn' = Append(dataIn, m), deferred' = deferred
  PROVE  /\ m.id # d => SameFor(d)
         /\ Held(dataIn', d) = Held(dataIn, d) + Part(m, d)
<1>1. dataIn \in Seq(Message) BY DEF TypeOK
<1>2. Held(dataIn', d) = Held(dataIn, d) + Part(m, d) BY <1>1, HeldAppend
<1>3. Held(dataIn, d) \in Nat BY <1>1, HeldNat
<1>4. m.id # d => Held(dataIn', d) = Held(dataIn, d) BY <1>2, <1>3 DEF Part
<1> QED BY <1>1, <1>2, <1>4, AppendOrder DEF SameFor

-----------------------------------------------------------------------------
\* A step of c that neither the relay nor the channels take part in: the
\* socket moves on, is acknowledged data, or begins to connect.
Quiet(c) ==
  /\ UNCHANGED <<dataIn, deferred, relay>>
  /\ AppGone(c) => AppGone(c)'
  /\ conn'[c].pending = conn[c].pending
  /\ conn'[c].half_closed = conn[c].half_closed
  /\ conn'[c].tx \in Nat /\ conn'[c].tx <= conn[c].tx
  /\ upOwed'[c] = upOwed[c] + conn'[c].tx - conn[c].tx
  /\ conn'[c].sock = "finwait1" => conn[c].sock = "finwait1"
  /\ conn'[c].sock = "finwait2" =>
       conn[c].sock = "finwait2" \/ (conn[c].sock = "finwait1" /\ conn'[c].tx = 0)
  /\ Live(c) => Live(c)'
  /\ Live(c)' => Live(c) \/ relay[c] = "none"

LEMMA QuietKeeps ==
  ASSUME TypeOK, NEW c \in Conn, SentOf(c), ClosingOf(c), Quiet(c)
  PROVE  SentOf(c)' /\ ClosingOf(c)'
<1>1. /\ Held(deferred, c) \in Nat /\ Held(dataIn, c) \in Nat
      /\ conn[c].tx \in Nat /\ conn[c].pending \in Nat /\ upOwed[c] \in Int
      BY HeldTypes
<1>2. /\ Held(deferred, c)' = Held(deferred, c) /\ Held(dataIn, c)' = Held(dataIn, c)
      /\ relay'[c] = relay[c]
      BY DEF Quiet
<1>3. SentOf(c)'
  <2>1. CASE Live(c)
    <3>1. Live(c)' BY <2>1 DEF Quiet
    <3>2. upOwed[c] = conn[c].tx + conn[c].pending + Held(deferred, c) + Held(dataIn, c)
          BY <2>1 DEF SentOf
    <3>3. /\ conn'[c].tx \in Nat /\ conn'[c].tx <= conn[c].tx
          /\ conn'[c].pending = conn[c].pending
          /\ upOwed'[c] = upOwed[c] + conn'[c].tx - conn[c].tx
          BY DEF Quiet
    <3>4. upOwed'[c] = conn'[c].tx + conn'[c].pending + Held(deferred, c) + Held(dataIn, c)
          BY <1>1, <3>2, <3>3
    <3>5. relay[c] = "none" =>
            upOwed'[c] = 0 /\ Held(deferred, c) = 0 /\ Held(dataIn, c) = 0
      <4> SUFFICES ASSUME relay[c] = "none"
                   PROVE  upOwed'[c] = 0 /\ Held(deferred, c) = 0 /\ Held(dataIn, c) = 0
          OBVIOUS
      <4>1. upOwed[c] = 0 /\ Held(deferred, c) = 0 /\ Held(dataIn, c) = 0 BY DEF SentOf
      <4>2. conn[c].tx = 0 BY <1>1, <3>2, <4>1
      <4> QED BY <3>3, <4>1, <4>2
    <3> QED BY <1>2, <3>1, <3>4, <3>5 DEF SentOf
  <2>2. CASE ~Live(c)
    <3>1. conn[c].tx = 0 /\ conn[c].pending = 0 BY <2>2 DEF SentOf
    <3>2. conn'[c].tx = 0 /\ conn'[c].pending = 0 /\ upOwed'[c] = upOwed[c]
          BY <1>1, <3>1 DEF Quiet
    <3>3. Live(c)' => relay[c] = "none" BY <2>2 DEF Quiet
    <3> QED BY <1>1, <1>2, <3>2, <3>3 DEF SentOf
  <2> QED BY <2>1, <2>2
<1>4. ClosingOf(c)'
  <2> SUFFICES ASSUME ~AppGone(c)' PROVE ClosingOf(c)'
      BY DEF ClosingOf
  <2>1. ~AppGone(c) BY DEF Quiet
  <2>2. conn[c].sock = "finwait2" => conn[c].tx = 0 BY <2>1 DEF ClosingOf
  <2>3. conn'[c].sock = "finwait2" => conn'[c].tx = 0 BY <1>1, <2>2 DEF Quiet
  <2> QED BY <1>2, <2>1, <2>3 DEF ClosingOf, Quiet
<1> QED BY <1>3, <1>4

\* The invariant after a step of c, from what it does to c.
LEMMA ElsewhereKeeps ==
  ASSUME RInv, NEW c \in Conn, DeferredData',
         \A d \in Conn \ {c} : Bystander(d) /\ SameFor(d),
         SentOf(c)', ClosingOf(c)'
  PROVE  RInv'
<1>1. ASSUME NEW d \in Conn, d # c PROVE SentOf(d)' /\ ClosingOf(d)'
      BY <1>1, BystanderKeeps DEF RInv
<1> QED BY <1>1 DEF RInv

LEMMA QuietStep ==
  ASSUME IInv, RInv, NEW c \in Conn, Quiet(c), \A d \in Conn \ {c} : Bystander(d)
  PROVE  RInv'
<1>1. SentOf(c)' /\ ClosingOf(c)' BY QuietKeeps DEF IInv, RInv
<1>2. UNCHANGED <<dataIn, deferred>> BY DEF Quiet
<1>3. DeferredData' BY <1>2 DEF RInv, DeferredData
<1>4. \A d \in Conn \ {c} : SameFor(d) BY <1>2, SameChannels
<1> QED BY <1>1, <1>3, <1>4, ElsewhereKeeps

LEMMA SocketStep ==
  ASSUME IInv, RInv, NEW c \in Conn,
         FarEnd(c) \/ Clock(c) \/ Open(c) \/ Abandon(c) \/ HandleCmd(c) \/ Download(c)
  PROVE  RInv'
<1>1. conn \in [Conn -> ConnState] /\ conn[c] \in ConnState BY DEF IInv, TypeOK
<1>2. /\ conn[c].tx \in Nat /\ conn[c].pending \in Nat
      /\ upOwed \in [Conn -> Int] /\ DOMAIN call = Conn
      /\ upOwed[c] \in Int
      /\ upOwed[c] = upOwed[c] + conn[c].tx - conn[c].tx
      BY <1>1 DEF ConnState, IInv, TypeOK
<1>3. OnceOf(c) BY Of
<1>4. CASE Accepted(c) \/ Fin(c) \/ AcksFin(c)
  <2>1. PICK from \in TcpState, to \in TcpState :
          /\ Sock(c, from, to) /\ Moves(from, to)
          /\ to = "finwait2" => from = "finwait1" /\ conn[c].tx = 0
    <3> USE DEF Moves, TcpState
    <3>1. CASE Accepted(c) BY <3>1 DEF Accepted
    <3>2. CASE Fin(c) BY <3>2 DEF Fin
    <3>3. CASE AcksFin(c) BY <3>3 DEF AcksFin
    <3> QED BY <1>4, <3>1, <3>2, <3>3
  <2>2. UNCHANGED <<dataIn, deferred, relay, call, upOwed>>
        BY <1>4 DEF Accepted, Fin, AcksFin
  <2>3. /\ conn' = [conn EXCEPT ![c].sock = to] /\ conn[c].sock = from
        /\ to \notin {"none", "finwait1"} /\ from # "none"
        BY <2>1 DEF Sock, Moves
  <2>4. /\ conn'[c].sock = to /\ conn'[c].tx = conn[c].tx
        /\ conn'[c].pending = conn[c].pending
        /\ conn'[c].half_closed = conn[c].half_closed
        /\ \A d \in Conn \ {c} : conn'[d] = conn[d]
        BY <1>1, <2>3 DEF ConnState
  <2>5. Quiet(c)
        BY <1>2, <2>1, <2>2, <2>3, <2>4 DEF Quiet, Live, AppGone
  <2> QED BY <2>2, <2>4, <2>5, QuietStep DEF Bystander
<1>5. CASE Arrives(c) \/ Clock(c) \/ Download(c)
  <2>1. UNCHANGED <<dataIn, deferred, relay, call, upOwed>>
        BY <1>5 DEF Arrives, Clock, ConnectDue, OrphanDue, Download
  <2>2. /\ conn'[c].sock = conn[c].sock /\ conn'[c].tx = conn[c].tx
        /\ conn'[c].pending = conn[c].pending
        /\ conn'[c].half_closed = conn[c].half_closed
        /\ \A d \in Conn \ {c} : conn'[d] = conn[d]
    <3>1. CASE Arrives(c) BY <1>1, <3>1 DEF Arrives, ConnState
    <3>2. CASE ConnectDue(c) BY <1>1, <3>2 DEF ConnectDue, ConnState
    <3>3. CASE OrphanDue(c) BY <1>1, <3>3 DEF OrphanDue, ConnState
    <3>4. CASE Download(c) BY <1>1, <3>4 DEF Download, ConnState
    <3> QED BY <1>5, <3>1, <3>2, <3>3, <3>4 DEF Clock
  <2>3. Quiet(c) BY <1>2, <2>1, <2>2 DEF Quiet, Live, AppGone
  <2> QED BY <2>1, <2>2, <2>3, QuietStep DEF Bystander
<1>6. CASE Acks(c)
  <2>1. /\ UNCHANGED <<dataIn, deferred, relay, call>>
        /\ conn' = [conn EXCEPT ![c].tx = conn[c].tx - 1] /\ conn[c].tx > 0
        /\ upOwed' = [upOwed EXCEPT ![c] = upOwed[c] - 1]
        /\ Live(c)
        BY <1>6 DEF Acks, Live
  <2>2. /\ conn'[c].sock = conn[c].sock /\ conn'[c].tx = conn[c].tx - 1
        /\ conn'[c].pending = conn[c].pending
        /\ conn'[c].half_closed = conn[c].half_closed
        /\ \A d \in Conn \ {c} : conn'[d] = conn[d] /\ upOwed'[d] = upOwed[d]
        BY <1>1, <1>2, <2>1 DEF ConnState
  <2>3. upOwed'[c] = upOwed[c] + conn'[c].tx - conn[c].tx
        BY <1>2, <2>1, <2>2
  <2>4. Quiet(c) BY <1>2, <2>1, <2>2, <2>3 DEF Quiet, Live, AppGone
  <2> QED BY <2>1, <2>2, <2>4, QuietStep DEF Bystander
<1>7. CASE Resets(c)
  <2>1. /\ UNCHANGED <<dataIn, deferred, relay, call, upOwed>> /\ Live(c)
        /\ conn' = [conn EXCEPT ![c].sock = "closed"]
        BY <1>7 DEF Resets, Live
  <2>2. /\ conn'[c].sock = "closed" /\ conn'[c].tx = conn[c].tx
        /\ conn'[c].pending = conn[c].pending
        /\ conn'[c].half_closed = conn[c].half_closed
        /\ \A d \in Conn \ {c} : conn'[d] = conn[d]
        BY <1>1, <2>1 DEF ConnState
  <2>3. Quiet(c) BY <1>2, <2>1, <2>2 DEF Quiet, Live, AppGone
  <2> QED BY <2>1, <2>2, <2>3, QuietStep DEF Bystander
<1>8. CASE Open(c) \/ Abandon(c)
  <2>1. /\ UNCHANGED <<conn, dataIn, deferred, relay, upOwed>>
        /\ call[c] \in {"idle", "waiting"}
        /\ \A d \in Conn \ {c} : call'[d] = call[d]
        BY <1>2, <1>8 DEF Open, Abandon
  <2>2. Quiet(c) BY <1>2, <1>3, <2>1 DEF Quiet, Live, AppGone, OnceOf
  <2> QED BY <2>1, <2>2, QuietStep DEF Bystander
<1>9. CASE HandleCmd(c)
  <2>1. /\ UNCHANGED <<dataIn, deferred, relay, upOwed>> /\ c \in cmds
        BY <1>9 DEF HandleCmd
  <2>2. ~Live(c) /\ relay[c] = "none" BY <1>3, <2>1 DEF OnceOf
  <2>3. /\ conn'[c].sock \in {"none", "synsent"} /\ conn'[c].tx = conn[c].tx
        /\ conn'[c].pending = conn[c].pending
        /\ conn'[c].half_closed = conn[c].half_closed
        /\ \A d \in Conn \ {c} : conn'[d] = conn[d]
        BY <1>1, <1>9, <2>2 DEF HandleCmd, ConnState, Live
  <2>4. /\ \A d \in Conn \ {c} : call'[d] = call[d]
        /\ call[c] = "abandoned" => call'[c] = "abandoned"
    <3>1. CASE call' = call BY <3>1
    <3>2. CASE call' = Answer(c, "failed") BY <3>2, AnswerType DEF IInv
    <3> QED BY <1>9, <3>1, <3>2 DEF HandleCmd
  <2>5. Quiet(c) BY <1>2, <2>1, <2>2, <2>3, <2>4 DEF Quiet, Live, AppGone
  <2> QED BY <2>1, <2>3, <2>4, <2>5, QuietStep DEF Bystander
<1> QED BY <1>4, <1>5, <1>6, <1>7, <1>8, <1>9 DEF FarEnd

-----------------------------------------------------------------------------
(* A pass, as the request sees it.                                         *)

\* k and l hold the same request.
SameRequest(k, l) ==
  k.tx = l.tx /\ k.pending = l.pending /\ k.half_closed = l.half_closed

LEMMA RemovedRequest ==
  ASSUME NEW k
  PROVE  /\ Removed(k).sock = "none" /\ Removed(k).tx = 0 /\ Removed(k).pending = 0
         /\ ~Removed(k).half_closed
  BY DEF Removed, Vacant

LEMMA FlushedRequest ==
  ASSUME NEW k \in ConnState
  PROVE  /\ Flushed(k).tx + Flushed(k).pending = k.tx + k.pending
         /\ Flushed(k).half_closed = k.half_closed /\ Flushed(k).sock = k.sock
         /\ k.sock \in {"finwait1", "finwait2"} => SameRequest(Flushed(k), k)
<1>1. k.pending \in 0 .. MaxPending /\ k.tx \in 0 .. TxBuf BY DEF ConnState
<1>2. CASE k.sock \in {"established", "closewait"} /\ k.tx < TxBuf
  <2> DEFINE n == Min2(k.pending, TxBuf - k.tx)
  <2>1. k.pending \in Nat /\ TxBuf - k.tx \in Nat BY <1>1, <1>2
  <2>2. n \in Nat BY <2>1, MinBounds, Zenon
  <2>3. Flushed(k) = [k EXCEPT !.tx = k.tx + n, !.pending = k.pending - n]
        BY <1>2 DEF Flushed
  <2> HIDE DEF n
  <2>4. /\ Flushed(k).tx = k.tx + n /\ Flushed(k).pending = k.pending - n
        /\ Flushed(k).half_closed = k.half_closed /\ Flushed(k).sock = k.sock
        BY <2>3 DEF ConnState
  <2> QED BY <1>1, <1>2, <2>2, <2>4
<1>3. CASE ~(k.sock \in {"established", "closewait"} /\ k.tx < TxBuf)
      BY <1>3 DEF Flushed, SameRequest
<1> QED BY <1>2, <1>3

LEMMA HalfClosedRequest ==
  ASSUME NEW k \in ConnState
  PROVE  /\ SameRequest(HalfClosed(k), k)
         /\ \/ HalfClosed(k).sock = k.sock
            \/ k.half_closed /\ k.pending = 0 /\ HalfClosed(k).sock = Closed(k.sock)
  BY DEF HalfClosed, ConnState, SameRequest

LEMMA LaterRequest ==
  ASSUME NEW k \in ConnState
  PROVE  SameRequest(Delivered(k), k) /\ SameRequest(Orphaned(k), k)
<1> DEFINE n == Min2(k.rx, AppQueue - k.app)
           armed == IF k.orphan = "no" THEN "armed" ELSE k.orphan
<1>1. Delivered(k) = [k EXCEPT !.rx = k.rx - n, !.app = k.app + n] BY DEF Delivered
<1>2. CASE k.rx > 0 \/ k.orphan = "due"
  <2>1. Orphaned(k) = [k EXCEPT !.sock = "closed", !.aborted = TRUE, !.orphan = armed]
        BY <1>2 DEF Orphaned
  <2> HIDE DEF n, armed
  <2> QED BY <1>1, <2>1 DEF ConnState, SameRequest
<1>3. CASE ~(k.rx > 0 \/ k.orphan = "due")
  <2>1. Orphaned(k) = [k EXCEPT !.sock = Closed(k.sock), !.orphan = armed]
        BY <1>3 DEF Orphaned
  <2> HIDE DEF n, armed
  <2> QED BY <1>1, <2>1 DEF ConnState, SameRequest
<1> QED BY <1>2, <1>3

LEMMA SettledRequest ==
  ASSUME NEW k \in ConnState
  PROVE  \/ Settled(k) = Removed(k)
         \/ /\ SameRequest(Settled(k), k)
            /\ Settled(k).sock = k.sock \/ Settled(k).sock = "lastack"
<1>1. CASE ~k.aborted /\ k.sock = "closewait"
  <2>1. Settled(k) = [k EXCEPT !.sock = "lastack"] BY <1>1 DEF Settled, Closed
  <2> QED BY <2>1 DEF ConnState, SameRequest
<1>2. CASE ~k.aborted /\ k.sock \in {"closed", "timewait"} BY <1>2 DEF Settled
<1>3. CASE k.aborted \/ k.sock \notin {"closewait", "closed", "timewait"}
  <2>1. Settled(k) = k BY <1>3 DEF Settled
  <2> QED BY <2>1 DEF SameRequest
<1> QED BY <1>1, <1>2, <1>3

LEMMA PassRequest ==
  ASSUME NEW k \in ConnState, NEW gone \in BOOLEAN, k.sock # "none", k.sock # "synsent",
         NEW p, p = Pass(k, gone)
  PROVE  /\ p.sock = "none" => p.tx = 0 /\ p.pending = 0 /\ ~p.half_closed
         /\ p.sock # "none" =>
              p.tx + p.pending = k.tx + k.pending /\ p.half_closed = k.half_closed
         /\ ~gone /\ p.sock = "finwait1" =>
              \/ k.sock = "finwait1" /\ SameRequest(p, k)
              \/ p.half_closed /\ p.pending = 0
         /\ ~gone /\ p.sock = "finwait2" => k.sock = "finwait2" /\ SameRequest(p, k)
<1> DEFINE e == [k EXCEPT !.established = TRUE, !.due = FALSE]
           f == Flushed(e)
           h == HalfClosed(f)
           o == IF gone THEN Orphaned(h) ELSE Delivered(h)
<1>1. e \in ConnState /\ e.sock = k.sock /\ SameRequest(e, k)
      BY DEF ConnState, SameRequest
<1>2. p = Settled(o) BY DEF Pass
<1> HIDE DEF e
<1>3. /\ f \in ConnState /\ f.sock = e.sock /\ f.tx + f.pending = e.tx + e.pending
      /\ f.half_closed = e.half_closed
      /\ e.sock \in {"finwait1", "finwait2"} => SameRequest(f, e)
      BY <1>1, FlushedType, FlushedRequest
<1> HIDE DEF f
<1>4. /\ h \in ConnState /\ SameRequest(h, f)
      /\ \/ h.sock = f.sock
         \/ f.half_closed /\ f.pending = 0 /\ h.sock = Closed(f.sock)
      BY <1>3, HalfClosedType, HalfClosedRequest
<1>5. h.sock # "none" BY <1>1, <1>3, <1>4 DEF Closed
<1> HIDE DEF h
<1>6. /\ o \in ConnState /\ SameRequest(o, h) /\ o.sock # "none"
      /\ ~gone => o.sock = h.sock
  <2>1. CASE gone
    <3>1. o \in ConnState /\ o.sock \in {"closed", Closed(h.sock)} /\ SameRequest(o, h)
          BY <1>4, <2>1, OrphanedType, LaterRequest
    <3>2. o.sock # "none" BY <1>5, <3>1 DEF Closed
    <3> QED BY <2>1, <3>1, <3>2
  <2>2. CASE ~gone BY <1>4, <1>5, <2>2, DeliveredType, LaterRequest
  <2> QED BY <2>1, <2>2
<1> HIDE DEF o
<1>7. CASE p = Removed(o) BY <1>7, RemovedRequest
<1>8. CASE p # Removed(o)
  <2>1. SameRequest(p, o) /\ (p.sock = o.sock \/ p.sock = "lastack")
        BY <1>2, <1>6, <1>8, SettledRequest
  <2>2. p.sock # "none" BY <1>6, <2>1
  <2>3. p.tx + p.pending = k.tx + k.pending /\ p.half_closed = k.half_closed
        BY <1>1, <1>3, <1>4, <1>6, <2>1 DEF SameRequest
  <2>4. ASSUME ~gone, p.sock \in {"finwait1", "finwait2"}
        PROVE  /\ \/ k.sock = p.sock /\ SameRequest(p, k)
                  \/ p.half_closed /\ p.pending = 0
               /\ p.sock = "finwait2" => k.sock = "finwait2" /\ SameRequest(p, k)
    <3>1. h.sock = p.sock BY <1>6, <2>1, <2>4
    <3>2. CASE h.sock = f.sock
          BY <1>1, <1>3, <1>4, <1>6, <2>1, <2>4, <3>1, <3>2 DEF SameRequest
    <3>3. CASE f.half_closed /\ f.pending = 0 /\ h.sock = Closed(f.sock)
      <4>1. p.half_closed /\ p.pending = 0
            BY <1>4, <1>6, <2>1, <3>3 DEF SameRequest
      <4>2. p.sock = "finwait2" => f.sock = "finwait2"
            BY <3>1, <3>3 DEF Closed
      <4> QED BY <1>1, <1>3, <1>4, <1>6, <2>1, <4>1, <4>2 DEF SameRequest
    <3> QED BY <1>4, <3>2, <3>3
  <2> QED BY <2>2, <2>3, <2>4
<1> QED BY <1>7, <1>8

-----------------------------------------------------------------------------
(* Service.                                                                *)

LEMMA RemovedStep ==
  ASSUME IInv, RInv, NEW c \in Conn, ServeAborted(c) \/ ServeConnecting(c)
  PROVE  RInv'
<1>1. /\ conn' = [conn EXCEPT ![c] = Removed(conn[c])]
      /\ UNCHANGED <<relay, dataIn, deferred>>
      BY DEF ServeAborted, ServeConnecting
<1>2. /\ conn \in [Conn -> ConnState] /\ upOwed \in [Conn -> Int]
      BY DEF IInv, TypeOK
<1>3. conn'[c] = Removed(conn[c]) /\ \A d \in Conn \ {c} : conn'[d] = conn[d]
      BY <1>1, <1>2
<1>4. /\ conn'[c].sock = "none" /\ conn'[c].tx = 0 /\ conn'[c].pending = 0
      /\ ~conn'[c].half_closed
      BY <1>3, RemovedRequest
<1>5. /\ \A d \in Conn \ {c} : upOwed'[d] = upOwed[d] /\ call'[d] = call[d]
      /\ upOwed'[c] \in {0, upOwed[c]}
      /\ call[c] = "abandoned" => call'[c] = "abandoned"
  <2>1. CASE ServeAborted(c) BY <1>2, <1>4, <2>1 DEF ServeAborted, Forget
  <2>2. CASE ServeConnecting(c)
    <3>1. UNCHANGED upOwed /\ call' = Answer(c, "failed") BY <2>2 DEF ServeConnecting
    <3> QED BY <3>1, AnswerType DEF IInv
  <2> QED BY <2>1, <2>2
<1>6. SentOf(c) /\ ClosingOf(c) BY DEF RInv
<1>7. ~Live(c)' /\ (AppGone(c) => AppGone(c)') BY <1>1, <1>4, <1>5 DEF Live, AppGone
<1>8. SentOf(c)' BY <1>1, <1>4, <1>5, <1>6, <1>7 DEF SentOf
<1>9. ClosingOf(c)' BY <1>1, <1>4, <1>6, <1>7 DEF ClosingOf
<1>10. \A d \in Conn \ {c} : Bystander(d) /\ SameFor(d)
       BY <1>1, <1>3, <1>5, SameChannels DEF Bystander
<1>11. DeferredData' BY <1>1 DEF RInv, DeferredData
<1> QED BY <1>8, <1>9, <1>10, <1>11, ElsewhereKeeps

\* A TcpClose that try_send sends or drops.
LEMMA TrySent ==
  ASSUME TypeOK, NEW c \in Conn, dataIn' \in {dataIn, TrySendClose(c)}, deferred' = deferred
  PROVE  /\ \A d \in Conn \ {c} : SameFor(d)
         /\ Held(dataIn', c) = Held(dataIn, c) /\ Held(deferred', c) = Held(deferred, c)
<1> DEFINE m == [id |-> c, size |-> 0]
<1>1. m \in Message /\ m.id = c /\ m.size = 0 BY DEF Message
<1>2. CASE dataIn' = dataIn BY <1>2, SameChannels
<1>3. CASE dataIn' = Append(dataIn, m)
  <2> HIDE DEF m
  <2>1. Held(dataIn', c) = Held(dataIn, c) + Part(m, c) BY <1>1, <1>3, SameAppended
  <2>2. Held(dataIn, c) \in Nat BY HeldTypes
  <2>3. Held(dataIn', c) = Held(dataIn, c) BY <1>1, <2>1, <2>2 DEF Part
  <2> QED BY <1>1, <1>3, <2>3, SameAppended
<1> QED BY <1>2, <1>3 DEF TrySendClose

LEMMA ServeOpenStep ==
  ASSUME IInv, RInv, NEW c \in Conn, ServeOpen(c)
  PROVE  RInv'
<1> DEFINE p == Pass(conn[c], AppGone(c))
<1>1. /\ conn \in [Conn -> ConnState] /\ conn[c] \in ConnState
      /\ AppGone(c) \in BOOLEAN /\ upOwed \in [Conn -> Int]
      BY DEF IInv, TypeOK, AppGone
<1>2. OnceOf(c) /\ EarlyOf(c) BY Of
<1>3. conn[c].sock # "synsent" /\ conn[c].sock # "none"
      BY <1>2 DEF ServeOpen, OnceOf, EarlyOf, Live
<1>4. conn' = [conn EXCEPT ![c] = p] BY DEF ServeOpen, Pass
<1>5. /\ p.sock = "none" => p.tx = 0 /\ p.pending = 0 /\ ~p.half_closed
      /\ p.sock # "none" =>
           /\ p.tx + p.pending = conn[c].tx + conn[c].pending
           /\ p.half_closed = conn[c].half_closed
      /\ ~AppGone(c) /\ p.sock = "finwait1" =>
           \/ conn[c].sock = "finwait1" /\ SameRequest(p, conn[c])
           \/ p.half_closed /\ p.pending = 0
      /\ ~AppGone(c) /\ p.sock = "finwait2" =>
           conn[c].sock = "finwait2" /\ SameRequest(p, conn[c])
      BY <1>1, <1>3, PassRequest
<1>6. p \in ConnState BY <1>1, <1>3, PassType
<1> HIDE DEF p
<1>7. conn'[c] = p /\ \A d \in Conn \ {c} : conn'[d] = conn[d] BY <1>1, <1>4
<1>8. /\ \A d \in Conn \ {c} : call'[d] = call[d]
      /\ call[c] = "abandoned" => call'[c] = "abandoned"
      BY AnswerType DEF IInv, ServeOpen
<1>9. /\ \A d \in Conn \ {c} : relay'[d] = relay[d]
      /\ \/ relay'[c] = relay[c]
         \/ relay[c] = "none" /\ relay'[c] = "both" /\ call[c] = "waiting"
  <2>1. relay[c] # "none" => call[c] # "waiting" BY <1>2 DEF OnceOf
  <2> QED BY <2>1 DEF ServeOpen, IInv, TypeOK
<1>10. /\ \A d \in Conn \ {c} : upOwed'[d] = upOwed[d]
       /\ upOwed'[c] = IF p.sock = "none" THEN 0 ELSE upOwed[c]
       BY <1>1, <1>7 DEF ServeOpen, Forget
<1>11. deferred' = deferred /\ dataIn' \in {dataIn, TrySendClose(c)}
       BY DEF ServeOpen
<1>12. /\ \A d \in Conn \ {c} : SameFor(d)
       /\ Held(dataIn', c) = Held(dataIn, c) /\ Held(deferred', c) = Held(deferred, c)
       BY <1>11, TrySent DEF IInv
<1>13. SentOf(c) /\ ClosingOf(c) BY DEF RInv
<1>14. SentOf(c)'
  <2>1. Live(c) /\ (Live(c)' <=> p.sock # "none") BY <1>3, <1>7 DEF Live
  <2>2. /\ Held(deferred, c) \in Nat /\ Held(dataIn, c) \in Nat
        /\ conn[c].tx \in Nat /\ conn[c].pending \in Nat
        BY HeldTypes DEF IInv
  <2>3. upOwed[c] = conn[c].tx + conn[c].pending + Held(deferred, c) + Held(dataIn, c)
        BY <1>13, <2>1 DEF SentOf
  <2>4. p.sock # "none" =>
          upOwed'[c] = p.tx + p.pending + Held(deferred', c) + Held(dataIn', c)
    <3>1. p.tx \in Nat /\ p.pending \in Nat BY <1>6 DEF ConnState
    <3> QED BY <1>5, <1>10, <1>12, <2>2, <2>3, <3>1
  <2>5. relay'[c] = "none" =>
          upOwed'[c] = 0 /\ Held(deferred', c) = 0 /\ Held(dataIn', c) = 0
        BY <1>9, <1>10, <1>12, <1>13 DEF SentOf
  <2> QED BY <1>5, <1>7, <2>1, <2>4, <2>5 DEF SentOf
<1>15. ClosingOf(c)'
  <2> SUFFICES ASSUME ~AppGone(c)' PROVE ClosingOf(c)'
      BY DEF ClosingOf
  <2>1. ~AppGone(c) BY <1>8, <1>9 DEF AppGone
  <2>2. dataIn' = dataIn BY <2>1 DEF ServeOpen, AppGone
  <2>3. /\ HasClose(dataIn, c) => relay'[c] = "down"
        /\ conn[c].half_closed => relay'[c] = "down"
        BY <1>9, <1>13, <2>1 DEF ClosingOf
  <2>4. p.half_closed =>
          relay'[c] = "down" /\ NoneOf(dataIn, c) /\ NoneOf(deferred, c)
        BY <1>5, <1>13, <2>1, <2>3 DEF ClosingOf
  <2>5. /\ p.sock \in {"finwait1", "finwait2"} => p.half_closed /\ p.pending = 0
        /\ p.sock = "finwait2" => p.tx = 0
        BY <1>5, <1>13, <2>1 DEF ClosingOf, SameRequest
  <2> QED BY <1>7, <1>11, <1>13, <2>1, <2>2, <2>3, <2>4, <2>5 DEF ClosingOf
<1>16. \A d \in Conn \ {c} : Bystander(d)
       BY <1>7, <1>8, <1>9, <1>10 DEF Bystander
<1>17. DeferredData' BY <1>11 DEF RInv, DeferredData
<1> QED BY <1>12, <1>14, <1>15, <1>16, <1>17, ElsewhereKeeps

-----------------------------------------------------------------------------
(* The relay and the messages it sends.                                    *)

LEMMA UploadStep ==
  ASSUME IInv, RInv, NEW c \in Conn, NEW n \in 1 .. Chunk, Upload(c, n)
  PROVE  RInv'
<1> DEFINE m == [id |-> c, size |-> n]
<1>1. /\ dataIn' = Append(dataIn, m) /\ relay[c] = "both"
      /\ upOwed' = [upOwed EXCEPT ![c] = IF Live(c) THEN upOwed[c] + n ELSE upOwed[c]]
      /\ UNCHANGED <<conn, call, relay, deferred>>
      BY DEF Upload
<1>2. m \in Message /\ m.id = c /\ m.size = n /\ n \in Nat /\ n # 0 BY DEF Message
<1>3. upOwed \in [Conn -> Int] /\ dataIn \in Seq(Message) /\ TypeOK BY DEF IInv, TypeOK
<1> HIDE DEF m
<1>4. /\ \A d \in Conn \ {c} : SameFor(d)
      /\ Held(dataIn', c) = Held(dataIn, c) + n
      BY <1>1, <1>2, <1>3, SameAppended DEF Part
<1>5. SentOf(c) /\ ClosingOf(c) BY DEF RInv
<1>6. SentOf(c)'
  <2>1. /\ Held(deferred, c) \in Nat /\ Held(dataIn, c) \in Nat
        /\ conn[c].tx \in Nat /\ conn[c].pending \in Nat /\ upOwed[c] \in Int
        BY <1>3, HeldTypes
  <2>2. (Live(c)' <=> Live(c)) /\ relay'[c] # "none" BY <1>1 DEF Live
  <2>3. Live(c) => upOwed'[c] = upOwed[c] + n BY <1>1, <1>3
  <2>4. Live(c) => upOwed'[c] = conn[c].tx + conn[c].pending
                                  + Held(deferred, c) + Held(dataIn', c)
    <3> SUFFICES ASSUME Live(c)
                 PROVE  upOwed'[c] = conn[c].tx + conn[c].pending
                                       + Held(deferred, c) + Held(dataIn', c)
        OBVIOUS
    <3>1. upOwed[c] = conn[c].tx + conn[c].pending + Held(deferred, c) + Held(dataIn, c)
          BY <1>5 DEF SentOf
    <3> QED BY <1>2, <1>4, <2>1, <2>3, <3>1
  <2> QED BY <1>1, <1>5, <2>2, <2>4 DEF SentOf
<1>7. ClosingOf(c)'
  <2>1. AppGone(c)' <=> AppGone(c) BY <1>1 DEF AppGone
  <2>2. ASSUME ~AppGone(c)
        PROVE  ~HasClose(dataIn', c) /\ CloseLast(dataIn', c) /\ ~conn[c].half_closed
    <3>1. ~HasClose(dataIn, c) /\ ~conn[c].half_closed BY <1>1, <1>5, <2>2 DEF ClosingOf
    <3> QED BY <1>1, <1>2, <1>3, <3>1, AppendOrder
  <2> QED BY <1>1, <1>5, <2>1, <2>2 DEF ClosingOf
<1>8. \A d \in Conn \ {c} : Bystander(d) BY <1>1, <1>3 DEF Bystander
<1>9. DeferredData' BY <1>1 DEF RInv, DeferredData
<1> QED BY <1>4, <1>6, <1>7, <1>8, <1>9, ElsewhereKeeps

\* The request's numbers do not see a TcpClose.
LEMMA CloseSent ==
  ASSUME NEW c \in Conn, SentOf(c), conn'[c].sock = conn[c].sock, conn'[c].tx = conn[c].tx,
         conn'[c].pending = conn[c].pending, upOwed' = upOwed,
         relay[c] # "none", relay'[c] # "none",
         Held(dataIn', c) = Held(dataIn, c), Held(deferred', c) = Held(deferred, c)
  PROVE  SentOf(c)'
<1>1. Live(c) <=> Live(c)' BY DEF Live
<1> QED BY <1>1 DEF SentOf

LEMMA UploadEndsStep ==
  ASSUME IInv, RInv, NEW c \in Conn, UploadEnds(c)
  PROVE  RInv'
<1> DEFINE m == [id |-> c, size |-> 0]
<1>1. /\ relay[c] = "both" /\ relay' = [relay EXCEPT ![c] = "down"]
      /\ dataIn' = IF running THEN Append(dataIn, m) ELSE dataIn
      /\ UNCHANGED <<conn, call, deferred, upOwed>>
      BY DEF UploadEnds
<1>2. /\ relay'[c] = "down" /\ \A d \in Conn \ {c} : relay'[d] = relay[d]
      /\ dataIn \in Seq(Message) /\ TypeOK
      BY <1>1 DEF IInv, TypeOK
<1>3. m \in Message /\ m.id = c /\ m.size = 0 BY DEF Message
<1> HIDE DEF m
<1>4. /\ \A d \in Conn \ {c} : SameFor(d)
      /\ Held(dataIn', c) = Held(dataIn, c)
  <2>1. CASE dataIn' = dataIn BY <1>1, <2>1, SameChannels
  <2>2. CASE dataIn' = Append(dataIn, m)
    <3>1. Held(dataIn', c) = Held(dataIn, c) + Part(m, c)
          BY <1>1, <1>2, <1>3, <2>2, SameAppended
    <3>2. Held(dataIn, c) \in Nat BY <1>2, HeldTypes
    <3>3. Held(dataIn', c) = Held(dataIn, c) BY <1>3, <3>1, <3>2 DEF Part
    <3> QED BY <1>1, <1>2, <1>3, <2>2, <3>3, SameAppended
  <2> QED BY <1>1, <2>1, <2>2
<1>5. SentOf(c) /\ ClosingOf(c) BY DEF RInv
<1>6. SentOf(c)' BY <1>1, <1>2, <1>4, <1>5, CloseSent
<1>7. ClosingOf(c)'
  <2> SUFFICES ASSUME ~AppGone(c)' PROVE ClosingOf(c)'
      BY DEF ClosingOf
  <2>1. ~AppGone(c) BY <1>1 DEF AppGone
  <2>2. ~HasClose(dataIn, c) /\ ~conn[c].half_closed BY <1>1, <1>5, <2>1 DEF ClosingOf
  <2>3. CloseLast(dataIn', c)
    <3>1. CASE dataIn' = dataIn BY <1>5, <2>1, <3>1 DEF ClosingOf
    <3>2. CASE dataIn' = Append(dataIn, m) BY <1>2, <1>3, <2>2, <3>2, AppendOrder
    <3> QED BY <1>1, <3>1, <3>2
  <2> QED BY <1>1, <1>2, <1>5, <2>1, <2>2, <2>3 DEF ClosingOf
<1>8. \A d \in Conn \ {c} : Bystander(d) BY <1>1, <1>2 DEF Bystander
<1>9. DeferredData' BY <1>1 DEF RInv, DeferredData
<1> QED BY <1>4, <1>6, <1>7, <1>8, <1>9, ElsewhereKeeps

LEMMA RelayEndsStep ==
  ASSUME IInv, RInv, NEW c \in Conn, DownloadEnds(c) \/ RelayOver(c)
  PROVE  RInv'
<1>1. /\ relay[c] \in {"both", "down"} /\ UNCHANGED <<call, deferred, upOwed>>
      /\ dataIn' \in {dataIn, TrySendClose(c)}
      BY DEF DownloadEnds, RelayOver, RelayEnds
<1>2. relay'[c] \in {"eof", "over"} /\ \A d \in Conn \ {c} : relay'[d] = relay[d]
      BY RelayEndsType DEF DownloadEnds, RelayOver
<1>3. conn \in [Conn -> ConnState] BY DEF IInv, TypeOK
<1>4. /\ conn'[c].sock = conn[c].sock /\ conn'[c].tx = conn[c].tx
      /\ conn'[c].pending = conn[c].pending
      /\ \A d \in Conn \ {c} : conn'[d] = conn[d]
  <2>1. CASE DownloadEnds(c) BY <2>1 DEF DownloadEnds
  <2>2. CASE RelayOver(c) BY <1>3, <2>2 DEF RelayOver, ConnState
  <2> QED BY <2>1, <2>2
<1>5. /\ \A d \in Conn \ {c} : SameFor(d)
      /\ Held(dataIn', c) = Held(dataIn, c) /\ Held(deferred', c) = Held(deferred, c)
      BY <1>1, TrySent DEF IInv
<1>6. SentOf(c)' BY <1>1, <1>2, <1>4, <1>5, CloseSent DEF RInv
<1>7. ClosingOf(c)' BY <1>2 DEF ClosingOf, AppGone
<1>8. \A d \in Conn \ {c} : Bystander(d) BY <1>1, <1>2, <1>4 DEF Bystander
<1>9. DeferredData' BY <1>1 DEF RInv, DeferredData
<1> QED BY <1>5, <1>6, <1>7, <1>8, <1>9, ElsewhereKeeps

-----------------------------------------------------------------------------
(* The driver takes a message, and the stack ends.                         *)

\* Where the message m was, and what is left in the channel without it: m is
\* the only one that counts less, a TcpClose comes from the channel, and m
\* is of no connection that has none.
Taken(m) ==
  /\ \A d \in Conn :
       /\ Held(deferred, d) + Held(dataIn, d) = Part(m, d) + Held(dataIn', d)
       /\ m.id # d => Held(deferred, d) = 0
       /\ NoneOf(dataIn, d) => NoneOf(dataIn', d)
       /\ HasClose(dataIn', d) => HasClose(dataIn, d)
       /\ CloseLast(dataIn, d) => CloseLast(dataIn', d)
       /\ NoneOf(dataIn, d) /\ NoneOf(deferred, d) => m.id # d
  /\ m.size = 0 => /\ HasClose(dataIn, m.id)
                   /\ CloseLast(dataIn, m.id) => NoneOf(dataIn', m.id)

\* What of a message is put off.
LEMMA LeftHolds ==
  ASSUME TypeOK, NEW m \in Message, NEW c, c = m.id,
         NEW space, space = MaxPending - conn[c].pending, deferred' = Left(m)
  PROVE  /\ Live(c) /\ m.size > space => Held(deferred', c) = m.size - space
         /\ ~(Live(c) /\ m.size > space) => deferred' = <<>> /\ Held(deferred', c) = 0
         /\ \A d \in Conn \ {c} : Held(deferred', d) = 0 /\ NoneOf(deferred', d)
         /\ \A k \in DOMAIN deferred' : deferred'[k].size > 0
<1>1. c \in Conn /\ m.size \in Nat /\ m.size <= Chunk BY DEF Message
<1>2. conn[c].pending \in Nat /\ conn[c].pending <= MaxPending BY <1>1, HeldTypes
<1>3. space \in Nat BY <1>2
<1>4. CASE Live(c) /\ m.size > space
  <2> DEFINE r == [m EXCEPT !.size = m.size - space]
  <2>1. m.size - space \in 0 .. Chunk /\ m.size - space > 0 BY <1>1, <1>3, <1>4
  <2>2. r \in Message /\ r.id = c /\ r.size = m.size - space BY <2>1 DEF Message
  <2>3. deferred' = <<r>> BY <1>4 DEF Left
  <2> HIDE DEF r
  <2>4. /\ deferred' \in Seq(Message) /\ deferred' # <<>> /\ Head(deferred') = r
        /\ Tail(deferred') = <<>> /\ DOMAIN deferred' = {1} /\ deferred'[1] = r
        BY <2>2, <2>3
  <2>5. ASSUME NEW d PROVE Held(deferred', d) = Part(r, d)
    <3>1. Held(deferred', d) = Part(r, d) + Held(<<>>, d) BY <2>4, HeldTail
    <3>2. Part(r, d) \in Nat /\ Held(<<>>, d) = 0 BY <2>2, PartType, HeldEmpty
    <3> QED BY <3>1, <3>2
  <2>6. Held(deferred', c) = m.size - space BY <2>2, <2>5 DEF Part
  <2>7. \A d \in Conn \ {c} : Held(deferred', d) = 0 /\ NoneOf(deferred', d)
        BY <2>2, <2>4, <2>5 DEF Part, NoneOf
  <2> QED BY <1>4, <2>1, <2>2, <2>4, <2>6, <2>7
<1>5. CASE ~(Live(c) /\ m.size > space)
  <2>1. deferred' = <<>> BY <1>5 DEF Left
  <2>2. \A d : Held(deferred', d) = 0 BY <2>1, HeldEmpty
  <2>3. DOMAIN deferred' = {} BY <2>1
  <2> QED BY <1>5, <2>1, <2>2, <2>3 DEF NoneOf
<1> QED BY <1>4, <1>5

LEMMA HandleStep ==
  ASSUME IInv, RInv, TypeOK', NEW m \in Message, TryHandleData(m), Taken(m),
         UNCHANGED <<relay, call, upOwed>>
  PROVE  RInv'
<1> DEFINE c == m.id
           space == MaxPending - conn[c].pending
<1>1. c \in Conn /\ m.size \in Nat /\ TypeOK BY DEF Message, IInv
<1>2. /\ Held(deferred, c) \in Nat /\ Held(dataIn, c) \in Nat
      /\ Held(dataIn', c) \in Nat
      /\ conn[c].tx \in Nat /\ conn[c].pending \in Nat /\ upOwed[c] \in Int
      /\ conn[c].pending <= MaxPending
  <2>1. Held(dataIn', c) \in Nat BY HeldNat DEF TypeOK
  <2> QED BY <1>1, <2>1, HeldTypes
<1>3. space \in Nat BY <1>2
<1>4. /\ Live(c) /\ m.size > space => Held(deferred', c) = m.size - space
      /\ ~(Live(c) /\ m.size > space) => deferred' = <<>> /\ Held(deferred', c) = 0
      /\ \A d \in Conn \ {c} : Held(deferred', d) = 0 /\ NoneOf(deferred', d)
      /\ DeferredData'
      BY <1>1, LeftHolds DEF TryHandleData, DeferredData
<1>5. conn \in [Conn -> ConnState] /\ conn[c] \in ConnState BY <1>1 DEF TypeOK
<1>6. /\ \A d \in Conn \ {c} : conn'[d] = conn[d]
      /\ conn'[c].sock = conn[c].sock /\ conn'[c].tx = conn[c].tx
      /\ ~Live(c) => conn'[c] = conn[c]
      /\ Live(c) =>
           /\ conn'[c].pending = Min2(conn[c].pending + m.size, MaxPending)
           /\ conn'[c].half_closed = (conn[c].half_closed \/ m.size = 0)
  <2>1. CASE ~Live(c) BY <2>1 DEF TryHandleData
  <2>2. CASE Live(c) /\ m.size = 0
    <3>1. conn' = [conn EXCEPT ![c].half_closed = TRUE] BY <2>2 DEF TryHandleData
    <3>2. /\ conn'[c].half_closed = TRUE /\ conn'[c].pending = conn[c].pending
          /\ conn'[c].sock = conn[c].sock /\ conn'[c].tx = conn[c].tx
          /\ \A d \in Conn \ {c} : conn'[d] = conn[d]
          BY <1>1, <1>5, <3>1 DEF ConnState
    <3>3. Min2(conn[c].pending + m.size, MaxPending) = conn[c].pending
          BY <1>2, <2>2 DEF Min2
    <3> QED BY <2>2, <3>2, <3>3
  <2>3. CASE Live(c) /\ m.size # 0
    <3> DEFINE p == Min2(conn[c].pending + m.size, MaxPending)
    <3>1. conn' = [conn EXCEPT ![c].pending = p] BY <2>3 DEF TryHandleData
    <3> HIDE DEF p
    <3>2. /\ conn'[c].half_closed = conn[c].half_closed /\ conn'[c].pending = p
          /\ conn'[c].sock = conn[c].sock /\ conn'[c].tx = conn[c].tx
          /\ \A d \in Conn \ {c} : conn'[d] = conn[d]
          BY <1>1, <1>5, <3>1 DEF ConnState
    <3>3. conn[c].half_closed \in BOOLEAN BY <1>5 DEF ConnState
    <3> QED BY <2>3, <3>2, <3>3 DEF p
  <2> QED BY <2>1, <2>2, <2>3
<1>7. Held(deferred, c) + Held(dataIn, c) = m.size + Held(dataIn', c)
      BY <1>1 DEF Taken, Part
<1>8. SentOf(c) /\ ClosingOf(c) BY <1>1 DEF RInv
<1> HIDE DEF space, c
<1>9. SentOf(c)'
  <2>1. Live(c) <=> Live(c)' BY <1>6 DEF Live
  <2>2. ASSUME Live(c)
        PROVE  upOwed[c] = conn'[c].tx + conn'[c].pending
                             + Held(deferred', c) + Held(dataIn', c)
    <3>1. upOwed[c] = conn[c].tx + conn[c].pending + Held(deferred, c) + Held(dataIn, c)
          BY <1>8, <2>2 DEF SentOf
    <3>2. conn[c].pending + m.size = conn'[c].pending + Held(deferred', c)
      <4>1. CASE m.size > space
        <5>1. Held(deferred', c) = m.size - space BY <1>4, <2>2, <4>1
        <5>2. conn'[c].pending = MaxPending BY <1>1, <1>2, <1>6, <2>2, <4>1 DEF Min2, space
        <5> QED BY <1>1, <1>2, <5>1, <5>2 DEF space
      <4>2. CASE ~(m.size > space)
        <5>1. Held(deferred', c) = 0 BY <1>4, <4>2
        <5>2. conn'[c].pending = conn[c].pending + m.size
              BY <1>1, <1>2, <1>6, <2>2, <4>2 DEF Min2, space
        <5> QED BY <1>1, <1>2, <5>1, <5>2
      <4> QED BY <4>1, <4>2
    <3>3. conn'[c].pending \in Nat /\ Held(deferred', c) \in Nat
      <4>1. conn'[c] \in ConnState /\ deferred' \in Seq(Message) BY <1>1 DEF TypeOK
      <4>2. conn'[c].pending \in Nat BY <4>1 DEF ConnState
      <4> QED BY <4>1, <4>2, HeldNat
    <3> QED BY <1>1, <1>2, <1>6, <1>7, <3>1, <3>2, <3>3
  <2>3. ASSUME relay[c] = "none" PROVE Held(deferred', c) = 0 /\ Held(dataIn', c) = 0
    <3>1. Held(deferred, c) = 0 /\ Held(dataIn, c) = 0 BY <1>8, <2>3 DEF SentOf
    <3>2. m.size = 0 /\ Held(dataIn', c) = 0 BY <1>1, <1>2, <1>7, <3>1
    <3>3. ~(m.size > space) BY <1>3, <3>2
    <3> QED BY <1>4, <3>2, <3>3
  <2> QED BY <1>6, <1>8, <2>1, <2>2, <2>3 DEF SentOf
<1>10. ClosingOf(c)'
  <2>1. AppGone(c) <=> AppGone(c)' BY DEF AppGone
  <2> SUFFICES ASSUME ~AppGone(c), ~AppGone(c)' PROVE ClosingOf(c)'
      BY <2>1 DEF ClosingOf
  <2>2. ~conn[c].half_closed BY <1>1, <1>8 DEF ClosingOf, Taken, c
  <2>3. conn[c].sock \notin {"finwait1", "finwait2"} BY <1>8, <2>2 DEF ClosingOf
  <2>4. /\ HasClose(dataIn', c) => relay'[c] = "down"
        /\ CloseLast(dataIn', c)
        BY <1>1, <1>8 DEF ClosingOf, Taken
  <2>5. conn'[c].half_closed =>
          relay'[c] = "down" /\ NoneOf(dataIn', c) /\ NoneOf(deferred', c)
    <3> SUFFICES ASSUME conn'[c].half_closed
                 PROVE  relay'[c] = "down" /\ NoneOf(dataIn', c) /\ NoneOf(deferred', c)
        OBVIOUS
    <3>1. m.size = 0 BY <1>6, <2>2
    <3>2. relay[c] = "down" /\ NoneOf(dataIn', c)
          BY <1>8, <3>1 DEF ClosingOf, Taken, c
    <3>3. deferred' = <<>> BY <1>3, <1>4, <3>1
    <3>4. DOMAIN deferred' = {} BY <3>3
    <3> QED BY <3>2, <3>4 DEF NoneOf
  <2> QED BY <1>6, <2>3, <2>4, <2>5 DEF ClosingOf
<1>11. ASSUME NEW d \in Conn \ {c} PROVE Bystander(d) /\ SameFor(d)
  <2>1. Bystander(d) BY <1>6 DEF Bystander
  <2>2. m.id # d /\ Part(m, d) = 0 BY DEF c, Part
  <2>3. Held(deferred, d) = 0 /\ Held(dataIn, d) \in Nat /\ Held(dataIn', d) \in Nat
        BY <1>1, <2>2, HeldNat DEF Taken, TypeOK
  <2>4. Held(dataIn', d) = Held(dataIn, d) BY <2>2, <2>3 DEF Taken
  <2>5. SameFor(d) BY <1>4, <2>3, <2>4 DEF SameFor, Taken
  <2> QED BY <2>1, <2>5
<1> QED BY <1>1, <1>4, <1>9, <1>10, <1>11, ElsewhereKeeps

LEMMA DriverStep == ASSUME IInv, RInv, IInv', Driver PROVE RInv'
<1>1. dataIn \in Seq(Message) /\ deferred \in Seq(Message) /\ Len(deferred) <= 1
      BY DEF IInv, TypeOK
<1>2. \A d : Held(<<>>, d) = 0 BY HeldEmpty
<1>3. CASE HandleData
  <2> DEFINE m == Head(dataIn)
  <2>1. /\ deferred = <<>> /\ dataIn # <<>> /\ TryHandleData(m) /\ dataIn' = Tail(dataIn)
        /\ UNCHANGED <<relay, call, upOwed>>
        BY <1>3 DEF HandleData
  <2>2. m \in Message /\ dataIn' \in Seq(Message) BY <1>1, <2>1
  <2>3. Taken(m)
    <3>1. ASSUME NEW d \in Conn
          PROVE  /\ Held(deferred, d) = 0
                 /\ Held(deferred, d) + Held(dataIn, d) = Part(m, d) + Held(dataIn', d)
      <4>1. Held(deferred, d) = 0 BY <1>2, <2>1
      <4>2. Held(dataIn, d) = Part(m, d) + Held(dataIn', d) BY <1>1, <2>1, HeldTail
      <4>3. Held(dataIn, d) \in Nat BY <1>1, HeldNat
      <4> QED BY <4>1, <4>2, <4>3
    <3>2. \A d :
            /\ NoneOf(dataIn, d) => NoneOf(dataIn', d) /\ m.id # d
            /\ HasClose(dataIn', d) => HasClose(dataIn, d)
            /\ CloseLast(dataIn, d) => CloseLast(dataIn', d)
            /\ m.id = d /\ m.size = 0 =>
                 HasClose(dataIn, d) /\ (CloseLast(dataIn, d) => NoneOf(dataIn', d))
          BY <1>1, <2>1, TailOrder
    <3> HIDE DEF m
    <3> QED BY <3>1, <3>2 DEF Taken
  <2> HIDE DEF m
  <2> QED BY <2>1, <2>2, <2>3, HandleStep DEF IInv
<1>4. CASE RetryDeferred
  <2> DEFINE m == Head(deferred)
  <2>1. /\ deferred # <<>> /\ TryHandleData(m) /\ dataIn' = dataIn
        /\ UNCHANGED <<relay, call, upOwed>>
        BY <1>4 DEF RetryDeferred
  <2>2. m \in Message /\ Tail(deferred) = <<>> /\ m = deferred[1] /\ 1 \in DOMAIN deferred
        BY <1>1, <2>1
  <2>3. m.size # 0
    <3>1. m.size > 0 BY <2>2 DEF RInv, DeferredData
    <3> QED BY <3>1
  <2>4. Taken(m)
    <3>1. ASSUME NEW d \in Conn
          PROVE  /\ Held(deferred, d) + Held(dataIn, d) = Part(m, d) + Held(dataIn', d)
                 /\ m.id # d => Held(deferred, d) = 0
      <4>1. Held(deferred, d) = Part(m, d) + Held(Tail(deferred), d)
            BY <1>1, <2>1, HeldTail
      <4>2. Part(m, d) \in Nat /\ Held(Tail(deferred), d) = 0
            BY <1>2, <2>2, PartType
      <4>3. Held(deferred, d) = Part(m, d) BY <4>1, <4>2
      <4> HIDE DEF m
      <4> QED BY <2>1, <4>3 DEF Part
    <3>2. \A d : NoneOf(deferred, d) => m.id # d BY <2>2 DEF NoneOf
    <3> HIDE DEF m
    <3> QED BY <2>1, <2>3, <3>1, <3>2 DEF Taken
  <2> HIDE DEF m
  <2> QED BY <2>1, <2>2, <2>4, HandleStep DEF IInv
<1> QED BY <1>3, <1>4 DEF Driver

LEMMA StackEndsStep == ASSUME IInv, RInv, StackEnds PROVE RInv'
<1>1. /\ \A c \in Conn : conn'[c] = Removed(conn[c]) /\ upOwed'[c] = 0
      /\ dataIn' = <<>> /\ deferred' = <<>>
      BY DEF StackEnds
<1>2. DOMAIN dataIn' = {} /\ DOMAIN deferred' = {} BY <1>1
<1>3. DeferredData' BY <1>2 DEF DeferredData
<1>4. ASSUME NEW c \in Conn PROVE SentOf(c)' /\ ClosingOf(c)'
  <2>1. /\ conn'[c].sock = "none" /\ conn'[c].tx = 0 /\ conn'[c].pending = 0
        /\ ~conn'[c].half_closed
        BY <1>1, RemovedRequest
  <2>2. Held(dataIn', c) = 0 /\ Held(deferred', c) = 0 BY <1>1, HeldEmpty
  <2>3. SentOf(c)' BY <1>1, <2>1, <2>2 DEF SentOf, Live
  <2>4. ~HasClose(dataIn', c) /\ CloseLast(dataIn', c) BY <1>2 DEF HasClose, CloseLast
  <2>5. ClosingOf(c)' BY <2>1, <2>4 DEF ClosingOf
  <2> QED BY <2>3, <2>5
<1> QED BY <1>3, <1>4 DEF RInv

-----------------------------------------------------------------------------
LEMMA RInvInit == Init => RInv
<1> SUFFICES ASSUME Init PROVE RInv
    OBVIOUS
<1>1. DOMAIN dataIn = {} /\ DOMAIN deferred = {} BY DEF Init
<1>2. DeferredData BY <1>1 DEF DeferredData
<1>3. ASSUME NEW c \in Conn PROVE SentOf(c) /\ ClosingOf(c)
  <2>1. /\ conn[c].tx = 0 /\ conn[c].pending = 0 /\ ~conn[c].half_closed
        /\ conn[c].sock \in {"none", "established"} /\ upOwed[c] = 0
        BY DEF Init, SteadyConn, NoConn, Vacant
  <2>2. Held(dataIn, c) = 0 /\ Held(deferred, c) = 0 BY HeldEmpty DEF Init
  <2>3. SentOf(c) BY <2>1, <2>2 DEF SentOf
  <2>4. ~HasClose(dataIn, c) /\ CloseLast(dataIn, c) BY <1>1 DEF HasClose, CloseLast
  <2>5. ClosingOf(c) BY <2>1, <2>4 DEF ClosingOf
  <2> QED BY <2>3, <2>5
<1> QED BY <1>2, <1>3 DEF RInv

LEMMA RInvStep == IInv /\ RInv /\ IInv' /\ [Next]_vars => RInv'
<1> SUFFICES ASSUME IInv, RInv, IInv', [Next]_vars PROVE RInv'
    OBVIOUS
<1>1. CASE Packets \/ UNCHANGED vars
  <2>1. UNCHANGED <<conn, call, relay, dataIn, deferred, upOwed>>
        BY <1>1 DEF vars, Packets, PacketsCome, Ingest
  <2>2. \A c \in Conn : SentOf(c)' /\ ClosingOf(c)'
        BY <2>1, BystanderKeeps, SameChannels DEF RInv, Bystander
  <2>3. DeferredData' BY <2>1 DEF RInv, DeferredData
  <2> QED BY <2>2, <2>3 DEF RInv
<1>2. ASSUME NEW c \in Conn,
             FarEnd(c) \/ Clock(c) \/ Open(c) \/ Abandon(c) \/ HandleCmd(c)
      PROVE  RInv'
      BY <1>2, SocketStep
<1>3. ASSUME NEW c \in Conn, Service(c) PROVE RInv'
      BY <1>3, RemovedStep, ServeOpenStep DEF Service
<1>4. ASSUME NEW c \in Conn, Relay(c) PROVE RInv'
      BY <1>4, SocketStep, UploadStep, UploadEndsStep, RelayEndsStep DEF Relay
<1> QED BY <1>1, <1>2, <1>3, <1>4, DriverStep, StackEndsStep DEF Next

\* What is known of the requests holds of every reachable state.
THEOREM RequestInvariance == Spec => [](IInv /\ RInv)
  BY RInvInit, RInvStep, Invariance, PTL DEF Spec

\* Deferring, flushing and delivering (service_tcp, try_handle_data) lose and
\* repeat no unit of an open connection, in either direction, with any limits.
THEOREM NothingIsLost == Spec => []Conserved
<1>1. IInv /\ RInv => Conserved
  <2> SUFFICES ASSUME IInv, RInv, NEW c \in Conn, Live(c)
               PROVE  /\ upOwed[c] = conn[c].tx + conn[c].pending
                                        + Held(deferred, c) + Held(dataIn, c)
                      /\ AppGone(c) \/ downOwed[c] = conn[c].app + conn[c].rx
      BY DEF Conserved
  <2>1. SentOf(c) /\ AnsweredOf(c) BY Of DEF RInv
  <2> QED BY <2>1 DEF SentOf, AnsweredOf
<1> QED BY <1>1, RequestInvariance, PTL

\* When the far end has acknowledged our FIN and the answer is still awaited,
\* it has acknowledged the whole request.
THEOREM FinIsLast == Spec => []FinAfterRequest
<1>1. IInv /\ RInv => FinAfterRequest
  <2> SUFFICES ASSUME IInv, RInv, NEW c \in Conn, conn[c].sock = "finwait2", ~AppGone(c)
               PROVE  upOwed[c] = 0
      BY DEF FinAfterRequest
  <2>1. SentOf(c) /\ ClosingOf(c) /\ Live(c) BY DEF RInv, Live
  <2>2. /\ conn[c].tx = 0 /\ conn[c].pending = 0
        /\ NoneOf(dataIn, c) /\ NoneOf(deferred, c)
        BY <2>1 DEF ClosingOf
  <2>3. Held(dataIn, c) = 0 /\ Held(deferred, c) = 0
        BY <2>2, HeldNone DEF NoneOf, IInv, TypeOK
  <2> QED BY <2>1, <2>2, <2>3 DEF SentOf
<1> QED BY <1>1, RequestInvariance, PTL
=============================================================================
