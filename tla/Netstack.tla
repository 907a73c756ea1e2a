------------------------------ MODULE Netstack ------------------------------
(***************************************************************************)
(* The userspace TCP stack of a tunnel (netstack.rs) and the SOCKS relay   *)
(* that uses it (relay_tunneled in socks.rs).                              *)
(*                                                                         *)
(* One task drives the stack: it polls smoltcp, serves every connection,   *)
(* retries what it had to defer, and then takes one packet, one command or *)
(* one message of a relay.  Relays run on other threads: they write to the *)
(* stack through dataIn, one bounded channel for all connections, and read *)
(* from it through a bounded channel of their own.                         *)
(*                                                                         *)
(* Connections share nothing but dataIn and deferred, so a pass over all   *)
(* of them is one Service step for each.  smoltcp's socket is external:    *)
(* its states and buffers are here, its segments are not; a packet that    *)
(* flush_tx drops is one whose acknowledgement comes later.  Data is       *)
(* counted: a unit of rx is what one recv returns.  MAX_RECV_CHUNKS is     *)
(* never reached, a receive buffer being two contiguous pieces at most.    *)
(* The variables upOwed, downOwed, fin and cut are history.                *)
(***************************************************************************)
EXTENDS Integers, Sequences

CONSTANTS Conn,       \* connections, each opened once
          Steady,     \* bound: those that are open from the start and only
                      \* compete for dataIn: their client only sends, full
                      \* chunks, and their far end only acknowledges
          RxBuf,      \* tcp_rx_buf
          TxBuf,      \* tcp_tx_buf
          MaxPending, \* max_tcp_pending
          AppQueue,   \* app_queue, of a connection's channel to its relay
          DataCap,    \* app_queue, of dataIn
          Chunk       \* RELAY_CHUNK

ASSUME NetstackAssumption ==
  /\ Steady \subseteq Conn
  /\ RxBuf \in Nat \ {0} /\ TxBuf \in Nat \ {0} /\ MaxPending \in Nat \ {0}
  /\ AppQueue \in Nat \ {0} /\ DataCap \in Nat \ {0} /\ Chunk \in Nat \ {0}

VARIABLES
  running,  \* run has not returned
  inbound,  \* packets wait in inbound_rx, which the driver's select polls first
  conn,     \* tcp_conns with the sockets; sock is "none" when c is not in it
  cmds,     \* the commands in cmd_rx: the connections to open
  call,     \* open_tcp as its caller sees it
  relay,    \* relay_tunneled: both halves, only the download, or ended
  dataIn,   \* the channel of DataIn; size 0 is TcpClose
  deferred, \* the VecDeque of the same name: at most one message
  upOwed,   \* what the client has sent and the far end not acknowledged
  downOwed, \* what the far end has sent and the client not been given
  fin,      \* the far end has sent everything
  cut       \* "reset": the connection was reset or aborted, or the stack ended;
            \* "full": it was removed with data that the relay's channel had no
            \* room for

taskVars  == <<running, inbound>>
relayVars == <<call, relay>>
chanVars  == <<dataIn, deferred>>
ghosts    == <<upOwed, downOwed, fin, cut>>
vars == <<taskVars, conn, cmds, relayVars, chanVars, ghosts>>

\* No connection, and a relay with n chunks that it has yet to take.
Vacant(n) == [sock |-> "none", established |-> FALSE, due |-> FALSE,
              half_closed |-> FALSE, orphan |-> "no", aborted |-> FALSE,
              pending |-> 0, tx |-> 0, rx |-> 0, app |-> n]

NoConn == Vacant(0)

SteadyConn == [NoConn EXCEPT !.sock = "established", !.established = TRUE]

Message == [id : Conn, size : 0 .. Chunk]

Init ==
  /\ running = TRUE /\ inbound = FALSE
  /\ conn = [c \in Conn |-> IF c \in Steady THEN SteadyConn ELSE NoConn]
  /\ cmds = {}
  /\ call = [c \in Conn |-> IF c \in Steady THEN "ok" ELSE "idle"]
  /\ relay = [c \in Conn |-> IF c \in Steady THEN "both" ELSE "none"]
  /\ dataIn = <<>> /\ deferred = <<>>
  /\ upOwed = [c \in Conn |-> 0] /\ downOwed = [c \in Conn |-> 0]
  /\ fin = [c \in Conn |-> FALSE] /\ cut = [c \in Conn |-> "no"]

\* The connections that the model opens.
Opened == Conn \ Steady

Min2(a, b) == IF a < b THEN a ELSE b

Live(c) == conn[c].sock # "none"

\* The receiver of c's channel has been dropped: by a relay that ended, or by
\* a caller that did not wait for the connection.
AppGone(c) == relay[c] \in {"eof", "over"} \/ call[c] = "abandoned"

\* Mutant of Removed: what the relay has not taken goes too.
RemovedWithChannel(k) == NoConn

\* What remains of a connection that is taken out of tcp_conns.
Removed(k) == Vacant(k.app)

-----------------------------------------------------------------------------
(* The socket's side: smoltcp and the far end.                             *)

\* tcp::Socket::close
Closed(st) == CASE st = "synsent"     -> "closed"
                [] st = "established" -> "finwait1"
                [] st = "closewait"   -> "lastack"
                [] OTHER              -> st

Sock(c, from, to) ==
  /\ conn[c].sock = from
  /\ conn' = [conn EXCEPT ![c].sock = to]

\* The far end accepts the connection.
Accepted(c) ==
  /\ Sock(c, "synsent", "established")
  /\ UNCHANGED <<taskVars, cmds, relayVars, chanVars, ghosts>>

\* Data arrives, as much as the window allows.
Arrives(c) ==
  /\ c \notin Steady
  /\ conn[c].sock \in {"established", "finwait1", "finwait2"}
  /\ conn[c].rx < RxBuf
  /\ conn' = [conn EXCEPT ![c].rx = @ + 1]
  /\ downOwed' = [downOwed EXCEPT ![c] = @ + 1]
  /\ UNCHANGED <<taskVars, cmds, relayVars, chanVars, upOwed, fin, cut>>

\* The far end closes its half.
Fin(c) ==
  /\ c \notin Steady
  /\ \/ Sock(c, "established", "closewait")
     \/ Sock(c, "finwait1", "closing")
     \/ Sock(c, "finwait2", "timewait")
  /\ fin' = [fin EXCEPT ![c] = TRUE]
  /\ UNCHANGED <<taskVars, cmds, relayVars, chanVars, upOwed, downOwed, cut>>

\* It acknowledges data ...
Acks(c) ==
  /\ conn[c].sock \notin {"none", "closed"} /\ conn[c].tx > 0
  /\ conn' = [conn EXCEPT ![c].tx = @ - 1]
  /\ upOwed' = [upOwed EXCEPT ![c] = @ - 1]
  /\ UNCHANGED <<taskVars, cmds, relayVars, chanVars, downOwed, fin, cut>>

\* ... and our FIN, which is sent after the data.
AcksFin(c) ==
  /\ conn[c].tx = 0
  /\ \/ Sock(c, "finwait1", "finwait2")
     \/ Sock(c, "closing", "timewait")
     \/ Sock(c, "lastack", "closed")
  /\ UNCHANGED <<taskVars, cmds, relayVars, chanVars, ghosts>>

\* It refuses or resets the connection, or smoltcp's timeout does.
Resets(c) ==
  /\ c \notin Steady
  /\ conn[c].sock \notin {"none", "closed"}
  /\ conn' = [conn EXCEPT ![c].sock = "closed"]
  /\ cut' = [cut EXCEPT ![c] = "reset"]
  /\ UNCHANGED <<taskVars, cmds, relayVars, chanVars, upOwed, downOwed, fin>>

FarEnd(c) ==
  Accepted(c) \/ Arrives(c) \/ Fin(c) \/ Acks(c) \/ AcksFin(c) \/ Resets(c)

-----------------------------------------------------------------------------
(* Opening a connection.                                                   *)

\* StackHandle::open_tcp sends the command ...
Open(c) ==
  /\ call[c] = "idle"
  /\ call' = [call EXCEPT ![c] = IF running THEN "waiting" ELSE "failed"]
  /\ cmds' = IF running THEN cmds \cup {c} ELSE cmds
  /\ UNCHANGED <<taskVars, conn, relay, chanVars, ghosts>>

\* ... and its caller may stop waiting for the answer.
Abandon(c) ==
  /\ c \notin Steady
  /\ call[c] = "waiting"
  /\ call' = [call EXCEPT ![c] = "abandoned"]
  /\ UNCHANGED <<taskVars, conn, cmds, relay, chanVars, ghosts>>

\* The answer reaches a caller that still waits.
Answer(c, a) == [call EXCEPT ![c] = IF @ = "waiting" THEN a ELSE @]

\* The arm of cmd_rx, second of the select, and handle_cmd: the socket connects,
\* or cannot and the caller is told.
HandleCmd(c) ==
  /\ running /\ ~inbound /\ c \in cmds
  /\ cmds' = cmds \ {c}
  /\ \/ /\ conn' = [conn EXCEPT ![c].sock = "synsent"]
        /\ call' = call
     \/ /\ call' = Answer(c, "failed")
        /\ conn' = conn
  /\ UNCHANGED <<taskVars, relay, chanVars, ghosts>>

\* connect_deadline passes.
ConnectDue(c) ==
  /\ Live(c) /\ ~conn[c].established /\ ~conn[c].due
  /\ conn' = [conn EXCEPT ![c].due = TRUE]
  /\ UNCHANGED <<taskVars, cmds, relayVars, chanVars, ghosts>>

\* orphan_linger has passed since the relay was found gone.
OrphanDue(c) ==
  /\ conn[c].orphan = "armed"
  /\ conn' = [conn EXCEPT ![c].orphan = "due"]
  /\ UNCHANGED <<taskVars, cmds, relayVars, chanVars, ghosts>>

-----------------------------------------------------------------------------
(* service_tcp, for one connection.                                        *)

\* try_send of TcpClose: nothing is sent when the channel is full.
TrySendClose(c) ==
  IF Len(dataIn) < DataCap THEN Append(dataIn, [id |-> c, size |-> 0]) ELSE dataIn

\* What the client has sent is counted while the connection is there.
Forget(c) == upOwed' = [upOwed EXCEPT ![c] = IF conn'[c].sock = "none" THEN 0 ELSE @]

\* A connection that was aborted in an earlier pass goes.
ServeAborted(c) ==
  /\ conn[c].aborted
  /\ conn' = [conn EXCEPT ![c] = Removed(@)]
  /\ Forget(c)
  /\ UNCHANGED <<taskVars, cmds, relayVars, chanVars, downOwed, fin, cut>>

\* Mutant of Unanswered: the deadline of the connect is not looked at.
UnansweredForever(c) ==
  \/ conn[c].sock \in {"closed", "timewait"}
  \/ conn[c].sock = "synsent" /\ call[c] # "waiting"

\* It was refused, or nobody answers in time, or nobody waits for it.
Unanswered(c) ==
  \/ conn[c].sock \in {"closed", "timewait"}
  \/ conn[c].sock = "synsent" /\ (call[c] # "waiting" \/ conn[c].due)

ServeConnecting(c) ==
  /\ Live(c) /\ ~conn[c].aborted /\ ~conn[c].established
  /\ Unanswered(c)
  /\ call' = Answer(c, "failed")
  /\ conn' = [conn EXCEPT ![c] = Removed(@)]
  /\ UNCHANGED <<taskVars, cmds, relay, chanVars, ghosts>>

\* pending goes to the socket as far as it has room, ...
Flushed(k) ==
  LET n == Min2(k.pending, TxBuf - k.tx)
  IN IF k.sock \in {"established", "closewait"} /\ k.tx < TxBuf
     THEN [k EXCEPT !.tx = @ + n, !.pending = @ - n]
     ELSE k

\* Mutant of HalfClosed: it closes with data still pending.
HalfClosedEarly(k) == IF k.half_closed THEN [k EXCEPT !.sock = Closed(@)] ELSE k

\* ... the socket is closed once the client has and all of it is there, ...
HalfClosed(k) ==
  IF k.half_closed /\ k.pending = 0 THEN [k EXCEPT !.sock = Closed(@)] ELSE k

\* Mutant of Delivered: it does not wait for room in the channel.
DeliveredUnbounded(k) == [k EXCEPT !.rx = 0, !.app = @ + k.rx]

\* ... and what has arrived goes to the relay, as far as its channel has room.
Delivered(k) ==
  LET n == Min2(k.rx, AppQueue - k.app)
  IN [k EXCEPT !.rx = @ - n, !.app = @ + n]

\* Mutant of Orphaned: the linger is not looked at.
OrphanedForever(k) ==
  IF k.rx > 0
  THEN [k EXCEPT !.sock = "closed", !.aborted = TRUE, !.orphan = "armed"]
  ELSE [k EXCEPT !.sock = Closed(@), !.orphan = IF @ = "no" THEN "armed" ELSE @]

\* Nobody reads any more: the socket is aborted when data comes or the linger
\* is over, and closed until then.
Orphaned(k) ==
  IF k.rx > 0 \/ k.orphan = "due"
  THEN [k EXCEPT !.sock = "closed", !.aborted = TRUE,
                 !.orphan = IF @ = "no" THEN "armed" ELSE @]
  ELSE [k EXCEPT !.sock = Closed(@), !.orphan = IF @ = "no" THEN "armed" ELSE @]

\* What the end of the pass does with the state it finds.
Settled(k) ==
  CASE ~k.aborted /\ k.sock = "closewait" -> [k EXCEPT !.sock = Closed(@)]
    [] ~k.aborted /\ k.sock \in {"closed", "timewait"} -> Removed(k)
    [] OTHER -> k

\* A connection that is established, or is found to be.
ServeOpen(c) ==
  LET first == ~conn[c].established
      k == HalfClosed(Flushed([conn[c] EXCEPT !.established = TRUE, !.due = FALSE]))
  IN /\ ~conn[c].aborted
     /\ conn[c].established \/ conn[c].sock \in {"established", "closewait"}
     /\ conn' = [conn EXCEPT
                   ![c] = Settled(IF AppGone(c) THEN Orphaned(k) ELSE Delivered(k))]
     /\ call' = Answer(c, "ok")
     /\ relay' = [relay EXCEPT ![c] = IF first /\ call[c] = "waiting" THEN "both" ELSE @]
     /\ dataIn' = IF first /\ call[c] = "abandoned" THEN TrySendClose(c) ELSE dataIn
     /\ cut' = [cut EXCEPT ![c] =
                   IF conn'[c].aborted THEN "reset"
                   ELSE IF @ = "no" /\ conn'[c].sock = "none"
                             /\ conn[c].app + conn[c].rx > AppQueue THEN "full"
                   ELSE @]
     /\ Forget(c)
     /\ UNCHANGED <<taskVars, cmds, deferred, downOwed, fin>>

Service(c) == running /\ (ServeAborted(c) \/ ServeConnecting(c) \/ ServeOpen(c))

-----------------------------------------------------------------------------
(* try_handle_data: the messages of the relays.                            *)

\* Mutant of Left: a message of a connection that is gone is kept.
LeftOfGone(d) ==
  LET space == IF Live(d.id) THEN MaxPending - conn[d.id].pending ELSE 0
  IN IF d.size > space THEN <<[d EXCEPT !.size = @ - space]>> ELSE <<>>

\* Mutant of Left: the part that was taken is offered again.
LeftWhole(d) ==
  IF Live(d.id) /\ d.size > MaxPending - conn[d.id].pending THEN <<d>> ELSE <<>>

\* The rest of d that c's pending has no room for.
Left(d) ==
  LET space == MaxPending - conn[d.id].pending
  IN IF Live(d.id) /\ d.size > space
     THEN <<[d EXCEPT !.size = @ - space]>> ELSE <<>>

TryHandleData(d) ==
  /\ conn' = IF ~Live(d.id) THEN conn
             ELSE IF d.size = 0 THEN [conn EXCEPT ![d.id].half_closed = TRUE]
             ELSE [conn EXCEPT ![d.id].pending = Min2(@ + d.size, MaxPending)]
  /\ deferred' = Left(d)

\* The arm of data_in_rx, third of the select and open while nothing is deferred.
\* It goes on with try_recv; a packet or a command that comes meanwhile is as if
\* it came after it.
HandleData ==
  /\ running /\ ~inbound /\ cmds = {} /\ deferred = <<>> /\ dataIn # <<>>
  /\ TryHandleData(Head(dataIn))
  /\ dataIn' = Tail(dataIn)
  /\ UNCHANGED <<taskVars, cmds, relayVars, ghosts>>

RetryDeferred ==
  /\ running /\ deferred # <<>>
  /\ TryHandleData(Head(deferred))
  /\ UNCHANGED <<taskVars, cmds, relayVars, dataIn, ghosts>>

\* The tunnel sends packets up, ...
PacketsCome ==
  /\ running /\ ~inbound
  /\ inbound' = TRUE
  /\ UNCHANGED <<running, conn, cmds, relayVars, chanVars, ghosts>>

\* ... which the first arm of the select takes.  What they do to the sockets is
\* FarEnd, at any time.
Ingest ==
  /\ running /\ inbound
  /\ inbound' = FALSE
  /\ UNCHANGED <<running, conn, cmds, relayVars, chanVars, ghosts>>

\* The tunnel is gone and with it inbound_rx: run returns and drops the lot.
StackEnds ==
  /\ running
  /\ running' = FALSE /\ inbound' = FALSE
  /\ conn' = [c \in Conn |-> Removed(conn[c])]
  /\ cmds' = {}
  /\ call' = [c \in Conn |-> IF call[c] = "waiting" THEN "failed" ELSE call[c]]
  /\ dataIn' = <<>> /\ deferred' = <<>>
  /\ cut' = [c \in Conn |-> "reset"]
  /\ upOwed' = [c \in Conn |-> 0]
  /\ UNCHANGED <<relay, downOwed, fin>>

-----------------------------------------------------------------------------
(* relay_tunneled.                                                         *)

\* The relay returns: its receiver and its sender are dropped.
RelayEnds(c, how) ==
  /\ relay' = [relay EXCEPT ![c] = how]
  /\ dataIn' = IF running THEN TrySendClose(c) ELSE dataIn

\* upload: n units of the client go to the stack, when the channel has room.
Upload(c, n) ==
  /\ c \in Steady => n = Chunk
  /\ relay[c] = "both" /\ running /\ Len(dataIn) < DataCap
  /\ dataIn' = Append(dataIn, [id |-> c, size |-> n])
  /\ upOwed' = [upOwed EXCEPT ![c] = IF Live(c) THEN @ + n ELSE @]
  /\ UNCHANGED <<taskVars, conn, cmds, call, relay, deferred, downOwed, fin, cut>>

\* The client has sent everything, or the stack is gone: upload ends, with a
\* TcpClose if there is a stack to take it.
UploadEnds(c) ==
  /\ c \notin Steady
  /\ relay[c] = "both" /\ (running => Len(dataIn) < DataCap)
  /\ relay' = [relay EXCEPT ![c] = "down"]
  /\ dataIn' = IF running THEN Append(dataIn, [id |-> c, size |-> 0]) ELSE dataIn
  /\ UNCHANGED <<taskVars, conn, cmds, call, deferred, ghosts>>

\* download: a chunk is written to the client.
Download(c) ==
  /\ relay[c] \in {"both", "down"} /\ conn[c].app > 0
  /\ conn' = [conn EXCEPT ![c].app = @ - 1]
  /\ downOwed' = [downOwed EXCEPT ![c] = @ - 1]
  /\ UNCHANGED <<taskVars, cmds, call, relay, chanVars, upOwed, fin, cut>>

\* The channel is empty and its sender gone: the client is told that this was
\* all, and the relay ends; "eof" when the client had ended its request.
DownloadEnds(c) ==
  /\ relay[c] \in {"both", "down"} /\ conn[c].app = 0 /\ ~Live(c)
  /\ RelayEnds(c, IF relay[c] = "down" THEN "eof" ELSE "over")
  /\ UNCHANGED <<taskVars, conn, cmds, call, deferred, ghosts>>

\* The client cannot be written to, or its upload has ended and nothing has
\* moved for the linger.
RelayOver(c) ==
  /\ c \notin Steady
  /\ relay[c] \in {"both", "down"}
  /\ RelayEnds(c, "over")
  /\ conn' = [conn EXCEPT ![c].app = 0]
  /\ UNCHANGED <<taskVars, cmds, call, deferred, ghosts>>

Relay(c) ==
  \/ Download(c) \/ UploadEnds(c) \/ DownloadEnds(c) \/ RelayOver(c)
  \/ \E n \in 1 .. Chunk : Upload(c, n)

-----------------------------------------------------------------------------
Clock(c) == ConnectDue(c) \/ OrphanDue(c)

Driver == HandleData \/ RetryDeferred

Packets == PacketsCome \/ Ingest

Next ==
  \/ \E c \in Conn : \/ FarEnd(c) \/ Open(c) \/ Abandon(c) \/ HandleCmd(c)
                     \/ Clock(c) \/ Service(c) \/ Relay(c)
  \/ Driver \/ Packets \/ StackEnds

Spec == Init /\ [][Next]_vars

\* Every pass of the driver serves every connection and retries what is deferred,
\* and no pass waits longer than MAX_IDLE_TICK while there are connections; clocks
\* advance.  The select is biased: packets are always taken, a command only when
\* no packet waits, so that packets that keep coming keep it waiting, which weak
\* fairness of HandleCmd allows.  Nothing is assumed of the messages of relays,
\* nor of clients, relays, far ends or the tunnel.
Fairness ==
  /\ WF_vars(Ingest) /\ WF_vars(RetryDeferred)
  /\ \A c \in Opened : WF_vars(Service(c)) /\ WF_vars(HandleCmd(c)) /\ WF_vars(Clock(c))

FairSpec == Spec /\ Fairness

-----------------------------------------------------------------------------
TcpState == {"none", "synsent", "established", "closewait", "lastack", "finwait1",
             "finwait2", "closing", "timewait", "closed"}

ConnState == [sock : TcpState, established : BOOLEAN, due : BOOLEAN,
              half_closed : BOOLEAN, orphan : {"no", "armed", "due"},
              aborted : BOOLEAN, pending : 0 .. MaxPending, tx : 0 .. TxBuf,
              rx : 0 .. RxBuf, app : 0 .. AppQueue]

CutKind == {"no", "full", "reset"}

\* The type invariant: no buffer or channel grows past its limit.
TypeOK ==
  /\ running \in BOOLEAN /\ inbound \in BOOLEAN
  /\ conn \in [Conn -> ConnState]
  /\ cmds \in SUBSET Conn
  /\ call \in [Conn -> {"idle", "waiting", "abandoned", "ok", "failed"}]
  /\ relay \in [Conn -> {"none", "both", "down", "eof", "over"}]
  /\ dataIn \in Seq(Message) /\ Len(dataIn) <= DataCap
  /\ deferred \in Seq(Message) /\ Len(deferred) <= 1
  /\ upOwed \in [Conn -> Int] /\ downOwed \in [Conn -> Int]
  /\ fin \in [Conn -> BOOLEAN] /\ cut \in [Conn -> CutKind]

\* What a message, and what the messages of a channel hold for c.
Part(d, c) == IF d.id = c THEN d.size ELSE 0

Held(ch, c) ==
  LET total[k \in 0 .. Len(ch)] ==
        IF k = 0 THEN 0 ELSE total[k - 1] + Part(ch[k], c)
  IN total[Len(ch)]

\* Backpressure loses and repeats nothing: as long as a connection is open,
\* every unit its client has sent and its far end has not acknowledged is in
\* the socket, pending, deferred or in the channel, and every unit its far end
\* has sent and its client does not have is in the socket or in the channel to
\* the relay.
Conserved ==
  \A c \in Conn : Live(c) =>
    /\ upOwed[c] = conn[c].tx + conn[c].pending
                     + Held(deferred, c) + Held(dataIn, c)
    /\ AppGone(c) \/ downOwed[c] = conn[c].app + conn[c].rx

\* The end of a request does not overtake the request: when the far end has
\* acknowledged our FIN and its answer is still awaited, it has all that the
\* client sent, whatever was deferred in between.
FinAfterRequest ==
  \A c \in Conn : conn[c].sock = "finwait2" /\ ~AppGone(c) => upOwed[c] = 0

\* netstack.rs: "a connect that is never answered must fail, not hang".  A
\* connect gets its answer, or its command waits behind packets again and again:
\* the deadline that handle_cmd sets is looked at in every pass, so only packets
\* that never cease to come before the driver takes the command can keep a
\* caller waiting.
ConnectAnswered ==
  \A c \in Opened :
    call[c] = "waiting" ~> (call[c] # "waiting" \/ (c \in cmds /\ inbound))

\* netstack.rs: "an orphaned connection whose far end never closes must be
\* reset, not kept": also when the TcpClose of a dropped relay was lost on a
\* full channel, or its data is the one deferred.
OrphanFreed ==
  \A c \in Opened : Live(c) /\ AppGone(c) ~> ~Live(c)

\* A connection that nobody reads any more does not hold the one deferred
\* message, which keeps the messages of every other connection waiting.
OrphanUnblocks ==
  \A c \in Opened :
    (AppGone(c) /\ Held(deferred, c) > 0) ~> Held(deferred, c) = 0

\* socks.rs, "the_answer_to_a_half_closed_request_still_arrives_whole": a
\* client that has ended its request and is told that the answer is complete
\* has been given all of it, unless the connection was reset or was removed when
\* the relay's channel was full.
AnswerWhole ==
  \A c \in Conn : relay[c] = "eof" /\ fin[c] /\ cut[c] = "no" => downOwed[c] = 0

\* The same of every connection that was not reset: when the far end has sent all
\* of its answer, a slow client gets all of it too.
AnswerNeverCut ==
  \A c \in Conn : relay[c] = "eof" /\ fin[c] /\ cut[c] # "reset" => downOwed[c] = 0
=============================================================================
