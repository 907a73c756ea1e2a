------------------------- MODULE VpnLifecycleProofs -------------------------
(***************************************************************************)
(* Invariance proofs for VpnLifecycle, for every number of sessions, stops *)
(* and service instances.  The inductive invariant IInv adds to TypeOK,    *)
(* ExclusiveWorker and FdClosedOnce what they need to be preserved: where  *)
(* the main thread stands while it owns a descriptor (MainInv), that the   *)
(* next session is untouched (FreshInv) and what the holder of the monitor *)
(* of AetherNative has already done (MonitorInv).  The second part proves  *)
(* that VpnLifecycle implements ExclusiveSession.                          *)
(***************************************************************************)
EXTENDS VpnLifecycle, SequenceTheorems, TLAPS

\* The labels at which the main thread runs a method of a live service object.
InService == {"prepWrite", "prepSpawn", "startWrite", "startTun",
              "setReceiver", "startLog", "nativeStart", "setHandle"}

\* From establish to nativeStart.
Open == {"setReceiver", "startLog", "nativeStart"}

\* While startTunnel opens a session, it is the newest one, its descriptor is
\* Java's and it has no worker.
MainInv ==
  /\ mpc \in InService => mi \in Inst
  /\ mpc \in Open =>
       ms \in Sess /\ ms = sess /\ wpc[ms] = "off" /\ fd[ms] = "java"

\* Sessions that have not been opened have no worker and no descriptor.
FreshInv == \A s \in Sess : s > sess => wpc[s] = "off" /\ fd[s] = "none"

\* A worker inside appendLog is at the line it is writing.
MonitorInv ==
  /\ monitor.kind = "result" => wpc[monitor.by] = "returned"
  /\ monitor.kind \in {"finishRead", "finishWrite", "finishInvoke", "finishClear"}
       => wpc[monitor.by] = "inactive"

\* The inductive invariant.
IInv == /\ TypeOK /\ ExclusiveWorker /\ FdClosedOnce
        /\ MainInv /\ FreshInv /\ MonitorInv


\* Before the first tap nothing runs and nothing is open.
LEMMA InitIInv == Init => IInv
  <1> SUFFICES ASSUME Init PROVE IInv
    OBVIOUS
  <1> USE DEF Init
  <1>1. TypeOK
    <2>1. intents \in Seq(Intent) /\ posts \in Seq(Post)
      BY EmptySeq
    <2> QED
      BY <2>1 DEF TypeOK, Receiver, Monitor, TunnelState, MainPc, WorkerPc
  <1>2. ExclusiveWorker
    BY DEF ExclusiveWorker, Holding
  <1>3. FdClosedOnce
    BY DEF FdClosedOnce, Polled
  <1>4. MainInv /\ FreshInv /\ MonitorInv
    BY DEF MainInv, FreshInv, MonitorInv, InService, Open, Unlocked
  <1> QED
    BY <1>1, <1>2, <1>3, <1>4 DEF IInv

USE DEF uiVars, amVars, svcVars, mainVars, nativeVars, workerVars, logVars

-----------------------------------------------------------------------------
(* Types.                                                                  *)

\* What the two queues gain and lose keeps their types.
LEMMA QueueTypes ==
  ASSUME TypeOK
  PROVE  /\ \A x \in Intent : Append(intents, x) \in Seq(Intent)
         /\ \A x \in Post : Append(posts, x) \in Seq(Post)
         /\ \A i : RequestDestroy(i) \in Seq(Intent)
         /\ intents # <<>> => Tail(intents) \in Seq(Intent)
         /\ posts # <<>> => Tail(posts) \in Seq(Post) /\ Head(posts) \in Post
  <1>1. \A x \in Intent : Append(intents, x) \in Seq(Intent)
    BY AppendProperties DEF TypeOK
  <1>2. \A x \in Post : Append(posts, x) \in Seq(Post)
    BY AppendProperties DEF TypeOK
  <1>3. \A i : RequestDestroy(i) \in Seq(Intent)
    BY <1>1 DEF RequestDestroy, TypeOK, Intent
  <1>4. intents # <<>> => Tail(intents) \in Seq(Intent)
    BY HeadTailProperties DEF TypeOK
  <1>5. posts # <<>> => Tail(posts) \in Seq(Post) /\ Head(posts) \in Post
    BY HeadTailProperties DEF TypeOK
  <1> QED
    BY <1>1, <1>2, <1>3, <1>4, <1>5

\* Steps of the activity.
LEMMA TypeUser ==
  ASSUME TypeOK, User \/ TapPrepare \/ TapStopWrite \/ Recompose \/ Revoke
  PROVE  TypeOK'
  <1>1. CASE TapStart
    BY <1>1 DEF TapStart, TypeOK, TunnelState, MainPc
  <1>2. CASE TapStop
    BY <1>2 DEF TapStop, TypeOK, TunnelState, MainPc, MarkStopping, Keep
  <1>3. CASE PermissionGranted
    BY <1>3, QueueTypes DEF PermissionGranted, TypeOK, Intent
  <1>4. CASE PermissionDenied
    BY <1>4 DEF PermissionDenied, TypeOK, MainPc
  <1>5. CASE TapPrepare
    <2>1. intents' \in Seq(Intent)
      BY <1>5, QueueTypes DEF TapPrepare, TypeOK, Intent
    <2> QED
      BY <1>5, <2>1 DEF TapPrepare, Return, TypeOK, MainPc
  <1>6. CASE TapStopWrite
    <2>1. intents' \in Seq(Intent)
      BY <1>6, QueueTypes DEF TapStopWrite, Intent
    <2> QED
      BY <1>6, <2>1 DEF TapStopWrite, Return, Written, TypeOK, MainPc
  <1>7. CASE Recompose
    BY <1>7 DEF Recompose, TypeOK
  <1>8. CASE Revoke
    <2>1. intents' \in Seq(Intent)
      BY <1>8, QueueTypes DEF Revoke
    <2> QED
      BY <1>8, <2>1 DEF Revoke, TypeOK
  <1> QED
    BY <1>1, <1>2, <1>3, <1>4, <1>5, <1>6, <1>7, <1>8 DEF User

\* Steps of the service up to the handle's assignment.
LEMMA TypeStart ==
  ASSUME TypeOK, MainInv,
         \/ DeliverStart \/ PrepWrite \/ PrepSpawn \/ Profile \/ HandleStartPost
         \/ StartWrite \/ StartTun \/ StartThrows \/ SetReceiver \/ StartLog
         \/ NativeStartAccepted \/ NativeStartRejected \/ SetHandle
  PROVE  TypeOK'
  <1>1. CASE DeliverStart
    <2>1. intents' \in Seq(Intent)
      BY <1>1, QueueTypes DEF DeliverStart
    <2>2. svc' \in Inst \cup {0} /\ insts' \in Nat /\ mi' \in Inst \cup {0}
      BY <1>1, BoundsAssumption DEF DeliverStart, TypeOK, Inst
    <2>3. mpc' \in MainPc /\ mwrite' \in TunnelState \cup {Keep}
      BY <1>1 DEF DeliverStart, TypeOK, MainPc, MarkStarting, TunnelState
    <2> QED
      BY <1>1, <2>1, <2>2, <2>3 DEF DeliverStart, TypeOK
  <1>2. CASE PrepWrite
    BY <1>2 DEF PrepWrite, Written, TypeOK, MainPc
  <1>3. CASE PrepSpawn
    <2>1. mi \in Inst
      BY <1>3 DEF PrepSpawn, MainInv, InService
    <2>2. gen' \in [Inst -> Nat]
      BY <1>3, <2>1 DEF PrepSpawn, TypeOK
    <2>3. prep' \in SUBSET [inst : Inst, gen : Nat]
      BY <1>3, <2>1 DEF PrepSpawn, TypeOK
    <2> QED
      BY <1>3, <2>2, <2>3 DEF PrepSpawn, Return, TypeOK, MainPc
  <1>4. CASE Profile
    <2> PICK p \in prep : ProfileReady(p)
      BY <1>4 DEF Profile
    <2>1. posts' \in Seq(Post)
      BY QueueTypes DEF ProfileReady, TypeOK, Post
    <2> QED
      BY <2>1 DEF ProfileReady, TypeOK
  <1>5. CASE HandleStartPost
    <2>1. posts' \in Seq(Post) /\ Head(posts) \in Post
      BY <1>5, QueueTypes DEF HandleStartPost
    <2>2. mi' \in Inst \cup {0}
      BY <1>5, <2>1 DEF HandleStartPost, TypeOK, Post
    <2>3. mpc' \in MainPc /\ mwrite' \in TunnelState \cup {Keep}
      BY <1>5 DEF HandleStartPost, TypeOK, MainPc, MarkStarting, TunnelState
    <2> QED
      BY <1>5, <2>1, <2>2, <2>3 DEF HandleStartPost, TypeOK
  <1>6. CASE StartWrite
    BY <1>6 DEF StartWrite, Written, TypeOK, MainPc
  <1>7. CASE StartTun
    <2>1. tun' \in [Inst -> Sess \cup {0}]
      BY <1>7 DEF StartTun, TypeOK
    <2>2. fd' \in [Sess -> {"none", "java", "native", "closed"}]
      BY <1>7 DEF StartTun, TypeOK
    <2>3. /\ sess' \in Nat /\ ms' \in Sess \cup {0} /\ mi' \in Inst \cup {0}
          /\ mpc' \in MainPc /\ mh' \in Sess \cup {0}
          /\ mwrite' \in TunnelState \cup {Keep}
      <3>1. CASE tun[mi] # 0
        BY <1>7, <3>1 DEF StartTun, Return, TypeOK, MainPc
      <3>2. CASE tun[mi] = 0
        BY <1>7, <3>2 DEF StartTun, TypeOK, MainPc
      <3> QED
        BY <3>1, <3>2
    <2>4. mpreserve' \in BOOLEAN
      BY <1>7 DEF StartTun, Return, TypeOK
    <2> QED
      BY <1>7, <2>1, <2>2, <2>3, <2>4 DEF StartTun, TypeOK
  <1>8. CASE SetReceiver
    BY <1>8 DEF SetReceiver, TypeOK, MainPc, MainInv, InService, Open, Receiver
  <1>9. CASE NativeStartAccepted
    BY <1>9 DEF NativeStartAccepted, DetachFd, TypeOK, MainPc, MainInv, Open,
                WorkerPc
  <1>10. CASE NativeStartRejected
    BY <1>10 DEF NativeStartRejected, TypeOK, MainPc, MainInv, Open
  <1>11. CASE SetHandle
    BY <1>11 DEF SetHandle, Return, TypeOK, MainPc
  <1>12. CASE StartThrows
    <2>1. tun' \in [Inst -> Sess \cup {0}]
      BY <1>12 DEF StartThrows, TypeOK
    <2>2. /\ fd' \in [Sess -> {"none", "java", "native", "closed"}]
          /\ closes' \in [Sess -> Nat]
      BY <1>12 DEF StartThrows, TypeOK, MainInv, Open
    <2> QED
      BY <1>12, <2>1, <2>2 DEF StartThrows, TypeOK, MainPc
  <1>13. CASE StartLog
    BY <1>13 DEF StartLog, TypeOK, MainPc
  <1> QED
    BY <1>1, <1>2, <1>3, <1>4, <1>5, <1>6, <1>7, <1>8, <1>9, <1>10, <1>11, <1>12,
       <1>13

\* Steps of the handlers that end in stopTunnel.
LEMMA TypeStop ==
  ASSUME TypeOK,
         \/ DeliverStop \/ SvcStopWrite \/ DeliverDestroy \/ HandleFinishedPost
         \/ StopNative \/ ReadRunning \/ WriteStopped \/ StopSelf
  PROVE  TypeOK'
  <1>1. CASE DeliverStop
    <2>1. intents' \in Seq(Intent)
      BY <1>1, QueueTypes DEF DeliverStop
    <2>2. svc' \in Inst \cup {0} /\ insts' \in Nat /\ mi' \in Inst \cup {0}
      BY <1>1, BoundsAssumption DEF DeliverStop, TypeOK, Inst
    <2>3. mpc' \in MainPc /\ mwrite' \in TunnelState \cup {Keep}
      BY <1>1 DEF DeliverStop, MainPc, MarkStopping, TunnelState
    <2>4. gen' \in [Inst -> Nat]
      BY <1>1 DEF DeliverStop, TypeOK
    <2> QED
      BY <1>1, <2>1, <2>2, <2>3, <2>4 DEF DeliverStop, TypeOK
  <1>2. CASE SvcStopWrite
    BY <1>2 DEF SvcStopWrite, Written, TypeOK, MainPc
  <1>3. CASE DeliverDestroy
    <2>1. intents' \in Seq(Intent)
      BY <1>3, QueueTypes DEF DeliverDestroy
    <2>2. gen' \in [Inst -> Nat]
      <3>1. CASE svc \in Inst
        BY <1>3, <3>1 DEF DeliverDestroy, TypeOK
      <3>2. CASE svc \notin Inst
        BY <1>3, <3>2 DEF DeliverDestroy, TypeOK
      <3> QED
        BY <3>1, <3>2
    <2> QED
      BY <1>3, <2>1, <2>2 DEF DeliverDestroy, TypeOK, MainPc
  <1>4. CASE HandleFinishedPost
    <2>1. posts' \in Seq(Post) /\ Head(posts) \in Post
      BY <1>4, QueueTypes DEF HandleFinishedPost
    <2> QED
      BY <1>4, <2>1 DEF HandleFinishedPost, TypeOK, MainPc, Post
  <1>5. CASE StopNative
    <2>1. runs' \in SUBSET Sess /\ stopSig' \in SUBSET Sess
      BY <1>5 DEF StopNative, Polled, TypeOK
    <2>2. fd' \in [Sess -> {"none", "java", "native", "closed"}]
      <3> DEFINE t == tun[mi]
      <3>1. fd' \in {fd, [fd EXCEPT ![t] = "closed"]}
        BY <1>5 DEF StopNative
      <3> QED
        BY <3>1 DEF TypeOK
    <2>3. closes' \in [Sess -> Nat]
      <3> DEFINE t == tun[mi]
      <3>1. CASE t \in Sess
        BY <1>5, <3>1 DEF StopNative, TypeOK
      <3>2. CASE t \notin Sess
        BY <1>5, <3>2 DEF StopNative, TypeOK
      <3> QED
        BY <3>1, <3>2
    <2>4. handle' \in [Inst -> Sess \cup {0}] /\ tun' \in [Inst -> Sess \cup {0}]
      BY <1>5 DEF StopNative, TypeOK
    <2> QED
      BY <1>5, <2>1, <2>2, <2>3, <2>4 DEF StopNative, TypeOK, MainPc
  <1>6. CASE ReadRunning
    BY <1>6 DEF ReadRunning, MarkStopped, TypeOK, MainPc, TunnelState
  <1>7. CASE WriteStopped
    BY <1>7 DEF WriteStopped, Written, TypeOK, MainPc
  <1>8. CASE StopSelf
    <2>1. intents' \in Seq(Intent)
      BY <1>8, QueueTypes DEF StopSelf
    <2> QED
      BY <1>8, <2>1 DEF StopSelf, Return, TypeOK, MainPc
  <1> QED
    BY <1>1, <1>2, <1>3, <1>4, <1>5, <1>6, <1>7, <1>8

\* Steps of the workers, inside and outside the monitor.
LEMMA TypeWorker ==
  ASSUME TypeOK, InMonitor \/ \E s \in Sess : Worker(s)
  PROVE  TypeOK'
  <1>1. ASSUME NEW s \in Sess, Runtime(s) \/ StopSeen(s) PROVE TypeOK'
    <2>1. CASE RuntimeBuilt(s)
      BY <2>1 DEF RuntimeBuilt, TypeOK, WorkerPc
    <2>2. CASE RuntimeFails(s)
      BY <2>2 DEF RuntimeFails, Returns, TypeOK, WorkerPc
    <2>3. CASE StopSeen(s)
      BY <2>3 DEF StopSeen, Returns, TypeOK, WorkerPc
    <2> QED
      BY <1>1, <2>1, <2>2, <2>3 DEF Runtime
  <1>2. ASSUME NEW s \in Sess, EngineEvent(s) PROVE TypeOK'
    <2>1. CASE BridgeStarts(s)
      BY <2>1 DEF BridgeStarts, TypeOK, WorkerPc, TunnelState
    <2>2. CASE ReconnectLog(s)
      BY <2>2 DEF ReconnectLog, Lock, TypeOK, Monitor, TunnelState
    <2>3. CASE TrafficLog(s)
      BY <2>3 DEF TrafficLog, Lock, TypeOK, Monitor, TunnelState
    <2>4. CASE \E out \in {"clean", "error", "panic"} : EngineEnds(s, out)
      BY <2>4 DEF EngineEnds, Returns, TypeOK, WorkerPc
    <2> QED
      BY <1>2, <2>1, <2>2, <2>3, <2>4 DEF EngineEvent
  <1>3. ASSUME NEW s \in Sess, ResultLog(s) PROVE TypeOK'
    BY <1>3 DEF ResultLog, ResultState, Lock, TypeOK, Monitor, TunnelState
  <1>4. ASSUME NEW s \in Sess, DropRuntime(s) \/ ClearActive(s) PROVE TypeOK'
    BY <1>4 DEF DropRuntime, ClearActive, TypeOK, WorkerPc
  <1>5. ASSUME NEW s \in Sess, FinishEnter(s) PROVE TypeOK'
    BY <1>5 DEF FinishEnter, Lock, TypeOK, Monitor
  <1>6. CASE LogWrite
    BY <1>6 DEF LogWrite, Written, TypeOK, Monitor, Unlocked, WorkerPc
  <1>7. CASE FinishRead
    <2>1. monitor' \in Monitor
      BY <1>7
      DEF FinishRead, Held, MarkStopped, TypeOK, Monitor, Unlocked, TunnelState
    <2> QED
      BY <1>7, <2>1 DEF FinishRead, TypeOK
  <1>8. CASE FinishWrite
    <2>1. monitor' \in Monitor
      BY <1>8 DEF FinishWrite, Held, TypeOK, Monitor, Unlocked
    <2>2. tunnelState' \in TunnelState
      BY <1>8 DEF FinishWrite, Written, TypeOK, Monitor, Unlocked
    <2> QED
      BY <1>8, <2>1, <2>2 DEF FinishWrite, TypeOK
  <1>9. CASE FinishInvoke
    <2>1. posts' \in Seq(Post)
      BY <1>9, QueueTypes DEF FinishInvoke, TypeOK, Receiver, Post
    <2>2. monitor' \in Monitor
      BY <1>9 DEF FinishInvoke, Held, TypeOK, Monitor, Unlocked
    <2> QED
      BY <1>9, <2>1, <2>2 DEF FinishInvoke, TypeOK
  <1>10. CASE FinishClear
    BY <1>10 DEF FinishClear, TypeOK, Monitor, Unlocked, Receiver, WorkerPc
  <1> QED
    BY <1>1, <1>2, <1>3, <1>4, <1>5, <1>6, <1>7, <1>8, <1>9, <1>10
    DEF InMonitor, Worker

-----------------------------------------------------------------------------
(* What the steps leave alone, stated once.                                *)

\* What ExclusiveWorker and FdClosedOnce speak of.
core == <<sess, active, fd, closes, wpc>>

\* The activity, and the looper's handlers before and after they enter the
\* native library, touch no descriptor and no worker.
LEMMA QuietMain ==
  ASSUME \/ User \/ Revoke \/ Profile \/ DeliverIntent \/ HandlePost \/ Recompose
         \/ TapPrepare \/ PrepSpawn \/ StartLog \/ MainSteps
  PROVE  UNCHANGED core
  <1>1. CASE User \/ Revoke \/ Profile
    BY <1>1 DEF User, TapStart, TapStop, PermissionGranted, PermissionDenied,
                Revoke, Profile, ProfileReady, core
  <1>2. CASE DeliverIntent \/ HandlePost \/ Recompose
    BY <1>2 DEF DeliverIntent, DeliverStart, DeliverStop, DeliverDestroy,
                HandlePost, HandleStartPost, HandleFinishedPost, Recompose, core
  <1>3. CASE TapPrepare \/ PrepSpawn \/ StartLog
    BY <1>3 DEF TapPrepare, PrepSpawn, StartLog, core
  <1>4. CASE MainSteps
    BY <1>4 DEF MainSteps, TapStopWrite, PrepWrite, StartWrite, SetReceiver,
                SetHandle, SvcStopWrite, ReadRunning, WriteStopped, StopSelf, core
  <1> QED
    BY <1>1, <1>2, <1>3, <1>4

\* So do the lines of the log that report no end of a worker.
LEMMA QuietLog ==
  ASSUME \/ FinishRead \/ FinishWrite \/ FinishInvoke
         \/ \E s \in Sess : \/ ReconnectLog(s) \/ TrafficLog(s) \/ ResultLog(s)
                            \/ FinishEnter(s)
  PROVE  UNCHANGED core
  BY DEF FinishRead, FinishWrite, FinishInvoke, ReconnectLog, TrafficLog,
         ResultLog, FinishEnter, core

\* The cases of a step, by what they do to the descriptors and the workers.
Quiet ==
  \/ User \/ Revoke \/ Profile \/ DeliverIntent \/ HandlePost \/ Recompose
  \/ TapPrepare \/ PrepSpawn \/ StartLog \/ MainSteps
  \/ FinishRead \/ FinishWrite \/ FinishInvoke
  \/ \E s \in Sess : \/ ReconnectLog(s) \/ TrafficLog(s) \/ ResultLog(s)
                     \/ FinishEnter(s)

\* run_android, or the attempt to run it, ends.
WorkerReturns(s) ==
  /\ wpc[s] \in {"spawned", "run", "bridge"}
  /\ \E out \in {"noruntime", "clean", "error", "panic"} : Returns(s, out)

\* Every step is a quiet one or one of these.
LEMMA StepCases ==
  ASSUME Next
  PROVE  \/ Quiet
         \/ StartTun \/ StartThrows \/ NativeStartAccepted
         \/ NativeStartRejected \/ StopNative
         \/ LogWrite \/ FinishClear
         \/ \E s \in Sess : \/ RuntimeBuilt(s) \/ BridgeStarts(s)
                            \/ WorkerReturns(s) \/ DropRuntime(s) \/ ClearActive(s)
  <1>1. CASE \E s \in Sess : Worker(s)
    BY <1>1 DEF Worker, Runtime, EngineEvent, RuntimeFails, StopSeen, EngineEnds,
                WorkerReturns, Quiet
  <1> QED
    BY <1>1 DEF Next, Main, MainLogs, NativeStart, InMonitor, Quiet

\* A quiet step changes no session, no descriptor and no worker's position.
LEMMA QuietStep == ASSUME Quiet PROVE UNCHANGED core
  BY QuietMain, QuietLog DEF Quiet

-----------------------------------------------------------------------------
(* The other conjuncts of the inductive invariant.                         *)

\* ACTIVE is set exactly while one worker runs: taken by the compare_exchange
\* of nativeStart, cleared by that worker alone after it drops its runtime.
LEMMA ExclusiveStep ==
  ASSUME IInv, Next
  PROVE  ExclusiveWorker'
  <1> USE DEF IInv
  <1>1. CASE Quiet \/ StartTun \/ StartThrows \/ NativeStartRejected \/ StopNative
    <2> UNCHANGED <<wpc, active>>
      BY <1>1, QuietStep DEF core, StartTun, StartThrows, NativeStartRejected,
         StopNative
    <2> QED
      BY DEF ExclusiveWorker
  <1>2. CASE NativeStartAccepted
    BY <1>2 DEF NativeStartAccepted, TypeOK, MainInv, Open, ExclusiveWorker,
                Holding
  <1>3. CASE LogWrite
    <2>1. monitor.kind = "result" => monitor.by \in Sess
      BY DEF TypeOK, Monitor, Unlocked
    <2> QED
      BY <1>3, <2>1 DEF LogWrite, TypeOK, MonitorInv, ExclusiveWorker, Holding
  <1>4. CASE FinishClear
    <2>1. monitor.by \in Sess
      BY <1>4 DEF FinishClear, TypeOK, Monitor, Unlocked
    <2> QED
      BY <1>4, <2>1 DEF FinishClear, TypeOK, MonitorInv, ExclusiveWorker, Holding
  <1>5. ASSUME NEW s \in Sess, RuntimeBuilt(s) \/ BridgeStarts(s) \/ DropRuntime(s)
        PROVE  ExclusiveWorker'
    <2>1. CASE RuntimeBuilt(s)
      BY <2>1 DEF RuntimeBuilt, TypeOK, ExclusiveWorker, Holding
    <2>2. CASE BridgeStarts(s)
      BY <2>2 DEF BridgeStarts, TypeOK, ExclusiveWorker, Holding
    <2>3. CASE DropRuntime(s)
      BY <2>3 DEF DropRuntime, TypeOK, ExclusiveWorker, Holding
    <2> QED
      BY <1>5, <2>1, <2>2, <2>3
  <1>6. ASSUME NEW s \in Sess, WorkerReturns(s) PROVE ExclusiveWorker'
    BY <1>6 DEF WorkerReturns, Returns, TypeOK, ExclusiveWorker, Holding
  <1>7. ASSUME NEW s \in Sess, ClearActive(s) PROVE ExclusiveWorker'
    BY <1>7 DEF ClearActive, TypeOK, ExclusiveWorker, Holding
  <1> QED
    BY <1>1, <1>2, <1>3, <1>4, <1>5, <1>6, <1>7, StepCases

\* Between establish and nativeStart the main thread does nothing but set the
\* receiver and log, whatever the other threads do.
LEMMA StartWindow ==
  ASSUME TypeOK, MainInv, Quiet
  PROVE  /\ mpc' \in InService => mi' \in Inst
         /\ \/ UNCHANGED <<mpc, ms>>
            \/ mpc = "setReceiver" /\ mpc' = "startLog" /\ ms' = ms
            \/ mpc = "startLog" /\ mpc' = "nativeStart" /\ ms' = ms
            \/ mpc \notin Open /\ mpc' \notin Open
  <1> USE DEF Open
  <1>1. CASE User \/ TapPrepare \/ Recompose
    BY <1>1 DEF User, TapStart, TapStop, PermissionGranted, PermissionDenied,
                TapPrepare, Recompose, Return, MainInv, InService
  <1>2. CASE DeliverIntent
    BY <1>2 DEF DeliverIntent, DeliverStart, DeliverStop, DeliverDestroy, MainInv,
                InService
  <1>3. CASE HandlePost
    <2>1. posts # <<>> => Head(posts).inst \in Inst
      BY QueueTypes DEF Post
    <2> QED
      BY <1>3, <2>1 DEF HandlePost, HandleStartPost, HandleFinishedPost, MainInv,
                        InService
  <1>4. CASE MainSteps \/ PrepSpawn \/ StartLog
    BY <1>4 DEF MainSteps, TapStopWrite, PrepWrite, StartWrite, SetReceiver,
                SetHandle, SvcStopWrite, ReadRunning, WriteStopped, StopSelf,
                PrepSpawn, StartLog, Return, MainInv, InService
  <1>5. CASE \/ Revoke \/ Profile \/ FinishRead \/ FinishWrite \/ FinishInvoke
             \/ \E s \in Sess : \/ ReconnectLog(s) \/ TrafficLog(s)
                                \/ ResultLog(s) \/ FinishEnter(s)
    <2> UNCHANGED mainVars
      BY <1>5 DEF Revoke, Profile, ProfileReady, FinishRead, FinishWrite,
                  FinishInvoke, ReconnectLog, TrafficLog, ResultLog, FinishEnter
    <2> QED
      BY DEF MainInv
  <1> QED
    BY <1>1, <1>2, <1>3, <1>4, <1>5 DEF Quiet

\* No other thread touches the session that the main thread is opening.
LEMMA MainStep ==
  ASSUME IInv, Next
  PROVE  MainInv'
  <1> USE DEF IInv, Open
  <1>1. CASE Quiet
    BY <1>1, StartWindow, QuietStep DEF MainInv, InService, core
  <1>2. CASE StartTun
    <2>1. CASE mpc' \in {"free", "stopNative"}
      BY <2>1 DEF MainInv, InService
    <2>2. CASE /\ sess + 1 \in Sess /\ sess' = sess + 1 /\ ms' = sess + 1
               /\ mpc' = "setReceiver" /\ mi' = mi
               /\ fd' = [fd EXCEPT ![sess + 1] = "java"]
      <3>1. wpc'[sess + 1] = "off" /\ mi \in Inst
        BY <1>2, <2>2 DEF StartTun, TypeOK, FreshInv, MainInv, InService
      <3> QED
        BY <2>2, <3>1 DEF TypeOK, MainInv, InService
    <2> QED
      BY <1>2, <2>1, <2>2 DEF StartTun, Return
  <1>3. CASE StartThrows \/ NativeStartAccepted \/ NativeStartRejected \/ StopNative
    BY <1>3 DEF StartThrows, NativeStartAccepted, NativeStartRejected, StopNative, MainInv,
                InService
  <1>4. CASE LogWrite \/ FinishClear
    BY <1>4 DEF LogWrite, FinishClear, TypeOK, MainInv, MonitorInv
  <1>5. ASSUME NEW s \in Sess,
               \/ RuntimeBuilt(s) \/ BridgeStarts(s) \/ DropRuntime(s)
               \/ ClearActive(s)
        PROVE  MainInv'
    BY <1>5 DEF RuntimeBuilt, BridgeStarts, DropRuntime, ClearActive, TypeOK,
                MainInv
  <1>6. ASSUME NEW s \in Sess, WorkerReturns(s) PROVE MainInv'
    BY <1>6 DEF WorkerReturns, Returns, TypeOK, MainInv
  <1> QED
    BY <1>1, <1>2, <1>3, <1>4, <1>5, <1>6, StepCases

\* Only the session that startTunnel opens ceases to be fresh.
LEMMA FreshStep ==
  ASSUME IInv, Next
  PROVE  FreshInv'
  <1> USE DEF IInv
  <1>1. CASE Quiet
    BY <1>1, QuietStep DEF FreshInv, core
  <1>2. CASE StartTun
    BY <1>2, BoundsAssumption DEF StartTun, TypeOK, FreshInv, Sess
  <1>3. CASE StartThrows \/ NativeStartAccepted \/ NativeStartRejected
    BY <1>3, BoundsAssumption
    DEF StartThrows, NativeStartAccepted, NativeStartRejected, TypeOK, MainInv,
        Open, FreshInv, Sess
  <1>4. CASE StopNative
    BY <1>4 DEF StopNative, TypeOK, FreshInv
  <1>5. CASE LogWrite \/ FinishClear
    BY <1>5 DEF LogWrite, FinishClear, TypeOK, FreshInv, MonitorInv
  <1>6. ASSUME NEW s \in Sess,
               \/ RuntimeBuilt(s) \/ BridgeStarts(s) \/ DropRuntime(s)
               \/ ClearActive(s)
        PROVE  FreshInv'
    BY <1>6 DEF RuntimeBuilt, BridgeStarts, DropRuntime, ClearActive, TypeOK,
                FreshInv
  <1>7. ASSUME NEW s \in Sess, WorkerReturns(s) PROVE FreshInv'
    BY <1>7 DEF WorkerReturns, Returns, TypeOK, FreshInv
  <1> QED
    BY <1>1, <1>2, <1>3, <1>4, <1>5, <1>6, <1>7, StepCases

\* While a worker is inside appendLog nobody moves it but itself.
LEMMA MonitorStep ==
  ASSUME IInv, Next
  PROVE  MonitorInv'
  <1> USE DEF IInv
  <1>1. CASE Quiet
    <2>1. CASE FinishRead \/ FinishWrite \/ FinishInvoke
      BY <2>1 DEF FinishRead, FinishWrite, FinishInvoke, Held, MonitorInv
    <2>2. CASE \E s \in Sess : \/ ReconnectLog(s) \/ TrafficLog(s)
                               \/ ResultLog(s) \/ FinishEnter(s)
      BY <2>2 DEF ReconnectLog, TrafficLog, ResultLog, FinishEnter, Lock, MonitorInv
    <2>3. CASE \/ User \/ Revoke \/ Profile \/ DeliverIntent \/ HandlePost
               \/ Recompose \/ TapPrepare \/ PrepSpawn \/ StartLog \/ MainSteps
      <3>1. monitor' = monitor
        BY <2>3 DEF User, TapStart, TapStop, PermissionGranted, PermissionDenied,
             Revoke, Profile, ProfileReady, DeliverIntent, DeliverStart,
             DeliverStop, DeliverDestroy, HandlePost, HandleStartPost,
             HandleFinishedPost, Recompose, TapPrepare, PrepSpawn, StartLog, MainSteps,
             TapStopWrite, PrepWrite, StartWrite, SetReceiver, SetHandle,
             SvcStopWrite, ReadRunning, WriteStopped, StopSelf
      <3> QED
        BY <1>1, <3>1, QuietStep DEF MonitorInv, core
    <2> QED
      BY <1>1, <2>1, <2>2, <2>3 DEF Quiet
  <1>2. CASE StartTun \/ StartThrows \/ NativeStartRejected \/ StopNative
    BY <1>2 DEF StartTun, StartThrows, NativeStartRejected, StopNative, MonitorInv
  <1>3. CASE NativeStartAccepted
    <2>1. wpc[ms] = "off" /\ UNCHANGED monitor
      BY <1>3 DEF NativeStartAccepted, MainInv, Open
    <2>2. wpc' = [wpc EXCEPT ![ms] = "spawned"]
      BY <1>3 DEF NativeStartAccepted
    <2>3. monitor.kind # "none" => monitor.by \in Sess
      BY DEF TypeOK, Monitor, Unlocked
    <2> QED
      BY <2>1, <2>2, <2>3 DEF TypeOK, MonitorInv
  <1>4. CASE LogWrite \/ FinishClear
    BY <1>4 DEF LogWrite, FinishClear, Unlocked, MonitorInv
  <1>5. ASSUME NEW s \in Sess,
               \/ RuntimeBuilt(s) \/ BridgeStarts(s) \/ DropRuntime(s)
               \/ ClearActive(s)
        PROVE  MonitorInv'
    <2>1. \A t \in Sess : wpc[t] \in {"returned", "inactive"} => wpc'[t] = wpc[t]
      BY <1>5 DEF RuntimeBuilt, BridgeStarts, DropRuntime, ClearActive, TypeOK
    <2>2. monitor' = monitor
      BY <1>5 DEF RuntimeBuilt, BridgeStarts, DropRuntime, ClearActive
    <2>3. monitor.kind # "none" => monitor.by \in Sess
      BY DEF TypeOK, Monitor, Unlocked
    <2> QED
      BY <2>1, <2>2, <2>3 DEF MonitorInv
  <1>6. ASSUME NEW s \in Sess, WorkerReturns(s) PROVE MonitorInv'
    BY <1>6 DEF WorkerReturns, Returns, TypeOK, MonitorInv
  <1> QED
    BY <1>1, <1>2, <1>3, <1>4, <1>5, <1>6, StepCases

\* Each descriptor passes from Java to the worker or to nativeStart's error
\* path, and whoever holds it closes it once.
LEMMA FdStep ==
  ASSUME IInv, Next
  PROVE  FdClosedOnce'
  <1> USE DEF IInv
  <1>1. CASE Quiet
    BY <1>1, StartWindow, QuietStep DEF FdClosedOnce, Polled, Open, core
  <1>2. CASE StartTun
    <2>1. UNCHANGED <<wpc, closes>> /\ Polled' = Polled
      BY <1>2 DEF StartTun, Polled
    <2>2. \A s \in Sess : fd[s] # "java"
      BY <1>2 DEF StartTun, FdClosedOnce
    <2>3. CASE UNCHANGED fd
      BY <2>1, <2>2, <2>3 DEF FdClosedOnce
    <2>4. CASE /\ sess + 1 \in Sess /\ ms' = sess + 1 /\ mpc' = "setReceiver"
               /\ fd' = [fd EXCEPT ![sess + 1] = "java"]
      <3>1. fd[sess + 1] = "none"
        BY <2>4 DEF TypeOK, FreshInv
      <3> QED
        BY <2>1, <2>2, <2>4, <3>1 DEF TypeOK, FdClosedOnce
    <2> QED
      BY <1>2, <2>3, <2>4 DEF StartTun
  <1>3. CASE NativeStartAccepted
    BY <1>3 DEF NativeStartAccepted, DetachFd, TypeOK, MainInv, Open,
                FdClosedOnce, Polled
  <1>4. CASE StartThrows \/ NativeStartRejected
    BY <1>4 DEF StartThrows, NativeStartRejected, TypeOK, MainInv, Open,
                FdClosedOnce, Polled
  <1>5. CASE StopNative
    BY <1>5 DEF StopNative, TypeOK, FdClosedOnce, Polled
  <1>6. CASE LogWrite \/ FinishClear
    <2>1. \A s \in Sess : s \in Polled' <=> s \in Polled
      BY <1>6 DEF LogWrite, FinishClear, TypeOK, MonitorInv, Polled
    <2>2. UNCHANGED <<fd, closes, mpc, ms>>
      BY <1>6 DEF LogWrite, FinishClear
    <2> QED
      BY <2>1, <2>2 DEF FdClosedOnce
  <1>7. ASSUME NEW s \in Sess,
               \/ RuntimeBuilt(s) \/ BridgeStarts(s) \/ DropRuntime(s)
               \/ ClearActive(s)
        PROVE  FdClosedOnce'
    <2>1. CASE RuntimeBuilt(s)
      BY <2>1 DEF RuntimeBuilt, TypeOK, FdClosedOnce, Polled
    <2>2. CASE BridgeStarts(s) \/ DropRuntime(s) \/ ClearActive(s)
      <3>1. \A t \in Sess : t \in Polled' <=> t \in Polled
        BY <2>2 DEF BridgeStarts, DropRuntime, ClearActive, TypeOK, Polled
      <3>2. UNCHANGED <<fd, closes, mpc, ms>>
        BY <2>2 DEF BridgeStarts, DropRuntime, ClearActive
      <3> QED
        BY <3>1, <3>2 DEF FdClosedOnce
    <2> QED
      BY <1>7, <2>1, <2>2
  <1>8. ASSUME NEW s \in Sess, WorkerReturns(s) PROVE FdClosedOnce'
    BY <1>8 DEF WorkerReturns, Returns, TypeOK, FdClosedOnce, Polled
  <1> QED
    BY <1>1, <1>2, <1>3, <1>4, <1>5, <1>6, <1>7, <1>8, StepCases

-----------------------------------------------------------------------------
(* The theorems.                                                           *)

\* The inductive invariant holds of every behaviour of the specification.
THEOREM Invariance == Spec => []IInv
  <1>1. Init => IInv
    BY InitIInv
  <1>2. IInv /\ [Next]_vars => IInv'
    <2> SUFFICES ASSUME IInv, [Next]_vars PROVE IInv'
      OBVIOUS
    <2>1. CASE Next
      <3>1. TypeOK'
        BY <2>1, TypeUser, TypeStart, TypeStop, TypeWorker
        DEF IInv, Next, Main, MainLogs, NativeStart, MainSteps, DeliverIntent,
            HandlePost
      <3> QED
        BY <2>1, <3>1, ExclusiveStep, FdStep, MainStep, FreshStep, MonitorStep
        DEF IInv
    <2>2. CASE UNCHANGED vars
      BY <2>2 DEF vars, IInv, TypeOK, ExclusiveWorker, FdClosedOnce, MainInv,
                  FreshInv, MonitorInv, Polled
    <2> QED
      BY <2>1, <2>2
  <1> QED
    BY <1>1, <1>2, PTL DEF Spec

\* Every variable of the app, the service and the library keeps its type.
THEOREM TypeCorrect == Spec => []TypeOK
  BY Invariance, PTL DEF IInv

\* However taps, service callbacks, posts and workers interleave, and however
\* many sessions there are, two native workers never run at once, and ACTIVE is
\* set exactly while one does.
THEOREM WorkerIsExclusive == Spec => []ExclusiveWorker
  BY Invariance, PTL DEF IInv

\* No TUN descriptor is closed twice, and none is open without an owner that
\* will close it.
THEOREM DescriptorClosedOnce == Spec => []FdClosedOnce
  BY Invariance, PTL DEF IInv

-----------------------------------------------------------------------------
(* VpnLifecycle implements ExclusiveSession.  To IInv the proof adds what  *)
(* is known of RUNS and of the stop channels, and that a session that was  *)
(* opened has had a descriptor.                                            *)

\* A stop waits only for a worker that will see it, and a handle is in RUNS at
\* most until its worker drops the runtime.
RunsInv ==
  \A s \in Sess :
    /\ s \in stopSig => s \in Polled
    /\ s \in runs => wpc[s] \in Holding \ {"dropped"}

OpenedInv == \A s \in Sess : s <= sess => fd[s] # "none"

LInv == IInv /\ RunsInv /\ OpenedInv

\* A quiet step leaves the library alone.
LEMMA QuietLibrary ==
  ASSUME Quiet
  PROVE  UNCHANGED <<sess, active, runs, stopSig, fd, wpc>>
  <1>1. CASE User \/ Revoke \/ Profile
    BY <1>1 DEF User, TapStart, TapStop, PermissionGranted, PermissionDenied,
                Revoke, Profile, ProfileReady
  <1>2. CASE DeliverIntent \/ HandlePost \/ Recompose
    BY <1>2 DEF DeliverIntent, DeliverStart, DeliverStop, DeliverDestroy,
                HandlePost, HandleStartPost, HandleFinishedPost, Recompose
  <1>3. CASE TapPrepare \/ PrepSpawn \/ StartLog
    BY <1>3 DEF TapPrepare, PrepSpawn, StartLog
  <1>4. CASE MainSteps
    BY <1>4 DEF MainSteps, TapStopWrite, PrepWrite, StartWrite, SetReceiver,
                SetHandle, SvcStopWrite, ReadRunning, WriteStopped, StopSelf
  <1>5. CASE \/ FinishRead \/ FinishWrite \/ FinishInvoke
             \/ \E s \in Sess : \/ ReconnectLog(s) \/ TrafficLog(s) \/ ResultLog(s)
                                \/ FinishEnter(s)
    BY <1>5 DEF FinishRead, FinishWrite, FinishInvoke, ReconnectLog, TrafficLog,
                ResultLog, FinishEnter
  <1> QED
    BY <1>1, <1>2, <1>3, <1>4, <1>5 DEF Quiet

\* What the steps that enter the library do, seen from one session.
LEMMA StopNativeEffect ==
  ASSUME LInv, StopNative
  PROVE  /\ UNCHANGED <<sess, active, fd, wpc>>
         /\ runs' \subseteq runs /\ stopSig \subseteq stopSig'
         /\ \A s \in Sess : s \in stopSig' \ stopSig => s \in Polled
         /\ \/ UNCHANGED stopSig
            \/ \E h \in Sess \cap Polled : stopSig' = stopSig \cup {h}
  <1> USE DEF LInv, IInv
  <1>1. mpc = "stopNative" /\ UNCHANGED <<sess, active, wpc>>
    BY DEF StopNative
  <1>2. \A s \in Sess : fd[s] # "java"
    BY <1>1 DEF FdClosedOnce
  <1>3. UNCHANGED fd
    BY <1>2 DEF StopNative, TypeOK
  <1>4. \/ UNCHANGED <<runs, stopSig>>
        \/ \E h \in runs : runs' = runs \ {h} /\ stopSig' = stopSig \cup ({h} \cap Polled)
    BY DEF StopNative
  <1>5. runs \subseteq Sess
    BY DEF TypeOK
  <1> QED
    BY <1>1, <1>3, <1>4, <1>5

\* The steps of a worker and of its lines.
WorkerStep(s) ==
  \/ RuntimeBuilt(s) \/ BridgeStarts(s) \/ WorkerReturns(s) \/ DropRuntime(s)
  \/ ClearActive(s)

LineStep == LogWrite \/ FinishClear

LEMMA LineEffect ==
  ASSUME LInv, LineStep
  PROVE  /\ UNCHANGED <<sess, active, fd, runs, stopSig>>
         /\ \/ UNCHANGED wpc
            \/ \E s \in Sess : wpc[s] = "returned"
                               /\ wpc' = [wpc EXCEPT ![s] = "resultLogged"]
            \/ \E s \in Sess : wpc[s] = "inactive" /\ wpc' = [wpc EXCEPT ![s] = "done"]
  <1> USE DEF LInv, IInv
  <1>1. CASE LogWrite
    <2>1. monitor.kind = "result" => monitor.by \in Sess
      BY DEF TypeOK, Monitor, Unlocked
    <2> QED
      BY <1>1, <2>1 DEF LogWrite, MonitorInv
  <1>2. CASE FinishClear
    <2>1. monitor.by \in Sess
      BY <1>2 DEF FinishClear, TypeOK, Monitor, Unlocked
    <2> QED
      BY <1>2, <2>1 DEF FinishClear, MonitorInv
  <1> QED
    BY <1>1, <1>2 DEF LineStep

LEMMA RunsStep ==
  ASSUME LInv, Next
  PROVE  RunsInv'
  <1> USE DEF LInv, IInv, RunsInv
  <1>1. CASE Quiet
    BY <1>1, QuietLibrary DEF Polled
  <1>2. CASE StartTun \/ StartThrows \/ NativeStartRejected
    BY <1>2 DEF StartTun, StartThrows, NativeStartRejected, Polled
  <1>3. CASE NativeStartAccepted
    BY <1>3 DEF NativeStartAccepted, MainInv, Open, TypeOK, Polled, Holding
  <1>4. CASE StopNative
    BY <1>4, StopNativeEffect DEF Polled
  <1>5. CASE LineStep
    BY <1>5, LineEffect DEF Polled, Holding, TypeOK
  <1>6. ASSUME NEW s \in Sess, WorkerStep(s)
        PROVE  RunsInv'
    <2> USE DEF Polled, Holding, TypeOK
    <2>1. CASE RuntimeBuilt(s)
      BY <2>1 DEF RuntimeBuilt
    <2>2. CASE BridgeStarts(s)
      BY <2>2 DEF BridgeStarts
    <2>3. CASE WorkerReturns(s)
      BY <2>3 DEF WorkerReturns, Returns
    <2>4. CASE DropRuntime(s)
      BY <2>4 DEF DropRuntime
    <2>5. CASE ClearActive(s)
      BY <2>5 DEF ClearActive
    <2> QED
      BY <1>6, <2>1, <2>2, <2>3, <2>4, <2>5 DEF WorkerStep
  <1> QED
    BY <1>1, <1>2, <1>3, <1>4, <1>5, <1>6, StepCases DEF LineStep, WorkerStep

LEMMA OpenedStep ==
  ASSUME LInv, Next
  PROVE  OpenedInv'
  <1> USE DEF LInv, IInv, OpenedInv
  <1>1. CASE Quiet
    BY <1>1, QuietLibrary
  <1>2. CASE StartTun
    <2>1. \/ UNCHANGED <<sess, fd>>
          \/ /\ sess + 1 \in Sess /\ sess' = sess + 1
             /\ fd' = [fd EXCEPT ![sess + 1] = "java"]
      BY <1>2 DEF StartTun
    <2>2. sess \in Nat /\ \A s \in Sess : s \in Nat
      BY BoundsAssumption DEF TypeOK, Sess
    <2> QED
      BY <2>1, <2>2 DEF TypeOK
  <1>3. CASE StartThrows \/ NativeStartAccepted \/ NativeStartRejected
    BY <1>3 DEF StartThrows, NativeStartAccepted, NativeStartRejected, DetachFd,
                TypeOK
  <1>4. CASE StopNative
    BY <1>4, StopNativeEffect
  <1>5. CASE LineStep
    BY <1>5, LineEffect
  <1>6. ASSUME NEW s \in Sess, WorkerStep(s)
        PROVE  OpenedInv'
    BY <1>6 DEF WorkerStep, RuntimeBuilt, BridgeStarts, WorkerReturns, Returns,
                DropRuntime, ClearActive, TypeOK
  <1> QED
    BY <1>1, <1>2, <1>3, <1>4, <1>5, <1>6, StepCases DEF LineStep, WorkerStep
LEMMA LInvInit == Init => LInv
  BY InitIInv, BoundsAssumption DEF Init, LInv, RunsInv, OpenedInv, Sess

-----------------------------------------------------------------------------
(* A step of VpnLifecycle is one of ExclusiveSession, or changes none of   *)
(* its state.                                                              *)

\* A session of which a step changes nothing.
Same(s) ==
  /\ wpc'[s] = wpc[s] /\ fd'[s] = fd[s]
  /\ s \in stopSig' <=> s \in stopSig
  /\ s \in runs' <=> s \in runs

LEMMA SameState ==
  ASSUME NEW s \in Sess, Same(s)
  PROVE  SessionState(s)' = SessionState(s)
  BY DEF Same, SessionState, Polled

\* The state of one session changes, the others' does not.
LEMMA Becoming ==
  ASSUME NEW s \in Sess, NEW from, NEW to,
         SessionState(s) = from, SessionState(s)' = to,
         \A t \in Sess \ {s} : SessionState(t)' = SessionState(t)
  PROVE  Library!Becomes(s, from, to)
  BY DEF Library!Becomes

\* When no session changes its state, the step stutters.
LEMMA Stutters ==
  ASSUME \A t \in Sess : SessionState(t)' = SessionState(t)
  PROVE  UNCHANGED [s \in Sess |-> SessionState(s)]
  OBVIOUS

LEMMA Opened ==
  ASSUME LInv, mpc \in Open
  PROVE  /\ ms \in Sess /\ SessionState(ms) = "none" /\ wpc[ms] = "off"
         /\ fd[ms] = "java" /\ ms \notin stopSig /\ ms \notin runs
         /\ Library!Turn(ms)
  <1> USE DEF LInv, IInv
  <1>1. ms \in Sess /\ ms = sess /\ wpc[ms] = "off" /\ fd[ms] = "java"
    BY DEF MainInv
  <1>2. ms \notin stopSig /\ ms \notin runs
    BY <1>1 DEF RunsInv, Polled, Holding
  <1>3. ASSUME NEW t \in Sess, t < ms
        PROVE  SessionState(t) # "none"
    <2>1. fd[t] # "none" /\ fd[t] # "java"
      BY <1>1, <1>3, BoundsAssumption DEF OpenedInv, FdClosedOnce, Sess, TypeOK
    <2>2. wpc[t] = "off" => fd[t] = "closed"
      BY <2>1 DEF FdClosedOnce, Polled, TypeOK
    <2> QED
      BY <2>2 DEF SessionState
  <1> QED
    BY <1>1, <1>2, <1>3 DEF SessionState, Library!Turn

LEMMA StepRefines ==
  ASSUME LInv, Next
  PROVE  [Library!Next]_[s \in Sess |-> SessionState(s)]
  <1> USE DEF LInv, IInv
  <1>1. CASE Quiet
    <2>1. \A t \in Sess : Same(t)
      BY <1>1, QuietLibrary DEF Same
    <2> QED
      BY <2>1, SameState, Stutters
  <1>2. CASE StartTun
    <2>1. \/ UNCHANGED <<sess, fd>>
          \/ /\ sess + 1 \in Sess /\ sess' = sess + 1
             /\ fd' = [fd EXCEPT ![sess + 1] = "java"]
      BY <1>2 DEF StartTun
    <2>2. UNCHANGED <<wpc, runs, stopSig>>
      BY <1>2 DEF StartTun
    <2>3. ASSUME NEW t \in Sess PROVE SessionState(t)' = SessionState(t)
      <3>1. CASE fd'[t] = fd[t]
        BY <2>2, <3>1, SameState DEF Same
      <3>2. CASE fd'[t] # fd[t]
        <4>1. t = sess + 1 /\ fd'[t] = "java" /\ t > sess
          BY <2>1, <3>2 DEF TypeOK
        <4> QED
          BY <2>2, <4>1 DEF SessionState, FreshInv
      <3> QED
        BY <3>1, <3>2
    <2> QED
      BY <2>3, Stutters
  <1>3. CASE NativeStartAccepted
    <2>0. PICK n \in Sess : n = ms
      BY <1>3, Opened DEF NativeStartAccepted, Open
    <2>1. /\ SessionState(n) = "none" /\ n \notin stopSig
          /\ Library!Turn(n)
      BY <1>3, <2>0, Opened DEF NativeStartAccepted, Open
    <2>2. ~active /\ runs' = runs \cup {n} /\ UNCHANGED stopSig
          /\ fd' = [fd EXCEPT ![n] = DetachFd] /\ wpc' = [wpc EXCEPT ![n] = "spawned"]
      BY <1>3, <2>0 DEF NativeStartAccepted
    <2>3. SessionState(n)' = "running"
      BY <2>1, <2>2 DEF SessionState, Polled, TypeOK
    <2>4. \A t \in Sess \ {n} : Same(t)
      BY <2>1, <2>2 DEF Same, TypeOK
    <2>5. \A t \in Sess : SessionState(t) \notin {"running", "ending"}
      BY <2>2 DEF ExclusiveWorker, RunsInv, SessionState, Polled, Holding
    <2>6. Library!Becomes(n, "none", "running")
      BY <2>1, <2>3, <2>4, SameState, Becoming
    <2>7. Library!NobodyRuns
      BY <2>5 DEF Library!NobodyRuns
    <2> QED
      BY <2>1, <2>6, <2>7 DEF Library!Next, Library!Begin
  <1>4. CASE StartThrows \/ NativeStartRejected
    <2> mpc \in Open
      BY <1>4 DEF StartThrows, NativeStartRejected, Open
    <2>0. PICK n \in Sess : n = ms
      BY Opened
    <2>1. /\ SessionState(n) = "none" /\ wpc[n] = "off"
          /\ Library!Turn(n)
      BY <2>0, Opened
    <2>2. fd' = [fd EXCEPT ![n] = "closed"] /\ UNCHANGED <<wpc, runs, stopSig>>
      BY <1>4, <2>0 DEF StartThrows, NativeStartRejected
    <2>3. SessionState(n)' = "refused"
      BY <2>1, <2>2 DEF SessionState, TypeOK
    <2>4. \A t \in Sess \ {n} : Same(t)
      BY <2>1, <2>2 DEF Same, TypeOK
    <2>5. Library!Becomes(n, "none", "refused")
      BY <2>1, <2>3, <2>4, SameState, Becoming
    <2> QED
      BY <2>1, <2>5 DEF Library!Next, Library!Refuse
  <1>5. CASE StopNative
    <2>1. UNCHANGED <<fd, wpc>> /\ runs' \subseteq runs
      BY <1>5, StopNativeEffect
    <2>2. \A t \in Sess : (t \in stopSig' <=> t \in stopSig)
                            => SessionState(t)' = SessionState(t)
      BY <2>1 DEF SessionState, RunsInv, Polled, Holding
    <2>3. CASE UNCHANGED stopSig
      BY <2>2, <2>3, Stutters
    <2>4. ASSUME NEW h \in Sess \cap Polled, stopSig' = stopSig \cup {h}, h \notin stopSig
          PROVE  [Library!Next]_[s \in Sess |-> SessionState(s)]
      <3>1. SessionState(h) = "running" /\ SessionState(h)' = "ending"
        BY <2>1, <2>4 DEF SessionState, Polled, Holding
      <3>2. Library!Becomes(h, "running", "ending")
        BY <2>2, <2>4, <3>1, Becoming
      <3> QED
        BY <3>2 DEF Library!Next, Library!End
    <2> QED
      BY <1>5, <2>3, <2>4, StopNativeEffect
  <1>6. CASE LineStep
    <2>1. /\ UNCHANGED <<fd, runs, stopSig>>
          /\ \/ UNCHANGED wpc
             \/ \E s \in Sess : wpc[s] = "returned"
                                /\ wpc' = [wpc EXCEPT ![s] = "resultLogged"]
             \/ \E s \in Sess : wpc[s] = "inactive" /\ wpc' = [wpc EXCEPT ![s] = "done"]
      BY <1>6, LineEffect
    <2>2. \A t \in Sess : SessionState(t)' = SessionState(t)
      BY <2>1 DEF SessionState, RunsInv, Polled, Holding, TypeOK
    <2> QED
      BY <2>2, Stutters
  <1>7. ASSUME NEW s \in Sess, RuntimeBuilt(s) \/ BridgeStarts(s) \/ DropRuntime(s)
        PROVE  [Library!Next]_[t \in Sess |-> SessionState(t)]
    <2>1. \A t \in Sess : SessionState(t)' = SessionState(t)
      BY <1>7 DEF RuntimeBuilt, BridgeStarts, DropRuntime, SessionState, Polled,
                  Holding, TypeOK
    <2> QED
      BY <2>1, Stutters
  <1>8. ASSUME NEW s \in Sess, WorkerReturns(s)
        PROVE  [Library!Next]_[t \in Sess |-> SessionState(t)]
    <2>1. /\ wpc[s] \in {"spawned", "run", "bridge"}
          /\ wpc' = [wpc EXCEPT ![s] = "returned"] /\ fd' = [fd EXCEPT ![s] = "closed"]
          /\ stopSig' = stopSig \ {s} /\ UNCHANGED runs
      BY <1>8 DEF WorkerReturns, Returns
    <2>2. \A t \in Sess \ {s} : SessionState(t)' = SessionState(t)
      <3>1. \A t \in Sess \ {s} : Same(t)
        BY <2>1 DEF Same, TypeOK
      <3> QED
        BY <3>1, SameState
    <2>3. SessionState(s) \in {"running", "ending"} /\ SessionState(s)' = "ending"
      BY <2>1 DEF SessionState, Polled, Holding, TypeOK
    <2>4. CASE SessionState(s) = "running"
      <3>1. Library!Becomes(s, "running", "ending")
        BY <2>2, <2>3, <2>4, Becoming
      <3> QED
        BY <3>1 DEF Library!Next, Library!End
    <2>5. CASE SessionState(s) = "ending"
      BY <2>2, <2>3, <2>5, Stutters
    <2> QED
      BY <2>3, <2>4, <2>5
  <1>9. ASSUME NEW s \in Sess, ClearActive(s)
        PROVE  [Library!Next]_[t \in Sess |-> SessionState(t)]
    <2>1. /\ wpc[s] = "dropped" /\ wpc' = [wpc EXCEPT ![s] = "inactive"]
          /\ UNCHANGED <<fd, runs, stopSig>>
      BY <1>9 DEF ClearActive
    <2>2. SessionState(s) = "ending" /\ SessionState(s)' = "over"
      BY <2>1 DEF SessionState, Polled, Holding, RunsInv, TypeOK
    <2>3. \A t \in Sess \ {s} : Same(t)
      BY <2>1 DEF Same, TypeOK
    <2>4. Library!Becomes(s, "ending", "over")
      BY <2>2, <2>3, SameState, Becoming
    <2> QED
      BY <2>4 DEF Library!Next, Library!Over
  <1> QED
    BY <1>1, <1>2, <1>3, <1>4, <1>5, <1>6, <1>7, <1>8, <1>9, StepCases DEF LineStep

LEMMA InitRefines == Init => Library!Init
  BY DEF Init, Library!Init, SessionState

-----------------------------------------------------------------------------
\* nativeStart, nativeStop and the worker thread implement the exclusive
\* session under any interleaving of taps, callbacks and posts, with any number
\* of sessions: none begins before the one before is over.
THEOREM Refinement == Spec => ImplementsSession
  <1> DEFINE More == RunsInv /\ OpenedInv
  <1>1. Init => More
    BY LInvInit DEF LInv
  <1>2. IInv /\ More /\ [Next]_vars => More'
    <2> SUFFICES ASSUME IInv, More, [Next]_vars PROVE More'
      OBVIOUS
    <2>1. CASE Next
      BY <2>1, RunsStep, OpenedStep DEF LInv
    <2>2. CASE UNCHANGED vars
      BY <2>2 DEF vars, RunsInv, OpenedInv, Polled
    <2> QED
      BY <2>1, <2>2
  <1>3. IInv /\ More /\ [Next]_vars
          => [Library!Next]_[s \in Sess |-> SessionState(s)]
    <2> SUFFICES ASSUME IInv, More, [Next]_vars
                 PROVE  [Library!Next]_[s \in Sess |-> SessionState(s)]
      OBVIOUS
    <2>1. CASE Next
      BY <2>1, StepRefines DEF LInv
    <2>2. CASE UNCHANGED vars
      <3>1. \A s \in Sess : Same(s)
        BY <2>2 DEF vars, Same
      <3> QED
        BY <3>1, SameState, Stutters
    <2> QED
      BY <2>1, <2>2
  <1> HIDE DEF More
  <1> QED
    BY <1>1, <1>2, <1>3, Invariance, InitRefines, PTL
    DEF Spec, ImplementsSession, Library!Spec
=============================================================================
