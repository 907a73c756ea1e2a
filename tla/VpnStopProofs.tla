--------------------------- MODULE VpnStopProofs ----------------------------
(***************************************************************************)
(* Who can stop a running engine, and what an idle screen means, for every *)
(* number of sessions, stops and service instances.                        *)
(*                                                                         *)
(* StoppableEngine rests on the start-up generations: a posted startTunnel *)
(* whose generation has not passed is one of the live instance (StartsInv),*)
(* because every stop and every onDestroy takes a new generation and a new *)
(* instance begins with a generation no post has (InstanceInv).  So the    *)
(* main thread opens sessions only for the live instance, that instance    *)
(* has no handle when it does, and no other instance keeps one past its    *)
(* onDestroy (HandleInv).  Registered says that nativeStop reaches an      *)
(* engine it has not reached yet.                                          *)
(***************************************************************************)
EXTENDS VpnLifecycleProofs

USE DEF uiVars, amVars, svcVars, mainVars, nativeVars, workerVars, logVars

\* Instances are numbered as Android creates them; one that does not exist yet
\* has taken no generation.
InstanceInv ==
  /\ svc <= insts
  /\ \A i \in Inst : i > insts => gen[i] = 0

\* A start that is being prepared or is posted: its generation was taken, and
\* if it has not passed its instance is the live one.
ForLive(p) ==
  /\ 1 <= p.gen /\ p.gen <= gen[p.inst]
  /\ p.gen = gen[p.inst] => p.inst = svc

StartsInv ==
  /\ \A p \in prep : ForLive(p)
  /\ \A k \in DOMAIN posts : posts[k].type = "start" => ForLive(posts[k])

\* The labels at which the main thread works for the live instance.
OnLive == InService \cup {"svcStopWrite"}

\* Between establish and the assignment of nativeHandle.
Opening == Open \cup {"setHandle"}

HandleInv ==
  /\ mpc \in OnLive => mi = svc /\ mi \in Inst
  /\ \A i \in Inst : i # svc => handle[i] = 0 \/ (mpc = "stopNative" /\ mi = i)
  /\ \A i \in Inst : handle[i] # 0 => tun[i] # 0
  /\ mpc \in Opening => handle[mi] = 0 /\ tun[mi] # 0

\* An engine that was not told to stop has its stop sender in RUNS.
Registered == Polled \ stopSig \subseteq runs

SInv == LInv /\ InstanceInv /\ StartsInv /\ HandleInv /\ Registered

-----------------------------------------------------------------------------
(* What the steps leave alone.                                             *)

\* The workers, and what they write inside the monitor, touch nothing of the
\* service or of the main thread, but for the message of FinishInvoke.
LEMMA WorkersApart ==
  ASSUME \/ LogWrite \/ FinishRead \/ FinishWrite \/ FinishClear
         \/ \E s \in Sess : Worker(s)
  PROVE  UNCHANGED <<uiVars, amVars, svcVars, mainVars>>
  <1>1. CASE LogWrite \/ FinishRead \/ FinishWrite \/ FinishClear
    BY <1>1 DEF LogWrite, FinishRead, FinishWrite, FinishClear
  <1>2. ASSUME NEW s \in Sess, Worker(s)
        PROVE  UNCHANGED <<uiVars, amVars, svcVars, mainVars>>
    <2>1. CASE Runtime(s) \/ StopSeen(s) \/ EngineEvent(s)
      BY <2>1 DEF Runtime, RuntimeBuilt, RuntimeFails, StopSeen, EngineEvent,
                  BridgeStarts, ReconnectLog, TrafficLog, EngineEnds, Returns
    <2>2. CASE ResultLog(s) \/ DropRuntime(s) \/ ClearActive(s) \/ FinishEnter(s)
      BY <2>2 DEF ResultLog, DropRuntime, ClearActive, FinishEnter
    <2> QED
      BY <1>2, <2>1, <2>2 DEF Worker
  <1> QED
    BY <1>1, <1>2

\* The steps of the activity, of stopSelf and of onRevoke: they end or begin a
\* handler that works for no instance.
Elsewhere ==
  \/ User \/ TapPrepare \/ TapStopWrite \/ Recompose \/ Revoke
  \/ ReadRunning \/ WriteStopped \/ StopSelf

LEMMA ElsewhereApart ==
  ASSUME Elsewhere
  PROVE  /\ UNCHANGED <<posts, prep, svc, insts, svcVars>>
         /\ \/ UNCHANGED <<mpc, mi>>
            \/ /\ mpc \notin OnLive \cup {"stopNative"}
               /\ mpc' \notin OnLive \cup {"stopNative"}
  <1>1. CASE User
    BY <1>1 DEF User, TapStart, TapStop, PermissionGranted, PermissionDenied,
                OnLive, InService
  <1>2. CASE TapPrepare \/ TapStopWrite \/ Recompose \/ Revoke
    BY <1>2 DEF TapPrepare, TapStopWrite, Recompose, Revoke, Return, OnLive,
                InService
  <1>3. CASE ReadRunning \/ WriteStopped \/ StopSelf
    BY <1>3 DEF ReadRunning, WriteStopped, StopSelf, Return, OnLive, InService
  <1> QED
    BY <1>1, <1>2, <1>3 DEF Elsewhere

\* The steps of startTunnel, and what precedes stopTunnel.
InStart ==
  \/ PrepWrite \/ StartWrite \/ StartTun \/ StartThrows \/ SetReceiver \/ StartLog
  \/ NativeStartAccepted \/ NativeStartRejected \/ SetHandle \/ SvcStopWrite

LEMMA InStartApart ==
  ASSUME InStart
  PROVE  UNCHANGED <<posts, prep, svc, insts, gen>>
  BY DEF InStart, PrepWrite, StartWrite, StartTun, StartThrows, SetReceiver,
         StartLog, NativeStartAccepted, NativeStartRejected, SetHandle, SvcStopWrite

\* Every step, by what it does to the service.
LEMMA ServiceCases ==
  ASSUME Next
  PROVE  \/ Elsewhere \/ InStart \/ StopNative \/ PrepSpawn \/ Profile
         \/ DeliverStart \/ DeliverStop \/ DeliverDestroy
         \/ HandleStartPost \/ HandleFinishedPost \/ FinishInvoke
         \/ LogWrite \/ FinishRead \/ FinishWrite \/ FinishClear
         \/ \E s \in Sess : Worker(s)
  BY DEF Next, Main, MainLogs, NativeStart, MainSteps, DeliverIntent, HandlePost,
         InMonitor, Elsewhere, InStart

-----------------------------------------------------------------------------
(* The queue of messages.                                                  *)

\* A message that is appended is the only new one.
LEMMA PostsAppended ==
  ASSUME TypeOK, NEW x \in Post, posts' = Append(posts, x)
  PROVE  /\ \A k \in DOMAIN posts' :
              (k \in DOMAIN posts /\ posts'[k] = posts[k]) \/ posts'[k] = x
         /\ \A k \in DOMAIN posts : k \in DOMAIN posts' /\ posts'[k] = posts[k]
         /\ \E k \in DOMAIN posts' : posts'[k] = x
  <1>1. posts \in Seq(Post)
    BY DEF TypeOK
  <1>2. /\ posts' \in Seq(Post) /\ Len(posts') = Len(posts) + 1
        /\ \A i \in 1 .. Len(posts) : posts'[i] = posts[i]
        /\ posts'[Len(posts) + 1] = x
    BY <1>1, AppendProperties
  <1>3. Len(posts) \in Nat /\ DOMAIN posts = 1 .. Len(posts)
    BY <1>1, LenProperties
  <1>4. DOMAIN posts' = 1 .. Len(posts')
    BY <1>2, LenProperties
  <1> QED
    BY <1>2, <1>3, <1>4

\* The message that is handled is the only one that goes.
LEMMA PostsTail ==
  ASSUME TypeOK, posts # <<>>, posts' = Tail(posts)
  PROVE  /\ 1 \in DOMAIN posts /\ Head(posts) = posts[1] /\ Head(posts) \in Post
         /\ \A k \in DOMAIN posts' :
              k + 1 \in DOMAIN posts /\ posts'[k] = posts[k + 1]
         /\ \A k \in DOMAIN posts : k # 1 =>
              k - 1 \in DOMAIN posts' /\ posts'[k - 1] = posts[k]
  <1>1. posts \in Seq(Post)
    BY DEF TypeOK
  <1>2. /\ Tail(posts) \in Seq(Post) /\ Len(Tail(posts)) = Len(posts) - 1
        /\ Head(posts) = posts[1] /\ Head(posts) \in Post
        /\ \A i \in 1 .. Len(Tail(posts)) : Tail(posts)[i] = posts[i + 1]
    BY <1>1, HeadTailProperties
  <1>3. Len(posts) \in Nat /\ DOMAIN posts = 1 .. Len(posts) /\ Len(posts) # 0
    BY <1>1, LenProperties, EmptySeq
  <1>4. DOMAIN posts' = 1 .. Len(posts) - 1
    BY <1>2, LenProperties
  <1> QED
    BY <1>2, <1>3, <1>4

-----------------------------------------------------------------------------
(* The conjuncts of the inductive invariant.                               *)

LEMMA InitSInv == Init => SInv
  BY LInvInit DEF Init, SInv, InstanceInv, StartsInv, HandleInv, Registered,
     OnLive, InService, Opening, Open, Polled

LEMMA InstanceStep ==
  ASSUME SInv, Next
  PROVE  InstanceInv'
  <1> USE DEF SInv, LInv, IInv
  <1>0. insts \in Nat /\ \A i \in Inst : i \in Nat
    BY BoundsAssumption DEF TypeOK, Inst
  <1>1. CASE DeliverStart \/ DeliverStop
    <2>1. /\ Target \in Inst /\ svc' = Target
          /\ insts' = (IF svc = 0 THEN Target ELSE insts)
          /\ gen' = gen \/ gen' = [gen EXCEPT ![Target] = @ + 1]
      BY <1>1 DEF DeliverStart, DeliverStop
    <2> QED
      BY <1>0, <2>1 DEF Target, InstanceInv, TypeOK
  <1>2. CASE DeliverDestroy
    BY <1>0, <1>2 DEF DeliverDestroy, InstanceInv, TypeOK
  <1>3. CASE PrepSpawn
    <2>1. mi = svc /\ mi \in Inst
      BY <1>3 DEF PrepSpawn, HandleInv, OnLive, InService
    <2> QED
      BY <1>0, <1>3, <2>1 DEF PrepSpawn, InstanceInv, TypeOK
  <1>4. CASE \/ Elsewhere \/ InStart \/ StopNative \/ Profile \/ HandleStartPost
             \/ HandleFinishedPost \/ FinishInvoke
    <2>1. UNCHANGED <<svc, insts, gen>>
      BY <1>4, ElsewhereApart, InStartApart
      DEF StopNative, Profile, ProfileReady, HandleStartPost, HandleFinishedPost,
          FinishInvoke
    <2> QED
      BY <2>1 DEF InstanceInv
  <1>5. CASE \/ LogWrite \/ FinishRead \/ FinishWrite \/ FinishClear
             \/ \E s \in Sess : Worker(s)
    BY <1>5, WorkersApart DEF InstanceInv
  <1> QED
    BY <1>1, <1>2, <1>3, <1>4, <1>5, ServiceCases

\* A start stays one of the live instance while neither the live instance nor
\* the generations change.
LEMMA ForLiveKept ==
  ASSUME UNCHANGED <<svc, gen>>, NEW p, ForLive(p)
  PROVE  ForLive(p)'
  BY DEF ForLive

LEMMA StartsStep ==
  ASSUME SInv, Next
  PROVE  StartsInv'
  <1> USE DEF SInv, LInv, IInv
  <1>0. /\ insts \in Nat /\ gen \in [Inst -> Nat] /\ svc \in Inst \cup {0}
        /\ \A i \in Inst : i \in Nat /\ i # 0
        /\ \A p \in prep : p.inst \in Inst /\ p.gen \in Nat
        /\ \A k \in DOMAIN posts : posts[k].inst \in Inst /\ posts[k].gen \in Nat
    <2>1. \A k \in DOMAIN posts : posts[k] \in Post
      BY ElementOfSeq, LenProperties DEF TypeOK
    <2>2. \A k \in DOMAIN posts : posts[k].inst \in Inst /\ posts[k].gen \in Nat
      BY <2>1 DEF Post
    <2>3. \A i \in Inst : i \in Nat /\ i # 0
      BY BoundsAssumption DEF Inst
    <2> QED
      BY <2>2, <2>3 DEF TypeOK
  \* A new generation of i makes the starts of i pass; those of the others were
  \* not current unless i is the live instance.
  <1>1. ASSUME NEW i \in Inst, gen' = [gen EXCEPT ![i] = @ + 1],
               svc = i \/ (svc = 0 /\ i > insts), svc' \in {i, 0},
               UNCHANGED <<posts, prep>>
        PROVE  StartsInv'
    <2>1. ASSUME NEW p, p.inst \in Inst, p.gen \in Nat, ForLive(p)
          PROVE  ForLive(p)'
      <3>1. CASE p.inst = i
        BY <1>0, <1>1, <2>1, <3>1 DEF ForLive
      <3>2. CASE p.inst # i
        BY <1>0, <1>1, <2>1, <3>2 DEF ForLive
      <3> QED
        BY <3>1, <3>2
    <2> QED
      BY <1>0, <1>1, <2>1 DEF StartsInv
  <1>2. CASE DeliverStart
    <2>1. /\ UNCHANGED <<posts, prep, gen>>
          /\ Target \in Inst /\ svc' = Target
      BY <1>2 DEF DeliverStart
    <2>2. ASSUME NEW p, p.inst \in Inst, ForLive(p)
          PROVE  ForLive(p)'
      BY <1>0, <2>1, <2>2 DEF ForLive, Target
    <2> QED
      BY <1>0, <2>1, <2>2 DEF StartsInv
  <1>3. CASE DeliverStop
    <2>1. Target \in Inst /\ svc' = Target /\ UNCHANGED <<posts, prep>>
          /\ gen' = [gen EXCEPT ![Target] = @ + 1]
      BY <1>3 DEF DeliverStop
    <2>2. svc = Target \/ (svc = 0 /\ Target > insts)
      BY <1>0 DEF Target
    <2> QED
      BY <1>1, <2>1, <2>2
  <1>4. CASE DeliverDestroy
    <2>1. svc' = 0 /\ UNCHANGED <<posts, prep>> /\ gen' = [gen EXCEPT ![svc] = @ + 1]
      BY <1>4 DEF DeliverDestroy
    <2>2. CASE svc \in Inst
      BY <1>1, <2>1, <2>2
    <2>3. CASE svc = 0
      BY <1>0, <2>1, <2>3 DEF StartsInv, ForLive
    <2> QED
      BY <1>0, <2>2, <2>3
  <1>5. CASE PrepSpawn
    <2>1. mi = svc /\ mi \in Inst
      BY <1>5 DEF PrepSpawn, HandleInv, OnLive, InService
    <2>2. /\ gen' = [gen EXCEPT ![mi] = @ + 1] /\ UNCHANGED <<posts, svc>>
          /\ prep' = prep \cup {[inst |-> mi, gen |-> gen[mi] + 1]}
      BY <1>5 DEF PrepSpawn
    <2>3. ASSUME NEW p, p.inst \in Inst, p.gen \in Nat, ForLive(p)
          PROVE  ForLive(p)'
      BY <1>0, <2>1, <2>2, <2>3 DEF ForLive
    <2>4. ASSUME NEW p, p = [inst |-> mi, gen |-> gen[mi] + 1]
          PROVE  ForLive(p)'
      BY <1>0, <2>1, <2>2, <2>4 DEF ForLive
    <2>5. \A p \in prep' : ForLive(p)'
      BY <1>0, <2>2, <2>3, <2>4 DEF StartsInv
    <2>6. \A k \in DOMAIN posts : posts[k].type = "start" => ForLive(posts[k])'
      BY <1>0, <2>2, <2>3 DEF StartsInv
    <2> QED
      BY <2>2, <2>5, <2>6 DEF StartsInv
  <1>6. CASE Profile
    <2> PICK q \in prep : ProfileReady(q)
      BY <1>6 DEF Profile
    <2> DEFINE x == [type |-> "start", inst |-> q.inst, gen |-> q.gen]
    <2>1. prep' = prep \ {q} /\ posts' = Append(posts, x) /\ UNCHANGED <<svc, gen>>
      BY DEF ProfileReady
    <2>2. x \in Post
      BY <1>0 DEF Post
    <2>3. ForLive(x)
      BY DEF StartsInv, ForLive
    <2> HIDE DEF x
    <2>4. \A k \in DOMAIN posts' :
            (k \in DOMAIN posts /\ posts'[k] = posts[k]) \/ posts'[k] = x
      BY <2>1, <2>2, PostsAppended
    <2>5. \A k \in DOMAIN posts' : posts'[k].type = "start" => ForLive(posts'[k])
      BY <2>3, <2>4 DEF StartsInv
    <2> QED
      BY <2>1, <2>5 DEF StartsInv, ForLive
  <1>7. CASE HandleStartPost \/ HandleFinishedPost
    <2>1. posts # <<>> /\ posts' = Tail(posts) /\ UNCHANGED <<prep, svc, gen>>
      BY <1>7 DEF HandleStartPost, HandleFinishedPost
    <2>2. \A k \in DOMAIN posts' : k + 1 \in DOMAIN posts /\ posts'[k] = posts[k + 1]
      BY <2>1, PostsTail
    <2> QED
      BY <2>1, <2>2 DEF StartsInv, ForLive
  <1>8. CASE FinishInvoke
    <2>1. UNCHANGED <<prep, svc, gen>>
      BY <1>8 DEF FinishInvoke
    <2>2. CASE UNCHANGED posts
      BY <2>1, <2>2 DEF StartsInv, ForLive
    <2>3. CASE receiver # NoReceiver
      <3> DEFINE x == [type |-> "finished", inst |-> receiver.inst, gen |-> 0]
      <3>1. x \in Post /\ posts' = Append(posts, x) /\ x.type # "start"
        BY <1>8, <2>3 DEF FinishInvoke, TypeOK, Receiver, Post
      <3> HIDE DEF x
      <3>2. \A k \in DOMAIN posts' :
              (k \in DOMAIN posts /\ posts'[k] = posts[k]) \/ posts'[k] = x
        BY <3>1, PostsAppended
      <3> QED
        BY <2>1, <3>1, <3>2 DEF StartsInv, ForLive
    <2> QED
      BY <1>8, <2>2, <2>3 DEF FinishInvoke
  <1>9. CASE \/ Elsewhere \/ InStart \/ StopNative
             \/ LogWrite \/ FinishRead \/ FinishWrite \/ FinishClear
             \/ \E s \in Sess : Worker(s)
    <2>1. UNCHANGED <<posts, prep, svc, gen>>
      BY <1>9, ElsewhereApart, InStartApart, WorkersApart DEF StopNative
    <2> QED
      BY <2>1 DEF StartsInv, ForLive
  <1> QED
    BY <1>2, <1>3, <1>4, <1>5, <1>6, <1>7, <1>8, <1>9, ServiceCases

LEMMA HandleStep ==
  ASSUME SInv, Next
  PROVE  HandleInv'
  <1> USE DEF SInv, LInv, IInv, Open
  <1>0. /\ svc \in Inst \cup {0} /\ insts \in Nat /\ \A i \in Inst : i \in Nat /\ i # 0
        /\ tun \in [Inst -> Sess \cup {0}] /\ handle \in [Inst -> Sess \cup {0}]
        /\ mi \in Inst \cup {0}
    BY BoundsAssumption DEF TypeOK, Inst
  <1>1. CASE DeliverStart \/ DeliverStop
    <2>1. /\ mpc = "free" /\ Target \in Inst /\ svc' = Target
          /\ UNCHANGED <<tun, handle>>
          /\ mpc' \in {"free", "prepWrite", "svcStopWrite"}
          /\ mpc' # "free" => mi' = Target
      BY <1>1 DEF DeliverStart, DeliverStop
    <2> QED
      BY <1>0, <2>1 DEF HandleInv, Target, OnLive, InService, Opening
  <1>2. CASE DeliverDestroy
    BY <1>0, <1>2 DEF DeliverDestroy, HandleInv, OnLive, InService, Opening
  <1>3. CASE HandleStartPost
    <2>1. /\ posts # <<>> /\ posts' = Tail(posts) /\ Head(posts).type = "start"
          /\ UNCHANGED <<svc, tun, handle>> /\ mpc = "free"
          /\ \/ UNCHANGED <<mpc, mi>>
             \/ /\ Head(posts).gen = gen[Head(posts).inst]
                /\ mpc' = "startWrite" /\ mi' = Head(posts).inst
      BY <1>3 DEF HandleStartPost
    <2>2. ForLive(Head(posts)) /\ Head(posts).inst \in Inst
      BY <2>1, PostsTail DEF StartsInv, Post
    <2> QED
      BY <1>0, <2>1, <2>2 DEF ForLive, HandleInv, OnLive, InService, Opening
  <1>4. CASE HandleFinishedPost
    BY <1>0, <1>4 DEF HandleFinishedPost, HandleInv, OnLive, InService, Opening
  <1>5. CASE InStart
    <2>1. mpc \in OnLive /\ mi = svc /\ mi \in Inst /\ UNCHANGED svc
      BY <1>5, InStartApart
      DEF InStart, PrepWrite, StartWrite, StartTun, StartThrows, SetReceiver,
          StartLog, NativeStartAccepted, NativeStartRejected, SetHandle, SvcStopWrite,
          OnLive, InService, HandleInv
    <2>2. CASE PrepWrite \/ StartWrite \/ SvcStopWrite
      BY <1>0, <2>1, <2>2 DEF PrepWrite, StartWrite, SvcStopWrite, HandleInv,
                              OnLive, InService, Opening
    <2>3. CASE StartTun
      <3>1. CASE UNCHANGED tun /\ mpc' \in {"free", "stopNative"}
        BY <1>0, <2>1, <2>3, <3>1 DEF StartTun, HandleInv, OnLive, InService, Opening
      <3>2. CASE /\ tun[mi] = 0 /\ sess + 1 \in Sess /\ mi' = mi
                 /\ tun' = [tun EXCEPT ![mi] = sess + 1] /\ mpc' = "setReceiver"
        <4>1. sess + 1 # 0
          BY DEF TypeOK
        <4> QED
          BY <1>0, <2>1, <2>3, <3>2, <4>1 DEF StartTun, HandleInv, OnLive, InService, Opening
      <3> QED
        BY <2>3, <3>1, <3>2 DEF StartTun, Return
    <2>4. CASE SetReceiver \/ StartLog \/ NativeStartAccepted \/ NativeStartRejected
      BY <1>0, <2>1, <2>4 DEF SetReceiver, StartLog, NativeStartAccepted,
                              NativeStartRejected, HandleInv, OnLive, InService,
                              Opening
    <2>5. CASE SetHandle
      BY <1>0, <2>1, <2>5 DEF SetHandle, Return, HandleInv, OnLive, InService, Opening
    <2>6. CASE StartThrows
      <3>1. /\ handle[mi] = 0 /\ mpc' = "readRunning" /\ UNCHANGED handle
            /\ tun' = [tun EXCEPT ![mi] = 0]
        BY <2>6 DEF StartThrows, HandleInv, Opening
      <3> QED
        BY <1>0, <2>1, <3>1 DEF HandleInv, OnLive, InService, Opening
    <2> QED
      BY <1>5, <2>2, <2>3, <2>4, <2>5, <2>6 DEF InStart
  <1>6. CASE StopNative
    BY <1>0, <1>6 DEF StopNative, HandleInv, OnLive, InService, Opening
  <1>7. CASE PrepSpawn
    BY <1>0, <1>7 DEF PrepSpawn, Return, HandleInv, OnLive, InService, Opening
  <1>8. CASE Elsewhere
    <2>1. Opening \subseteq OnLive
      BY DEF Opening, OnLive, InService
    <2> QED
      BY <1>8, <2>1, ElsewhereApart DEF HandleInv
  <1>9. CASE \/ Profile \/ FinishInvoke
             \/ LogWrite \/ FinishRead \/ FinishWrite \/ FinishClear
             \/ \E s \in Sess : Worker(s)
    <2>1. UNCHANGED <<svc, tun, handle, mpc, mi>>
      BY <1>9, WorkersApart DEF Profile, ProfileReady, FinishInvoke
    <2> QED
      BY <2>1 DEF HandleInv
  <1> QED
    BY <1>1, <1>2, <1>3, <1>4, <1>5, <1>6, <1>7, <1>8, <1>9, ServiceCases

LEMMA RegisteredStep ==
  ASSUME SInv, Next
  PROVE  Registered'
  <1> USE DEF SInv, LInv, IInv, Registered
  <1>1. CASE Quiet
    BY <1>1, QuietLibrary DEF Polled
  <1>2. CASE StartTun \/ StartThrows \/ NativeStartRejected
    BY <1>2 DEF StartTun, StartThrows, NativeStartRejected, Polled
  <1>3. CASE NativeStartAccepted
    BY <1>3 DEF NativeStartAccepted, MainInv, Open, TypeOK, Polled
  <1>4. CASE StopNative
    BY <1>4 DEF StopNative, Polled
  <1>5. CASE LineStep
    BY <1>5, LineEffect DEF Polled, TypeOK
  <1>6. ASSUME NEW s \in Sess, WorkerStep(s)
        PROVE  Registered'
    BY <1>6 DEF WorkerStep, RuntimeBuilt, BridgeStarts, WorkerReturns, Returns,
                DropRuntime, ClearActive, Polled, TypeOK
  <1> QED
    BY <1>1, <1>2, <1>3, <1>4, <1>5, <1>6, StepCases DEF LineStep, WorkerStep

-----------------------------------------------------------------------------
(* Every engine can be stopped.                                            *)

\* A worker's steps make no engine one that was not told to stop.
LEMMA WorkersOnlyEnd ==
  ASSUME SInv, LineStep \/ \E s \in Sess : WorkerStep(s)
  PROVE  Polled' \ stopSig' \subseteq Polled \ stopSig
  <1> USE DEF SInv, LInv, IInv
  <1>1. CASE LineStep
    BY <1>1, LineEffect DEF Polled, TypeOK
  <1>2. ASSUME NEW s \in Sess, WorkerStep(s)
        PROVE  Polled' \ stopSig' \subseteq Polled \ stopSig
    BY <1>2 DEF WorkerStep, RuntimeBuilt, BridgeStarts, WorkerReturns, Returns,
                DropRuntime, ClearActive, Polled, TypeOK
  <1> QED
    BY <1>1, <1>2

LEMMA StoppableStep ==
  ASSUME SInv, StoppableEngine, Next
  PROVE  StoppableEngine'
  <1> USE DEF SInv, LInv, IInv
  <1>0. /\ svc \in Inst \cup {0} /\ 0 \notin Inst /\ 0 \notin Sess
        /\ handle \in [Inst -> Sess \cup {0}] /\ stopSig \subseteq Sess
    BY BoundsAssumption DEF TypeOK, Inst, Sess
  <1>1. CASE LineStep \/ \E s \in Sess : WorkerStep(s)
    <2>1. UNCHANGED <<svc, handle, mpc, mh, mi>>
      BY <1>1, WorkersApart
      DEF LineStep, WorkerStep, Worker, Runtime, WorkerReturns, Returns,
          RuntimeBuilt, BridgeStarts, DropRuntime, ClearActive
    <2> QED
      BY <1>1, <2>1, WorkersOnlyEnd DEF StoppableEngine
  <1>2. CASE Quiet
    <2>0. Polled' = Polled /\ stopSig' = stopSig
      BY <1>2, QuietLibrary DEF Polled
    <2>1. CASE DeliverStart \/ DeliverStop
      BY <1>0, <2>0, <2>1 DEF DeliverStart, DeliverStop, Target, StoppableEngine
    <2>2. CASE DeliverDestroy
      BY <1>0, <2>0, <2>2 DEF DeliverDestroy, StoppableEngine
    <2>3. CASE HandleStartPost \/ HandleFinishedPost
      BY <2>0, <2>3 DEF HandleStartPost, HandleFinishedPost, StoppableEngine
    <2>4. CASE Elsewhere
      <3>1. UNCHANGED <<svc, handle>>
        BY <2>4, ElsewhereApart
      <3>2. UNCHANGED <<mpc, mi, mh>> \/ mpc \notin {"setHandle", "stopNative"}
        BY <2>4
        DEF Elsewhere, User, TapStart, TapStop, PermissionGranted,
            PermissionDenied, TapPrepare, TapStopWrite, Recompose, Revoke,
            ReadRunning, WriteStopped, StopSelf
      <3> QED
        BY <2>0, <3>1, <3>2 DEF StoppableEngine
    <2>5. CASE \/ PrepWrite \/ StartWrite \/ SetReceiver \/ StartLog
               \/ SvcStopWrite \/ PrepSpawn
      BY <2>0, <2>5 DEF PrepWrite, StartWrite, SetReceiver, StartLog, SvcStopWrite,
                        PrepSpawn, StoppableEngine
    <2>6. CASE SetHandle
      <3>1. mi = svc /\ svc \in Inst /\ handle[svc] = 0
        BY <2>6 DEF SetHandle, HandleInv, OnLive, InService, Opening
      <3> QED
        BY <1>0, <2>0, <2>6, <3>1 DEF SetHandle, StoppableEngine, Polled
    <2>7. CASE \/ Profile \/ FinishRead \/ FinishWrite \/ FinishInvoke
               \/ \E s \in Sess : \/ ReconnectLog(s) \/ TrafficLog(s)
                                  \/ ResultLog(s) \/ FinishEnter(s)
      <3>1. UNCHANGED <<svc, handle, mpc, mi, mh>>
        BY <2>7 DEF Profile, ProfileReady, FinishRead, FinishWrite, FinishInvoke,
                    ReconnectLog, TrafficLog, ResultLog, FinishEnter
      <3> QED
        BY <2>0, <3>1 DEF StoppableEngine
    <2> QED
      BY <1>2, <2>1, <2>2, <2>3, <2>4, <2>5, <2>6, <2>7
      DEF Quiet, DeliverIntent, HandlePost, MainSteps, Elsewhere
  <1>3. CASE StartTun \/ StartThrows \/ NativeStartRejected
    <2>1. UNCHANGED <<wpc, stopSig, svc, handle>> /\ mpc \notin {"setHandle", "stopNative"}
      BY <1>3 DEF StartTun, StartThrows, NativeStartRejected
    <2> QED
      BY <2>1 DEF StoppableEngine, Polled
  <1>4. CASE NativeStartAccepted
    <2>1. Polled = {}
      BY <1>4 DEF NativeStartAccepted, ExclusiveWorker, Polled, Holding
    <2>2. Polled' = {ms} /\ mpc' = "setHandle" /\ mh' = ms /\ mi' = mi /\ svc' = svc
      BY <1>4, <2>1 DEF NativeStartAccepted, MainInv, Open, Polled, TypeOK
    <2>3. mi = svc
      BY <1>4 DEF NativeStartAccepted, HandleInv, OnLive, InService
    <2> QED
      BY <2>2, <2>3 DEF StoppableEngine
  <1>5. CASE StopNative
    <2>1. /\ UNCHANGED <<svc, wpc>> /\ mpc = "stopNative" /\ Polled' = Polled
          /\ handle' = [handle EXCEPT ![mi] = 0]
          /\ handle[mi] \in runs => stopSig' = stopSig \cup ({handle[mi]} \cap Polled)
          /\ stopSig \subseteq stopSig'
      BY <1>5 DEF StopNative, Polled
    <2>2. ASSUME NEW s \in Polled \ stopSig'
          PROVE  svc # 0 /\ handle'[svc] = s
      <3>1. s \in Polled \ stopSig /\ s \in runs
        BY <2>1, <2>2 DEF Registered
      <3>2. handle[mi] # s
        BY <2>1, <2>2, <3>1
      <3>3. svc # 0 /\ handle[svc] = s /\ svc # mi
        BY <2>1, <3>1, <3>2 DEF StoppableEngine
      <3> QED
        BY <1>0, <2>1, <3>3
    <2> QED
      BY <2>1, <2>2 DEF StoppableEngine
  <1> QED
    BY <1>1, <1>2, <1>3, <1>4, <1>5, StepCases DEF LineStep, WorkerStep

\* What the theorem needs beyond the library's own invariant.
SMore == RunsInv /\ OpenedInv /\ InstanceInv /\ StartsInv /\ HandleInv /\ Registered
         /\ StoppableEngine

\* Whatever the order of taps, intents, posted starts, worker ends and
\* onDestroy, and for every number of them, an engine that nobody has told to
\* stop can be stopped by the live service, or is about to be handed to it or
\* stopped.
THEOREM EngineIsStoppable == Spec => []StoppableEngine
  <1>1. Init => SMore
    BY InitSInv DEF SInv, LInv, SMore, Init, StoppableEngine, Polled
  <1>2. IInv /\ SMore /\ [Next]_vars => SMore'
    <2> SUFFICES ASSUME IInv, SMore, [Next]_vars PROVE SMore'
      OBVIOUS
    <2>0. SInv /\ StoppableEngine
      BY DEF SInv, LInv, SMore
    <2>1. CASE Next
      BY <2>0, <2>1, RunsStep, OpenedStep, InstanceStep, StartsStep, HandleStep,
         RegisteredStep, StoppableStep
      DEF SInv, SMore
    <2>2. CASE UNCHANGED vars
      BY <2>0, <2>2
      DEF vars, SMore, RunsInv, OpenedInv, InstanceInv, StartsInv, ForLive,
          HandleInv, Registered, StoppableEngine, Polled
    <2> QED
      BY <2>1, <2>2
  <1>3. SMore => StoppableEngine
    BY DEF SMore
  <1> QED
    BY <1>1, <1>2, <1>3, Invariance, PTL DEF Spec

-----------------------------------------------------------------------------
(* An idle screen.                                                         *)

\* Whoever is about to write IDLE has asked the library.  The main thread takes
\* ACTIVE itself, so what it was told still holds; a worker may be told that
\* nobody runs just before nativeStart takes ACTIVE, but no bridge starts while
\* it holds the monitor.
AskedInv ==
  /\ mwrite = "IDLE" => mpc = "writeStopped" /\ ~active
  /\ mpc = "writeStopped" => mwrite # Keep
  /\ monitor.write = "IDLE" =>
       monitor.kind = "finishWrite" /\ \A s \in Sess : wpc[s] # "bridge"

USE DEF Keep

\* A packet bridge runs only from the line that says CONNECTED, written with the
\* monitor.
LEMMA BridgeBegins ==
  ASSUME IInv, Next, NEW s \in Sess, wpc'[s] = "bridge"
  PROVE  wpc[s] = "bridge" \/ (Free /\ tunnelState' = "CONNECTED")
  <1> USE DEF IInv
  <1>1. CASE Quiet \/ StartTun \/ StartThrows \/ NativeStartRejected \/ StopNative
    <2> UNCHANGED wpc
      BY <1>1, QuietStep DEF core, StartTun, StartThrows, NativeStartRejected,
         StopNative
    <2> QED
      OBVIOUS
  <1>2. CASE NativeStartAccepted
    BY <1>2 DEF NativeStartAccepted, TypeOK
  <1>3. CASE LogWrite \/ FinishClear
    BY <1>3 DEF LogWrite, FinishClear, TypeOK
  <1>4. ASSUME NEW t \in Sess, WorkerStep(t)
        PROVE  wpc[s] = "bridge" \/ (Free /\ tunnelState' = "CONNECTED")
    BY <1>4 DEF WorkerStep, RuntimeBuilt, BridgeStarts, WorkerReturns, Returns,
                DropRuntime, ClearActive, TypeOK
  <1> QED
    BY <1>1, <1>2, <1>3, <1>4, StepCases DEF WorkerStep

\* Only nativeStart takes ACTIVE.
LEMMA ActiveTaken ==
  ASSUME Next, ~active, active'
  PROVE  NativeStartAccepted
  <1>1. CASE \/ Quiet \/ StartTun \/ StartThrows \/ NativeStartRejected
             \/ StopNative \/ LogWrite \/ FinishClear
    BY <1>1, QuietStep DEF core, StartTun, StartThrows, NativeStartRejected,
       StopNative, LogWrite, FinishClear
  <1>2. ASSUME NEW s \in Sess, WorkerStep(s)
        PROVE  ~active'
    BY <1>2 DEF WorkerStep, RuntimeBuilt, BridgeStarts, WorkerReturns,
                Returns, DropRuntime, ClearActive
  <1> QED
    BY <1>1, <1>2, StepCases DEF WorkerStep

\* A worker decides to write IDLE in markStopped, when nobody holds ACTIVE.
LEMMA IdleDecided ==
  ASSUME Next, monitor'.write = "IDLE"
  PROVE  UNCHANGED monitor \/ (FinishRead /\ ~active)
  <1>1. CASE User \/ Revoke \/ Profile \/ DeliverIntent \/ HandlePost \/ Recompose
    BY <1>1 DEF User, TapStart, TapStop, PermissionGranted, PermissionDenied,
                Revoke, Profile, ProfileReady, DeliverIntent, DeliverStart,
                DeliverStop, DeliverDestroy, HandlePost, HandleStartPost,
                HandleFinishedPost, Recompose
  <1>2. CASE MainLogs \/ NativeStart
    BY <1>2 DEF MainLogs, TapPrepare, PrepSpawn, StartTun, StartThrows, StartLog,
                StopNative, NativeStart, NativeStartAccepted, NativeStartRejected
  <1>3. CASE MainSteps
    BY <1>3 DEF MainSteps, TapStopWrite, PrepWrite, StartWrite, SetReceiver,
                SetHandle, SvcStopWrite, ReadRunning, WriteStopped, StopSelf
  <1>4. CASE FinishRead
    BY <1>4 DEF FinishRead, Held, MarkStopped
  <1>5. CASE LogWrite \/ FinishWrite \/ FinishInvoke \/ FinishClear
    BY <1>5 DEF LogWrite, FinishWrite, FinishInvoke, FinishClear, Held, Unlocked
  <1>6. ASSUME NEW s \in Sess, Worker(s)
        PROVE  UNCHANGED monitor
    <2>1. CASE ReconnectLog(s) \/ TrafficLog(s) \/ ResultLog(s) \/ FinishEnter(s)
      BY <2>1 DEF ReconnectLog, TrafficLog, ResultLog, ResultState, FinishEnter,
                  Lock
    <2>2. CASE \/ Runtime(s) \/ StopSeen(s) \/ DropRuntime(s) \/ ClearActive(s)
               \/ BridgeStarts(s)
               \/ \E out \in {"clean", "error", "panic"} : EngineEnds(s, out)
      BY <2>2 DEF Runtime, RuntimeBuilt, RuntimeFails, StopSeen, BridgeStarts,
                  EngineEnds, Returns, DropRuntime, ClearActive
    <2> QED
      BY <1>6, <2>1, <2>2 DEF Worker, EngineEvent
  <1> QED
    BY <1>1, <1>2, <1>3, <1>4, <1>5, <1>6 DEF Next, Main, InMonitor

LEMMA AskedStep ==
  ASSUME IInv, AskedInv, Next
  PROVE  AskedInv'
  <1> USE DEF AskedInv
  <1>1. ASSUME monitor'.write = "IDLE"
        PROVE  monitor'.kind = "finishWrite" /\ \A s \in Sess : wpc'[s] # "bridge"
    <2>1. CASE UNCHANGED monitor
      <3>1. ~Free
        BY <1>1, <2>1 DEF Free, Unlocked
      <3> QED
        BY <1>1, <2>1, <3>1, BridgeBegins
    <2>2. CASE FinishRead /\ ~active
      BY <2>2 DEF FinishRead, Held, IInv, ExclusiveWorker, Holding
    <2> QED
      BY <1>1, <2>1, <2>2, IdleDecided
  <1> DEFINE MainPart == /\ mwrite' = "IDLE" => mpc' = "writeStopped" /\ ~active'
                         /\ mpc' = "writeStopped" => mwrite' # Keep
  <1>2. CASE User \/ TapPrepare \/ TapStopWrite \/ Recompose \/ Revoke \/ Profile
    <2>1. UNCHANGED active
      BY <1>2 DEF User, TapStart, TapStop, PermissionGranted, PermissionDenied,
                  TapPrepare, TapStopWrite, Recompose, Revoke, Profile,
                  ProfileReady
    <2>2. \/ UNCHANGED <<mpc, mwrite>>
          \/ mpc' # "writeStopped" /\ mwrite' = mwrite /\ mpc # "writeStopped"
          \/ mpc' # "writeStopped" /\ mwrite' # "IDLE"
      BY <1>2 DEF User, TapStart, TapStop, PermissionGranted, PermissionDenied,
                  TapPrepare, TapStopWrite, Recompose, Revoke, Profile,
                  ProfileReady, Return, MarkStopping
    <2> QED
      BY <1>1, <2>1, <2>2
  <1>3. CASE DeliverIntent \/ HandlePost
    <2>1. MainPart
      BY <1>3 DEF DeliverIntent, DeliverStart, DeliverStop, DeliverDestroy,
                  HandlePost, HandleStartPost, HandleFinishedPost, MarkStarting,
                  MarkStopping
    <2> QED
      BY <1>1, <2>1
  <1>4. CASE \/ PrepWrite \/ StartWrite \/ SetReceiver \/ StartLog \/ SetHandle
             \/ SvcStopWrite \/ WriteStopped \/ StopSelf \/ PrepSpawn
    <2>1. MainPart
      BY <1>4 DEF PrepWrite, StartWrite, SetReceiver, StartLog, SetHandle,
                  SvcStopWrite, WriteStopped, StopSelf, PrepSpawn, Return
    <2> QED
      BY <1>1, <2>1
  <1>5. CASE ReadRunning
    <2>1. MainPart
      BY <1>5 DEF ReadRunning, MarkStopped
    <2> QED
      BY <1>1, <2>1
  <1>6. CASE \/ StartTun \/ StartThrows \/ NativeStartAccepted
             \/ NativeStartRejected \/ StopNative
    <2>1. MainPart
      BY <1>6 DEF StartTun, StartThrows, NativeStartAccepted, NativeStartRejected,
                  StopNative, Return
    <2> QED
      BY <1>1, <2>1
  <1>7. CASE InMonitor \/ \E s \in Sess : Worker(s)
    <2>1. UNCHANGED <<mpc, mwrite>>
      BY <1>7, WorkersApart DEF InMonitor, FinishInvoke
    <2>2. ~NativeStartAccepted \/ mpc # "writeStopped"
      BY DEF NativeStartAccepted
    <2> QED
      BY <1>1, <2>1, <2>2, ActiveTaken
  <1> QED
    BY <1>2, <1>3, <1>4, <1>5, <1>6, <1>7
    DEF Next, Main, MainLogs, NativeStart, MainSteps

\* IDLE is written by the two that have asked.
LEMMA IdleWrites ==
  ASSUME AskedInv, Next, tunnelState' = "IDLE", tunnelState # "IDLE"
  PROVE  \/ WriteStopped /\ ~active
         \/ FinishWrite /\ monitor.write = "IDLE"
  <1> USE DEF AskedInv
  <1>1. CASE User \/ TapPrepare \/ TapStopWrite \/ Recompose \/ Revoke \/ Profile
    BY <1>1 DEF User, TapStart, TapStop, PermissionGranted, PermissionDenied,
                TapPrepare, TapStopWrite, Recompose, Revoke, Profile,
                ProfileReady, Written
  <1>2. CASE DeliverIntent \/ HandlePost
    BY <1>2 DEF DeliverIntent, DeliverStart, DeliverStop, DeliverDestroy,
                HandlePost, HandleStartPost, HandleFinishedPost
  <1>3. CASE MainSteps
    BY <1>3 DEF MainSteps, TapStopWrite, PrepWrite, StartWrite, SetReceiver,
                SetHandle, SvcStopWrite, ReadRunning, WriteStopped, StopSelf,
                Written
  <1>4. CASE MainLogs \/ NativeStart
    BY <1>4 DEF MainLogs, TapPrepare, PrepSpawn, StartTun, StartThrows, StartLog,
                StopNative, NativeStart, NativeStartAccepted, NativeStartRejected
  <1>5. CASE InMonitor
    BY <1>5 DEF InMonitor, LogWrite, FinishRead, FinishWrite, FinishInvoke,
                FinishClear, Written
  <1>6. ASSUME NEW s \in Sess, Worker(s)
        PROVE  FALSE
    BY <1>6 DEF Worker, Runtime, RuntimeBuilt, RuntimeFails, StopSeen,
                EngineEvent, BridgeStarts, ReconnectLog, TrafficLog, EngineEnds,
                Returns, ResultLog, DropRuntime, ClearActive, FinishEnter
  <1> QED
    BY <1>1, <1>2, <1>3, <1>4, <1>5, <1>6 DEF Next, Main

\* For every number of sessions, and whichever of the two threads that write
\* IDLE is overtaken by the other, the screen is never idle while a bridge
\* passes packets.
THEOREM IdleIsNotConnected == Spec => []IdleNotConnected
  <1>1. Init => AskedInv /\ IdleNotConnected
    BY DEF Init, AskedInv, IdleNotConnected, Unlocked
  <1>2. IInv /\ AskedInv /\ IdleNotConnected /\ [Next]_vars
          => AskedInv' /\ IdleNotConnected'
    <2> SUFFICES ASSUME IInv, AskedInv, IdleNotConnected, [Next]_vars
                 PROVE  AskedInv' /\ IdleNotConnected'
      OBVIOUS
    <2>1. CASE Next
      <3>1. CASE tunnelState = "IDLE"
        <4> SUFFICES ASSUME tunnelState' = "IDLE", NEW s \in Sess
                     PROVE  AskedInv' /\ wpc'[s] # "bridge"
          BY <2>1, AskedStep DEF IdleNotConnected
        <4> QED
          BY <2>1, <3>1, AskedStep, BridgeBegins DEF IdleNotConnected
      <3>2. CASE tunnelState # "IDLE" /\ tunnelState' = "IDLE"
        <4>1. /\ UNCHANGED wpc
              /\ ~active \/ \A s \in Sess : wpc[s] # "bridge"
          BY <2>1, <3>2, IdleWrites DEF WriteStopped, FinishWrite, AskedInv
        <4> QED
          BY <2>1, <4>1, AskedStep
          DEF IInv, ExclusiveWorker, Holding, IdleNotConnected
      <3> QED
        BY <2>1, <3>1, <3>2, AskedStep DEF IdleNotConnected
    <2>2. CASE UNCHANGED vars
      BY <2>2 DEF vars, AskedInv, IdleNotConnected
    <2> QED
      BY <2>1, <2>2
  <1> QED
    BY <1>1, <1>2, Invariance, PTL DEF Spec

-----------------------------------------------------------------------------
(* Serial sessions.                                                        *)

\* The worker of s has begun and has not written its last line.
Live(s) == wpc[s] \notin {"off", "done"}

\* Sessions follow one another, and the callback that is registered is there
\* for the worker that will call it.
ReceiverInv ==
  /\ receiver.sess <= sess
  /\ mpc = "setReceiver" => receiver.sess # ms
  /\ mpc \in {"startLog", "nativeStart"} =>
       receiver # NoReceiver /\ \A s \in Sess : ~Live(s)
  /\ \A s \in Sess : Live(s) => receiver # NoReceiver
  /\ \A s, t \in Sess : Live(s) /\ Live(t) => s = t

LEMMA ReceiverStep ==
  ASSUME IInv, ReceiverInv, Next, Serial
  PROVE  ReceiverInv'
  <1> USE DEF IInv, ReceiverInv, Live, Open
  <1>0. /\ sess \in Nat /\ receiver.sess \in Nat
        /\ \A s \in Sess : s \in Nat /\ s # 0
    BY BoundsAssumption DEF TypeOK, Receiver, NoReceiver, Sess
  <1>1. CASE SetReceiver
    <2>1. /\ ms \in Sess /\ ms = sess /\ mi \in Inst
          /\ receiver' = [inst |-> mi, sess |-> ms] /\ mpc' = "startLog"
          /\ UNCHANGED <<wpc, sess, ms>> /\ receiver.sess # ms
      BY <1>1 DEF SetReceiver, MainInv, InService
    <2>2. receiver' # receiver /\ receiver' # NoReceiver
      BY <1>0, <2>1 DEF NoReceiver
    <2>3. \A s \in Sess : wpc[s] \in {"off", "done"}
      BY <2>2 DEF Serial
    <2> QED
      BY <1>0, <2>1, <2>2, <2>3
  <1>2. CASE Quiet /\ ~SetReceiver
    <2>1. UNCHANGED <<sess, wpc>>
      BY <1>2, QuietStep DEF core
    <2>2. UNCHANGED receiver
      <3>1. CASE User \/ Revoke \/ Profile \/ DeliverIntent \/ HandlePost
        BY <3>1 DEF User, TapStart, TapStop, PermissionGranted, PermissionDenied,
                    Revoke, Profile, ProfileReady, DeliverIntent, DeliverStart,
                    DeliverStop, DeliverDestroy, HandlePost, HandleStartPost,
                    HandleFinishedPost
      <3>2. CASE Recompose \/ TapPrepare \/ PrepSpawn \/ StartLog \/ MainSteps
        BY <1>2, <3>2 DEF Recompose, TapPrepare, PrepSpawn, StartLog, MainSteps,
                    TapStopWrite, PrepWrite, StartWrite, SetHandle, SvcStopWrite, ReadRunning,
                    WriteStopped, StopSelf
      <3>3. CASE \/ FinishRead \/ FinishWrite \/ FinishInvoke
                 \/ \E s \in Sess : \/ ReconnectLog(s) \/ TrafficLog(s)
                                    \/ ResultLog(s) \/ FinishEnter(s)
        BY <3>3 DEF FinishRead, FinishWrite, FinishInvoke, ReconnectLog,
                    TrafficLog, ResultLog, FinishEnter
      <3> QED
        BY <1>2, <3>1, <3>2, <3>3 DEF Quiet
    <2>3. CASE UNCHANGED <<mpc, ms>>
      BY <2>1, <2>2, <2>3
    <2>4. CASE mpc' \notin Open
      BY <2>1, <2>2, <2>4
    <2>5. CASE mpc = "setReceiver" /\ mpc' = "startLog"
      BY <1>2, <2>5
      DEF Quiet, User, TapStart, TapStop, PermissionGranted, PermissionDenied,
          Revoke, Profile, ProfileReady, DeliverIntent, DeliverStart, DeliverStop,
          DeliverDestroy, HandlePost, HandleStartPost, HandleFinishedPost,
          Recompose, TapPrepare, PrepSpawn, StartLog, MainSteps, TapStopWrite,
          PrepWrite, StartWrite, SetHandle, SvcStopWrite, ReadRunning, WriteStopped, StopSelf,
          FinishRead, FinishWrite, FinishInvoke, ReconnectLog, TrafficLog,
          ResultLog, FinishEnter
    <2>6. CASE mpc = "startLog" /\ mpc' = "nativeStart"
      BY <2>1, <2>2, <2>6
    <2> QED
      BY <1>2, <2>3, <2>4, <2>5, <2>6, StartWindow
  <1>3. CASE StartTun
    <2>1. UNCHANGED <<wpc, receiver>>
      BY <1>3 DEF StartTun
    <2>2. \/ UNCHANGED sess /\ mpc' \in {"free", "stopNative"}
          \/ sess' = sess + 1 /\ ms' = sess + 1 /\ mpc' = "setReceiver"
      BY <1>3 DEF StartTun, Return
    <2> QED
      BY <1>0, <2>1, <2>2
  <1>4. CASE NativeStartAccepted
    <2>1. /\ mpc = "nativeStart" /\ ms \in Sess /\ mpc' = "setHandle"
          /\ wpc' = [wpc EXCEPT ![ms] = "spawned"] /\ UNCHANGED <<receiver, sess>>
      BY <1>4 DEF NativeStartAccepted, MainInv
    <2> QED
      BY <2>1 DEF TypeOK
  <1>5. CASE StartThrows \/ NativeStartRejected \/ StopNative
    BY <1>5 DEF StartThrows, NativeStartRejected, StopNative
  <1>6. CASE LogWrite
    <2>1. UNCHANGED <<receiver, sess, mpc, ms>>
      BY <1>6 DEF LogWrite
    <2>2. \A s \in Sess : Live(s)' => Live(s)
      BY <1>6 DEF LogWrite, TypeOK, MonitorInv
    <2> QED
      BY <2>1, <2>2
  <1>7. CASE FinishClear
    <2>1. /\ monitor.by \in Sess /\ Live(monitor.by)
          /\ wpc' = [wpc EXCEPT ![monitor.by] = "done"]
          /\ receiver' = NoReceiver /\ UNCHANGED <<sess, mpc, ms>>
      BY <1>7 DEF FinishClear, TypeOK, Monitor, Unlocked, MonitorInv
    <2>2. \A s \in Sess : ~Live(s)'
      BY <2>1 DEF TypeOK
    <2>3. mpc = "setReceiver" => ms # 0
      BY <1>0 DEF MainInv
    <2> QED
      BY <1>0, <2>1, <2>2, <2>3 DEF NoReceiver
  <1>8. ASSUME NEW s \in Sess, WorkerStep(s)
        PROVE  ReceiverInv'
    <2>1. UNCHANGED <<receiver, sess, mpc, ms>>
      BY <1>8 DEF WorkerStep, RuntimeBuilt, BridgeStarts, WorkerReturns, Returns,
                  DropRuntime, ClearActive
    <2>2. \A t \in Sess : Live(t)' <=> Live(t)
      BY <1>8 DEF WorkerStep, RuntimeBuilt, BridgeStarts, WorkerReturns, Returns,
                  DropRuntime, ClearActive, TypeOK
    <2> QED
      BY <2>1, <2>2
  <1> QED
    BY <1>1, <1>2, <1>3, <1>4, <1>5, <1>6, <1>7, <1>8, StepCases DEF WorkerStep

\* Serial sessions: nativeStart does not take ACTIVE between the question of a
\* worker's markStopped and its write.
AnsweredInv == monitor.write = "IDLE" => ~active

\* No worker is inside its last line when nativeStart is called.
LEMMA NobodyFinishing ==
  ASSUME IInv, ReceiverInv, NativeStartAccepted
  PROVE  monitor.kind \notin {"finishRead", "finishWrite", "finishInvoke", "finishClear"}
  <1>1. monitor.kind # "none" => monitor.by \in Sess
    BY DEF IInv, TypeOK, Monitor, Unlocked
  <1>2. \A s \in Sess : ~Live(s)
    BY DEF NativeStartAccepted, ReceiverInv
  <1> QED
    BY <1>1, <1>2 DEF IInv, MonitorInv, Live

LEMMA AnsweredStep ==
  ASSUME IInv, AskedInv, ReceiverInv, AnsweredInv, Next
  PROVE  AnsweredInv'
  <1> SUFFICES ASSUME monitor'.write = "IDLE", active'
               PROVE  FALSE
    BY DEF AnsweredInv
  <1>1. ~active
    BY IdleDecided DEF AnsweredInv
  <1>2. NativeStartAccepted
    BY <1>1, ActiveTaken
  <1>3. UNCHANGED monitor
    BY <1>2 DEF NativeStartAccepted
  <1> QED
    BY <1>2, <1>3, NobodyFinishing DEF AskedInv

\* The end of a worker is posted to the main looper.
Told == \E k \in DOMAIN posts : posts[k].type = "finished"

\* It stays there until it is handled.
LEMMA ToldKept ==
  ASSUME IInv, Next, Told
  PROVE  Told' \/ HandleFinishedPost
  <1> USE DEF IInv
  <1>1. CASE UNCHANGED posts
    BY <1>1 DEF Told
  <1>2. CASE \E x \in Post : posts' = Append(posts, x)
    <2> PICK x \in Post : posts' = Append(posts, x)
      BY <1>2
    <2>1. \A k \in DOMAIN posts : k \in DOMAIN posts' /\ posts'[k] = posts[k]
      BY PostsAppended
    <2> QED
      BY <2>1 DEF Told
  <1>3. CASE HandleStartPost
    <2>1. posts # <<>> /\ posts' = Tail(posts) /\ Head(posts).type = "start"
      BY <1>3 DEF HandleStartPost
    <2>2. /\ Head(posts) = posts[1]
          /\ \A k \in DOMAIN posts : k # 1 =>
               k - 1 \in DOMAIN posts' /\ posts'[k - 1] = posts[k]
      BY <2>1, PostsTail
    <2> QED
      BY <2>1, <2>2 DEF Told
  <1>4. CASE Profile
    <2> PICK q \in prep : ProfileReady(q)
      BY <1>4 DEF Profile
    <2>1. [type |-> "start", inst |-> q.inst, gen |-> q.gen] \in Post
      BY DEF TypeOK, Post
    <2> QED
      BY <1>2, <2>1 DEF ProfileReady
  <1>5. CASE FinishInvoke
    <2>1. CASE receiver # NoReceiver
      <3>1. [type |-> "finished", inst |-> receiver.inst, gen |-> 0] \in Post
        BY <2>1 DEF TypeOK, Receiver, Post
      <3> QED
        BY <1>2, <1>5, <2>1, <3>1 DEF FinishInvoke
    <2> QED
      BY <1>1, <1>5, <2>1 DEF FinishInvoke
  <1>6. CASE \/ Elsewhere \/ InStart \/ StopNative \/ PrepSpawn
             \/ LogWrite \/ FinishRead \/ FinishWrite \/ FinishClear
             \/ \E s \in Sess : Worker(s)
    <2>1. UNCHANGED posts
      BY <1>6, ElsewhereApart, InStartApart, WorkersApart DEF StopNative, PrepSpawn
    <2> QED
      BY <1>1, <2>1
  <1>7. CASE DeliverStart \/ DeliverStop \/ DeliverDestroy
    <2>1. UNCHANGED posts
      BY <1>7 DEF DeliverStart, DeliverStop, DeliverDestroy
    <2> QED
      BY <1>1, <2>1
  <1> QED
    BY <1>3, <1>4, <1>5, <1>6, <1>7, ServiceCases

\* A worker in its last line calls the callback before it leaves the monitor.
LEMMA InvokeKept ==
  ASSUME IInv, ReceiverInv, Next, monitor.kind = "finishInvoke"
  PROVE  UNCHANGED monitor \/ Told'
  <1> USE DEF IInv
  <1>0. ~Free
    BY DEF Free, Unlocked
  <1>1. CASE FinishInvoke
    <2>1. monitor.by \in Sess /\ Live(monitor.by)
      BY DEF TypeOK, Monitor, Unlocked, MonitorInv, Live
    <2>2. receiver # NoReceiver
      BY <2>1 DEF ReceiverInv
    <2> DEFINE x == [type |-> "finished", inst |-> receiver.inst, gen |-> 0]
    <2>3. x \in Post /\ posts' = Append(posts, x) /\ x.type = "finished"
      BY <1>1, <2>2 DEF FinishInvoke, TypeOK, Receiver, Post
    <2> HIDE DEF x
    <2>4. \E k \in DOMAIN posts' : posts'[k] = x
      BY <2>3, PostsAppended
    <2> QED
      BY <2>3, <2>4 DEF Told
  <1>2. CASE LogWrite \/ FinishRead \/ FinishWrite \/ FinishClear
    BY <1>2 DEF LogWrite, FinishRead, FinishWrite, FinishClear
  <1>3. ASSUME NEW s \in Sess, Worker(s)
        PROVE  UNCHANGED monitor
    <2>1. CASE Runtime(s) \/ StopSeen(s) \/ DropRuntime(s) \/ ClearActive(s)
      BY <2>1 DEF Runtime, RuntimeBuilt, RuntimeFails, StopSeen, Returns,
                  DropRuntime, ClearActive
    <2>2. CASE EngineEvent(s) \/ ResultLog(s) \/ FinishEnter(s)
      BY <1>0, <2>2 DEF EngineEvent, BridgeStarts, ReconnectLog, TrafficLog,
                        EngineEnds, Returns, ResultLog, FinishEnter, Lock
    <2> QED
      BY <1>3, <2>1, <2>2 DEF Worker
  <1>4. CASE User \/ Revoke \/ Profile \/ DeliverIntent \/ HandlePost \/ Recompose
    BY <1>4 DEF User, TapStart, TapStop, PermissionGranted, PermissionDenied,
                Revoke, Profile, ProfileReady, DeliverIntent, DeliverStart,
                DeliverStop, DeliverDestroy, HandlePost, HandleStartPost,
                HandleFinishedPost, Recompose
  <1>5. CASE MainLogs \/ NativeStart
    BY <1>5 DEF MainLogs, TapPrepare, PrepSpawn, StartTun, StartThrows, StartLog,
                StopNative, NativeStart, NativeStartAccepted, NativeStartRejected
  <1>6. CASE MainSteps
    BY <1>6 DEF MainSteps, TapStopWrite, PrepWrite, StartWrite, SetReceiver,
                SetHandle, SvcStopWrite, ReadRunning, WriteStopped, StopSelf
  <1> QED
    BY <1>1, <1>2, <1>3, <1>4, <1>5, <1>6 DEF Next, Main, InMonitor

\* startTunnel has written STARTING, or found it written, and has yet to take
\* ACTIVE.
Starting ==
  \/ mpc = "startWrite" /\ mwrite = Keep
  \/ mpc \in Open \cup {"startTun"}

LEMMA StartingBegins ==
  ASSUME IInv, AskedInv, Next, Starting', tunnelState' = "IDLE"
  PROVE  Starting
  <1> USE DEF Starting, Open
  <1>1. CASE Elsewhere
    BY <1>1 DEF Elsewhere, User, TapStart, TapStop, PermissionGranted,
                PermissionDenied, TapPrepare, TapStopWrite, Recompose, Revoke,
                ReadRunning, WriteStopped, StopSelf, Return
  <1>2. CASE InStart
    BY <1>2 DEF InStart, PrepWrite, StartWrite, StartTun, StartThrows, SetReceiver,
                StartLog, NativeStartAccepted, NativeStartRejected, SetHandle,
                SvcStopWrite,
                Return, Written, AskedInv
  <1>3. CASE StopNative \/ PrepSpawn \/ DeliverStart \/ DeliverStop \/ DeliverDestroy
    BY <1>3 DEF StopNative, PrepSpawn, DeliverStart, DeliverStop, DeliverDestroy,
                Return
  <1>4. CASE HandleStartPost \/ HandleFinishedPost
    BY <1>4 DEF HandleStartPost, HandleFinishedPost, MarkStarting
  <1>5. CASE \/ Profile \/ FinishInvoke
             \/ LogWrite \/ FinishRead \/ FinishWrite \/ FinishClear
             \/ \E s \in Sess : Worker(s)
    BY <1>5, WorkersApart DEF Profile, ProfileReady, FinishInvoke
  <1> QED
    BY <1>1, <1>2, <1>3, <1>4, <1>5, ServiceCases

\* A late IDLE over the STARTING of the next session comes with a message ...
OverwrittenInv ==
  Starting /\ tunnelState = "IDLE" => Told \/ monitor.kind = "finishInvoke"

\* ... which, handled, makes the main thread ask the library again.
CorrectedInv ==
  tunnelState = "IDLE" /\ active =>
    \/ Told
    \/ mpc = "stopNative" /\ ~mpreserve
    \/ mpc \in {"readRunning", "writeStopped"}

LEMMA OverwrittenStep ==
  ASSUME IInv, AskedInv, ReceiverInv, OverwrittenInv, Next
  PROVE  OverwrittenInv'
  <1> SUFFICES ASSUME Starting', tunnelState' = "IDLE"
               PROVE  Told' \/ monitor'.kind = "finishInvoke"
    BY DEF OverwrittenInv
  <1>1. Starting
    BY StartingBegins
  <1>2. CASE tunnelState # "IDLE"
    <2>1. ~WriteStopped
      BY <1>1 DEF Starting, Open, WriteStopped
    <2> QED
      BY <1>2, <2>1, IdleWrites DEF FinishWrite, Held
  <1>3. CASE tunnelState = "IDLE" /\ Told
    <2>1. ~HandleFinishedPost
      BY <1>1 DEF Starting, Open, HandleFinishedPost
    <2> QED
      BY <1>3, <2>1, ToldKept
  <1>4. CASE tunnelState = "IDLE" /\ monitor.kind = "finishInvoke"
    BY <1>4, InvokeKept
  <1> QED
    BY <1>1, <1>2, <1>3, <1>4 DEF OverwrittenInv

LEMMA CorrectedStep ==
  ASSUME IInv, AskedInv, ReceiverInv, AnsweredInv, OverwrittenInv, CorrectedInv,
         Next
  PROVE  CorrectedInv'
  <1> SUFFICES ASSUME tunnelState' = "IDLE", active'
               PROVE  \/ Told'
                      \/ mpc' = "stopNative" /\ ~mpreserve'
                      \/ mpc' \in {"readRunning", "writeStopped"}
    BY DEF CorrectedInv
  <1>1. CASE ~active
    <2>1. NativeStartAccepted
      BY <1>1, ActiveTaken
    <2>2. Starting /\ tunnelState = "IDLE" /\ monitor.kind # "finishInvoke"
      BY <2>1, NobodyFinishing DEF NativeStartAccepted, Starting, Open
    <2>3. ~HandleFinishedPost
      BY <2>1 DEF NativeStartAccepted, HandleFinishedPost
    <2> QED
      BY <2>2, <2>3, ToldKept DEF OverwrittenInv
  <1>2. CASE active
    <2>1. tunnelState = "IDLE"
      BY <1>2, IdleWrites DEF AnsweredInv
    <2>2. CASE Told
      <3>1. HandleFinishedPost => mpc' = "stopNative" /\ ~mpreserve'
        BY <2>1 DEF HandleFinishedPost
      <3> QED
        BY <2>2, <3>1, ToldKept
    <2>3. CASE \/ mpc = "stopNative" /\ ~mpreserve
               \/ mpc \in {"readRunning", "writeStopped"}
      <3>1. CASE StopNative \/ ReadRunning
        BY <2>3, <3>1 DEF StopNative, ReadRunning
      <3>2. CASE WriteStopped
        BY <1>2, <3>2 DEF WriteStopped, Written, AskedInv
      <3>3. CASE \/ Revoke \/ Profile \/ FinishInvoke
                 \/ LogWrite \/ FinishRead \/ FinishWrite \/ FinishClear
                 \/ \E s \in Sess : Worker(s)
        <4>1. UNCHANGED <<mpc, mpreserve>>
          BY <3>3, WorkersApart DEF Revoke, Profile, ProfileReady, FinishInvoke
        <4> QED
          BY <2>3, <4>1
      <3>4. CASE User \/ TapPrepare \/ TapStopWrite \/ Recompose \/ StopSelf
        BY <2>3, <3>4
        DEF User, TapStart, TapStop, PermissionGranted, PermissionDenied,
            TapPrepare, TapStopWrite, Recompose, StopSelf
      <3>5. CASE InStart \/ PrepSpawn
        BY <2>3, <3>5
        DEF InStart, PrepWrite, StartWrite, StartTun, StartThrows, SetReceiver,
            StartLog, PrepSpawn, NativeStartAccepted, NativeStartRejected, SetHandle, SvcStopWrite
      <3>6. CASE \/ DeliverStart \/ DeliverStop \/ DeliverDestroy
                 \/ HandleStartPost \/ HandleFinishedPost
        BY <2>3, <3>6
        DEF DeliverStart, DeliverStop, DeliverDestroy, HandleStartPost,
            HandleFinishedPost
      <3> QED
        BY <3>1, <3>2, <3>3, <3>4, <3>5, <3>6, ServiceCases DEF Elsewhere
    <2> QED
      BY <1>2, <2>1, <2>2, <2>3 DEF CorrectedInv
  <1> QED
    BY <1>1, <1>2

\* When each worker has written its last line before the next callback is
\* registered, an idle screen with nothing left to handle means, for every
\* number of sessions, that no engine runs: an IDLE that a worker writes over a
\* session that is starting is always followed by a message that has it
\* corrected.
THEOREM IdleIsDown == SerialSpec => []IdleMeansDown
  <1> DEFINE More == /\ AskedInv /\ ReceiverInv /\ AnsweredInv
                     /\ OverwrittenInv /\ CorrectedInv
  <1>1. Init => More
    BY DEF Init, AskedInv, ReceiverInv, AnsweredInv, OverwrittenInv, CorrectedInv,
           Live, Starting, Open, NoReceiver, Unlocked
  <1>2. IInv /\ More /\ [Next /\ Serial]_vars => More'
    <2> SUFFICES ASSUME IInv, More, [Next /\ Serial]_vars PROVE More'
      OBVIOUS
    <2>1. CASE Next /\ Serial
      BY <2>1, AskedStep, ReceiverStep, AnsweredStep, OverwrittenStep, CorrectedStep
    <2>2. CASE UNCHANGED vars
      BY <2>2 DEF vars, AskedInv, ReceiverInv, AnsweredInv, OverwrittenInv,
                  CorrectedInv, Live, Starting, Told
    <2> QED
      BY <2>1, <2>2
  <1>3. IInv /\ More => IdleMeansDown
    BY DEF CorrectedInv, Told, IdleMeansDown
  <1>4. [Next /\ Serial]_vars => [Next]_vars
    OBVIOUS
  <1> HIDE DEF More
  <1> QED
    BY <1>1, <1>2, <1>3, <1>4, Invariance, PTL DEF Spec, SerialSpec
=============================================================================
