---------------------------- MODULE VpnLifecycle ----------------------------
(***************************************************************************)
(* The life of a VPN session across its three threads of control:          *)
(*                                                                         *)
(*   - the main thread of the app, which runs the taps of MainActivity,    *)
(*     the callbacks of AetherVpnService and the messages posted to the    *)
(*     main looper, one handler at a time;                                 *)
(*   - the "koku-network-profile" threads, which look a profile up and     *)
(*     post startTunnel back to the main looper;                           *)
(*   - the "aether-native" worker of each session (native/src/lib.rs),     *)
(*     which reports to the app only through log lines: appendLog of       *)
(*     AetherNative reads them and moves the tunnel state.                 *)
(*                                                                         *)
(* A handler of the main thread is one action per access to what the other *)
(* threads share (the tunnel state, ACTIVE, RUNS, the finish receiver); mpc*)
(* is where it stands.  mwrite holds a tunnel state the thread has decided *)
(* to write and has not written yet, because the code tests the state and  *)
(* sets it in two steps.  appendLog is @Synchronized: the monitor holder   *)
(* is `monitor', which also carries the holder's undone write.             *)
(***************************************************************************)
EXTENDS Naturals, Sequences

CONSTANTS MaxStarts,  \* bound: taps on Start, so also sessions
          MaxStops,   \* bound: taps on Stop
          MaxInst     \* bound: instances of the service that Android creates

ASSUME BoundsAssumption == /\ MaxStarts \in Nat
                           /\ MaxStops \in Nat
                           /\ MaxInst \in Nat

Sess == 1 .. MaxStarts
Inst == 1 .. MaxInst

TunnelState == {"IDLE", "STARTING", "CONNECTED", "STOPPING", "FAILED"}

\* Nothing to write: the test before the assignment came out false.
Keep == "keep"

NoReceiver == [inst |-> 0, sess |-> 0]
Unlocked == [by |-> 0, kind |-> "none", write |-> Keep]

VARIABLES
  tunnelState, \* AetherNative.mutableTunnelState
  receiver,    \* AetherNative.workerFinishedReceiver: whose callback it is
  monitor,     \* the monitor of AetherNative, held inside appendLog
  shown,       \* the tunnel state of the last composition (what taps test)
  dialog,      \* the VPN permission dialog is open
  starts,      \* taps on Start so far
  stops,       \* taps on Stop so far
  intents,     \* what ActivityManager has still to deliver, in order
  posts,       \* messages posted to the main looper, in order
  prep,        \* network-profile threads that have not posted yet
  svc,         \* the live service instance, 0 when there is none
  insts,       \* service instances created so far
  tun,         \* AetherVpnService.tun, as the session it was opened for
  handle,      \* AetherVpnService.nativeHandle
  gen,         \* AetherVpnService.startupGeneration
  mpc,         \* where the main thread stands; "free" between handlers
  mi,          \* the service instance whose method it runs (0: the activity)
  ms,          \* the session startTunnel is opening
  mh,          \* what nativeStart returned
  mwrite,      \* the tunnel state it is about to write
  mpreserve,   \* the argument preserveFailure of stopTunnel
  sess,        \* sessions opened so far
  active,      \* ACTIVE: the exclusive flag of the native library
  runs,        \* RUNS: handles whose stop sender is still registered
  stopSig,     \* stop receivers of run_android that have a message waiting
  fd,          \* who owns the TUN descriptor of a session
  closes,      \* how often it has been closed
  wpc,         \* where the native worker of a session stands
  outcome      \* how its run_android ended

uiVars     == <<shown, dialog, starts, stops>>
amVars     == <<intents, posts, prep, svc, insts>>
svcVars    == <<tun, handle, gen>>
mainVars   == <<mpc, mi, ms, mh, mwrite, mpreserve>>
nativeVars == <<sess, active, runs, stopSig, fd, closes>>
workerVars == <<wpc, outcome>>
logVars    == <<tunnelState, receiver, monitor>>
vars == <<logVars, uiVars, amVars, svcVars, mainVars, nativeVars, workerVars>>

MainPc == {"free", "tapLog", "tapStopWrite", "prepWrite", "prepSpawn",
           "startWrite", "startTun", "setReceiver", "startLog", "nativeStart",
           "setHandle", "svcStopWrite", "stopNative", "readRunning", "writeStopped",
           "stopSelf"}

WorkerPc == {"off", "spawned", "run", "bridge", "returned", "resultLogged",
             "dropped", "inactive", "done"}

\* The worker holds the exclusive flag: from the compare_exchange in
\* nativeStart to the store after the runtime is dropped.
Holding == {"spawned", "run", "bridge", "returned", "resultLogged", "dropped"}

\* run_android has yet to end, so its stop receiver is still there.
Polled == {s \in Sess : wpc[s] \in {"spawned", "run", "bridge"}}

Init ==
  /\ tunnelState = "IDLE" /\ receiver = NoReceiver /\ monitor = Unlocked
  /\ shown = "IDLE" /\ dialog = FALSE /\ starts = 0 /\ stops = 0
  /\ intents = <<>> /\ posts = <<>> /\ prep = {} /\ svc = 0 /\ insts = 0
  /\ tun = [i \in Inst |-> 0]
  /\ handle = [i \in Inst |-> 0]
  /\ gen = [i \in Inst |-> 0]
  /\ mpc = "free" /\ mi = 0 /\ ms = 0 /\ mh = 0
  /\ mwrite = Keep /\ mpreserve = FALSE
  /\ sess = 0 /\ active = FALSE /\ runs = {} /\ stopSig = {}
  /\ fd = [s \in Sess |-> "none"]
  /\ closes = [s \in Sess |-> 0]
  /\ wpc = [s \in Sess |-> "off"]
  /\ outcome = [s \in Sess |-> "none"]

-----------------------------------------------------------------------------
(* Helpers.                                                                *)

Free == monitor = Unlocked

\* appendLog.tunnelIsActive
TunnelIsActive == tunnelState \notin {"IDLE", "STOPPING"}

\* Mutant of Written: the write is done whether or not its test came out true.
WrittenUnconditionally(w) == w

Written(w) == IF w = Keep THEN tunnelState ELSE w

\* markStopping: nothing to stop when the tunnel is idle.
MarkStopping == IF tunnelState # "IDLE" THEN "STOPPING" ELSE Keep

\* Mutants of MarkStopped: it does not ask the library; it never sees it idle.
MarkStoppedUnasked == "IDLE"
MarkStoppedAlwaysRunning == "STOPPING"

\* markStopped: not stopped while the native worker holds ACTIVE.
MarkStopped == IF active THEN "STOPPING" ELSE "IDLE"

\* The service marks the tunnel as starting unless the activity already has.
MarkStarting == IF tunnelState # "STARTING" THEN "STARTING" ELSE Keep

\* ActivityManager delivers an intent to the live instance, or creates one.
Target == IF svc = 0 THEN insts + 1 ELSE svc

\* stopSelf: ActivityManager destroys the instance after the intents it has
\* already queued; it ignores an instance that is no longer the live one.
RequestDestroy(i) ==
  IF i # 0 /\ i = svc /\ \A k \in DOMAIN intents : intents[k] # "DESTROY"
  THEN Append(intents, "DESTROY")
  ELSE intents

\* The handler returns to the looper: its locals go out of scope.
Return ==
  /\ mpc' = "free" /\ mi' = 0 /\ ms' = 0 /\ mh' = 0
  /\ mwrite' = Keep /\ mpreserve' = FALSE

-----------------------------------------------------------------------------
(* The activity.                                                           *)

\* startTunnel of MainActivity: the test is on the composed state.
TapStart ==
  /\ mpc = "free" /\ ~dialog
  /\ shown = "IDLE"
  /\ starts < MaxStarts
  /\ starts' = starts + 1
  /\ tunnelState' = "STARTING"
  /\ mpc' = "tapLog"
  /\ UNCHANGED <<receiver, monitor, shown, dialog, stops, amVars, svcVars,
                 mi, ms, mh, mwrite, mpreserve, nativeVars, workerVars>>

\* The rest of it: log, then VpnService.prepare either wants the user's
\* permission or lets the service start.
TapPrepare ==
  /\ mpc = "tapLog" /\ Free
  /\ \/ intents' = Append(intents, "START") /\ UNCHANGED dialog
     \/ dialog' = TRUE /\ UNCHANGED intents
  /\ Return
  /\ UNCHANGED <<logVars, shown, starts, stops, posts, prep, svc, insts,
                 svcVars, nativeVars, workerVars>>

PermissionGranted ==
  /\ mpc = "free" /\ dialog
  /\ dialog' = FALSE
  /\ intents' = Append(intents, "START")
  /\ UNCHANGED <<logVars, shown, starts, stops, posts, prep, svc, insts,
                 svcVars, mainVars, nativeVars, workerVars>>

PermissionDenied ==
  /\ mpc = "free" /\ dialog
  /\ dialog' = FALSE
  /\ mpc' = "readRunning" /\ mi' = 0
  /\ UNCHANGED <<logVars, shown, starts, stops, amVars, svcVars, ms, mh,
                 mwrite, mpreserve, nativeVars, workerVars>>

\* stopTunnel of MainActivity.
TapStop ==
  /\ mpc = "free" /\ ~dialog
  /\ shown \notin {"IDLE", "STOPPING"}
  /\ stops < MaxStops
  /\ stops' = stops + 1
  /\ mwrite' = MarkStopping
  /\ mpc' = "tapStopWrite"
  /\ UNCHANGED <<logVars, shown, dialog, starts, amVars, svcVars, mi, ms, mh,
                 mpreserve, nativeVars, workerVars>>

TapStopWrite ==
  /\ mpc = "tapStopWrite"
  /\ tunnelState' = Written(mwrite)
  /\ intents' = Append(intents, "STOP")
  /\ Return
  /\ UNCHANGED <<receiver, monitor, uiVars, posts, prep, svc, insts, svcVars,
                 nativeVars, workerVars>>

\* The state flow is collected and the screen composed again.
Recompose ==
  /\ mpc = "free"
  /\ shown # tunnelState
  /\ shown' = tunnelState
  /\ UNCHANGED <<logVars, dialog, starts, stops, amVars, svcVars, mainVars,
                 nativeVars, workerVars>>

-----------------------------------------------------------------------------
(* The service: onStartCommand, onDestroy and the looper's messages.       *)

\* ACTION_START: prepareTunnelStart.
DeliverStart ==
  /\ mpc = "free"
  /\ intents # <<>> /\ Head(intents) = "START"
  /\ Target \in Inst
  /\ intents' = Tail(intents)
  /\ svc' = Target /\ insts' = IF svc = 0 THEN Target ELSE insts
  /\ IF tun[Target] # 0
     THEN UNCHANGED <<mpc, mi, mwrite>>
     ELSE /\ mpc' = "prepWrite" /\ mi' = Target
          /\ mwrite' = MarkStarting
  /\ UNCHANGED <<logVars, uiVars, posts, prep, svcVars, ms, mh, mpreserve,
                 nativeVars, workerVars>>

PrepWrite ==
  /\ mpc = "prepWrite"
  /\ tunnelState' = Written(mwrite)
  /\ mpc' = "prepSpawn"
  /\ UNCHANGED <<receiver, monitor, uiVars, amVars, svcVars, mi, ms, mh,
                 mwrite, mpreserve, nativeVars, workerVars>>

\* The generation is taken and the network-profile thread started; a fresh
\* STARTING was logged first.
PrepSpawn ==
  /\ mpc = "prepSpawn"
  /\ mwrite = Keep \/ Free
  /\ gen' = [gen EXCEPT ![mi] = @ + 1]
  /\ prep' = prep \cup {[inst |-> mi, gen |-> gen[mi] + 1]}
  /\ Return
  /\ UNCHANGED <<logVars, uiVars, intents, posts, svc, insts, tun, handle,
                 nativeVars, workerVars>>

\* A network-profile thread has its answer, logs it and posts startTunnel.
ProfileReady(p) ==
  /\ p \in prep
  /\ Free
  /\ prep' = prep \ {p}
  /\ posts' = Append(posts, [type |-> "start", inst |-> p.inst, gen |-> p.gen])
  /\ UNCHANGED <<logVars, uiVars, intents, svc, insts, svcVars, mainVars,
                 nativeVars, workerVars>>

\* Mutant of HandleStartPost: the generation is not compared.
HandleStartPostAnyGeneration ==
  /\ mpc = "free"
  /\ posts # <<>> /\ Head(posts).type = "start"
  /\ posts' = Tail(posts)
  /\ mpc' = "startWrite" /\ mi' = Head(posts).inst
  /\ mwrite' = MarkStarting
  /\ UNCHANGED <<logVars, uiVars, intents, prep, svc, insts, svcVars, ms, mh,
                 mpreserve, nativeVars, workerVars>>

\* The posted closure returns at once when its generation has passed.
HandleStartPost ==
  /\ mpc = "free"
  /\ posts # <<>> /\ Head(posts).type = "start"
  /\ posts' = Tail(posts)
  /\ LET p == Head(posts)
     IN IF p.gen # gen[p.inst]
        THEN UNCHANGED <<mpc, mi, mwrite>>
        ELSE /\ mpc' = "startWrite" /\ mi' = p.inst
             /\ mwrite' = MarkStarting
  /\ UNCHANGED <<logVars, uiVars, intents, prep, svc, insts, svcVars, ms, mh,
                 mpreserve, nativeVars, workerVars>>

StartWrite ==
  /\ mpc = "startWrite"
  /\ tunnelState' = Written(mwrite)
  /\ mpc' = "startTun" /\ mwrite' = Keep
  /\ UNCHANGED <<receiver, monitor, uiVars, amVars, svcVars, mi, ms, mh,
                 mpreserve, nativeVars, workerVars>>

\* startTunnel up to establish(), which may fail.
StartTun ==
  /\ mpc = "startTun" /\ Free
  /\ IF tun[mi] # 0
     THEN Return /\ UNCHANGED <<tun, sess, fd>>
     ELSE \/ /\ sess + 1 \in Sess
             /\ sess' = sess + 1 /\ ms' = sess + 1
             /\ tun' = [tun EXCEPT ![mi] = sess + 1]
             /\ fd' = [fd EXCEPT ![sess + 1] = "java"]
             /\ mpc' = "setReceiver"
             /\ UNCHANGED <<mi, mh, mwrite, mpreserve>>
          \/ /\ mpc' = "stopNative" /\ mpreserve' = FALSE
             /\ UNCHANGED <<tun, sess, fd, mi, ms, mh, mwrite>>
  /\ UNCHANGED <<logVars, uiVars, amVars, handle, gen, active, runs, stopSig,
                 closes, workerVars>>

\* An exception between `tun = descriptor' and detachFd, caught by the posted
\* closure: it logs, and stopTunnel closes the descriptor that Java still owns.
\* There is no handle yet: the service had no tun when startTunnel began.
StartThrows ==
  /\ mpc \in {"setReceiver", "startLog"} /\ Free
  /\ fd' = [fd EXCEPT ![ms] = "closed"]
  /\ closes' = [closes EXCEPT ![ms] = @ + 1]
  /\ tun' = [tun EXCEPT ![mi] = 0]
  /\ mpc' = "readRunning" /\ mpreserve' = FALSE
  /\ UNCHANGED <<logVars, uiVars, amVars, handle, gen, mi, ms, mh, mwrite, sess,
                 active, runs, stopSig, workerVars>>

\* AetherNative.start registers the callbacks before it enters the library ...
SetReceiver ==
  /\ mpc = "setReceiver"
  /\ receiver' = [inst |-> mi, sess |-> ms]
  /\ mpc' = "startLog"
  /\ UNCHANGED <<tunnelState, monitor, uiVars, amVars, svcVars, mi, ms, mh,
                 mwrite, mpreserve, nativeVars, workerVars>>

\* ... and logs, which waits for the monitor; nativeStart itself does not.
StartLog ==
  /\ mpc = "startLog" /\ Free
  /\ mpc' = "nativeStart"
  /\ UNCHANGED <<logVars, uiVars, amVars, svcVars, mi, ms, mh, mwrite, mpreserve,
                 nativeVars, workerVars>>

\* Mutant of DetachFd: the number is passed on and Java goes on owning it.
PassFd == "java"

\* The descriptor leaves the ParcelFileDescriptor.
DetachFd == "native"

\* Mutant of NativeStartAccepted: ACTIVE is stored without being compared.
NativeStartUnguarded ==
  /\ mpc = "nativeStart"
  /\ active' = TRUE
  /\ runs' = runs \cup {ms}
  /\ fd' = [fd EXCEPT ![ms] = DetachFd]
  /\ wpc' = [wpc EXCEPT ![ms] = "spawned"]
  /\ mh' = ms
  /\ mpc' = "setHandle"
  /\ UNCHANGED <<logVars, uiVars, amVars, svcVars, mi, ms, mwrite, mpreserve,
                 sess, stopSig, closes, outcome>>

\* nativeStart when it takes the exclusive flag and the thread is spawned.
NativeStartAccepted ==
  /\ mpc = "nativeStart"
  /\ ~active
  /\ active' = TRUE
  /\ runs' = runs \cup {ms}
  /\ fd' = [fd EXCEPT ![ms] = DetachFd]
  /\ wpc' = [wpc EXCEPT ![ms] = "spawned"]
  /\ mh' = ms
  /\ mpc' = "setHandle"
  /\ UNCHANGED <<logVars, uiVars, amVars, svcVars, mi, ms, mwrite, mpreserve,
                 sess, stopSig, closes, outcome>>

\* nativeStart when the flag is taken, the configuration is not usable or the
\* thread cannot be spawned: it closes the descriptor and returns 0.  A failed
\* spawn gives back ACTIVE and RUNS within the same call.
NativeStartRejected ==
  /\ mpc = "nativeStart"
  /\ fd' = [fd EXCEPT ![ms] = "closed"]
  /\ closes' = [closes EXCEPT ![ms] = @ + 1]
  /\ mh' = 0
  /\ mpc' = "setHandle"
  /\ UNCHANGED <<logVars, uiVars, amVars, svcVars, mi, ms, mwrite, mpreserve,
                 sess, active, runs, stopSig, workerVars>>

\* startTunnel stores the handle; 0 means the engine rejected the start.
SetHandle ==
  /\ mpc = "setHandle"
  /\ handle' = [handle EXCEPT ![mi] = mh]
  /\ IF mh = 0
     THEN /\ mpc' = "stopNative" /\ mpreserve' = FALSE
          /\ UNCHANGED <<mi, ms, mh, mwrite>>
     ELSE Return
  /\ UNCHANGED <<logVars, uiVars, amVars, tun, gen, nativeVars, workerVars>>

\* ACTION_STOP up to markStopping's test.
DeliverStop ==
  /\ mpc = "free" /\ Free
  /\ intents # <<>> /\ Head(intents) = "STOP"
  /\ Target \in Inst
  /\ intents' = Tail(intents)
  /\ svc' = Target /\ insts' = IF svc = 0 THEN Target ELSE insts
  /\ gen' = [gen EXCEPT ![Target] = @ + 1]
  /\ mi' = Target /\ mwrite' = MarkStopping /\ mpc' = "svcStopWrite"
  /\ UNCHANGED <<logVars, uiVars, posts, prep, tun, handle, ms, mh, mpreserve,
                 nativeVars, workerVars>>

SvcStopWrite ==
  /\ mpc = "svcStopWrite"
  /\ tunnelState' = Written(mwrite)
  /\ mpc' = "stopNative" /\ mwrite' = Keep /\ mpreserve' = FALSE
  /\ UNCHANGED <<receiver, monitor, uiVars, amVars, svcVars, mi, ms, mh,
                 nativeVars, workerVars>>

\* onDestroy.
DeliverDestroy ==
  /\ mpc = "free"
  /\ intents # <<>> /\ Head(intents) = "DESTROY"
  /\ intents' = Tail(intents)
  /\ svc' = 0
  /\ gen' = [gen EXCEPT ![svc] = @ + 1]
  /\ mi' = svc
  /\ mpreserve' = (tunnelState = "FAILED")
  /\ mpc' = "stopNative"
  /\ UNCHANGED <<logVars, uiVars, posts, prep, insts, tun, handle, ms, mh,
                 mwrite, nativeVars, workerVars>>

\* The closure posted by onWorkerFinished.
HandleFinishedPost ==
  /\ mpc = "free"
  /\ posts # <<>> /\ Head(posts).type = "finished"
  /\ posts' = Tail(posts)
  /\ mi' = Head(posts).inst
  /\ mpreserve' = (tunnelState = "FAILED")
  /\ mpc' = "stopNative"
  /\ UNCHANGED <<logVars, uiVars, intents, prep, svc, insts, svcVars, ms, mh,
                 mwrite, nativeVars, workerVars>>

\* Android withdraws the VPN (another VPN app, the system settings): the
\* service does not override onRevoke, whose default is stopSelf.
Revoke ==
  /\ svc # 0 /\ tun[svc] # 0
  /\ RequestDestroy(svc) # intents
  /\ intents' = RequestDestroy(svc)
  /\ UNCHANGED <<logVars, uiVars, posts, prep, svc, insts, svcVars, mainVars,
                 nativeVars, workerVars>>

-----------------------------------------------------------------------------
(* stopTunnel, shared by the four handlers above.                          *)

\* Mutant of StopNative: the handle is forgotten without calling nativeStop.
StopNativeForgets ==
  /\ mpc = "stopNative"
  /\ handle[mi] = 0 \/ Free
  /\ handle' = [handle EXCEPT ![mi] = 0]
  /\ tun' = [tun EXCEPT ![mi] = 0]
  /\ mpc' = IF mpreserve THEN "stopSelf" ELSE "readRunning"
  /\ UNCHANGED <<logVars, uiVars, amVars, gen, mi, ms, mh, mwrite, mpreserve,
                 nativeVars, workerVars>>

\* AetherNative.stop (nativeStop fires the sender if the handle is still
\* registered), then the descriptor is closed if Java still owns it.
StopNative ==
  /\ mpc = "stopNative"
  /\ handle[mi] = 0 \/ Free
  /\ LET h == handle[mi]
         t == tun[mi]
     IN /\ IF h \in runs
           THEN /\ runs' = runs \ {h}
                /\ stopSig' = stopSig \cup ({h} \cap Polled)
           ELSE UNCHANGED <<runs, stopSig>>
        /\ IF t # 0 /\ fd[t] = "java"
           THEN /\ fd' = [fd EXCEPT ![t] = "closed"]
                /\ closes' = [closes EXCEPT ![t] = @ + 1]
           ELSE UNCHANGED <<fd, closes>>
  /\ handle' = [handle EXCEPT ![mi] = 0]
  /\ tun' = [tun EXCEPT ![mi] = 0]
  /\ mpc' = IF mpreserve THEN "stopSelf" ELSE "readRunning"
  /\ UNCHANGED <<logVars, uiVars, amVars, gen, mi, ms, mh, mwrite, mpreserve,
                 sess, active, workerVars>>

\* markStopped asks the library, then writes what the answer implies.
ReadRunning ==
  /\ mpc = "readRunning"
  /\ mwrite' = MarkStopped
  /\ mpc' = "writeStopped"
  /\ UNCHANGED <<logVars, uiVars, amVars, svcVars, mi, ms, mh, mpreserve,
                 nativeVars, workerVars>>

WriteStopped ==
  /\ mpc = "writeStopped"
  /\ tunnelState' = Written(mwrite)
  /\ mwrite' = Keep
  /\ mpc' = "stopSelf"
  /\ UNCHANGED <<receiver, monitor, uiVars, amVars, svcVars, mi, ms, mh,
                 mpreserve, nativeVars, workerVars>>

StopSelf ==
  /\ mpc = "stopSelf"
  /\ intents' = RequestDestroy(mi)
  /\ Return
  /\ UNCHANGED <<logVars, uiVars, posts, prep, svc, insts, svcVars,
                 nativeVars, workerVars>>

-----------------------------------------------------------------------------
(* The native worker.                                                      *)

\* Mutant of RuntimeBuilt: the stop channel is made here, after the handle.
RuntimeBuiltDeaf(s) ==
  /\ wpc[s] = "spawned"
  /\ wpc' = [wpc EXCEPT ![s] = "run"]
  /\ stopSig' = stopSig \ {s}
  /\ UNCHANGED <<logVars, uiVars, amVars, svcVars, mainVars, sess, active, runs, fd,
                 closes, outcome>>

RuntimeBuilt(s) ==
  /\ wpc[s] = "spawned"
  /\ wpc' = [wpc EXCEPT ![s] = "run"]
  /\ UNCHANGED <<logVars, uiVars, amVars, svcVars, mainVars, nativeVars,
                 outcome>>

\* The end of run_android, or of the thread's attempt to run it: the
\* descriptor is closed by its owner.
Returns(s, out) ==
  /\ wpc' = [wpc EXCEPT ![s] = "returned"]
  /\ outcome' = [outcome EXCEPT ![s] = out]
  /\ fd' = [fd EXCEPT ![s] = "closed"]
  /\ closes' = [closes EXCEPT ![s] = @ + 1]
  /\ stopSig' = stopSig \ {s}
  /\ UNCHANGED <<logVars, uiVars, amVars, svcVars, mainVars, sess, active,
                 runs>>

RuntimeFails(s) == wpc[s] = "spawned" /\ Returns(s, "noruntime")

\* The stop receiver resolves in one of the selects of run_android.
StopSeen(s) ==
  /\ wpc[s] \in {"run", "bridge"} /\ s \in stopSig
  /\ Returns(s, "clean")

\* The core, the bridge or the exit guard ends first, or something panics.
EngineEnds(s, out) ==
  /\ wpc[s] \in {"run", "bridge"}
  /\ Returns(s, out)

\* "starting Android TUN packet bridge": connected, whatever the state was.
BridgeStarts(s) ==
  /\ wpc[s] = "run" /\ Free
  /\ wpc' = [wpc EXCEPT ![s] = "bridge"]
  /\ tunnelState' = "CONNECTED"
  /\ UNCHANGED <<receiver, monitor, uiVars, amVars, svcVars, mainVars,
                 nativeVars, outcome>>

Lock(s, kind, w) ==
  /\ Free
  /\ monitor' = [by |-> s, kind |-> kind, write |-> w]

\* "reconnecting" or "rescanning": from the core, or from the Psiphon chain's
\* task, which lives until the runtime is dropped.
ReconnectLog(s) ==
  /\ wpc[s] \in {"run", "bridge", "returned", "resultLogged"}
  /\ TunnelIsActive
  /\ Lock(s, "event", "STARTING")
  /\ UNCHANGED <<tunnelState, receiver, uiVars, amVars, svcVars, mainVars,
                 nativeVars, workerVars>>

\* A traffic line with more inbound payload than the one before.
TrafficLog(s) ==
  /\ wpc[s] = "bridge"
  /\ tunnelState = "STARTING"
  /\ Lock(s, "event", "CONNECTED")
  /\ UNCHANGED <<tunnelState, receiver, uiVars, amVars, svcVars, mainVars,
                 nativeVars, workerVars>>

\* What the line about the end of run_android makes of the tunnel state: only
\* "Aether engine stopped with error" is recognised as a failure.
ResultState(out) ==
  IF out = "error" /\ TunnelIsActive THEN "FAILED" ELSE Keep

ResultLog(s) ==
  /\ wpc[s] = "returned"
  /\ Lock(s, "result", ResultState(outcome[s]))
  /\ UNCHANGED <<tunnelState, receiver, uiVars, amVars, svcVars, mainVars,
                 nativeVars, workerVars>>

\* The write that ends those lines, and the release of the monitor.
LogWrite ==
  /\ monitor.kind \in {"event", "result"}
  /\ tunnelState' = Written(monitor.write)
  /\ monitor' = Unlocked
  /\ wpc' = IF monitor.kind = "result"
            THEN [wpc EXCEPT ![monitor.by] = "resultLogged"]
            ELSE wpc
  /\ outcome' = IF monitor.kind = "result"
                THEN [outcome EXCEPT ![monitor.by] = "none"]
                ELSE outcome
  /\ UNCHANGED <<receiver, uiVars, amVars, svcVars, mainVars, nativeVars>>

\* drop(rt), which waits for a task inside a log call; RUNS.remove.
DropRuntime(s) ==
  /\ wpc[s] = "resultLogged" /\ monitor.by # s
  /\ wpc' = [wpc EXCEPT ![s] = "dropped"]
  /\ runs' = runs \ {s}
  /\ UNCHANGED <<logVars, uiVars, amVars, svcVars, mainVars, sess, active,
                 stopSig, fd, closes, outcome>>

ClearActive(s) ==
  /\ wpc[s] = "dropped"
  /\ wpc' = [wpc EXCEPT ![s] = "inactive"]
  /\ active' = FALSE
  /\ UNCHANGED <<logVars, uiVars, amVars, svcVars, mainVars, sess, runs,
                 stopSig, fd, closes, outcome>>

\* The holder goes on to its next access, still inside appendLog.
Held(kind, w) == [by |-> monitor.by, kind |-> kind, write |-> w]

\* "native worker finished": markStopped if the tunnel is stopping ...
FinishEnter(s) ==
  /\ wpc[s] = "inactive"
  /\ Lock(s, IF tunnelState = "STOPPING" THEN "finishRead" ELSE "finishInvoke",
          Keep)
  /\ UNCHANGED <<tunnelState, receiver, uiVars, amVars, svcVars, mainVars,
                 nativeVars, workerVars>>

FinishRead ==
  /\ monitor.kind = "finishRead"
  /\ monitor' = Held("finishWrite", MarkStopped)
  /\ UNCHANGED <<tunnelState, receiver, uiVars, amVars, svcVars, mainVars,
                 nativeVars, workerVars>>

FinishWrite ==
  /\ monitor.kind = "finishWrite"
  /\ tunnelState' = Written(monitor.write)
  /\ monitor' = Held("finishInvoke", Keep)
  /\ UNCHANGED <<receiver, uiVars, amVars, svcVars, mainVars, nativeVars,
                 workerVars>>

\* Mutant of FinishInvoke: the callback is dropped without being called.
FinishSilent ==
  /\ monitor.kind = "finishInvoke"
  /\ monitor' = Held("finishClear", Keep)
  /\ UNCHANGED <<tunnelState, receiver, uiVars, amVars, svcVars, mainVars,
                 nativeVars, workerVars>>

\* ... then the registered callback, which posts to the main looper ...
FinishInvoke ==
  /\ monitor.kind = "finishInvoke"
  /\ posts' = IF receiver = NoReceiver
              THEN posts
              ELSE Append(posts, [type |-> "finished", inst |-> receiver.inst,
                                  gen |-> 0])
  /\ monitor' = Held("finishClear", Keep)
  /\ UNCHANGED <<tunnelState, receiver, uiVars, intents, prep, svc, insts,
                 svcVars, mainVars, nativeVars, workerVars>>

\* ... and the callback is forgotten.
FinishClear ==
  /\ monitor.kind = "finishClear"
  /\ receiver' = NoReceiver
  /\ monitor' = Unlocked
  /\ wpc' = [wpc EXCEPT ![monitor.by] = "done"]
  /\ UNCHANGED <<tunnelState, uiVars, amVars, svcVars, mainVars, nativeVars,
                 outcome>>

-----------------------------------------------------------------------------
User == TapStart \/ TapStop \/ PermissionGranted \/ PermissionDenied

\* The steps of a handler that take the monitor for a line of their own.
MainLogs ==
  \/ TapPrepare \/ PrepSpawn \/ StartTun \/ StartThrows \/ StartLog
  \/ StopNative

NativeStart == NativeStartAccepted \/ NativeStartRejected

MainSteps ==
  \/ TapStopWrite \/ PrepWrite \/ StartWrite \/ SetReceiver \/ SetHandle
  \/ SvcStopWrite \/ ReadRunning \/ WriteStopped \/ StopSelf

DeliverIntent == DeliverStart \/ DeliverStop \/ DeliverDestroy

HandlePost == HandleStartPost \/ HandleFinishedPost

Main ==
  \/ MainLogs \/ NativeStart \/ MainSteps
  \/ DeliverIntent \/ HandlePost \/ Recompose

Profile == \E p \in prep : ProfileReady(p)

Runtime(s) == RuntimeBuilt(s) \/ RuntimeFails(s)

\* What the engine may do at any moment and need not.
EngineEvent(s) ==
  \/ BridgeStarts(s) \/ ReconnectLog(s) \/ TrafficLog(s)
  \/ \E out \in {"clean", "error", "panic"} : EngineEnds(s, out)

Worker(s) ==
  \/ Runtime(s) \/ StopSeen(s) \/ EngineEvent(s) \/ ResultLog(s)
  \/ DropRuntime(s) \/ ClearActive(s) \/ FinishEnter(s)

InMonitor == LogWrite \/ FinishRead \/ FinishWrite \/ FinishInvoke \/ FinishClear

Next ==
  \/ User \/ Revoke \/ Main \/ Profile \/ InMonitor
  \/ \E s \in Sess : Worker(s)

Spec == Init /\ [][Next]_vars

-----------------------------------------------------------------------------
(* Fairness: every thread runs.  The looper takes its messages in order,   *)
(* a thread that keeps asking for the monitor gets it (lines are seconds   *)
(* apart, the monitor is held for microseconds), the stop receiver is      *)
(* polled by every select of run_android, and drop(rt) polls no task again *)
(* once it has begun, so it waits for one log call at most.  Nothing is    *)
(* assumed of the user, of Android's revocation or of the engine's own     *)
(* events.                                                                 *)

\* A handler that has begun goes on to its end.
Handler == MainLogs \/ NativeStart \/ MainSteps

\* What the thread of a worker goes on to do, whatever its engine does.
Onward(s) ==
  \/ Runtime(s) \/ StopSeen(s) \/ ResultLog(s) \/ DropRuntime(s)
  \/ ClearActive(s) \/ FinishEnter(s)

Fairness ==
  /\ SF_vars(Handler) /\ SF_vars(DeliverIntent)
  /\ WF_vars(HandlePost) /\ WF_vars(Recompose)
  /\ SF_vars(Profile) /\ WF_vars(InMonitor)
  /\ \A s \in Sess : SF_vars(Onward(s))

FairSpec == Spec /\ Fairness

\* The timing that the code leaves to chance: the worker of the session before
\* has written its "native worker finished" line when AetherNative.start
\* registers the callback of the next one.
Serial ==
  receiver' # receiver /\ receiver' # NoReceiver
    => \A s \in Sess : wpc[s] \in {"off", "done"}

SerialSpec == Init /\ [][Next /\ Serial]_vars /\ Fairness
-----------------------------------------------------------------------------
(* Types.                                                                  *)

Receiver == [inst : Inst, sess : Sess] \cup {NoReceiver}

Monitor == [by : Sess, write : TunnelState \cup {Keep},
            kind : {"event", "result", "finishRead", "finishWrite",
                    "finishInvoke", "finishClear"}] \cup {Unlocked}

Intent == {"START", "STOP", "DESTROY"}

Post == [type : {"start", "finished"}, inst : Inst, gen : Nat]

\* The type invariant: every variable keeps the shape its field or static has.
TypeOK ==
  /\ tunnelState \in TunnelState /\ receiver \in Receiver /\ monitor \in Monitor
  /\ shown \in TunnelState /\ dialog \in BOOLEAN /\ starts \in Nat /\ stops \in Nat
  /\ intents \in Seq(Intent) /\ posts \in Seq(Post)
  /\ prep \in SUBSET [inst : Inst, gen : Nat]
  /\ svc \in Inst \cup {0} /\ insts \in Nat
  /\ tun \in [Inst -> Sess \cup {0}] /\ handle \in [Inst -> Sess \cup {0}]
  /\ gen \in [Inst -> Nat]
  /\ mpc \in MainPc /\ mi \in Inst \cup {0} /\ ms \in Sess \cup {0}
  /\ mh \in Sess \cup {0} /\ mwrite \in TunnelState \cup {Keep}
  /\ mpreserve \in BOOLEAN
  /\ sess \in Nat /\ active \in BOOLEAN /\ runs \in SUBSET Sess
  /\ stopSig \in SUBSET Sess
  /\ fd \in [Sess -> {"none", "java", "native", "closed"}]
  /\ closes \in [Sess -> Nat]
  /\ wpc \in [Sess -> WorkerPc]
  /\ outcome \in [Sess -> {"none", "clean", "error", "panic", "noruntime"}]

-----------------------------------------------------------------------------
(* Safety.                                                                 *)

\* "A single exclusive native worker" (NATIVE_ENGINE.md): two workers never
\* use the process-wide Aether environment at once, and ACTIVE is set exactly
\* while one does, on every path through nativeStart and the worker thread.
ExclusiveWorker ==
  /\ \A s, t \in Sess : wpc[s] \in Holding /\ wpc[t] \in Holding => s = t
  /\ active <=> \E s \in Sess : wpc[s] \in Holding

\* The TUN descriptor of a session has one owner at a time and is closed at
\* most once: by stopTunnel when start-up throws, by nativeStart when it rejects
\* the session, else by the worker, never a second time through the
\* ParcelFileDescriptor the service keeps.
\* A descriptor is open only while somebody who will close it holds it.
FdClosedOnce ==
  \A s \in Sess :
    /\ closes[s] <= 1
    /\ fd[s] = "java" => mpc \in {"setReceiver", "startLog", "nativeStart"}
                      /\ ms = s
    /\ fd[s] = "native" <=> s \in Polled
    /\ fd[s] = "closed" <=> closes[s] = 1

\* An engine nobody has told to stop is always one that the live service can
\* stop: it holds the handle, is about to store it, or is being destroyed and
\* has the nativeStop still to do.  A late startTunnel post, a stop, a restart
\* or a destroyed service never leaves an engine without an owner.
StoppableEngine ==
  \A s \in Polled \ stopSig :
    \/ svc # 0 /\ handle[svc] = s
    \/ mpc = "setHandle" /\ mh = s /\ mi = svc
    \/ mpc = "stopNative" /\ mi # 0 /\ handle[mi] = s

\* The screen says IDLE (the only state that offers Start) never while packets
\* pass: whoever writes IDLE has asked the library and, although ACTIVE can be
\* taken between a worker's question and its write, the bridge's line then waits
\* for that worker's monitor and says CONNECTED.
IdleNotConnected ==
  tunnelState = "IDLE" => \A s \in Sess : wpc[s] # "bridge"

\* Once the main looper has nothing left to handle, an idle screen means that
\* no engine runs, not even one that has yet to connect.  It takes Serial: with
\* three sessions, the first worker's late line can clear the second one's
\* callback, and the second one's own line then writes IDLE over the STARTING of
\* the third and posts nothing that would correct it.
IdleMeansDown ==
  tunnelState = "IDLE" /\ mpc = "free" /\ posts = <<>> => ~active

\* README.md: "The interface stays in the stopping state until the native
\* runtime has shut down."  The tunnel state leaves STOPPING only when ACTIVE
\* is clear.
StoppingUntilShutdown ==
  [][tunnelState = "STOPPING" /\ tunnelState' # "STOPPING" => ~active]_vars

-----------------------------------------------------------------------------
(* Liveness.                                                               *)

\* README.md: "The interface stays in the stopping state until the native
\* runtime has shut down."  Stopping ends: when no engine runs that has not
\* been told to stop, the interface leaves STOPPING, in which neither button
\* works.
StoppingEnds ==
  tunnelState = "STOPPING" /\ Polled \subseteq stopSig
    ~> tunnelState # "STOPPING"

\* A stop intent that finds an engine running ends it, and its worker gets to
\* its last line, however the stop interleaves with the start-up, the engine's
\* own end or the service being destroyed.
StopEndsEngine ==
  \A s \in Sess :
    s \in Polled /\ (\E k \in DOMAIN intents : intents[k] = "STOP")
      ~> wpc[s] = "done"

\* A worker that has finished, for whatever reason, gets the service to let go
\* of its VPN interface ("notifies the service to close the VPN").
ServiceReleased ==
  \A s \in Sess : wpc[s] = "done" ~> \A i \in Inst : tun[i] # s
-----------------------------------------------------------------------------
(* The library's promise.                                                  *)

\* What has become of session s: it is over when its worker has cleared ACTIVE
\* and no handle of it is left in RUNS.
SessionState(s) ==
  IF wpc[s] = "off" THEN IF fd[s] = "closed" THEN "refused" ELSE "none"
  ELSE IF s \in Polled \ stopSig THEN "running"
  ELSE IF wpc[s] \in Holding \/ s \in runs THEN "ending"
  ELSE "over"

Library == INSTANCE ExclusiveSession
             WITH Session <- Sess, state <- [s \in Sess |-> SessionState(s)]

\* NATIVE_ENGINE.md: "a single exclusive native worker".  nativeStart, nativeStop
\* and the worker thread, with everything the app does to them, implement the
\* exclusive session: no session begins before the one before has given back its
\* runtime, its handle and ACTIVE, and one that ends does not come back.
ImplementsSession == Library!Spec

\* It implements it fairly: a session that was told to stop, that failed or
\* could not build its runtime is over in the end.
ImplementsFairly == Library!FairSpec
=============================================================================
