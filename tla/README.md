# Koku: a TLA+ verification project

Koku is an Android VPN client. A Kotlin app (`app/`) drives a JNI library
(`native/`) that embeds the Aether core (`engine/aether`), which finds a
Cloudflare WARP gateway, keeps a tunnel to it and serves it as a local SOCKS5
proxy; `run_android` forwards the packets of the VPN interface to that proxy.
This directory holds TLA+ models of the parts of Koku whose correctness depends
on the order of events, the TLC configurations that check them, and TLAPS
proofs.  `PROJECT.json` maps every definition to the lines it models.

## 1. Inventory

| Part | State it keeps | Operations | Talks to |
|---|---|---|---|
| `MainActivity` | composed copy of the tunnel state, the permission dialog | Start, Stop, permission result | service intents, `AetherNative` |
| `AetherVpnService` | `tun`, `nativeHandle`, `startupGeneration` (main thread) | `onStartCommand`, `onDestroy`, `prepareTunnelStart`, posted `startTunnel`, posted end of the worker, `stopTunnel` | network-profile thread, main looper, `AetherNative` |
| `AetherNative` | tunnel state, one finish receiver, one profile receiver, counters, test state | `markStarting/Stopping/Stopped`, `start`, `stop`, `appendLog` (synchronized) | called by the UI, the service and every native log line |
| JNI worker (`native/src/lib.rs`) | `ACTIVE`, `RUNS`, one stop channel per session, the TUN descriptor | `nativeStart`, `nativeStop`, `nativeIsRunning`, the worker thread, `run_android`, `watch_final_proxy` | reports only through log lines |
| Core supervisors (`run_wireguard`, `run_masque`) | quick peer, last good gateway, failure count, cooldowns | choose, verify, save, run the tunnel, pause | scanners, `lastconn`, tunnels |
| `lastconn` | a file: the last gateway, its carrier, a ring of recent ones | `load`, `save`, `usable_peers` | read at start, written on every tunnel |
| `exitloc` | none (a policy from the environment) | `settle`, `watch`, `lookup`, `report_through_socks` | the tunnel's stack, the final proxy |
| Tunnel set-up (`run_*_tunnel`) | the tunnel's tasks | validate, settle, listen, run | supervisors, `exitloc`, the stack |
| WireGuard tunnel (`wireguard.rs`) | the session, `last_valid_rx`, retry and probe timers | validate, recv, send, timer and health tasks | the socket, the stack's channels |
| MASQUE tunnels (`quic.rs`, `masque*.rs`) | QUIC or HTTP/2 connections | connect, carry capsules and datagrams | the stack's channels |
| Network stack (`netstack.rs`) | `tcp_conns`, smoltcp's sockets, `deferred` | commands, data of the relays, `service_tcp`, packets | tunnels below, relays above |
| Relays (`relay_tunneled` in `socks.rs`) | two halves over one connection | upload, download, linger | client socket, the stack |
| Tor and Psiphon | client or child process | `run_chain`, `run_only`, `start_reverse` | the WARP listener, the environment |
| Scanners | candidates in flight | batches of probes, early stop | supervisors |
| Sign-in jobs (`ffi.rs`, `EngineSettings.kt`) | job and session tables | request, resend, submit, poll, free, edit of the team | `nativeTeam`, guarded by `ACTIVE` |
| `ConnectionProbe`, `DnsHunter`, `NetworkProfileCache`, updater | small caches and one-shot jobs | probe, choose a resolver, load and save | UI, service |
| Proxies, routing, sniffing, DNS, TLS, account API | mostly none across calls | serve, match, fetch | core |

What is hard here, and the properties that would be broken:

* three kinds of thread share the tunnel state, `ACTIVE`, `RUNS` and a single
  callback slot; the worker's end, a stop, a restart, a destroyed service and a
  late start-up post interleave: one worker at a time, one owner per
  descriptor, no engine out of reach, an interface that always gets out of
  STOPPING;
* the exit of the tunnel moves between checks, lookups fail or answer late, the
  tunnel reconnects and the chained carrier dies below a running bridge: NO-IR
  fails closed within a bound;
* gateways fail, come back and are remembered across sessions and kills: no
  gateway is hammered, none is excluded for ever, the memory stays sound;
* a peer falls silent in any phase, while the reader is stalled by the stack or
  busy with junk: it is asked again, noticed in time, and left;
* one channel and one deferred message serve all connections, relays vanish at
  any point, callers do not wait and inbound packets come first: nothing is
  lost or repeated, nothing waits for ever on a connection that nobody reads;
* taps, edits, time-outs and a closing panel overlap with jobs that cannot be
  cancelled: handles stay valid and no session is left without a reason;
* everything else in `hazards` of `PROJECT.json`, with the line where it bites.

## 2. Modules

`X.tla` is a component, `MCX.tla` its instance for TLC, `XProofs.tla` its
theorems.

### VpnLifecycle — service, app object and worker

The main thread runs one handler at a time; `mpc` is where it stands and each
access to what other threads share is a step of its own.  `markStopping`,
`markStopped` and the tests before `markStarting` read and write in two steps;
the undone write is `mwrite`, or `monitor.write` inside `appendLog`.  The
network-profile threads are `prep`, the main looper `posts`, ActivityManager
`intents` (delivered in order; `stopSelf` queues the destruction behind them).
A session `s` has a worker `wpc[s]`:

| `wpc` | `native/src/lib.rs` |
|---|---|
| `spawned` | the thread exists, the runtime does not |
| `run`, `bridge` | `run_android` before and after the bridge starts |
| `returned` | its result is known, not yet logged |
| `resultLogged`, `dropped` | before and after `drop(rt)` and `RUNS.remove` |
| `inactive` | `ACTIVE` is clear, "native worker finished" is not written |
| `done` | the line is written and its callback invoked and cleared |

Log lines that move the tunnel state are actions that take the monitor
(`Lock`), then write.  Lines that do not are only a wait for the monitor (the
guard `Free`); the lines that `nativeStart` and the service write about a
rejection change nothing and are left out.  `nativeStart` itself takes no
monitor: its compare-and-exchange is a step that others' lines do not hold up.
An exception between the descriptor and `detachFd` is `StartThrows`: the
Java side still owns the descriptor and closes it.  A thread that cannot be
spawned sets `ACTIVE` and `RUNS` and clears them again within the call; it is
one of the rejections.  `LOG_TARGET` is always taken before the monitor and never
inside it, so it adds nothing.  The library is taken as loaded
(`startEnabled` requires it).  `VpnService.onRevoke` is not overridden, so
`Revoke` is its default, `stopSelf`.

`Serial` is the order that the code leaves to chance: the worker of the session
before has written its last line when the next one registers its callback.
`SerialSpec` is the lifecycle under it.  That an idle screen is never shown over
a session that forwards packets (`IdleNotConnected`) holds without it.  That an
idle screen, once the looper has nothing left, means that no engine runs at all
(`IdleMeansDown`) needs it: with three sessions, the first worker's late line
clears the second one's callback, and the second one's own line writes IDLE
over the STARTING of the third and posts nothing that would correct it.

### ExitGuard — NO-IR Exit

One session with its three actors: `run_android` and its guard, the core's
supervisor with `settle` and `watch`, and the network with the chained carrier.
Timers count down in ticks; a lookup reads the exit at one moment and answers
later, at most `Timeout` after it began.  `carrier` distinguishes WARP itself
(reverse modes included), Tor or Psiphon inside WARP, and Tor or Psiphon alone,
which has no core policy.  `age` and `warpAge` are history variables of the
network's state only; no guard reads them.  When the session is stopped the
bridge is cancelled; the at most three seconds it gets to close its sessions
are not counted as forwarding.  The core's policy (`Policed`) is the one that
NO-IR sets.  `AETHER_EXIT_LOC` is also a user option, so the core can be policed
with NO-IR off or by a list of allowed countries; those policies are not
modelled, and no property speaks of them.

`transport` tells MASQUE, whose tunnel runs when `settle` asks for the exit,
from WireGuard, whose `tunnel.run` is first polled after `settle` (`Pumped`).

### Supervisor — reconnecting and remembered gateways

`run_wireguard` and `run_masque` as one loop: where they differ (the failure
count, the cooldowns, the test of a forced gateway) the session's carrier
decides.  The file survives sessions.  A kill inside `save`, and a write that
fails, leave no readable file; a partial write is not modelled (the file is a
few hundred bytes, written by one call).  A bad `AETHER_PEER` ends the session
at once and is left out.  `Ring` is the loop of `save` over the entries carried
over, as a recursive function.  `row`, `last` and `idle` are history.  The MASQUE
loop includes its gool variant, which differs in the tunnel only.

### ExclusiveSession — what the library promises

The abstract specification of "a single exclusive native worker"
(`NATIVE_ENGINE.md`): sessions in order, each refused or running, then ending,
then over; none begins while another runs or is ending.  `VpnLifecycle`
instantiates it (`Library`) under the refinement mapping `SessionState`, which
reads the state of a session from its worker, its descriptor, its stop channel
and `RUNS`.  `ImplementsSession` is its safety, `ImplementsFairly` adds that a
session that is ending gets over.

### WgTunnel — one WireGuard tunnel

The validation is one loop with a deadline: the handshake with its
retransmissions, then two round trips of a probe.  The run has the recv task,
which a full queue towards the stack can hold, and the health task, which wakes
after a jittered pause, ends a tunnel without a valid packet for
`wg_stale_timeout` and probes it otherwise.  A packet is data, control
(handshake, cookie, keepalive) or junk, by what boringtun makes of it.  Time
passes in ticks, and what is due happens before time goes on.  The 50
milliseconds that the recv task waits after a receive error are below a tick
and left out, and `settle`, between validation and run, is in `ExitGuard`.
`silence` and `probes` are history.

### TeamJobs — Zero Trust sign-in

The panel with its `session` and `busy`, one coroutine per tap (`pc`:
`launched` before it runs, `call`, `poll` and `free` in `awaitTeam` on an IO
thread, `back` on the main thread again), and the tables of jobs and sessions
in `ffi.rs`.  The scope is cancelled when the panel closes; the job itself is
not, since its closure ignores the cancel flag.  `ACTIVE` may refuse a call at
any time.  `lost` and `overtaken` are history.  `LeftOnlyLate` says that a
session is left without owner by a given-up request only.

### Netstack — the TCP stack and its relays

The driver's loop is `Service(c)` for each connection, `RetryDeferred`, and a
biased `select!`: while packets of the tunnel wait (`inbound`, `PacketsCome`,
`Ingest`) it takes neither a command (`HandleCmd`) nor data (`HandleData`), and
data only when no command waits.  Connections share only the channel `dataIn` and
the one deferred message, so a pass over all of them is one step for each.
The loop's inner drain of the channel is `HandleData` repeated.  smoltcp's
socket is external: its states and buffers are there, its segments are not.
Data is counted in units.  The relay is its two halves with the linger; the
drop of its sender is `TrySendClose`, which is lost on a full channel.
`upOwed`, `downOwed`, `fin` and `cut` are history; `cut` says why an answer
ended early: the connection was reset, or its socket was removed while the
relay's channel was full (`"full"`).

## 3. Runs

| Run | Configuration | Checks |
|---|---|---|
| `vpn_safety` | 2 starts, 1 stop | `TypeOK`, `FdClosedOnce`, `StoppableEngine`, `IdleNotConnected`, `ImplementsSession` |
| `vpn_liveness` | 1 start, 2 stops, fair | `StoppingEnds`, `StopEndsEngine`, `ServiceReleased`, `ImplementsFairly` |
| `vpn_serial` | 2 starts one after the other, fair | `IdleMeansDown`, `StoppingEnds`, `ServiceReleased` |
| `vpn_stopping_ends` | 2 starts, fair | `StoppingEnds` is violated |
| `vpn_stopping_shown` | 1 start, 1 stop | `StoppingUntilShutdown` is violated |
| `exit_guard` | Interval 3, Timeout 2, CoreInterval 2, fair | `TypeOK`, `FailsClosed`, `ProbedBeforeBridge`, `ListenerAfterPolicy`, `PolicyLetsThrough` |
| `exit_wireguard` | all times 1, fair | `PolicyOnEveryTransport` is violated |
| `supervisor` | 3 gateways, 3 carriers, ring of 2, 2 failures, cooldown 3, fair | `TypeOK`, `CooldownRespected`, `NoTryTooMany`, `RingSound`, `KeepsReconnecting` |
| `wg_tunnel` | the code's times in half seconds, 2 transient errors, fair | `TypeOK`, `HandshakeRetried`, `Probed`, `SilentLeft`, `SilentEnds` |
| `team_jobs` | 3 taps, 1 edit, fair | `TypeOK`, `HandleAlive`, `LeftOnlyLate`, `SessionOfTeam`, `JobsFreed`, `BusyEnds` |
| `netstack` | 2 connections, buffers and queues of 1, chunks of 2, fair | `TypeOK`, `Conserved`, `FinAfterRequest`, `AnswerWhole`, `ConnectAnswered`, `OrphanFreed`, `OrphanUnblocks` |
| `netstack_answer_cut` | the same | `AnswerNeverCut` is violated |

Bounds.  `MaxStarts` and `MaxStops` bound the user's taps; two sessions and one
stop are enough for every interleaving of an old session with a new one, and
the revocations, denials, engine failures and panics are not bounded.  Two
sessions are not enough to break `IdleMeansDown` without `Serial`, which takes
three; its proof, for any number of sessions, is what shows that it needs it.
`MaxInst` bounds the service instances; four are more than two sessions and a
stop can create one after the other.  In `ExitGuard` the guard's sleep is
longer than a lookup and differs from the core's interval; ages beyond every
deadline are one value (`MaxAge`).  The bound of `FailsClosed` is tight: it is
violated when lowered by one.  In `Supervisor` the ring is shorter than the
number of gateways, and the cooldown is long enough for all of them to be on
cooldown at once.  In `WgTunnel` a tick is half a second, so that the pauses of
2.5 to 3.5 seconds, the 10 seconds of the stale time-out and the deadline keep
their proportions, 700 and 600 milliseconds rounded.  In `TeamJobs` three taps
are two overlapping requests and a submit; the edit makes two teams.  In
`Netstack` one connection goes through everything while the other
(`Steady`) only competes for the channel, and every buffer can be full: a chunk
is larger than a buffer, so messages are split and deferred.  The systems of
`VpnLifecycle`, `ExitGuard`, `WgTunnel`, `TeamJobs` and `Netstack` stop when the
taps are used up, or the session, the tunnel or every connection has ended, so
those runs do not check for deadlock; `Supervisor` never stops, and its run
does.

Fairness.  Threads that can go on do.  A thread that waits for the monitor of
`AetherNative` gets it (strong fairness: lines come seconds apart, the monitor
is held for microseconds).  The looper and ActivityManager deliver.  The stop
receiver is polled by every `select!` of `run_android`, and `drop(rt)` polls no
task again, so it waits for at most the log call that one is in.  Nothing is assumed of
the user, of revocation, or of the engine's own events.  In `Supervisor` time
passes and the loop goes on; a scan that is allowed some gateway again and
again finds one in the end, and a forced gateway that is tested again and again
passes.  Tunnels need not end and sessions need not be stopped.  In `WgTunnel`
the tasks run and time passes; the peer, the network and the stack may do
nothing.  In `TeamJobs` both dispatchers run what is queued and the 90 seconds
pass; a job may hang for ever.  In `Netstack` the driver goes round (its sleep
is bounded while it has connections): every pass ingests what has come, serves
each connection and retries the deferred message, and deadlines pass.  Commands
and data are taken only when no packets wait, and nothing says that they ever
stop coming; relays, clients, far ends and the tunnel may also do nothing.
`ConnectAnswered` therefore excepts a command that packets keep in its channel
for ever, where it has no deadline yet.  In `ExitGuard` the core and the network
make progress: dials succeed when tried again and again, lookups are sent
before they time out if somebody carries them.

### What the violated runs show

* `StoppingEnds`: `ACTIVE` is cleared before "native worker finished" is
  written, and one callback slot serves all sessions.  A session that starts in
  between loses its callback to the old line, and the interface can stay in
  STOPPING with nothing running.  `vpn_serial` shows that this order is the
  only cause: with the old line written before the new callback is registered,
  the property holds.
* `StoppingUntilShutdown`: the bridge's line sets CONNECTED even when the
  tunnel is stopping.
* `PolicyOnEveryTransport`: `run_wireguard_tunnel` awaits the lookup of
  `settle` before it polls the tunnel that would carry it, so with NO-IR every
  WireGuard attempt is refused.  `PolicyLetsThrough`, the same for MASQUE,
  holds.
* `AnswerNeverCut`: `service_tcp` removes a closed socket although the relay's
  channel was too full to take what it still holds; the relay takes the end of
  the channel for the end of the answer.  `AnswerWhole` shows that this and a
  reset are the only causes of a short answer.

Three gaps between code and documentation are not runs of their own, since the
properties above state them as exceptions or the code shows them in one line: a
panic, or a runtime that cannot be built, ends the session without FAILED; a
sign-in request that was given up goes on and stores a session that nobody has
the handle of; an `OpenTcp` behind packets that never cease is never answered.

## 4. Proofs

For every value of the constants, from the named assumptions
(`BoundsAssumption`, `TimesAssumption`, `SupervisorAssumption`, `WgAssumption`,
`TeamAssumption`, `NetstackAssumption`):

* `VpnLifecycleProofs`: `TypeOK`, `ExclusiveWorker`, `FdClosedOnce`.  The last
  two are inductive only together with where the main thread stands while it
  owns a descriptor (`MainInv`: the session is the newest, its worker has not
  been started), that later sessions are untouched (`FreshInv`) and that a
  worker inside `appendLog` stands at the line it writes (`MonitorInv`, without
  which a result line could rewind a later state).  There is one lemma per
  conjunct, split by action.
  Its second part is `Refinement`, that the lifecycle implements
  `ExclusiveSession`.  Every step changes the mapped state of one session along
  one abstract action, or of none.  On top of the invariant above it needs that
  a handle in `RUNS` belongs to a worker that has not passed its removal
  (`RunsInv`: otherwise a session that is over could look as if it were ending)
  and that every session up to the newest has its descriptor (`OpenedInv`:
  with `MainInv`, the ones before it have been started or refused, which is
  `Turn`).
* `VpnStopProofs`: `StoppableEngine` and `IdleNotConnected` of `Spec`,
  `IdleMeansDown` of `SerialSpec` (of its steps; fairness is not used).
  `StoppableEngine` is about the start-up generations: a start that is being
  prepared or is posted has a generation that was taken, and if it has not
  passed, its instance is the live one (`StartsInv`), since every stop and
  `onDestroy` takes a new generation and a new instance begins with one that no
  post has (`InstanceInv`).  So sessions are opened only for the live instance,
  which has no handle then, and no other keeps one past its `onDestroy`
  (`HandleInv`); an engine not told to stop is still in `RUNS` (`Registered`).
  For `IdleNotConnected`, whoever is about to write IDLE has asked the library.
  If it is the main thread, `ACTIVE` has not been taken since, as only it starts
  workers; if it is a worker inside `appendLog`, `ACTIVE` may have been taken,
  but no bridge has started, as the line before it needs the monitor
  (`AskedInv`).  For `IdleMeansDown`,
  the callback that is registered is there for the one worker that will call it
  (`ReceiverInv`, which is where `Serial` is used) and none is inside its last
  line when `nativeStart` takes `ACTIVE` (`AnsweredInv`), so an IDLE that is written
  over the next session's STARTING comes with a message (`OverwrittenInv`),
  which makes the main thread ask the library again (`CorrectedInv`).
* `ExitGuardProofs`: `TypeOK`, `FailsClosed`, `ProbedBeforeBridge`,
  `ListenerAfterPolicy`.  The invariant adds a history to a timer: while a
  lookup that has read a good exit is under way, age and time left are together
  at most `Timeout`; over the sleep at most `Timeout + Interval`; over the next
  lookup at most `Interval + 2 * Timeout`.  A tick moves one unit from the
  timer to the age; every other step makes no age older.
* `SupervisorProofs`: `TypeOK`, `CooldownRespected`, `NoTryTooMany`,
  `RingSound`.  The invariant ties the tries in a row to the counter while
  `last_good` is kept, and to the cooldown and the idle time once it has been
  set aside.  `FileInv` is about the file: it is none, one without a carrier's
  name and without a ring, or a ring that is led by its gateway, keeps within
  the capacity, has no gateway twice and was saved on one carrier.  Each round
  of `save`'s loop (`RingLoop`) keeps that (`RingRound`), so the whole loop does
  (`RingIsRing`), and a ring without repetition has as many gateways as entries
  (`CountedOnce`).
* `WgTunnelProofs`: `TypeOK`, `HandshakeRetried`, `Probed`, `SilentLeft`.  As in
  `ExitGuardProofs` a silence and the timer that bounds it move together: the
  silence and the time to the next check (or the next repetition) are together
  at most the number of probes times the longest interval; the idle time is the
  silence, and was below `Stale` at the last check.  A retransmission that is
  due happens before time goes on, so none is outstanding when the deadline
  has come.
* `TeamJobsProofs`: `TypeOK`, `HandleAlive`, `LeftOnlyLate`, `SessionOfTeam`.
  The invariant adds what a coroutine that holds a good result knows: its
  session is in the table and belongs to nobody else, until it hands it over.
* `NetstackProofs`: `TypeOK`, `AnswerWhole`, `Conserved`, `FinAfterRequest`.
  The invariant adds that a relay exists only for an answered call of a
  connection that was opened (`Once`, `Answered`), that nothing has been sent on
  one that was not established (`Early`), and counts what the client is owed:
  while the connection is there it is in the socket or in the channel, and after
  an orderly removal it is in the channel.  The second invariant, `RInv`,
  follows a request: what is owed is the sum of what the socket, `pending`, the
  deferred message and the channel hold (`SentOf`), a `TcpClose` is the last of
  its connection in the channel, and while the relay still reads, a half-closed
  connection has nothing of its request behind it (`ClosingOf`).  It needs what
  `Held` computes when a message is appended to the channel, taken from it or
  split.
* `RecursionTheorems`: the least element of a set of numbers, induction up to a
  bound, and the function that a first value and a step determine.  The
  library's induction theorems take an operator as a parameter, which the
  provers cannot instantiate; these take a set or a function instead, and the
  loop of `save` and the sums over the channel are reasoned about with them.

Every invariant and every action property that a passing run checks is a
theorem, and so is the refinement.  Only model-checked is the liveness
(fairness and `ENABLED` are out of the prover's reach): `StoppingEnds`,
`StopEndsEngine`, `ServiceReleased`, `ImplementsFairly`, `PolicyLetsThrough`,
`KeepsReconnecting`, `SilentEnds`, `JobsFreed`, `BusyEnds`, `ConnectAnswered`,
`OrphanFreed`, `OrphanUnblocks`.

## 5. Not modelled

* Third-party code: quiche, tun2proxy, smoltcp, boringtun, arti.  The vendored
  quiche alone is about three quarters of the repository's source lines, so
  the share of all lines that the map covers stays small however much of
  Koku's own code (about 34 000 lines, its tests and tables included) is
  modelled.
* Pure I/O, encodings and tables: TLS, HTTPS, DNS and account requests, the
  SOCKS and HTTP greetings, address lists, the obfuscation packets, the
  configuration tables, routing rules, sniffing, packet counting.
* Screens without effect on a session, the updater, the connection test,
  diagnostics and statistics.
* The insides of the MASQUE transports, of Tor and Psiphon, of the scanners'
  batches and of the nested tunnels: the models have the events they report to
  the parts that supervise them.
* UDP in the network stack, and its addresses.
* The environment variables that a sign-in job and a session share (see
  `hazards`).

`PROJECT.json` gives the reason for each component.

## 6. Plan

1. Done: `VpnLifecycle` with `ExclusiveSession`, `ExitGuard`, `Supervisor`,
   `WgTunnel`, `TeamJobs`, `Netstack`, with the proofs above.
2. Further models: the scanners' batches and early stop; UDP associations over
   the stack; the nested tunnels' outer supervisor; a composition of
   `ExitGuard` with the life of the session.
3. Pure operators against reference definitions: routing rules, the transport
   table of `configure`, the packet counters.
4. Further proofs: with each new model its invariants; for the lifecycle, what
   holds of the tunnel state at the lines where the documented promise
   (`StoppingUntilShutdown`) does not.
