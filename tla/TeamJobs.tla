------------------------------ MODULE TeamJobs ------------------------------
(***************************************************************************)
(* The Zero Trust sign-in by email code: the panel (EngineSettings.kt),    *)
(* its coroutines, and the tables of jobs and sign-in sessions behind      *)
(* nativeTeam (ffi.rs).                                                    *)
(*                                                                         *)
(* A tap launches a coroutine on the main thread.  Its awaitTeam runs on   *)
(* an IO thread: it starts a job, polls it and frees it; the job runs on   *)
(* the library's own runtime and does not look at its cancel flag.  The    *)
(* coroutine then handles the result on the main thread.  A coroutine has  *)
(* one job, and a request one session: both go by the coroutine's name.    *)
(* The panel is closed once; opened again it has state of its own and only *)
(* shares the tables.  lost and overtaken are history.                     *)
(***************************************************************************)
EXTENDS Naturals

CONSTANTS MaxTaps,  \* bound: taps on the panel's buttons
          MaxEdits  \* bound: edits of the team field

ASSUME TeamAssumption == MaxTaps \in Nat /\ MaxEdits \in Nat

\* What the team field holds, each edit putting in something new.
Team == 0 .. MaxEdits

\* Coroutines, in the order of their taps.
Task == 1 .. MaxTaps

None == 0

VARIABLES
  open,      \* the panel is composed; its scope is cancelled when it is not
  team,      \* the team field
  session,   \* the panel's session
  busy,      \* the panel's busy
  pc,        \* where a coroutine stands
  kind,      \* which button launched it
  of,        \* the team it was launched for
  sid,       \* the session in its payload
  result,    \* what awaitTeam makes of the job, while it frees it
  jobs,      \* JOBS: the jobs in the table
  state,     \* the state of a job, which outlives its entry
  sessions,  \* SESSIONS: the sessions in the table
  lost,      \* requests whose result nobody takes any more
  overtaken  \* coroutines that were under way when the team changed

panelVars == <<open, team, session, busy>>
taskVars  == <<pc, kind, of, sid, result>>
libVars   == <<jobs, state, sessions>>
history   == <<lost, overtaken>>
vars == <<panelVars, taskVars, libVars, history>>

Kind == {"request", "resend", "submit"}

Init ==
  /\ open = TRUE /\ team = 0 /\ session = None /\ busy = FALSE
  /\ pc = [t \in Task |-> "idle"] /\ kind = [t \in Task |-> "request"]
  /\ of = [t \in Task |-> 0] /\ sid = [t \in Task |-> None]
  /\ result = [t \in Task |-> "none"]
  /\ jobs = {} /\ state = [t \in Task |-> "none"] /\ sessions = {}
  /\ lost = {} /\ overtaken = {}

\* Coroutines that have been launched and have not ended.
UnderWay == {t \in Task : pc[t] \notin {"idle", "ended"}}

Requests(ts) == {t \in ts : kind[t] = "request"}

-----------------------------------------------------------------------------
(* The panel.                                                              *)

\* onClick of Send code, Resend or Sign in: the coroutine is queued.  Until it
\* runs, busy is not set and the buttons stay enabled.
Tap(t, k) ==
  /\ open /\ ~busy
  /\ pc[t] = "idle" /\ \A u \in Task : u < t => pc[u] # "idle"
  /\ k # "request" => session # None
  /\ pc' = [pc EXCEPT ![t] = "launched"]
  /\ kind' = [kind EXCEPT ![t] = k]
  /\ of' = [of EXCEPT ![t] = IF k = "request" THEN team ELSE @]
  /\ UNCHANGED <<panelVars, sid, result, libVars, history>>

\* It runs up to withContext; the payload holds the session of this moment.
\* When the scope was cancelled first it never runs.
Launch(t) ==
  /\ pc[t] = "launched"
  /\ IF open
     THEN /\ busy' = TRUE
          /\ sid' = [sid EXCEPT ![t] = IF kind[t] = "request" THEN None ELSE session]
          /\ pc' = [pc EXCEPT ![t] = "call"]
     ELSE /\ pc' = [pc EXCEPT ![t] = "ended"]
          /\ UNCHANGED <<busy, sid>>
  /\ UNCHANGED <<open, team, session, kind, of, result, libVars, history>>

\* Mutants of FreeSession: the handle is kept; the session is kept.
FreeSessionForgetNothing == sessions' = sessions \ {session} /\ session' = session
FreeSessionOnlyForget == sessions' = sessions /\ session' = None

\* sessionFree, and the panel forgets its handle.
FreeSession == sessions' = sessions \ {session} /\ session' = None

\* Mutant of ChangeTeam: the effect is not keyed by the team.
ChangeTeamOnly ==
  /\ open /\ team < MaxEdits
  /\ team' = team + 1
  /\ overtaken' = overtaken \cup Requests(UnderWay)
  /\ UNCHANGED <<open, session, busy, taskVars, jobs, state, sessions, lost>>

\* The team field is edited (it is not disabled while busy): DisposableEffect.
ChangeTeam ==
  /\ open /\ team < MaxEdits
  /\ team' = team + 1
  /\ FreeSession
  /\ overtaken' = overtaken \cup Requests(UnderWay)
  /\ UNCHANGED <<open, busy, taskVars, jobs, state, lost>>

\* The panel leaves the composition: the effect is disposed, the scope cancelled.
Close ==
  /\ open
  /\ open' = FALSE
  /\ FreeSession
  /\ UNCHANGED <<team, busy, taskVars, jobs, state, history>>

-----------------------------------------------------------------------------
(* awaitTeam, on an IO thread.                                             *)

\* What awaitTeam leaves with; a request that leaves without its session
\* loses it.
Leaves(t, where, r) ==
  /\ pc' = [pc EXCEPT ![t] = where]
  /\ result' = [result EXCEPT ![t] = r]
  /\ lost' = IF r \in {"timeout", "cancelled"} THEN lost \cup Requests({t}) ELSE lost

\* teamCall(action) is refused while ACTIVE, which the VPN's worker sets and
\* clears when it likes, when session_of does not find the session, and when
\* the scope was cancelled before the thread took it; else spawn_job.
Call(t) ==
  /\ pc[t] = "call"
  /\ \/ /\ Leaves(t, "back", "failed")
        /\ UNCHANGED <<jobs, state>>
     \/ /\ open /\ (kind[t] = "request" \/ sid[t] \in sessions)
        /\ jobs' = jobs \cup {t}
        /\ state' = [state EXCEPT ![t] = "running"]
        /\ pc' = [pc EXCEPT ![t] = "poll"]
        /\ UNCHANGED <<result, lost>>
  /\ UNCHANGED <<panelVars, kind, of, sid, sessions, overtaken>>

\* A poll that finds the job done.
Poll(t) ==
  /\ pc[t] = "poll" /\ state[t] \notin {"none", "running"}
  /\ Leaves(t, "free", state[t])
  /\ UNCHANGED <<panelVars, kind, of, sid, libVars, overtaken>>

\* Mutant of GivesUp: there is no withTimeout.
GivesUpNever(t) ==
  /\ pc[t] = "poll" /\ ~open
  /\ Leaves(t, "free", "cancelled")
  /\ UNCHANGED <<panelVars, kind, of, sid, libVars, overtaken>>

\* The 90 seconds are over, or the delay finds the scope cancelled.
GivesUp(t) ==
  /\ pc[t] = "poll"
  /\ Leaves(t, "free", IF open THEN "timeout" ELSE "cancelled")
  /\ UNCHANGED <<panelVars, kind, of, sid, libVars, overtaken>>

\* Mutant of Free: a job that is still running is not freed.
FreeDone(t) ==
  /\ pc[t] = "free"
  /\ jobs' = IF state[t] = "running" THEN jobs ELSE jobs \ {t}
  /\ state' = [state EXCEPT ![t] = IF @ = "running" THEN @ ELSE "none"]
  /\ pc' = [pc EXCEPT ![t] = "back"]
  /\ UNCHANGED <<panelVars, kind, of, sid, result, sessions, history>>

\* The finally: aether_job_free.  A job that still runs goes on without it.
Free(t) ==
  /\ pc[t] = "free"
  /\ jobs' = jobs \ {t}
  /\ state' = [state EXCEPT ![t] = IF @ = "running" THEN @ ELSE "none"]
  /\ pc' = [pc EXCEPT ![t] = "back"]
  /\ UNCHANGED <<panelVars, kind, of, sid, result, sessions, history>>

-----------------------------------------------------------------------------
(* The library.                                                            *)

\* Mutant of Success: an answer that the panel does not know.
SuccessOrExpired(k) == {"ok", "expired"}

\* How a job may end besides an error: a submitted code may be rejected.
Success(k) == IF k = "submit" THEN {"ok", "rejected"} ELSE {"ok"}

\* The job ends, freed or not; a request that succeeds adds its session.
JobEnds(t) ==
  /\ state[t] = "running"
  /\ \E r \in Success(kind[t]) \cup {"failed"} :
       /\ state' = [state EXCEPT ![t] = IF t \in jobs THEN r ELSE "none"]
       /\ sessions' = IF kind[t] = "request" /\ r = "ok"
                      THEN sessions \cup {t} ELSE sessions
  /\ UNCHANGED <<panelVars, taskVars, jobs, history>>

-----------------------------------------------------------------------------
(* The coroutine goes on, on the main thread.                              *)

\* Mutant of TakeSession: the session before is not freed.
TakeSessionOnly(t) == sessions' = sessions /\ session' = t

\* A new session takes the place of the one before.
TakeSession(t) == sessions' = sessions \ {session} /\ session' = t

\* withContext throws the result away when the scope was cancelled meanwhile;
\* runCatching takes that for a failure like any other.  A token frees the
\* session of this moment.
Back(t) ==
  /\ pc[t] = "back"
  /\ pc' = [pc EXCEPT ![t] = "ended"]
  /\ busy' = FALSE
  /\ CASE open /\ result[t] = "ok" /\ kind[t] = "request" -> TakeSession(t)
       [] open /\ result[t] = "ok" /\ kind[t] = "submit"  -> FreeSession
       [] OTHER -> UNCHANGED <<sessions, session>>
  /\ lost' = IF open THEN lost ELSE lost \cup Requests({t})
  /\ overtaken' = IF session' = t THEN overtaken ELSE overtaken \ {t}
  /\ of' = [of EXCEPT ![t] = IF session' = t THEN @ ELSE 0]
  /\ result' = [result EXCEPT ![t] = "none"] /\ sid' = [sid EXCEPT ![t] = None]
  /\ UNCHANGED <<open, team, kind, jobs, state>>

-----------------------------------------------------------------------------
\* What a coroutine does by itself once it has been launched.
Step(t) == Launch(t) \/ Call(t) \/ Poll(t) \/ GivesUp(t) \/ Free(t) \/ Back(t)

Next ==
  \/ \E t \in Task : Step(t) \/ JobEnds(t) \/ (\E k \in Kind : Tap(t, k))
  \/ ChangeTeam \/ Close

Spec == Init /\ [][Next]_vars

\* Both dispatchers run what is queued and the 90 seconds pass.  A job may
\* never end.
Fairness == \A t \in Task : WF_vars(Step(t))

FairSpec == Spec /\ Fairness

-----------------------------------------------------------------------------
\* The type invariant.
TypeOK ==
  /\ open \in BOOLEAN /\ team \in Team /\ session \in Task \cup {None}
  /\ busy \in BOOLEAN
  /\ pc \in [Task -> {"idle", "launched", "call", "poll", "free", "back", "ended"}]
  /\ kind \in [Task -> Kind] /\ of \in [Task -> Team]
  /\ sid \in [Task -> Task \cup {None}]
  /\ result \in [Task -> {"none", "timeout", "cancelled", "ok",
                          "rejected", "failed"}]
  /\ jobs \in SUBSET Task /\ sessions \in SUBSET Task
  /\ state \in [Task -> {"none", "running", "ok", "rejected", "failed"}]
  /\ lost \in SUBSET Task /\ overtaken \in SUBSET Task

\* The panel's handle is never stale: whatever requests, resends and submits
\* are under way together, and however the team is edited between them, the
\* session whose code field is shown is one the library still has.
HandleAlive == session # None => session \in sessions

\* A sign-in session stays in the table only while the panel holds its handle
\* or the request's coroutine is about to bring it; the ones left behind are
\* those of requests that gave up (90 seconds, or the panel closed) before
\* they had it, since the job does not look at its cancel flag.
LeftOnlyLate ==
  \A s \in sessions : s = session \/ s \in UnderWay \/ s \in lost

\* The code field shown after the team was edited is not the one of the team
\* before, but for a request that was under way when it was edited.
SessionOfTeam ==
  session # None /\ of[session] # team => session \in overtaken

\* A job's entry is freed whatever becomes of the job and of the panel.
JobsFreed == \A t \in Task : t \in jobs ~> t \notin jobs

\* The panel does not stay busy, which would disable all of its buttons: a job
\* that hangs is given up.
BusyEnds == busy ~> ~busy
=============================================================================
