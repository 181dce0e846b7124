----------------------------- MODULE Supervisor -----------------------------
(***************************************************************************)
(* internal/supervisor: the process manager of the Traefik child.          *)
(*                                                                         *)
(* Every field of the Go struct is guarded by s.mu, but no operation holds *)
(* the mutex from beginning to end: the goroutine that waits for a process *)
(* sleeps a second before it respawns, and Restart releases the mutex      *)
(* while the old process drains.  One action here is one critical section  *)
(* (or one wake-up) of one goroutine, so the interleavings are the ones of *)
(* the code.                                                               *)
(*                                                                         *)
(* A "run" is one successful spawnLocked: an exec.Cmd, its exited channel, *)
(* the goroutine in cmd.Wait() and the context it was given.  Wall-clock   *)
(* time is left out: a timer may fire, and an exit may have left the crash *)
(* window, at any later moment.                                            *)
(***************************************************************************)
EXTENDS Naturals, FiniteSets

CONSTANTS
    Requests,        \* HTTP calls of POST /api/traefik/restart
    Recoveries,      \* goroutines that may run the crash-loop callback at once
    Main,            \* the main goroutine: Start, then Stop
    CrashThreshold,  \* crashThreshold
    MaxRuns          \* bound: successful spawns in a behaviour

ASSUME SupervisorAssumption ==
    /\ MaxRuns \in Nat \ {0}
    /\ CrashThreshold \in Nat \ {0}
    /\ Requests \cap Recoveries = {}
    /\ Main \notin Requests \cup Recoveries
    /\ "main" \notin Requests /\ "background" \notin Requests

VARIABLES
    cmd,          \* s.cmd and s.exited, set together: the latest run, 0 before Start
    state,        \* s.state
    wantStop,     \* s.wantStop
    crashLoop,    \* s.crashLoop, the latch
    recentExits,  \* len(s.recentExits)
    run,          \* how far each run, process and cmd.Wait() goroutine, has come
    verdict,      \* what that goroutine decided under s.mu
    ctx,          \* the context each run was spawned with
    cancelled,    \* contexts whose Err() is no longer nil
    callbacks,    \* OnCrashLoop goroutines started and not yet running
    call,         \* where each caller of Start/Restart/Stop is
    target        \* the run stopProcess captured for a caller

supVars == <<cmd, state, wantStop, crashLoop, recentExits>>
runVars == <<run, verdict, ctx>>
envVars == <<cancelled, callbacks>>
callVars == <<call, target>>
vars == <<supVars, runVars, envVars, callVars>>

Runs == 1..MaxRuns
Restarters == Requests \cup Recoveries
Callers == Restarters \cup {Main}
Contexts == {"main", "background"} \cup Requests
States == {"stopped", "running", "restarting", "crashed"}

(* none: not spawned; up: the process lives; gone: it ended, Wait() has    *)
(* not returned; reaped: the goroutine left s.mu; notified: it closed      *)
(* exited; sleeping: it waits a second before it respawns; done: returned. *)
RunStates == {"none", "up", "gone", "reaped", "notified", "sleeping", "done"}
Verdicts == {"none", "stop", "trip", "loop", "respawn", "swallowed"}
CallStates == {"idle", "serving", "closing", "recovering", "marked", "draining",
               "spawning", "replying", "returned"}

TypeOK ==
    /\ cmd \in 0..MaxRuns
    /\ state \in States
    /\ wantStop \in BOOLEAN
    /\ crashLoop \in BOOLEAN
    /\ recentExits \in Nat
    /\ run \in [Runs -> RunStates]
    /\ verdict \in [Runs -> Verdicts]
    /\ ctx \in [Runs -> Contexts]
    /\ cancelled \in SUBSET Contexts
    /\ callbacks \in Nat
    /\ call \in [Callers -> CallStates]
    /\ target \in [Callers -> 0..MaxRuns]

\* New, and the wiring of main.go up to Bootstrap: nothing is running yet.
Init ==
    /\ cmd = 0 /\ state = "stopped" /\ wantStop = FALSE
    /\ crashLoop = FALSE /\ recentExits = 0
    /\ run = [r \in Runs |-> "none"]
    /\ verdict = [r \in Runs |-> "none"]
    /\ ctx = [r \in Runs |-> "main"]
    /\ cancelled = {} /\ callbacks = 0
    /\ call = [c \in Callers |-> "idle"]
    /\ target = [c \in Callers |-> 0]

-----------------------------------------------------------------------------
(* spawnLocked                                                             *)

\* cmd.Start succeeded.  rs is what the rest of the step makes of the runs.
SpawnOK(k, rs) ==
    /\ cmd < MaxRuns
    /\ cmd' = cmd + 1
    /\ state' = "running"
    /\ wantStop' = FALSE
    /\ run' = [rs EXCEPT ![cmd + 1] = "up"]
    /\ ctx' = [ctx EXCEPT ![cmd + 1] = k]
    /\ UNCHANGED <<crashLoop, recentExits, verdict>>

\* cmd.Start failed (state becomes crashed) or a pipe could not be made (it does not).
SpawnErr(rs) ==
    /\ state' \in {state, "crashed"}
    /\ run' = rs
    /\ UNCHANGED <<cmd, wantStop, crashLoop, recentExits, verdict, ctx>>

(* The healthyReset timer.  It is re-armed by every spawn and has an       *)
(* effect only while the state is running, that is until the next exit:    *)
(* whether it is still armed need not be remembered.                       *)
HealthTimerFires ==
    /\ state = "running"
    /\ recentExits' = 0
    /\ UNCHANGED <<cmd, state, wantStop, crashLoop, runVars, envVars, callVars>>

-----------------------------------------------------------------------------
(* Traefik, and the goroutine that waits for run r                         *)

\* The process ends: a crash, or the answer to SIGTERM.
Exit(r) ==
    /\ run[r] = "up"
    /\ run' = [run EXCEPT ![r] = "gone"]
    /\ UNCHANGED <<supVars, verdict, ctx, envVars, callVars>>

VerdictOffByOne(kept) ==
    IF wantStop THEN "stop"
    ELSE IF crashLoop THEN "loop"
    ELSE IF kept + 1 > CrashThreshold THEN "trip"
    ELSE "respawn"

\* What the critical section after cmd.Wait() decides, given how many of the recorded
\* exits are still inside crashWindow.
Verdict(kept) ==
    IF wantStop THEN "stop"
    ELSE IF crashLoop THEN "loop"
    ELSE IF kept + 1 >= CrashThreshold THEN "trip"
    ELSE "respawn"

ReapKeepsState(r) ==
    /\ run[r] = "gone"
    /\ \E kept \in 0..recentExits :
         LET v == Verdict(kept) IN
         /\ verdict' = [verdict EXCEPT ![r] = v]
         /\ state' = IF v = "stop" THEN "stopped" ELSE state
         /\ recentExits' = IF v = "stop" THEN recentExits ELSE kept + 1
         /\ crashLoop' = (crashLoop \/ v = "trip")
    /\ run' = [run EXCEPT ![r] = "reaped"]
    /\ UNCHANGED <<cmd, wantStop, ctx, envVars, callVars>>

\* The critical section after cmd.Wait().
Reap(r) ==
    /\ run[r] = "gone"
    /\ \E kept \in 0..recentExits :
         LET v == Verdict(kept) IN
         /\ verdict' = [verdict EXCEPT ![r] = v]
         /\ state' = IF v = "stop" THEN "stopped" ELSE "crashed"
         /\ recentExits' = IF v = "stop" THEN recentExits ELSE kept + 1
         /\ crashLoop' = (crashLoop \/ v = "trip")
    /\ run' = [run EXCEPT ![r] = "reaped"]
    /\ UNCHANGED <<cmd, wantStop, ctx, envVars, callVars>>

NotifyUnlessStopped(r) ==
    /\ run[r] = "reaped" /\ verdict[r] # "stop"
    /\ run' = [run EXCEPT ![r] = "notified"]
    /\ UNCHANGED <<supVars, verdict, ctx, envVars, callVars>>

\* close(exited)
Notify(r) ==
    /\ run[r] = "reaped"
    /\ run' = [run EXCEPT ![r] = "notified"]
    /\ UNCHANGED <<supVars, verdict, ctx, envVars, callVars>>

\* "if stopWanted || ctx.Err() != nil { return }"
GivesUp(r) == verdict[r] = "stop" \/ ctx[r] \in cancelled

DecideSilently(r) ==
    /\ run[r] = "notified"
    /\ run' = [run EXCEPT ![r] =
                 IF ~GivesUp(r) /\ verdict[r] = "respawn" THEN "sleeping" ELSE "done"]
    /\ verdict' = [verdict EXCEPT ![r] = IF GivesUp(r) /\ @ = "trip" THEN "swallowed" ELSE "none"]
    /\ UNCHANGED <<supVars, ctx, envVars, callVars>>

\* The early returns after close(exited), fireCrashLoop, or the one-second sleep.  A trip
\* that finds its context cancelled returns before fireCrashLoop: it is swallowed.
Decide(r) ==
    /\ run[r] = "notified"
    /\ run' = [run EXCEPT ![r] =
                 IF ~GivesUp(r) /\ verdict[r] = "respawn" THEN "sleeping" ELSE "done"]
    /\ verdict' = [verdict EXCEPT ![r] = IF GivesUp(r) /\ @ = "trip" THEN "swallowed" ELSE "none"]
    /\ callbacks' = IF ~GivesUp(r) /\ verdict[r] = "trip" THEN callbacks + 1 ELSE callbacks
    /\ UNCHANGED <<supVars, ctx, cancelled, callVars>>

\* After the sleep: spawn with the same context, whatever happened meanwhile.
Respawn(r) ==
    LET rs == [run EXCEPT ![r] = "done"] IN
    /\ run[r] = "sleeping"
    /\ \/ ctx[r] \in cancelled /\ run' = rs /\ UNCHANGED <<supVars, verdict, ctx>>
       \/ ctx[r] \notin cancelled /\ SpawnOK(ctx[r], rs)
       \/ ctx[r] \notin cancelled /\ SpawnErr(rs)
    /\ UNCHANGED <<envVars, callVars>>

\* watchFatalLog saw a raw crash signature.  consume may lag behind by its scanner's
\* buffer, so the line can come from any earlier run.
TripCrashLoop ==
    /\ cmd > 0 /\ ~crashLoop
    /\ crashLoop' = TRUE
    /\ callbacks' = callbacks + 1
    /\ UNCHANGED <<cmd, state, wantStop, recentExits, runVars, cancelled, callVars>>

-----------------------------------------------------------------------------
(* Callers                                                                 *)

\* Bootstrap's sup.Start; an error ends main.
Start ==
    /\ call[Main] = "idle"
    /\ \/ SpawnOK("main", run) /\ call' = [call EXCEPT ![Main] = "serving"]
       \/ SpawnErr(run) /\ call' = [call EXCEPT ![Main] = "returned"]
    /\ UNCHANGED <<envVars, target>>

RecoveryBeginsUnasked(c) ==
    /\ c \in Recoveries /\ call[c] = "idle"
    /\ callbacks' = callbacks - 1
    /\ call' = [call EXCEPT ![c] = "recovering"]
    /\ UNCHANGED <<supVars, runVars, cancelled, target>>

\* A pending OnCrashLoop goroutine runs; the engine works before it calls Restart.
RecoveryBegins(c) ==
    /\ c \in Recoveries /\ call[c] = "idle" /\ callbacks > 0
    /\ callbacks' = callbacks - 1
    /\ call' = [call EXCEPT ![c] = "recovering"]
    /\ UNCHANGED <<supVars, runVars, cancelled, target>>

\* The first critical section of Restart.
RestartMarks(c) ==
    /\ \/ c \in Requests /\ call[c] = "idle" /\ call[Main] = "serving"
       \/ c \in Recoveries /\ call[c] = "recovering"
    /\ state' = "restarting"
    /\ crashLoop' = FALSE
    /\ recentExits' = 0
    /\ call' = [call EXCEPT ![c] = "marked"]
    /\ UNCHANGED <<cmd, wantStop, runVars, envVars, target>>

\* What a caller does once stopProcess returned.
AfterStop(c) == IF c = Main THEN "returned" ELSE "spawning"

\* stopProcess: the critical section, and SIGTERM, which invites an Exit that Traefik is
\* free to delay until Kill.
StopProcess(c) ==
    /\ call[c] = IF c = Main THEN "closing" ELSE "marked"
    /\ wantStop' = TRUE
    /\ target' = [target EXCEPT ![c] = cmd]
    /\ call' = [call EXCEPT ![c] = IF cmd = 0 THEN AfterStop(c) ELSE "draining"]
    /\ UNCHANGED <<cmd, state, crashLoop, recentExits, runVars, envVars>>

\* RestartDrain passed and the process still lives: SIGKILL.
Kill(c) ==
    /\ call[c] = "draining" /\ run[target[c]] = "up"
    /\ run' = [run EXCEPT ![target[c]] = "gone"]
    /\ UNCHANGED <<supVars, verdict, ctx, envVars, callVars>>

\* <-exited
StopReturns(c) ==
    /\ call[c] = "draining" /\ run[target[c]] \in {"notified", "sleeping", "done"}
    /\ call' = [call EXCEPT ![c] = AfterStop(c)]
    /\ target' = [target EXCEPT ![c] = 0]
    /\ UNCHANGED <<supVars, runVars, envVars>>

\* The last statement of Restart; a recovery has no more to do here.
RestartSpawns(c) ==
    /\ call[c] = "spawning"
    /\ \/ SpawnOK(IF c \in Requests THEN c ELSE "background", run)
       \/ SpawnErr(run)
    /\ call' = [call EXCEPT ![c] = IF c \in Requests THEN "replying" ELSE "idle"]
    /\ UNCHANGED <<envVars, target>>

\* The handler returns, or its client has gone: the request's context is cancelled.
RequestEnds(q) ==
    /\ q \in Requests /\ call[q] = "replying"
    /\ call' = [call EXCEPT ![q] = "returned"]
    /\ cancelled' = cancelled \cup {q}
    /\ UNCHANGED <<supVars, runVars, callbacks, target>>

\* main leaves its select on a signal (context cancelled) or on a server error (not).
Shutdown ==
    /\ call[Main] = "serving"
    /\ call' = [call EXCEPT ![Main] = "closing"]
    /\ cancelled' \in {cancelled, cancelled \cup {"main"}}
    /\ UNCHANGED <<supVars, runVars, callbacks, target>>

-----------------------------------------------------------------------------
Watcher(r) == Reap(r) \/ Notify(r) \/ Decide(r) \/ Respawn(r)
Restarter(c) == RestartMarks(c) \/ RecoveryBegins(c) \/ RestartSpawns(c) \/ RequestEnds(c)
Stopper(c) == StopProcess(c) \/ Kill(c) \/ StopReturns(c)

\* Once main has returned the whole program, goroutines included, is gone.
Next ==
    /\ call[Main] # "returned"
    /\ \/ Start \/ Shutdown \/ HealthTimerFires \/ TripCrashLoop
       \/ \E r \in Runs : Exit(r) \/ Watcher(r)
       \/ \E c \in Restarters : Restarter(c)
       \/ \E c \in Callers : Stopper(c)

Spec == Init /\ [][Next]_vars

(* Goroutines that can run do run, and the drain timer fires.  Nothing     *)
(* forces Traefik to exit, a client to call, or main to shut down.         *)
Fairness ==
    /\ \A r \in Runs : WF_vars(call[Main] # "returned" /\ Watcher(r))
    /\ \A c \in Callers : WF_vars(call[Main] # "returned" /\ Stopper(c))

FairSpec == Spec /\ Fairness

-----------------------------------------------------------------------------
(* Properties                                                              *)

(* Status() never reports "running" for a process that has already been    *)
(* reaped: while s.state is running, the goroutine of the current command  *)
(* is still in cmd.Wait() (supervisor.go:173-182), however many restarts   *)
(* and respawns overlapped.                                                *)
RunningIsWatched == state = "running" => cmd # 0 /\ run[cmd] \in {"up", "gone"}

(* A crash window that is full means auto-respawn is halted: the latch is  *)
(* set by whoever fills the window and only a Restart, which empties the   *)
(* window too, clears it (supervisor.go:183-201, 235-241).                 *)
FullWindowHalts == recentExits >= CrashThreshold => crashLoop

(* While the latch holds, a recovery is still owed: it is about to be      *)
(* fired, has been fired, or is at work before its Restart.  The one       *)
(* exception is a trip under a cancelled context, which fires nothing      *)
(* (supervisor.go:206).                                                    *)
LatchOwesRecovery ==
    crashLoop =>
        \/ callbacks > 0
        \/ \E c \in Recoveries : call[c] = "recovering"
        \/ \E r \in Runs : verdict[r] \in {"trip", "swallowed"}

(* A caller blocked in stopProcess always gets out: the goroutine of the   *)
(* run it captured closes exited on every path, and SIGKILL ends a process *)
(* that ignores SIGTERM.                                                   *)
StopTerminates ==
    \A c \in Callers :
        call[c] = "draining" ~> (call[c] # "draining" \/ call[Main] = "returned")

(* "Supervisor manages a single Traefik process." (supervisor.go:65)       *)
SingleProcess == Cardinality({r \in Runs : run[r] = "up"}) <= 1

(* "It also starts a watchdog that restarts the process if it crashes      *)
(* unexpectedly" (supervisor.go:113): a run that ended unwanted, with the  *)
(* latch clear, is followed by the respawn its goroutine sleeps towards,   *)
(* unless the program is shutting down.                                    *)
WatchdogRestarts ==
    \A r \in Runs :
        (run[r] = "reaped" /\ verdict[r] = "respawn") ~>
            (run[r] = "sleeping" \/ call[Main] # "serving")
=============================================================================
