------------------------------ MODULE Recovery ------------------------------
(***************************************************************************)
(* internal/engine/recovery.go: the ladder that brings a crashing Traefik  *)
(* back.  The supervisor halts a crash loop, latches, and starts a         *)
(* goroutine that takes one step of the ladder and restarts the process.   *)
(*                                                                         *)
(* A dynamic document is known by the parts of it that crash Traefik: the  *)
(* raw snippet, a host, both or neither.  Reload, Rollback and Restart are *)
(* single steps here: Pipeline and Supervisor examine what interleaves     *)
(* inside them.  Versions are contiguous and the served one is the newest, *)
(* so "the highest valid version below the served one" is the document     *)
(* served before it: prev.                                                 *)
(*                                                                         *)
(* A process is watched by the goroutine that spawned it, under a context: *)
(* the daemon's or a recovery's (live), or that of POST traefik/restart,   *)
(* which is open until the handler returns and dead from then on.          *)
(***************************************************************************)
EXTENDS Naturals

CONSTANTS
    Recoveries,  \* bound: recovery goroutines at one time
    Threshold,   \* crashThreshold
    MaxFaults,   \* bound: failing statements and writes
    MaxOps       \* bound: operator actions

Parts == {"raw", "hosts"}
Docs == SUBSET Parts

(* From level 2 on every step is the same, so the counter saturates.       *)
TopLevel == 2

ASSUME RecoveryAssumption ==
    /\ Threshold \in Nat \ {0}
    /\ MaxFaults \in Nat /\ MaxOps \in Nat

VARIABLES
    db,        \* the harmful parts of what the database renders to
    served,    \* the served document
    prev,      \* the snapshot just below it: a set of one document, or of none
    broken,    \* the full static configuration crashes Traefik
    static,    \* the static file: "full" or "minimal"
    proc,      \* the process: st, the document it has loaded and its context
    exits,     \* s.recentExits
    latch,     \* s.crashLoop
    level,     \* e.recoverLevel
    rec,       \* where each recovery goroutine is
    timer,     \* some recovery-health-reset goroutine sleeps
    late,      \* a log line of a process that is gone may still be read
    faults, ops,
    disturbed  \* a recovery began beside another, on a late line, or after an edit

docVars == <<db, served, prev, broken, static>>
procVars == <<proc, exits, latch, late>>
vars == <<docVars, procVars, level, rec, timer, faults, ops, disturbed>>

(* respawn: crashed, its goroutine sleeps; down: crashed and no respawn    *)
(* comes; failed: the last spawn returned an error.                        *)
Process == [st : {"running", "respawn", "down", "failed"}, doc : Docs, ctx : {"live", "open", "dead"}]

Steps == {"idle", "begin", "clear", "reload", "rollback", "minimal", "restart"}

TypeOK ==
    /\ db \in Docs /\ served \in Docs /\ prev \in {{}} \cup {{d} : d \in Docs}
    /\ broken \in BOOLEAN /\ static \in {"full", "minimal"}
    /\ proc \in Process
    /\ exits \in 0..(Threshold - 1) /\ latch \in BOOLEAN /\ level \in 0..TopLevel
    /\ rec \in [Recoveries -> Steps]
    /\ timer \in BOOLEAN /\ late \in BOOLEAN /\ disturbed \in BOOLEAN
    /\ faults \in 0..MaxFaults /\ ops \in 0..MaxOps

(* Traefik has just been started on a configuration that may crash it.     *)
Init ==
    /\ db \in Docs /\ served = db /\ prev \in {{}} \cup {{d} : d \in Docs \ {served}}
    /\ broken \in BOOLEAN /\ static = "full"
    /\ proc = [st |-> "running", doc |-> {}, ctx |-> "live"]
    /\ exits = 0 /\ latch = FALSE /\ level = 0
    /\ rec = [r \in Recoveries |-> "idle"]
    /\ timer = FALSE /\ late = FALSE /\ faults = 0 /\ ops = 0 /\ disturbed = FALSE

Fails == faults < MaxFaults /\ faults' = faults + 1

Harmed == proc.doc # {} \/ (broken /\ static = "full")

(* spawnLocked: cmd.Start may fail, and nothing runs or watches then.      *)
Spawn(context) ==
    \/ proc' = [st |-> "running", doc |-> {}, ctx |-> context] /\ UNCHANGED faults
    \/ Fails /\ proc' = [st |-> "failed", doc |-> {}, ctx |-> "live"]

(* A process that is gone, with the context its goroutine still holds.     *)
Gone(place) == [proc EXCEPT !.st = place, !.doc = {}]

-----------------------------------------------------------------------------
(* Traefik and its supervisor.                                             *)

(* The provider poll loads what is served.                                 *)
Poll ==
    /\ proc.st = "running" /\ proc.doc # served
    /\ proc' = [proc EXCEPT !.doc = served]
    /\ UNCHANGED <<docVars, exits, latch, late, level, rec, timer, faults, ops, disturbed>>

(* fireCrashLoop: OnTraefikCrashLoop in a goroutine of its own; which of   *)
(* the idle names it gets makes no difference.                             *)
Fire(stale) ==
    /\ \E r \in Recoveries : rec[r] = "idle"
    /\ rec' = [rec EXCEPT ![CHOOSE r \in Recoveries : rec[r] = "idle"] = "begin"]
    /\ disturbed' = (disturbed \/ stale \/ \E r \in Recoveries : rec[r] # "idle")

(* TripCrashLoop, from watchFatalLog on a line with a fatal signature.     *)
Trip(stale) ==
    /\ latch' = TRUE
    /\ IF latch THEN UNCHANGED <<rec, disturbed>> ELSE Fire(stale)

FatalLine ==
    /\ proc.st = "running" /\ Harmed /\ Trip(FALSE)
    /\ UNCHANGED <<docVars, proc, exits, late, level, timer, faults, ops>>

(* consume may reach a line of the last process after Restart has cleared  *)
(* the latch.                                                              *)
LateLine ==
    /\ late /\ late' = FALSE /\ Trip(TRUE)
    /\ UNCHANGED <<docVars, proc, exits, level, timer, faults, ops>>

(* Mutant of Exit: the window may hold one exit more before it trips.      *)
ExitLate ==
    /\ proc.st = "running" /\ Harmed
    /\ late' = TRUE
    /\ IF ~latch /\ exits + 1 <= Threshold
       THEN /\ exits' = exits + 1 /\ proc' = Gone("respawn")
            /\ UNCHANGED <<latch, rec, disturbed>>
       ELSE proc' = Gone("down") /\ Trip(FALSE) /\ UNCHANGED exits
    /\ UNCHANGED <<docVars, level, timer, faults, ops>>

(* The process dies.  A crash that takes longer than the window is assumed *)
(* to print a signature, as watchFatalLog supposes, so exits only add up.  *)
(* The exit is counted, and may latch, whatever the context; with a dead   *)
(* one the goroutine returns there, and neither recovers nor respawns.     *)
Exit ==
    /\ proc.st = "running" /\ Harmed
    /\ late' = TRUE
    /\ \/ /\ latch
          /\ proc' = Gone("down")
          /\ UNCHANGED <<exits, latch, rec, disturbed>>
       \/ /\ ~latch /\ exits + 1 < Threshold
          /\ exits' = exits + 1
          /\ proc' = Gone(IF proc.ctx = "dead" THEN "down" ELSE "respawn")
          /\ UNCHANGED <<latch, rec, disturbed>>
       \/ /\ ~latch /\ exits + 1 >= Threshold
          /\ proc' = Gone("down")
          /\ IF proc.ctx = "dead" THEN latch' = TRUE /\ UNCHANGED <<rec, disturbed>> ELSE Trip(FALSE)
          /\ UNCHANGED exits
    /\ UNCHANGED <<docVars, level, timer, faults, ops>>

(* The wait goroutine spawns again after a second, under the same context  *)
(* unless that has ended meanwhile; an error of the spawn is dropped.      *)
Respawn ==
    /\ proc.st = "respawn"
    /\ \/ proc.ctx # "dead" /\ Spawn(proc.ctx)
       \/ proc.ctx = "dead" /\ proc' = Gone("down") /\ UNCHANGED faults
    /\ UNCHANGED <<docVars, exits, latch, late, level, rec, timer, ops, disturbed>>

(* The handler of POST traefik/restart returns: net/http cancels r.Context.*)
RequestEnds ==
    /\ proc.ctx = "open"
    /\ proc' = [proc EXCEPT !.ctx = "dead"]
    /\ UNCHANGED <<docVars, exits, latch, late, level, rec, timer, faults, ops, disturbed>>

(* A run that stays up for healthyReset clears the window.                 *)
Healthy ==
    /\ proc.st = "running" /\ ~Harmed /\ proc.doc = served /\ exits > 0
    /\ exits' = 0
    /\ UNCHANGED <<docVars, proc, latch, late, level, rec, timer, faults, ops, disturbed>>

-----------------------------------------------------------------------------
(* recoverTraefik.                                                         *)

Advance(r, place) == rec' = [rec EXCEPT ![r] = place]

(* The level is read and raised under recoverMu; above 0 it waits 2 s.     *)
Begin(r) ==
    /\ rec[r] = "begin"
    /\ level' = IF level = TopLevel THEN TopLevel ELSE level + 1
    /\ \/ level = 0 /\ Advance(r, "clear")
       \/ level = 1 /\ Advance(r, "rollback")
       \/ level > 1 /\ Advance(r, "minimal")
    /\ UNCHANGED <<docVars, procVars, timer, faults, ops, disturbed>>

(* Level 0: SetSetting("raw.dynamicYaml", ""); its error is dropped.       *)
Clear(r) ==
    /\ rec[r] = "clear" /\ Advance(r, "reload")
    /\ \/ db' = db \ {"raw"} /\ UNCHANGED faults
       \/ Fails /\ UNCHANGED db
    /\ UNCHANGED <<served, prev, broken, static, procVars, level, timer, ops, disturbed>>

(* Reload: an unchanged document leaves no snapshot.                       *)
Reloaded(d) == served' = d /\ prev' = IF d = served THEN prev ELSE {served}

ReloadStep(r) ==
    /\ rec[r] = "reload" /\ Advance(r, "restart")
    /\ \/ Reloaded(db) /\ UNCHANGED faults
       \/ Fails /\ UNCHANGED <<served, prev>>
    /\ UNCHANGED <<db, broken, static, procVars, level, timer, ops, disturbed>>


(* Level 1: Rollback to lastGoodVersion, which is a new snapshot in turn;  *)
(* a Reload if there is none or the list cannot be read.                   *)
RollbackStep(r) ==
    /\ rec[r] = "rollback" /\ Advance(r, "restart")
    /\ \/ served' \in prev /\ prev' = {served} /\ UNCHANGED faults
       \/ prev = {} /\ Reloaded(db) /\ UNCHANGED faults
       \/ Fails /\ Reloaded(db)
       \/ Fails /\ UNCHANGED <<served, prev>>
    /\ UNCHANGED <<db, broken, static, procVars, level, timer, ops, disturbed>>

(* Level 2 and above: writeMinimalStatic.                                  *)
Minimal(r) ==
    /\ rec[r] = "minimal" /\ Advance(r, "restart")
    /\ \/ static' = "minimal" /\ UNCHANGED faults
       \/ Fails /\ UNCHANGED static
    /\ UNCHANGED <<db, served, prev, broken, procVars, level, timer, ops, disturbed>>

(* Restart clears the latch and the window, stops what runs and spawns.    *)
Restarted(context) ==
    /\ latch' = FALSE /\ exits' = 0 /\ Spawn(context)
    /\ late' = (late \/ (proc.st = "running" /\ Harmed))


(* The recovery's context is Background; an error of Restart is logged.    *)
Restart(r) ==
    /\ rec[r] = "restart" /\ rec' = [rec EXCEPT ![r] = "idle"]
    /\ Restarted("live")
    /\ timer' = TRUE
    /\ UNCHANGED <<docVars, level, ops, disturbed>>

(* resetRecoveryOnHealth, 35 s after some recovery: there may be others.   *)
ResetRecoveryOnHealth ==
    /\ timer /\ timer' \in BOOLEAN
    /\ level' = IF proc.st = "running" /\ ~latch THEN 0 ELSE level
    /\ UNCHANGED <<docVars, procVars, rec, faults, ops, disturbed>>

-----------------------------------------------------------------------------
(* Operators: POST traefik/restart, which spawns under its own context,    *)
(* and an edit of the snippet or of the hosts, followed by its Reload.     *)
Acts == ops < MaxOps /\ ops' = ops + 1

OperatorRestart ==
    /\ Acts /\ Restarted("open")
    /\ UNCHANGED <<docVars, level, rec, timer, disturbed>>

OperatorEdit ==
    /\ Acts
    /\ \E d \in Docs \ {db} : db' = d /\ Reloaded(d)
    /\ disturbed' = TRUE
    /\ UNCHANGED <<broken, static, procVars, level, rec, timer, faults>>

-----------------------------------------------------------------------------
Recover(r) ==
    Begin(r) \/ Clear(r) \/ ReloadStep(r) \/ RollbackStep(r) \/ Minimal(r) \/ Restart(r)

Next ==
    \/ Poll \/ FatalLine \/ LateLine \/ Exit \/ Respawn \/ RequestEnds \/ Healthy
    \/ \E r \in Recoveries : Recover(r)
    \/ ResetRecoveryOnHealth
    \/ OperatorRestart \/ OperatorEdit

Spec == Init /\ [][Next]_vars

(* Goroutines run, Traefik polls, and a harmful configuration does crash   *)
(* it.  Nothing is assumed of when a health timer fires.                   *)
FairSpec ==
    /\ Spec
    /\ WF_vars(Poll) /\ WF_vars(Exit) /\ WF_vars(Respawn) /\ WF_vars(RequestEnds)
    /\ \A r \in Recoveries : WF_vars(Recover(r))

-----------------------------------------------------------------------------
(* Nobody is left to start Traefik: its last spawn failed, or it crashed   *)
(* under the context of a request that has ended, and no recovery runs.    *)
Abandoned ==
    /\ proc.st = "failed" \/ (proc.st = "down" /\ proc.ctx = "dead")
    /\ \A r \in Recoveries : rec[r] = "idle"


=============================================================================
