---------------------------- MODULE RecoveryProofs ----------------------------
(***************************************************************************)
(* The types of Recovery and what its liveness rests on: a Traefik that    *)
(* the supervisor has halted is owed a recovery, except in the one case    *)
(* the code has, for any number of recoveries, failures and operator       *)
(* actions, and any crash threshold.                                       *)
(***************************************************************************)
EXTENDS Recovery, TLAPS

(* A process that crashed under a context that has ended: its goroutine    *)
(* has returned without a respawn or a recovery.                           *)
Swallowed == proc.st = "down" /\ proc.ctx = "dead"

(* The latch that stops respawns and drops further alarms is set only      *)
(* while some recovery has its Restart still to do, or after a crash under *)
(* a dead context; and a crashed process that will not be respawned means  *)
(* that the latch is set or that its context is dead.  So under a live     *)
(* context there is no halt without a goroutine that will end it.          *)
HaltIsOwed ==
    /\ latch => Swallowed \/ \E r \in Recoveries : rec[r] # "idle"
    /\ proc.st = "down" => latch \/ proc.ctx = "dead"

IInv == TypeOK /\ HaltIsOwed

-----------------------------------------------------------------------------
(* A spawn leaves a process that runs, or the mark of its failure.         *)
LEMMA SpawnIs ==
    ASSUME TypeOK, NEW c \in {"live", "open", "dead"}, Spawn(c)
    PROVE  proc' \in Process /\ proc'.st # "down" /\ faults' \in 0..MaxFaults
BY RecoveryAssumption DEF Spawn, Fails, Process, Docs, TypeOK

(* Restart leaves no latch, and a process or the mark of a failed spawn.   *)
LEMMA RestartedIs ==
    ASSUME TypeOK, NEW c \in {"live", "open", "dead"}, Restarted(c)
    PROVE  /\ proc' \in Process /\ proc'.st # "down" /\ latch' = FALSE /\ faults' \in 0..MaxFaults
           /\ exits' \in 0..(Threshold - 1) /\ latch' \in BOOLEAN /\ late' \in BOOLEAN
<1>1. proc' \in Process /\ proc'.st # "down" /\ faults' \in 0..MaxFaults
  BY SpawnIs DEF Restarted
<1>2. late' \in BOOLEAN
  <2>. DEFINE last == proc.st = "running" /\ Harmed
  <2>1. late \in BOOLEAN /\ late' = (late \/ last)
    BY DEF TypeOK, Restarted
  <2>. HIDE DEF last
  <2>. QED
    BY <2>1
<1>3. exits' \in 0..(Threshold - 1)
  BY RecoveryAssumption DEF Restarted
<1>4. latch' = FALSE /\ latch' \in BOOLEAN
  BY Zenon DEF Restarted
<1>. QED
  BY <1>1, <1>2, <1>3, <1>4

(* TripCrashLoop latches; unless it was latched already, a recovery begins.*)
LEMMA TripIs ==
    ASSUME TypeOK, NEW stale \in BOOLEAN, Trip(stale)
    PROVE  /\ latch' = TRUE /\ rec' \in [Recoveries -> Steps] /\ disturbed' \in BOOLEAN
           /\ \/ latch /\ rec' = rec
              \/ \E r \in Recoveries : rec'[r] # "idle"
<1>1. latch' = TRUE
  BY DEF Trip
<1>2. CASE latch
  BY <1>1, <1>2 DEF Trip, TypeOK
<1>3. CASE ~latch
  <2>1. Fire(stale)
    BY <1>3 DEF Trip
  <2>. DEFINE r == CHOOSE q \in Recoveries : rec[q] = "idle"
  <2>2. r \in Recoveries /\ rec' = [rec EXCEPT ![r] = "begin"]
    BY <2>1 DEF Fire
  <2>. HIDE DEF r
  <2>3. rec' \in [Recoveries -> Steps] /\ rec'[r] = "begin"
    BY <2>2 DEF TypeOK, Steps
  <2>4. disturbed' \in BOOLEAN
    <3>. DEFINE other == \E q \in Recoveries : rec[q] # "idle"
    <3>1. disturbed \in BOOLEAN /\ disturbed' = (disturbed \/ stale \/ other)
      BY <2>1 DEF Fire, TypeOK
    <3>. HIDE DEF other
    <3>. QED
      BY <3>1
  <2>. QED
    BY <1>1, <2>2, <2>3, <2>4
<1>. QED
  BY <1>2, <1>3

(* Types are inductive.                                                    *)
LEMMA TypeStep ==
    ASSUME TypeOK, [Next]_vars
    PROVE  TypeOK'
<1>. USE RecoveryAssumption DEF docVars, procVars
<1>. USE DEF Process
<1>1. CASE Poll
  BY <1>1 DEF Poll, Docs, TypeOK
<1>2. CASE FatalLine
  BY <1>2, TripIs DEF FatalLine, TypeOK
<1>3. CASE LateLine
  BY <1>3, TripIs DEF LateLine, TypeOK
<1>4. CASE Exit
  <2>1. /\ late' = TRUE /\ UNCHANGED <<docVars, level, timer, faults, ops>>
    BY <1>4 DEF Exit
  <2>2. proc' \in Process
    BY <1>4 DEF Exit, Gone, Docs, TypeOK
  <2>3. CASE exits + 1 < Threshold /\ exits' = exits + 1 /\ UNCHANGED <<latch, rec, disturbed>>
    BY <2>1, <2>2, <2>3 DEF TypeOK
  <2>4. CASE UNCHANGED <<exits, latch, rec, disturbed>>
    BY <2>1, <2>2, <2>4 DEF TypeOK
  <2>5. CASE Trip(FALSE) /\ UNCHANGED exits
    BY <2>1, <2>2, <2>5, TripIs DEF TypeOK
  <2>6. CASE latch' = TRUE /\ UNCHANGED <<exits, rec, disturbed>>
    BY <2>1, <2>2, <2>6 DEF TypeOK
  <2>. QED
    BY <1>4, <2>3, <2>4, <2>5, <2>6 DEF Exit
<1>5. CASE Respawn
  <2>1. UNCHANGED <<docVars, exits, latch, late, level, rec, timer, ops, disturbed>>
    BY <1>5 DEF Respawn
  <2>2. proc' \in Process /\ faults' \in 0..MaxFaults
    <3>1. CASE Spawn(proc.ctx)
      BY <3>1, SpawnIs DEF TypeOK
    <3>2. CASE proc' = Gone("down") /\ UNCHANGED faults
      BY <3>2 DEF Gone, Docs, TypeOK
    <3>. QED
      BY <1>5, <3>1, <3>2 DEF Respawn
  <2>. QED
    BY <2>1, <2>2 DEF TypeOK
<1>16. CASE RequestEnds
  BY <1>16 DEF RequestEnds, TypeOK
<1>6. CASE Healthy
  BY <1>6 DEF Healthy, TypeOK
<1>7. ASSUME NEW r \in Recoveries, Begin(r) PROVE TypeOK'
  BY <1>7 DEF Begin, Advance, Steps, TopLevel, TypeOK
<1>8. ASSUME NEW r \in Recoveries, Clear(r) PROVE TypeOK'
  BY <1>8 DEF Clear, Advance, Fails, Steps, Docs, TypeOK
<1>9. ASSUME NEW r \in Recoveries, ReloadStep(r) \/ RollbackStep(r) PROVE TypeOK'
  <2>1. served' \in Docs /\ prev' \in {{}} \cup {{d} : d \in Docs}
    BY <1>9 DEF ReloadStep, RollbackStep, Reloaded, TypeOK
  <2>2. rec' \in [Recoveries -> Steps] /\ faults' \in 0..MaxFaults
    BY <1>9 DEF ReloadStep, RollbackStep, Advance, Fails, Steps, TypeOK
  <2>3. UNCHANGED <<db, broken, static, procVars, level, timer, ops, disturbed>>
    BY <1>9 DEF ReloadStep, RollbackStep
  <2>. QED
    BY <2>1, <2>2, <2>3 DEF TypeOK
<1>10. ASSUME NEW r \in Recoveries, Minimal(r) PROVE TypeOK'
  BY <1>10 DEF Minimal, Advance, Fails, Steps, TypeOK
<1>11. ASSUME NEW r \in Recoveries, Restart(r) PROVE TypeOK'
  <2>1. Restarted("live") /\ timer' \in BOOLEAN /\ UNCHANGED <<docVars, level, ops, disturbed>>
    BY <1>11 DEF Restart
  <2>2. rec' \in [Recoveries -> Steps]
    BY <1>11 DEF Restart, Steps, TypeOK
  <2>3. /\ proc' \in Process /\ exits' \in 0..(Threshold - 1) /\ latch' \in BOOLEAN /\ late' \in BOOLEAN
        /\ faults' \in 0..MaxFaults
    BY <2>1, RestartedIs
  <2>. QED
    BY <2>1, <2>2, <2>3 DEF TypeOK
<1>12. CASE ResetRecoveryOnHealth
  <2>1. level' \in 0..TopLevel
    BY <1>12 DEF ResetRecoveryOnHealth, TopLevel, TypeOK
  <2>2. timer' \in BOOLEAN /\ UNCHANGED <<docVars, procVars, rec, faults, ops, disturbed>>
    BY <1>12 DEF ResetRecoveryOnHealth
  <2>. QED
    BY <2>1, <2>2 DEF TypeOK
<1>13. CASE OperatorRestart
  <2>1. Restarted("open") /\ UNCHANGED <<docVars, level, rec, timer, disturbed>>
    BY <1>13 DEF OperatorRestart
  <2>2. ops' \in 0..MaxOps
    BY <1>13 DEF OperatorRestart, Acts, TypeOK
  <2>3. /\ proc' \in Process /\ exits' \in 0..(Threshold - 1) /\ latch' \in BOOLEAN /\ late' \in BOOLEAN
        /\ faults' \in 0..MaxFaults
    BY <2>1, RestartedIs
  <2>. QED
    BY <2>1, <2>2, <2>3 DEF TypeOK
<1>14. CASE OperatorEdit
  BY <1>14 DEF OperatorEdit, Acts, Reloaded, TypeOK
<1>15. CASE UNCHANGED vars
  BY <1>15 DEF vars, TypeOK
<1>. QED
  BY <1>1, <1>2, <1>3, <1>4, <1>5, <1>6, <1>7, <1>8, <1>9, <1>10, <1>11, <1>12, <1>13, <1>14, <1>15, <1>16
     DEF Next, Recover

(* A halted supervisor has a recovery on the way, or a dead context.       *)
LEMMA OwedStep ==
    ASSUME TypeOK, HaltIsOwed, [Next]_vars
    PROVE  HaltIsOwed'
<1>. USE DEF docVars, procVars, HaltIsOwed, Swallowed
<1>t. proc \in Process /\ rec \in [Recoveries -> Steps]
  BY DEF TypeOK
<1>1. ASSUME proc'.st # "down", latch' = FALSE PROVE HaltIsOwed'
  BY <1>1
<1>2. ASSUME NEW stale \in BOOLEAN, Trip(stale), UNCHANGED proc \/ ~latch PROVE HaltIsOwed'
  BY <1>2, TripIs
<1>3. ASSUME proc' = proc \/ (proc'.st # "down" /\ proc.st # "down"), UNCHANGED <<latch, rec>>
      PROVE  HaltIsOwed'
  BY <1>3
<1>4. CASE Poll \/ Healthy \/ ResetRecoveryOnHealth \/ OperatorEdit \/ UNCHANGED vars
  <2>1. UNCHANGED <<latch, rec>>
    BY <1>4 DEF Poll, Healthy, ResetRecoveryOnHealth, OperatorEdit, vars
  <2>2. proc' = proc \/ (proc'.st # "down" /\ proc.st # "down")
    BY <1>t, <1>4 DEF Poll, Healthy, ResetRecoveryOnHealth, OperatorEdit, vars, Process
  <2>. QED
    BY <1>3, <2>1, <2>2
<1>5. CASE FatalLine \/ LateLine
  BY <1>2, <1>5 DEF FatalLine, LateLine
<1>6. CASE Exit
  <2>. proc.st = "running"
    BY <1>6 DEF Exit
  <2>1. CASE latch /\ UNCHANGED <<latch, rec>>
    BY <2>1
  <2>2. CASE proc' = Gone("respawn") /\ UNCHANGED <<latch, rec>>
    BY <1>t, <1>3, <2>2 DEF Process, Gone
  <2>3. CASE ~latch /\ Trip(FALSE)
    BY <1>2, <2>3
  <2>4. CASE proc.ctx = "dead" /\ proc' = Gone("down")
    BY <1>t, <2>4 DEF Process, Gone
  <2>. QED
    BY <1>6, <2>1, <2>2, <2>3, <2>4 DEF Exit
<1>11. CASE Respawn
  <2>1. UNCHANGED <<latch, rec>> /\ proc.st = "respawn"
    BY <1>11 DEF Respawn
  <2>2. CASE Spawn(proc.ctx)
    BY <1>t, <1>3, <2>1, <2>2, SpawnIs DEF Process
  <2>3. CASE proc.ctx = "dead" /\ proc' = Gone("down")
    BY <1>t, <2>1, <2>3 DEF Process, Gone
  <2>. QED
    BY <1>11, <2>2, <2>3 DEF Respawn
<1>12. CASE RequestEnds
  BY <1>t, <1>12 DEF RequestEnds, Process
<1>7. ASSUME NEW r \in Recoveries, NEW place \in Steps \ {"idle"}, Advance(r, place), UNCHANGED <<proc, latch>>
      PROVE  HaltIsOwed'
  BY <1>t, <1>7 DEF Advance
<1>8. ASSUME NEW r \in Recoveries,
             Begin(r) \/ Clear(r) \/ ReloadStep(r) \/ RollbackStep(r) \/ Minimal(r)
      PROVE  HaltIsOwed'
  <2>1. UNCHANGED <<proc, latch>>
    BY <1>8 DEF Begin, Clear, ReloadStep, RollbackStep, Minimal
  <2>2. \E place \in Steps \ {"idle"} : Advance(r, place)
    BY <1>8 DEF Begin, Clear, ReloadStep, RollbackStep, Minimal, Steps
  <2>. QED
    BY <1>7, <2>1, <2>2
<1>9. ASSUME NEW r \in Recoveries, Restart(r) PROVE HaltIsOwed'
  BY <1>1, <1>9, RestartedIs DEF Restart
<1>10. CASE OperatorRestart
  BY <1>1, <1>10, RestartedIs DEF OperatorRestart
<1>. QED
  BY <1>4, <1>5, <1>6, <1>8, <1>9, <1>10, <1>11, <1>12 DEF Next, Recover

(* Traefik has just been started: no window, no latch, no recovery.        *)
LEMMA InitIInv == Init => IInv
<1>. SUFFICES ASSUME Init PROVE IInv
  OBVIOUS
<1>1. TypeOK
  <2>1. db \in Docs /\ served \in Docs /\ prev \in {{}} \cup {{d} : d \in Docs} /\ proc \in Process
    BY DEF Init, Docs, Process
  <2>2. broken \in BOOLEAN /\ latch \in BOOLEAN /\ timer \in BOOLEAN /\ late \in BOOLEAN /\ disturbed \in BOOLEAN
    BY DEF Init
  <2>3. static = "full" /\ exits = 0 /\ level = 0 /\ faults = 0 /\ ops = 0 /\ rec \in [Recoveries -> Steps]
    BY DEF Init, Steps
  <2>. QED
    BY <2>1, <2>2, <2>3, RecoveryAssumption DEF TypeOK, TopLevel
<1>2. HaltIsOwed
  BY DEF Init, HaltIsOwed
<1>. QED
  BY <1>1, <1>2 DEF IInv

-----------------------------------------------------------------------------
(* The ladder, the latch and the process keep their types.                 *)
THEOREM RecoveryTyping == Spec => []TypeOK
<1>. QED
  BY InitIInv, TypeStep, PTL DEF Spec, IInv

(* fireCrashLoop and recoverTraefik: a Traefik halted by the supervisor    *)
(* has a recovery under way that will restart it, unless it crashed under  *)
(* the ended context of POST traefik/restart.                              *)
THEOREM HaltedIsRecovered == Spec => []HaltIsOwed
<1>1. IInv /\ [Next]_vars => IInv'
  BY TypeStep, OwedStep DEF IInv
<1>2. IInv => HaltIsOwed
  BY DEF IInv
<1>. QED
  BY InitIInv, <1>1, <1>2, PTL DEF Spec
=============================================================================
