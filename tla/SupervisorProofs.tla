-------------------------- MODULE SupervisorProofs --------------------------
(***************************************************************************)
(* The safety invariants of Supervisor, for every set of callers, every    *)
(* crash threshold and every number of runs.                               *)
(***************************************************************************)
EXTENDS Supervisor, TLAPS

\* A run that has not been spawned yet has no process and no goroutine.
Unspawned == \A r \in Runs : r > cmd => run[r] = "none"

\* A verdict exists only from the reaping of a run on, and a swallowed one only at the end.
VerdictAge ==
    \A r \in Runs :
        /\ verdict[r] # "none" => run[r] \in {"reaped", "notified", "done"}
        /\ verdict[r] = "swallowed" => run[r] = "done"

(* The inductive invariant.  Reap overwrites the verdict of its run, so    *)
(* LatchOwesRecovery needs to know that this verdict was "none"            *)
(* (VerdictAge), and a spawn needs to know that the run it takes is fresh  *)
(* (Unspawned).                                                            *)
IInv ==
    /\ TypeOK
    /\ Unspawned
    /\ VerdictAge
    /\ RunningIsWatched
    /\ FullWindowHalts
    /\ LatchOwesRecovery

\* The parts of IInv other than typing.
Parts == Unspawned /\ VerdictAge /\ RunningIsWatched /\ FullWindowHalts /\ LatchOwesRecovery

(* Initially nothing has been spawned (supervisor.New).                    *)
LEMMA InitIInv == Init => IInv
<1> SUFFICES ASSUME Init PROVE IInv
  OBVIOUS
<1>1. TypeOK
  <2>1. cmd \in 0..MaxRuns /\ recentExits \in Nat /\ callbacks \in Nat
    BY SupervisorAssumption DEF Init
  <2>2. state \in States /\ wantStop \in BOOLEAN /\ crashLoop \in BOOLEAN /\ cancelled \in SUBSET Contexts
    BY DEF Init, States
  <2>3. run \in [Runs -> RunStates] /\ verdict \in [Runs -> Verdicts] /\ ctx \in [Runs -> Contexts]
    BY DEF Init, RunStates, Verdicts, Contexts
  <2>4. call \in [Callers -> CallStates] /\ target \in [Callers -> 0..MaxRuns]
    BY SupervisorAssumption DEF Init, CallStates
  <2>. QED
    BY <2>1, <2>2, <2>3, <2>4 DEF TypeOK
<1>2. Unspawned /\ VerdictAge
  BY DEF Init, Unspawned, VerdictAge
<1>3. RunningIsWatched /\ LatchOwesRecovery
  BY DEF Init, RunningIsWatched, LatchOwesRecovery
<1>4. FullWindowHalts
  BY SupervisorAssumption DEF Init, FullWindowHalts
<1>. QED
  BY <1>1, <1>2, <1>3, <1>4 DEF IInv

(* A successful spawnLocked, on top of a step that leaves the runs rs      *)
(* behind, keeps every part of the invariant: the new run is the current   *)
(* one, and it is up.                                                      *)
LEMMA SpawnKeeps ==
    ASSUME IInv, NEW k \in Contexts, NEW rs \in [Runs -> RunStates],
           \A r \in Runs : rs[r] = run[r] \/ (run[r] = "sleeping" /\ rs[r] = "done"),
           SpawnOK(k, rs), UNCHANGED callbacks,
           \A c \in Recoveries : call[c] = "recovering" => call'[c] = "recovering"
    PROVE  /\ cmd' \in 0..MaxRuns /\ state' \in States /\ wantStop' \in BOOLEAN
           /\ run' \in [Runs -> RunStates] /\ ctx' \in [Runs -> Contexts]
           /\ Parts'
<1> USE DEF Runs
<1>1. cmd + 1 \in Runs /\ cmd' = cmd + 1 /\ cmd \in 0..MaxRuns
  BY SupervisorAssumption DEF SpawnOK, IInv, TypeOK
<1>2. run' = [rs EXCEPT ![cmd + 1] = "up"] /\ verdict' = verdict
  BY DEF SpawnOK
<1>3. run[cmd + 1] = "none"
  BY <1>1 DEF IInv, Unspawned
<1>4. run' \in [Runs -> RunStates]
  BY <1>1, <1>2 DEF RunStates
<1>5. ctx' \in [Runs -> Contexts]
  BY <1>1 DEF SpawnOK, IInv, TypeOK
<1>6. Unspawned'
  BY <1>1, <1>2, <1>3 DEF IInv, Unspawned, TypeOK
<1>7. VerdictAge'
  BY <1>1, <1>2, <1>3 DEF IInv, VerdictAge, TypeOK
<1>8. RunningIsWatched'
  BY <1>1, <1>2 DEF RunningIsWatched
<1>9. FullWindowHalts'
  BY DEF IInv, FullWindowHalts, SpawnOK
<1>10. LatchOwesRecovery'
  BY <1>2 DEF IInv, LatchOwesRecovery, SpawnOK
<1>11. state' \in States /\ wantStop' \in BOOLEAN
  BY DEF SpawnOK, States
<1>12. Parts'
  BY <1>6, <1>7, <1>8, <1>9, <1>10 DEF Parts
<1>. QED
  BY <1>1, <1>4, <1>5, <1>11, <1>12

(* A failed spawnLocked keeps it too: it changes no run and leaves the     *)
(* state as it was, or crashed.                                            *)
LEMMA SpawnErrKeeps ==
    ASSUME IInv, NEW rs \in [Runs -> RunStates],
           \A r \in Runs : rs[r] = run[r] \/ (run[r] = "sleeping" /\ rs[r] = "done"),
           SpawnErr(rs), UNCHANGED callbacks,
           \A c \in Recoveries : call[c] = "recovering" => call'[c] = "recovering"
    PROVE  state' \in States /\ run' \in [Runs -> RunStates] /\ Parts'
<1>1. Unspawned' /\ VerdictAge'
  BY DEF IInv, Unspawned, VerdictAge, SpawnErr, Runs, TypeOK
<1>2. RunningIsWatched'
  BY DEF IInv, TypeOK, RunningIsWatched, SpawnErr, Runs
<1>3. FullWindowHalts' /\ LatchOwesRecovery'
  BY DEF IInv, FullWindowHalts, LatchOwesRecovery, SpawnErr
<1>. QED
  BY <1>1, <1>2, <1>3 DEF SpawnErr, IInv, TypeOK, States, Parts

(* Every step keeps the invariant.                                         *)
LEMMA NextIInv == IInv /\ [Next]_vars => IInv'
<1> SUFFICES ASSUME IInv, [Next]_vars PROVE IInv'
  OBVIOUS
<1> USE DEF IInv
<1>1. ASSUME NEW r \in Runs, Exit(r) PROVE IInv'
  BY <1>1 DEF Exit, TypeOK, Unspawned, VerdictAge, RunningIsWatched, FullWindowHalts,
     LatchOwesRecovery, supVars, envVars, callVars, RunStates, Runs
<1>2. ASSUME NEW r \in Runs, Reap(r) PROVE IInv'
  <2>1. PICK kept \in 0..recentExits :
          /\ verdict' = [verdict EXCEPT ![r] = Verdict(kept)]
          /\ state' = IF Verdict(kept) = "stop" THEN "stopped" ELSE "crashed"
          /\ recentExits' = IF Verdict(kept) = "stop" THEN recentExits ELSE kept + 1
          /\ crashLoop' = (crashLoop \/ Verdict(kept) = "trip")
    BY <1>2 DEF Reap
  <2>2. /\ Verdict(kept) \in {"stop", "loop", "trip", "respawn"}
        /\ Verdict(kept) = "stop" <=> wantStop
        /\ Verdict(kept) = "trip" <=> (~wantStop /\ ~crashLoop /\ kept + 1 >= CrashThreshold)
    BY DEF Verdict
  <2>3. /\ run[r] = "gone" /\ verdict[r] = "none"
        /\ run' = [run EXCEPT ![r] = "reaped"]
        /\ UNCHANGED <<cmd, wantStop, ctx, cancelled, callbacks, call, target>>
    BY <1>2 DEF Reap, envVars, callVars, VerdictAge
  <2>4. TypeOK'
    BY <2>1, <2>2, <2>3 DEF TypeOK, States, RunStates, Verdicts
  <2>5. Unspawned' /\ VerdictAge'
    BY <2>1, <2>2, <2>3 DEF TypeOK, Unspawned, VerdictAge
  <2>6. RunningIsWatched'
    BY <2>1 DEF RunningIsWatched
  <2>7. FullWindowHalts'
    BY <2>1, <2>2, SupervisorAssumption DEF FullWindowHalts, TypeOK
  <2>8. LatchOwesRecovery'
    BY <2>1, <2>2, <2>3 DEF LatchOwesRecovery, TypeOK
  <2>. QED
    BY <2>4, <2>5, <2>6, <2>7, <2>8
<1>3. ASSUME NEW r \in Runs, Notify(r) PROVE IInv'
  BY <1>3 DEF Notify, TypeOK, Unspawned, VerdictAge, RunningIsWatched, FullWindowHalts,
     LatchOwesRecovery, supVars, envVars, callVars, RunStates, Runs
<1>4. ASSUME NEW r \in Runs, Decide(r) PROVE IInv'
  <2>1. TypeOK'
    BY <1>4 DEF Decide, TypeOK, supVars, callVars, RunStates, Verdicts
  <2>2. Unspawned' /\ VerdictAge' /\ RunningIsWatched' /\ FullWindowHalts'
    BY <1>4 DEF Decide, TypeOK, Unspawned, VerdictAge, RunningIsWatched, FullWindowHalts,
       supVars, callVars, Runs
  <2>3. LatchOwesRecovery'
    BY <1>4 DEF Decide, TypeOK, LatchOwesRecovery, VerdictAge, supVars, callVars
  <2>. QED
    BY <2>1, <2>2, <2>3
<1>5. ASSUME NEW r \in Runs, Respawn(r) PROVE IInv'
  <2> DEFINE rs == [run EXCEPT ![r] = "done"]
  <2>1. /\ rs \in [Runs -> RunStates] /\ run[r] = "sleeping"
        /\ \A x \in Runs : rs[x] = run[x] \/ (run[x] = "sleeping" /\ rs[x] = "done")
        /\ UNCHANGED <<cancelled, callbacks, call, target>>
    BY <1>5 DEF Respawn, TypeOK, RunStates, envVars, callVars
  <2> HIDE DEF rs
  <2>2. CASE run' = rs /\ UNCHANGED <<supVars, verdict, ctx>>
    BY <2>1, <2>2 DEF TypeOK, Unspawned, VerdictAge, RunningIsWatched, FullWindowHalts,
       LatchOwesRecovery, supVars, Runs
  <2>3. CASE SpawnOK(ctx[r], rs)
    BY <2>1, <2>3, SpawnKeeps DEF TypeOK, Parts, SpawnOK
  <2>4. CASE SpawnErr(rs)
    BY <2>1, <2>4, SpawnErrKeeps DEF TypeOK, Parts, SpawnErr
  <2>. QED
    BY <1>5, <2>2, <2>3, <2>4 DEF Respawn, rs
<1>6. ASSUME TripCrashLoop PROVE IInv'
  BY <1>6 DEF TripCrashLoop, TypeOK, Unspawned, VerdictAge, RunningIsWatched, FullWindowHalts,
     LatchOwesRecovery, runVars, callVars
<1>7. ASSUME HealthTimerFires PROVE IInv'
  BY <1>7, SupervisorAssumption DEF HealthTimerFires, TypeOK, Unspawned, VerdictAge,
     RunningIsWatched, FullWindowHalts, LatchOwesRecovery, runVars, envVars, callVars
<1>8. ASSUME Start PROVE IInv'
  <2>1. /\ "main" \in Contexts /\ run \in [Runs -> RunStates]
        /\ UNCHANGED <<cancelled, callbacks, target>>
        /\ call' \in [Callers -> CallStates]
        /\ \A c \in Recoveries : call[c] = "recovering" => call'[c] = "recovering"
    BY <1>8, SupervisorAssumption DEF Start, TypeOK, Contexts, CallStates, Callers, Restarters, envVars
  <2>2. CASE SpawnOK("main", run)
    BY <2>1, <2>2, SpawnKeeps DEF TypeOK, Parts, SpawnOK
  <2>3. CASE SpawnErr(run)
    BY <2>1, <2>3, SpawnErrKeeps DEF TypeOK, Parts, SpawnErr
  <2>. QED
    BY <1>8, <2>2, <2>3 DEF Start
<1>9. ASSUME NEW c \in Restarters, RecoveryBegins(c) PROVE IInv'
  <2>1. TypeOK'
    BY <1>9 DEF RecoveryBegins, TypeOK, supVars, runVars, CallStates, Callers, Restarters
  <2>2. Unspawned' /\ VerdictAge' /\ RunningIsWatched' /\ FullWindowHalts'
    BY <1>9 DEF RecoveryBegins, Unspawned, VerdictAge, RunningIsWatched, FullWindowHalts,
       supVars, runVars
  <2>3. call'[c] = "recovering" /\ c \in Recoveries
    BY <1>9 DEF RecoveryBegins, TypeOK, Callers, Restarters
  <2>. QED
    BY <2>1, <2>2, <2>3 DEF LatchOwesRecovery
<1>10. ASSUME NEW c \in Restarters, RestartMarks(c) PROVE IInv'
  <2>1. TypeOK'
    BY <1>10 DEF RestartMarks, TypeOK, runVars, envVars, States, CallStates, Callers
  <2>2. Unspawned' /\ VerdictAge' /\ RunningIsWatched' /\ LatchOwesRecovery'
    BY <1>10 DEF RestartMarks, Unspawned, VerdictAge, RunningIsWatched, LatchOwesRecovery,
       runVars, envVars
  <2>3. FullWindowHalts'
    BY <1>10, SupervisorAssumption DEF RestartMarks, FullWindowHalts
  <2>. QED
    BY <2>1, <2>2, <2>3
<1>11. ASSUME NEW c \in Restarters, RestartSpawns(c) PROVE IInv'
  <2> DEFINE k == IF c \in Requests THEN c ELSE "background"
  <2>1. /\ k \in Contexts /\ run \in [Runs -> RunStates]
        /\ UNCHANGED <<cancelled, callbacks, target>>
        /\ call' \in [Callers -> CallStates]
        /\ \A x \in Recoveries : call[x] = "recovering" => call'[x] = "recovering"
    BY <1>11 DEF RestartSpawns, TypeOK, Contexts, CallStates, Callers, Restarters, envVars
  <2> HIDE DEF k
  <2>2. CASE SpawnOK(k, run)
    BY <2>1, <2>2, SpawnKeeps DEF TypeOK, Parts, SpawnOK
  <2>3. CASE SpawnErr(run)
    BY <2>1, <2>3, SpawnErrKeeps DEF TypeOK, Parts, SpawnErr
  <2>. QED
    BY <1>11, <2>2, <2>3 DEF RestartSpawns, k
<1>12. ASSUME NEW c \in Restarters, RequestEnds(c) PROVE IInv'
  <2>1. TypeOK'
    BY <1>12 DEF RequestEnds, TypeOK, supVars, runVars, CallStates, Callers, Restarters, Contexts
  <2>2. \A x \in Recoveries : call[x] = "recovering" => call'[x] = "recovering"
    BY <1>12 DEF RequestEnds, TypeOK, Callers, Restarters
  <2>. QED
    BY <1>12, <2>1, <2>2 DEF RequestEnds, Unspawned, VerdictAge, RunningIsWatched,
       FullWindowHalts, LatchOwesRecovery, supVars, runVars
<1>13. ASSUME Shutdown PROVE IInv'
  <2>1. TypeOK'
    BY <1>13 DEF Shutdown, TypeOK, supVars, runVars, CallStates, Callers, Contexts
  <2>2. \A x \in Recoveries : call[x] = "recovering" => call'[x] = "recovering"
    BY <1>13 DEF Shutdown, TypeOK, Callers, Restarters
  <2>. QED
    BY <1>13, <2>1, <2>2 DEF Shutdown, Unspawned, VerdictAge, RunningIsWatched,
       FullWindowHalts, LatchOwesRecovery, supVars, runVars
<1>14. ASSUME NEW c \in Callers, StopProcess(c) PROVE IInv'
  <2>1. TypeOK'
    <3>1. call' \in [Callers -> CallStates] /\ target' \in [Callers -> 0..MaxRuns]
      BY <1>14 DEF StopProcess, TypeOK, CallStates, AfterStop
    <3>2. wantStop' \in BOOLEAN
      BY <1>14 DEF StopProcess
    <3>. QED
      BY <1>14, <3>1, <3>2 DEF StopProcess, TypeOK, runVars, envVars
  <2>2. \A x \in Recoveries : call[x] = "recovering" => call'[x] = "recovering"
    BY <1>14 DEF StopProcess, TypeOK, Callers, Restarters
  <2>. QED
    BY <1>14, <2>1, <2>2 DEF StopProcess, Unspawned, VerdictAge, RunningIsWatched,
       FullWindowHalts, LatchOwesRecovery, runVars, envVars
<1>15. ASSUME NEW c \in Callers, Kill(c) PROVE IInv'
  <2>1. TypeOK'
    BY <1>15 DEF Kill, TypeOK, supVars, envVars, callVars, RunStates
  <2>2. Unspawned' /\ VerdictAge' /\ RunningIsWatched' /\ FullWindowHalts' /\ LatchOwesRecovery'
    BY <1>15 DEF Kill, TypeOK, Unspawned, VerdictAge, RunningIsWatched, FullWindowHalts,
       LatchOwesRecovery, supVars, envVars, callVars, Runs
  <2>. QED
    BY <2>1, <2>2
<1>16. ASSUME NEW c \in Callers, StopReturns(c) PROVE IInv'
  <2>1. TypeOK'
    BY <1>16, SupervisorAssumption DEF StopReturns, TypeOK, supVars, runVars, envVars, CallStates, AfterStop
  <2>2. \A x \in Recoveries : call[x] = "recovering" => call'[x] = "recovering"
    BY <1>16 DEF StopReturns, TypeOK, Callers, Restarters
  <2>. QED
    BY <1>16, <2>1, <2>2 DEF StopReturns, Unspawned, VerdictAge, RunningIsWatched,
       FullWindowHalts, LatchOwesRecovery, supVars, runVars, envVars
<1>17. ASSUME UNCHANGED vars PROVE IInv'
  BY <1>17 DEF TypeOK, Unspawned, VerdictAge, RunningIsWatched, FullWindowHalts,
     LatchOwesRecovery, vars, supVars, runVars, envVars, callVars
<1>. QED
  BY <1>1, <1>2, <1>3, <1>4, <1>5, <1>6, <1>7, <1>8, <1>9, <1>10, <1>11, <1>12, <1>13, <1>14,
     <1>15, <1>16, <1>17 DEF Next, Watcher, Restarter, Stopper

(* The inductive invariant holds in every reachable state.                 *)
THEOREM Invariance == Spec => []IInv
<1>. QED
  BY InitIInv, NextIInv, PTL DEF Spec

(* The fields of the supervisor keep their types whatever the goroutines   *)
(* of spawnLocked, Restart and Stop do.                                    *)
THEOREM Typing == Spec => []TypeOK
<1>1. IInv => TypeOK
  BY DEF IInv
<1>. QED
  BY <1>1, Invariance, PTL

(* Status() never reports a reaped process as running                      *)
(* (supervisor.go:173-182).                                                *)
THEOREM RunningProcessIsWatched == Spec => []RunningIsWatched
<1>1. IInv => RunningIsWatched
  BY DEF IInv
<1>. QED
  BY <1>1, Invariance, PTL

(* A full crash window implies the latch (supervisor.go:183-201).          *)
THEOREM FullWindowHaltsRespawn == Spec => []FullWindowHalts
<1>1. IInv => FullWindowHalts
  BY DEF IInv
<1>. QED
  BY <1>1, Invariance, PTL

(* A set latch is never forgotten: a recovery is owed, at work, or was     *)
(* swallowed by a cancelled context (supervisor.go:206, 387-400).          *)
THEOREM LatchAlwaysOwesRecovery == Spec => []LatchOwesRecovery
<1>1. IInv => LatchOwesRecovery
  BY DEF IInv
<1>. QED
  BY <1>1, Invariance, PTL
=============================================================================
