----------------------------- MODULE BansProofs -----------------------------
(***************************************************************************)
(* The safety invariants of Bans, for every set of clients, every number   *)
(* of concurrent API calls and every choice of thresholds.                 *)
(***************************************************************************)
EXTENDS Bans, TLAPS

\* While it counts, or reads the settings in order to count, the worker has an event in hand.
InHand == pc[Worker] \in LoadSteps \cup {"count"} => ip[Worker] \in IPs

\* SetBanConfig has written at least one key and not yet refreshed the cache.
Wrote(t) == pc[t] \in {"setThreshold", "storeSet"}

\* What a task in BanConfig or SetBanConfig has in hand agrees with the table.
Copied(t) ==
    /\ pc[t] \in {"loadThreshold", "setThreshold"} => cfg[t].enabled = setting.enabled
    /\ pc[t] \in {"storeLoaded", "storeSet"} => cfg[t] = setting

(* Why the cache agrees: while nothing has gone around SetBanConfig, a     *)
(* half-done write is alone, nobody loads beside it, and what is about to  *)
(* be cached is what the table says.                                       *)
Exclusive == \A t, u \in Tasks : Wrote(t) /\ u # t => ~Wrote(u) /\ ~Loading(u)
CacheInv ==
    ~tainted =>
        /\ Exclusive
        /\ \A t \in Tasks : Copied(t)
        /\ (\A t \in Tasks : ~Wrote(t)) => cache \in {NoCache, setting}

(* The inductive invariant.  BansAreOwed and LiftsAreOwed are inductive on *)
(* their own; CacheAgrees is not, and CacheInv implies it.                 *)
IInv == TypeOK /\ InHand /\ BansAreOwed /\ LiftsAreOwed /\ CacheInv

-----------------------------------------------------------------------------
(* Initially the table is empty and nothing is cached.                     *)
LEMMA InitIInv == Init => IInv
<1> SUFFICES ASSUME Init PROVE IInv
  OBVIOUS
<1>1. TypeOK
  <2>1. Defaults \in BanConfigs
    BY BansAssumption DEF Defaults, BanConfigs
  <2>2. hits \in [IPs -> Nat] /\ \A a \in IPs : \E n \in Thresholds : hits[a] < n
    BY BansAssumption DEF Init
  <2>3. row \in [IPs -> {"none", "expired"} \cup Kinds] /\ setting \in BanConfigs /\ cache = NoCache
    BY DEF Init
  <2>4. pc \in [Tasks -> Steps] /\ ip \in [Tasks -> IPs \cup {NoIP}] /\ cfg \in [Tasks -> BanConfigs]
    BY <2>1 DEF Init, Steps
  <2>5. events \in 0..MaxEvents /\ calls \in 0..MaxCalls /\ faults \in 0..MaxFaults
    BY BansAssumption DEF Init
  <2>. QED
    BY <2>2, <2>3, <2>4, <2>5 DEF Init, TypeOK
<1>2. InHand
  BY DEF Init, InHand, LoadSteps, Tasks
<1>3. BansAreOwed /\ LiftsAreOwed
  BY DEF Init, BansAreOwed, LiftsAreOwed, Active, Kinds
<1>4. CacheInv
  BY DEF Init, CacheInv, Exclusive, Wrote, Loading, LoadSteps, Copied, Tasks
<1>. QED
  BY <1>1, <1>2, <1>3, <1>4 DEF IInv

(* BanConfig's entry, by any caller, keeps the types it touches.           *)
LEMMA CallTypes ==
    ASSUME TypeOK, NEW t \in Tasks, CallBanConfig(t)
    PROVE  pc' \in [Tasks -> Steps] /\ cfg' \in [Tasks -> BanConfigs] /\ tainted' \in BOOLEAN
BY BansAssumption DEF TypeOK, CallBanConfig, AfterConfig, Steps, LoadSteps, SetSteps, BanConfigs, Defaults

(* Leaving a handler or an iteration of a loop keeps the types of a task.  *)
LEMMA ReturnTypes ==
    ASSUME TypeOK, NEW t \in Tasks, Return(t)
    PROVE  pc' \in [Tasks -> Steps] /\ ip' \in [Tasks -> IPs \cup {NoIP}] /\ cfg' \in [Tasks -> BanConfigs]
BY BansAssumption DEF TypeOK, Return, Steps, BanConfigs, Defaults

(* A failing statement stays within its bound.                             *)
LEMMA FaultTypes ==
    ASSUME faults \in 0..MaxFaults, Fault \/ NoFault
    PROVE  faults' \in 0..MaxFaults
BY BansAssumption DEF Fault, NoFault

(* Every step keeps the types; a row is never lost from the domain and no  *)
(* window outgrows the largest threshold (bans.go:111-114).                *)
LEMMA TypeStep ==
    ASSUME TypeOK, InHand, [Next]_vars
    PROVE  TypeOK'
<1> USE DEF taskVars, obsVars, boundVars, dataVars
<1>0. Defaults \in BanConfigs
  BY BansAssumption DEF Defaults, BanConfigs
<1>1. ASSUME NEW t \in Tasks, LoadEnabled(t) \/ LoadThreshold(t) PROVE TypeOK'
  <2>1. cfg' \in [Tasks -> BanConfigs]
    BY <1>0, <1>1 DEF LoadEnabled, LoadThreshold, TypeOK, BanConfigs
  <2>2. faults' \in 0..MaxFaults
    BY <1>1, FaultTypes DEF LoadEnabled, LoadThreshold, TypeOK
  <2>4. tainted' \in BOOLEAN
    BY <1>1, Zenon DEF LoadEnabled, LoadThreshold, TypeOK
  <2>3. pc' \in [Tasks -> Steps]
    BY <1>1 DEF LoadEnabled, LoadThreshold, Goto, TypeOK, Steps, LoadSteps
  <2>. QED
    BY <1>1, <2>1, <2>2, <2>3, <2>4 DEF LoadEnabled, LoadThreshold, TypeOK
<1>2. ASSUME NEW t \in Tasks, StoreLoaded(t) PROVE TypeOK'
  BY <1>2 DEF StoreLoaded, Goto, AfterConfig, TypeOK, Steps, SetSteps
<1>3. ASSUME NEW t \in Tasks, SetEnabled(t) \/ SetThreshold(t) PROVE TypeOK'
  <2>1. cfg' \in [Tasks -> BanConfigs] /\ setting' \in BanConfigs
    BY <1>3 DEF SetEnabled, SetThreshold, TypeOK, BanConfigs
  <2>3. tainted' \in BOOLEAN
    BY <1>3, Zenon DEF SetEnabled, SetThreshold, Beside, TypeOK
  <2>2. pc' \in [Tasks -> Steps]
    BY <1>3 DEF SetEnabled, SetThreshold, Goto, TypeOK, Steps, SetSteps
  <2>. QED
    BY <1>3, <2>1, <2>2, <2>3 DEF SetEnabled, SetThreshold, TypeOK
<1>4. ASSUME NEW t \in Tasks, StoreSet(t) \/ SetFails(t) PROVE TypeOK'
  <2>1. tainted' \in BOOLEAN
    <3>1. CASE StoreSet(t)
      BY <3>1 DEF StoreSet, TypeOK
    <3>2. CASE SetFails(t)
      <4>1. tainted \in BOOLEAN /\ tainted' = (tainted /\ Beside(t))
        BY <3>2 DEF SetFails, TypeOK
      <4>. QED
        BY <4>1
    <3>. QED
      BY <1>4, <3>1, <3>2
  <2>2. cache' \in BanConfigs \cup {NoCache} /\ faults' \in 0..MaxFaults
    BY <1>4, BansAssumption DEF StoreSet, SetFails, Fault, TypeOK
  <2>. QED
    BY <1>4, <2>1, <2>2, ReturnTypes DEF StoreSet, SetFails, TypeOK
<1>21. ASSUME NEW t \in Tasks, WriteEnabled(t) \/ WriteThreshold(t) PROVE TypeOK'
  <2>1. setting' \in BanConfigs
    BY <1>21 DEF WriteEnabled, WriteThreshold, TypeOK, BanConfigs
  <2>2. pc' \in [Tasks -> Steps]
    BY <1>21 DEF WriteEnabled, WriteThreshold, Goto, TypeOK, Steps, OtherSteps
  <2>3. tainted' \in BOOLEAN
    BY <1>21, Zenon DEF WriteEnabled, WriteThreshold, TypeOK
  <2>. QED
    BY <1>21, <2>1, <2>2, <2>3 DEF WriteEnabled, WriteThreshold, TypeOK
<1>5. ASSUME NEW t \in Tasks, UpdateBan(t) \/ InsertBan(t) PROVE TypeOK'
  <2>1. row' \in [IPs -> {"none", "expired"} \cup Kinds]
    BY <1>5 DEF UpdateBan, InsertBan, TypeOK
  <2>2. pc' \in [Tasks -> Steps] /\ ip' \in [Tasks -> IPs \cup {NoIP}] /\ cfg' \in [Tasks -> BanConfigs]
    BY <1>5, ReturnTypes DEF UpdateBan, InsertBan, Goto, AfterAddBan, TypeOK, Steps
  <2>. QED
    BY <1>5, <2>1, <2>2 DEF UpdateBan, InsertBan, TypeOK
<1>6. ASSUME NEW t \in Tasks, DeleteBan(t) \/ ForgetHits(t) PROVE TypeOK'
  <2>1. hits' \in [IPs -> Nat] /\ \A a \in IPs : \E n \in Thresholds : hits'[a] < n
    BY <1>6, BansAssumption DEF DeleteBan, ForgetHits, TypeOK
  <2>2. row' \in [IPs -> {"none", "expired"} \cup Kinds] /\ pc' \in [Tasks -> Steps]
    BY <1>6 DEF DeleteBan, ForgetHits, Goto, TypeOK, Steps
  <2>. QED
    BY <1>6, <2>1, <2>2 DEF DeleteBan, ForgetHits, TypeOK
<1>7. ASSUME NEW t \in Tasks, StatementFails(t) \/ ReloadReturns(t) \/ ReloadFails(t) PROVE TypeOK'
  <2>1. faults' \in 0..MaxFaults
    BY <1>7, FaultTypes DEF StatementFails, ReloadReturns, ReloadFails, NoFault, TypeOK
  <2>2. failed' \in BOOLEAN
    BY <1>7, Zenon DEF StatementFails, ReloadReturns, ReloadFails, TypeOK
  <2>. QED
    BY <1>7, <2>1, <2>2, ReturnTypes DEF StatementFails, ReloadReturns, ReloadFails, TypeOK
<1>8. ASSUME NEW t \in Tasks, ReadBans(t) PROVE TypeOK'
  BY <1>8 DEF ReadBans, Goto, Active, TypeOK, Steps
<1>9. CASE CountBlock
  <2>1. Worker \in Tasks
    BY DEF Tasks
  <2>2. hits' \in [IPs -> Nat] /\ \A a \in IPs : \E n \in Thresholds : hits'[a] < n
    <3>1. CASE UNCHANGED hits
      BY <3>1 DEF TypeOK
    <3>2. ASSUME NEW kept \in 0..hits[ip[Worker]], kept + 1 < cfg[Worker].threshold,
                 hits' = [hits EXCEPT ![ip[Worker]] = kept + 1]
          PROVE  hits' \in [IPs -> Nat] /\ \A a \in IPs : \E n \in Thresholds : hits'[a] < n
      <4>1. cfg[Worker].threshold \in Thresholds
        BY <2>1 DEF TypeOK, BanConfigs
      <4>2. ip[Worker] \in IPs
        BY <1>9 DEF CountBlock, InHand
      <4>3. kept + 1 \in Nat /\ hits' \in [IPs -> Nat]
        BY <3>2, <4>2 DEF TypeOK
      <4>4. ASSUME NEW a \in IPs PROVE \E n \in Thresholds : hits'[a] < n
        BY <3>2, <4>1, <4>2 DEF TypeOK
      <4>. QED
        BY <4>3, <4>4
    <3>3. ASSUME hits' = [hits EXCEPT ![ip[Worker]] = 0]
          PROVE  hits' \in [IPs -> Nat] /\ \A a \in IPs : \E n \in Thresholds : hits'[a] < n
      <4>1. 0 < DefaultThreshold
        BY BansAssumption
      <4>2. hits' \in [IPs -> Nat]
        BY <3>3 DEF TypeOK
      <4>3. ASSUME NEW a \in IPs PROVE \E n \in Thresholds : hits'[a] < n
        BY <3>3, <4>1, BansAssumption DEF TypeOK
      <4>. QED
        BY <4>2, <4>3
    <3>. QED
      BY <1>9, <3>1, <3>2, <3>3 DEF CountBlock
  <2>3. pc' \in [Tasks -> Steps] /\ ip' \in [Tasks -> IPs \cup {NoIP}] /\ cfg' \in [Tasks -> BanConfigs]
    BY <1>9, <2>1, ReturnTypes DEF CountBlock, Goto, TypeOK, Steps
  <2>. QED
    BY <1>9, <2>2, <2>3 DEF CountBlock, TypeOK
<1>10. CASE CheckBanned \/ ScheduleBanReload
  <2>1. Worker \in Tasks
    BY DEF Tasks
  <2>2. faults' \in 0..MaxFaults
    BY <1>10, FaultTypes DEF CheckBanned, ScheduleBanReload, NoFault, TypeOK
  <2>3. pc' \in [Tasks -> Steps] /\ ip' \in [Tasks -> IPs \cup {NoIP}] /\ cfg' \in [Tasks -> BanConfigs]
    BY <1>10, <2>1, ReturnTypes DEF CheckBanned, ScheduleBanReload, Goto, TypeOK, Steps
  <2>. QED
    BY <1>10, <2>2, <2>3 DEF CheckBanned, ScheduleBanReload, TypeOK
<1>11. CASE LoopWakes \/ Debounced
  BY <1>11 DEF LoopWakes, Debounced, Goto, TypeOK, Steps, Tasks
<1>12. CASE PruneTick
  <2>1. Pruner \in Tasks
    BY DEF Tasks
  <2>. QED
    BY <1>12, <2>1, CallTypes DEF PruneTick, TypeOK
<1>13. CASE SweepBanHits
  BY <1>0, <1>13, BansAssumption DEF SweepBanHits, Goto, TypeOK, Steps, Tasks
<1>14. CASE PruneExpiredBans
  BY <1>0, <1>14 DEF PruneExpiredBans, Goto, Return, TypeOK, Steps, Tasks, Kinds
<1>15. ASSUME NEW a \in IPs, WAFEvent(a) PROVE TypeOK'
  <2>1. Worker \in Tasks
    BY DEF Tasks
  <2>. QED
    BY <1>15, <2>1, CallTypes, BansAssumption DEF WAFEvent, TypeOK
<1>16. ASSUME NEW a \in IPs, Expire(a) PROVE TypeOK'
  BY <1>16 DEF Expire, TypeOK
<1>17. ASSUME NEW t \in Calls, SetConfig(t) PROVE TypeOK'
  <2>1. t \in Tasks
    BY DEF Tasks
  <2>. QED
    BY <1>17, <2>1, CallTypes, BansAssumption DEF SetConfig, TypeOK
<1>18. ASSUME NEW t \in Calls, RestoreSettings(t) \/ PutSettings(t) PROVE TypeOK'
  BY <1>18, BansAssumption DEF RestoreSettings, PutSettings, TypeOK, Steps, OtherSteps, Tasks
<1>19. ASSUME NEW t \in Calls, NEW a \in IPs, ManualBan(t, a) \/ RemoveBan(t, a) PROVE TypeOK'
  BY <1>19, BansAssumption DEF ManualBan, RemoveBan, TypeOK, Steps, Tasks
<1>20. CASE UNCHANGED vars
  BY <1>20 DEF vars, TypeOK
<1>. QED
  BY <1>1, <1>2, <1>3, <1>4, <1>5, <1>6, <1>7, <1>8, <1>9, <1>10, <1>11, <1>12, <1>13, <1>14, <1>15,
     <1>16, <1>17, <1>18, <1>19, <1>20, <1>21
     DEF Next, TaskStep, ConfigStep, TableStep, ReloadStep, WorkerStep, LoopStep, PrunerStep

(* Only WAFEvent takes the worker into BanConfig, and it brings an address *)
(* along (bans.go:86-95).                                                  *)
LEMMA InHandStep ==
    ASSUME TypeOK, InHand, [Next]_vars
    PROVE  InHand'
<1>0. Worker \in Tasks
  BY DEF Tasks
<1> USE <1>0 DEF taskVars, dataVars, InHand, LoadSteps
<1>1. ASSUME NEW t \in Tasks, LoadEnabled(t) \/ LoadThreshold(t) \/ StoreLoaded(t) PROVE InHand'
  BY <1>1 DEF LoadEnabled, LoadThreshold, StoreLoaded, Goto, TypeOK
<1>2. ASSUME NEW t \in Tasks, SetEnabled(t) \/ SetThreshold(t) \/ StoreSet(t) \/ SetFails(t) PROVE InHand'
  BY <1>2 DEF SetEnabled, SetThreshold, StoreSet, SetFails, Goto, Return, TypeOK
<1>12. ASSUME NEW t \in Tasks, WriteEnabled(t) \/ WriteThreshold(t) PROVE InHand'
  BY <1>12 DEF WriteEnabled, WriteThreshold, Goto, TypeOK
<1>3. ASSUME NEW t \in Tasks,
             UpdateBan(t) \/ InsertBan(t) \/ DeleteBan(t) \/ ForgetHits(t) \/ StatementFails(t)
      PROVE  InHand'
  BY <1>3 DEF UpdateBan, InsertBan, DeleteBan, ForgetHits, StatementFails, AfterAddBan, Goto, Return, TypeOK
<1>4. ASSUME NEW t \in Tasks, ReadBans(t) \/ ReloadReturns(t) \/ ReloadFails(t) PROVE InHand'
  BY <1>4 DEF ReadBans, ReloadReturns, ReloadFails, Goto, Return, TypeOK
<1>5. CASE CountBlock \/ CheckBanned \/ ScheduleBanReload
  BY <1>5 DEF CountBlock, CheckBanned, ScheduleBanReload, Goto, Return, TypeOK
<1>6. CASE LoopWakes \/ Debounced
  BY <1>6 DEF LoopWakes, Debounced, Goto, TypeOK
<1>7. CASE PruneTick \/ SweepBanHits \/ PruneExpiredBans
  BY <1>7, BansAssumption DEF PruneTick, CallBanConfig, SweepBanHits, PruneExpiredBans, Goto, Return, TypeOK
<1>8. ASSUME NEW a \in IPs, WAFEvent(a) \/ Expire(a) PROVE InHand'
  BY <1>8 DEF WAFEvent, Expire, TypeOK, Tasks
<1>9. ASSUME NEW t \in Calls, SetConfig(t) \/ RestoreSettings(t) \/ PutSettings(t) PROVE InHand'
  BY <1>9, BansAssumption DEF SetConfig, CallBanConfig, RestoreSettings, PutSettings, TypeOK
<1>10. ASSUME NEW t \in Calls, NEW a \in IPs, ManualBan(t, a) \/ RemoveBan(t, a) PROVE InHand'
  BY <1>10, BansAssumption DEF ManualBan, RemoveBan, TypeOK
<1>11. CASE UNCHANGED vars
  BY <1>11 DEF vars
<1>. QED
  BY <1>1, <1>2, <1>3, <1>4, <1>5, <1>6, <1>7, <1>8, <1>9, <1>10, <1>11, <1>12
     DEF Next, TaskStep, ConfigStep, TableStep, ReloadStep, WorkerStep, LoopStep, PrunerStep

-----------------------------------------------------------------------------
(* A step owes nothing new when it leaves the table and the latest Reload  *)
(* alone and when no task turns away from a Reload it is on the way to.    *)
Quiet ==
    /\ UNCHANGED <<row, carried, failed, signal>>
    /\ \A t \in Tasks : pc[t] \in {"signal", "debounce", "forget", "read"} => pc'[t] = pc[t]

(* A quiet step owes nothing new.                                          *)
LEMMA QuietOwesNothing ==
    ASSUME BansAreOwed, LiftsAreOwed, Quiet
    PROVE  BansAreOwed' /\ LiftsAreOwed'
BY DEF BansAreOwed, LiftsAreOwed, Quiet, Active, Tasks

(* Settings, counting and the beginnings of calls are quiet.               *)
LEMMA QuietSteps ==
    ASSUME TypeOK,
           \/ \E t \in Tasks : ConfigStep(t) \/ StatementFails(t) \/ ReloadReturns(t)
           \/ CountBlock \/ CheckBanned \/ PruneTick \/ SweepBanHits
           \/ \E a \in IPs : WAFEvent(a)
           \/ \E t \in Calls : SetConfig(t) \/ RestoreSettings(t) \/ PutSettings(t)
           \/ \E t \in Calls, a \in IPs : ManualBan(t, a) \/ RemoveBan(t, a)
           \/ UNCHANGED vars
    PROVE  Quiet
<1> USE DEF taskVars, obsVars, dataVars
<1>1. ASSUME NEW t \in Tasks, LoadEnabled(t) \/ LoadThreshold(t) \/ StoreLoaded(t) PROVE Quiet
  BY <1>1 DEF LoadEnabled, LoadThreshold, StoreLoaded, Goto, Quiet, TypeOK
<1>2. ASSUME NEW t \in Tasks, SetEnabled(t) \/ SetThreshold(t) \/ StoreSet(t) \/ SetFails(t) PROVE Quiet
  BY <1>2 DEF SetEnabled, SetThreshold, StoreSet, SetFails, Goto, Return, Quiet, TypeOK
<1>10. ASSUME NEW t \in Tasks, WriteEnabled(t) \/ WriteThreshold(t) PROVE Quiet
  BY <1>10 DEF WriteEnabled, WriteThreshold, Goto, Quiet, TypeOK
<1>3. ASSUME NEW t \in Tasks, StatementFails(t) \/ ReloadReturns(t) PROVE Quiet
  BY <1>3 DEF StatementFails, ReloadReturns, Return, Quiet, TypeOK
<1>4. CASE CountBlock \/ CheckBanned
  BY <1>4 DEF CountBlock, CheckBanned, Goto, Return, Quiet, TypeOK
<1>5. CASE PruneTick \/ SweepBanHits
  BY <1>5 DEF PruneTick, CallBanConfig, SweepBanHits, Goto, Quiet, TypeOK
<1>6. ASSUME NEW a \in IPs, WAFEvent(a) PROVE Quiet
  BY <1>6 DEF WAFEvent, CallBanConfig, Quiet, TypeOK
<1>7. ASSUME NEW t \in Calls, SetConfig(t) \/ RestoreSettings(t) \/ PutSettings(t) PROVE Quiet
  BY <1>7 DEF SetConfig, CallBanConfig, RestoreSettings, PutSettings, Quiet, TypeOK
<1>8. ASSUME NEW t \in Calls, NEW a \in IPs, ManualBan(t, a) \/ RemoveBan(t, a) PROVE Quiet
  BY <1>8 DEF ManualBan, RemoveBan, Quiet, TypeOK
<1>9. CASE UNCHANGED vars
  BY <1>9 DEF vars, Quiet
<1>. QED
  BY <1>1, <1>2, <1>3, <1>4, <1>5, <1>6, <1>7, <1>8, <1>9, <1>10 DEF ConfigStep

(* No step loses a wake-up: whoever changes the table ends up on the way   *)
(* to a Reload, and whoever leaves that way has read the table or failed   *)
(* (bans.go:136-244).                                                      *)
LEMMA OwedStep ==
    ASSUME TypeOK, BansAreOwed, LiftsAreOwed, [Next]_vars
    PROVE  BansAreOwed' /\ LiftsAreOwed'
<1> USE DEF taskVars, obsVars, dataVars, BansAreOwed, LiftsAreOwed, Active
<1>1. ASSUME NEW t \in Tasks, UpdateBan(t) PROVE BansAreOwed' /\ LiftsAreOwed'
  BY <1>1 DEF UpdateBan, Goto, AfterAddBan, TypeOK, Tasks
<1>2. ASSUME NEW t \in Tasks, InsertBan(t) PROVE BansAreOwed' /\ LiftsAreOwed'
  BY <1>2 DEF InsertBan, Goto, Return, AfterAddBan, TypeOK, Tasks
<1>3. ASSUME NEW t \in Tasks, DeleteBan(t) \/ ForgetHits(t) PROVE BansAreOwed' /\ LiftsAreOwed'
  BY <1>3 DEF DeleteBan, ForgetHits, Goto, TypeOK, Tasks, Kinds
<1>4. ASSUME NEW t \in Tasks, ReadBans(t) \/ ReloadFails(t) PROVE BansAreOwed' /\ LiftsAreOwed'
  BY <1>4 DEF ReadBans, ReloadFails, TypeOK
<1>5. CASE ScheduleBanReload
  BY <1>5 DEF ScheduleBanReload, Return, TypeOK, Tasks
<1>6. CASE LoopWakes \/ Debounced
  BY <1>6 DEF LoopWakes, Debounced, Goto, TypeOK, Tasks
<1>7. CASE PruneExpiredBans
  BY <1>7 DEF PruneExpiredBans, Goto, Return, TypeOK, Tasks, Kinds
<1>8. ASSUME NEW a \in IPs, Expire(a) PROVE BansAreOwed' /\ LiftsAreOwed'
  BY <1>8 DEF Expire, TypeOK, Kinds
<1>9. ASSUME Quiet PROVE BansAreOwed' /\ LiftsAreOwed'
  BY <1>9, QuietOwesNothing
<1>. QED
  BY <1>1, <1>2, <1>3, <1>4, <1>5, <1>6, <1>7, <1>8, <1>9, QuietSteps
     DEF Next, TaskStep, TableStep, ReloadStep, WorkerStep, LoopStep, PrunerStep

-----------------------------------------------------------------------------
(* A step leaves the cache argument alone when it touches neither side and *)
(* no task enters, moves in or leaves a load or a write, nor loses what it *)
(* has in hand there.                                                      *)
Aside ==
    /\ UNCHANGED <<setting, cache, tainted>>
    /\ \A t \in Tasks :
         /\ (Wrote(t) <=> Wrote(t)') /\ (Loading(t)' => Loading(t))
         /\ Wrote(t) \/ Loading(t) => pc'[t] = pc[t] /\ cfg'[t] = cfg[t]

(* A step beside the settings leaves the cache coherent.                   *)
LEMMA AsideKeepsCache ==
    ASSUME CacheInv, Aside
    PROVE  CacheInv'
BY DEF CacheInv, Aside, Exclusive, Wrote, Loading, LoadSteps, Copied

(* Everything but loading and writing settings is aside.                   *)
LEMMA AsideSteps ==
    ASSUME TypeOK,
           \/ \E t \in Tasks : TableStep(t) \/ ReloadStep(t)
           \/ WorkerStep \/ LoopStep \/ SweepBanHits \/ PruneExpiredBans
           \/ \E a \in IPs : Expire(a)
           \/ \E t \in Calls, a \in IPs : ManualBan(t, a) \/ RemoveBan(t, a)
           \/ \E t \in Calls : RestoreSettings(t) \/ PutSettings(t)
           \/ UNCHANGED vars
    PROVE  Aside
<1> USE DEF taskVars, obsVars, dataVars, Wrote, Loading, LoadSteps
<1>1. ASSUME NEW t \in Tasks, UpdateBan(t) \/ InsertBan(t) \/ DeleteBan(t) PROVE Aside
  BY <1>1 DEF UpdateBan, InsertBan, DeleteBan, Goto, Return, AfterAddBan, Aside, TypeOK
<1>2. ASSUME NEW t \in Tasks, ForgetHits(t) \/ StatementFails(t) PROVE Aside
  BY <1>2 DEF ForgetHits, StatementFails, Goto, Return, Aside, TypeOK
<1>3. ASSUME NEW t \in Tasks, ReadBans(t) \/ ReloadReturns(t) \/ ReloadFails(t) PROVE Aside
  BY <1>3 DEF ReadBans, ReloadReturns, ReloadFails, Goto, Return, Aside, TypeOK
<1>4. CASE CountBlock \/ CheckBanned \/ ScheduleBanReload
  BY <1>4 DEF CountBlock, CheckBanned, ScheduleBanReload, Goto, Return, Aside, TypeOK
<1>5. CASE LoopWakes \/ Debounced
  BY <1>5 DEF LoopWakes, Debounced, Goto, Aside, TypeOK
<1>6. CASE SweepBanHits \/ PruneExpiredBans
  BY <1>6 DEF SweepBanHits, PruneExpiredBans, Goto, Return, Aside, TypeOK
<1>7. ASSUME NEW a \in IPs, Expire(a) PROVE Aside
  BY <1>7 DEF Expire, Aside
<1>8. ASSUME NEW t \in Calls, NEW a \in IPs, ManualBan(t, a) \/ RemoveBan(t, a) PROVE Aside
  BY <1>8 DEF ManualBan, RemoveBan, Aside, TypeOK
<1>9. CASE UNCHANGED vars
  BY <1>9 DEF vars, Aside
<1>10. ASSUME NEW t \in Calls, RestoreSettings(t) \/ PutSettings(t) PROVE Aside
  BY <1>10 DEF RestoreSettings, PutSettings, Aside, TypeOK
<1>. QED
  BY <1>1, <1>2, <1>3, <1>4, <1>5, <1>6, <1>7, <1>8, <1>9, <1>10
     DEF TableStep, ReloadStep, WorkerStep, LoopStep

(* A caller that finds a cache copies nothing; one that starts a load      *)
(* beside a write taints the cache (bans.go:48-55).                        *)
LEMMA CallKeepsCache ==
    ASSUME TypeOK, CacheInv, NEW t \in Tasks, pc[t] = "idle", CallBanConfig(t), UNCHANGED <<setting, cache>>
    PROVE  CacheInv'
BY DEF TypeOK, CacheInv, CallBanConfig, AfterConfig, Exclusive, Wrote, Writing, Loading, LoadSteps, SetSteps,
   Copied

(* Two settings that agree key by key are equal.                           *)
LEMMA SameSettings ==
    ASSUME NEW c \in BanConfigs, NEW d \in BanConfigs, c.enabled = d.enabled, c.threshold = d.threshold
    PROVE  c = d
BY DEF BanConfigs

(* Loads and writes keep the cache argument: the reads of a load see one   *)
(* state of the table, and a write ends by caching what it wrote or by     *)
(* dropping the cache (bans.go:52-80).                                     *)
LEMMA CacheStep ==
    ASSUME TypeOK, CacheInv, [Next]_vars
    PROVE  CacheInv'
<1> USE DEF taskVars, obsVars, dataVars, CacheInv, Exclusive, Wrote, Loading, LoadSteps, Copied
<1>1. ASSUME NEW t \in Tasks, LoadEnabled(t) PROVE CacheInv'
  BY <1>1 DEF LoadEnabled, Goto, TypeOK, BanConfigs
<1>2. ASSUME NEW t \in Tasks, LoadThreshold(t) PROVE CacheInv'
  <2>1. ASSUME ~tainted' PROVE cfg'[t] = setting
    <3>1. cfg[t].enabled = setting.enabled /\ cfg'[t] = [cfg[t] EXCEPT !.threshold = setting.threshold]
      BY <1>2, <2>1 DEF LoadThreshold, Goto, TypeOK
    <3>. QED
      BY <3>1, SameSettings DEF TypeOK, BanConfigs
  <2>. QED
    BY <1>2, <2>1 DEF LoadThreshold, Goto, TypeOK
<1>3. ASSUME NEW t \in Tasks, StoreLoaded(t) PROVE CacheInv'
  BY <1>3 DEF StoreLoaded, Goto, AfterConfig, TypeOK
<1>4. ASSUME NEW t \in Tasks, SetEnabled(t) PROVE CacheInv'
  BY <1>4 DEF SetEnabled, Goto, Beside, Writing, SetSteps, TypeOK, BanConfigs
<1>5. ASSUME NEW t \in Tasks, SetThreshold(t) PROVE CacheInv'
  <2>1. ASSUME ~tainted PROVE setting' = cfg[t]
    <3>1. cfg[t].enabled = setting.enabled /\ setting' = [setting EXCEPT !.threshold = cfg[t].threshold]
      BY <1>5, <2>1 DEF SetThreshold, Goto
    <3>. QED
      BY <3>1, SameSettings DEF TypeOK, BanConfigs
  <2>. QED
    BY <1>5, <2>1 DEF SetThreshold, Goto, TypeOK
<1>6. ASSUME NEW t \in Tasks, StoreSet(t) PROVE CacheInv'
  BY <1>6 DEF StoreSet, Return, TypeOK
<1>12. ASSUME NEW t \in Tasks, SetFails(t) PROVE CacheInv'
  <2>1. CASE Beside(t)
    BY <1>12, <2>1 DEF SetFails, Return, TypeOK
  <2>2. CASE ~Beside(t)
    BY <1>12, <2>2 DEF SetFails, Return, Beside, Writing, SetSteps, TypeOK
  <2>. QED
    BY <2>1, <2>2
<1>7. ASSUME NEW t \in Tasks, WriteEnabled(t) \/ WriteThreshold(t) PROVE CacheInv'
  <2>1. CASE setting' # setting
    BY <1>7, <2>1 DEF WriteEnabled, WriteThreshold
  <2>2. CASE setting' = setting
    <3>1. Aside
      BY <1>7, <2>2 DEF WriteEnabled, WriteThreshold, Goto, Aside, TypeOK
    <3>. QED
      BY <3>1, AsideKeepsCache
  <2>. QED
    BY <2>1, <2>2
<1>8. CASE PruneTick
  BY <1>8, CallKeepsCache DEF PruneTick, Tasks
<1>9. ASSUME NEW a \in IPs, WAFEvent(a) PROVE CacheInv'
  BY <1>9, CallKeepsCache DEF WAFEvent, Tasks
<1>10. ASSUME NEW t \in Calls, SetConfig(t) PROVE CacheInv'
  BY <1>10, CallKeepsCache DEF SetConfig, Tasks
<1>11. ASSUME Aside PROVE CacheInv'
  BY <1>11, AsideKeepsCache
<1>. QED
  BY <1>1, <1>2, <1>3, <1>4, <1>5, <1>6, <1>7, <1>8, <1>9, <1>10, <1>11, <1>12, AsideSteps
     DEF Next, TaskStep, ConfigStep, PrunerStep

-----------------------------------------------------------------------------
(* IInv holds in every reachable state.                                    *)
THEOREM Invariance == Spec => []IInv
<1>1. ASSUME IInv, [Next]_vars PROVE IInv'
  BY <1>1, TypeStep, InHandStep, OwedStep, CacheStep DEF IInv
<1>. QED
  BY <1>1, InitIInv, PTL DEF Spec

(* The tables, the cache and the hit windows keep their types, and no      *)
(* window reaches the largest threshold (bans.go:109-114).                 *)
THEOREM Typing == Spec => []TypeOK
<1>1. IInv => TypeOK
  BY DEF IInv
<1>. QED
  BY <1>1, Invariance, PTL

(* No ban is ever left without a Reload on the way, whatever the timing of *)
(* events, calls, the debounce and the prune tick (bans.go:136-205).       *)
THEOREM NoLostBan == Spec => []BansAreOwed
<1>1. IInv => BansAreOwed
  BY DEF IInv
<1>. QED
  BY <1>1, Invariance, PTL

(* No lifted ban is either (bans.go:207-244).                              *)
THEOREM NoLostLift == Spec => []LiftsAreOwed
<1>1. IInv => LiftsAreOwed
  BY DEF IInv
<1>. QED
  BY <1>1, Invariance, PTL

(* The cached settings are the stored ones from a SetBanConfig that was    *)
(* alone, also one that failed half-way, until a restore, PUT /settings,   *)
(* an overlapping load or write, or a failed read goes around it           *)
(* (bans.go:48-81).                                                        *)
THEOREM CacheIsCoherent == Spec => []CacheAgrees
<1>1. IInv => CacheAgrees
  BY DEF IInv, CacheInv, CacheAgrees, Wrote, Writing, SetSteps
<1>. QED
  BY <1>1, Invariance, PTL

=============================================================================
