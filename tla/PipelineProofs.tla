--------------------------- MODULE PipelineProofs ---------------------------
(***************************************************************************)
(* The safety invariants of Pipeline, for any number of concurrent reloads *)
(* and rollbacks, any tables and any bounds.                               *)
(***************************************************************************)
EXTENDS Pipeline, FiniteSetTheorems, TLAPS

\* Steps at which a validated configuration, or a snapshot of one, is in hand.
Validated == {"edgeHosts", "edgeFlags", "compare", "same", "latest", "insert", "prune", "swap"}
                \cup RollbackSteps
Numbered == {"insert", "prune", "swap", "rbInsert", "rbVersion"}

\* What a running operation holds: rows, a validated configuration, a version number.
InHand ==
    \A t \in Tasks :
        /\ pc[t] \in {"certs", "settings"} => local[t] \in Configs
        /\ pc[t] \in Validated => local[t] \in Configs /\ Good(local[t])
        /\ pc[t] \in Numbered => next[t] \in Versions

\* How far a Reload that nothing overlapped agrees with the tables nobody wrote meanwhile, and
\* the edge with it.
AfterHosts == {"certs", "settings", "edgeHosts", "edgeFlags", "compare", "same", "latest",
               "insert", "prune", "swap"}
AfterCerts == AfterHosts \ {"certs"}
AfterSettings == AfterCerts \ {"settings"}
AfterEdgeHosts == AfterSettings \ {"edgeHosts"}
AfterEdge == AfterEdgeHosts \ {"edgeFlags"}

Agrees(t) ==
    /\ pc[t] \in AfterHosts => "hosts" \in written \/ local[t].hosts = db.hosts
    /\ pc[t] \in AfterCerts => "cert" \in written \/ local[t].cert = db.cert
    /\ pc[t] \in AfterSettings => "settings" \in written \/ local[t].settings = db.settings
    /\ pc[t] \in AfterEdgeHosts => edge.hosts = local[t].hosts
    /\ pc[t] \in AfterEdge => edge.settings = local[t].settings
    /\ pc[t] = "same" => rendered = Json(local[t])

SoloProgress ==
    ~overlapped =>
        /\ \A t, u \in Tasks : t # u => Idle(t) \/ Idle(u)
        /\ \A t \in Tasks : Agrees(t)

(* The inductive invariant.  A swap puts local in place of rendered, so    *)
(* OnlyValidatedServed needs InHand; SoloReloadServesDatabase speaks of    *)
(* the end of a Reload and SoloProgress of its middle.                     *)
IInv ==
    /\ TypeOK
    /\ InHand
    /\ OnlyValidatedServed
    /\ SoloProgress
    /\ SoloReloadServesDatabase

(* Rendering keeps the type and the validity of a configuration.           *)
LEMMA JsonOfConfig ==
    ASSUME NEW c \in Configs
    PROVE  Json(c) \in Configs /\ (Good(c) => Good(Json(c)))
  BY PipelineAssumption DEF Json, Configs, Good

(* A read that overwrites one field of a configuration yields one.         *)
LEMMA ConfigFields ==
    ASSUME NEW c \in Configs, NEW d \in Configs
    PROVE  [c EXCEPT !.cert = d.cert] \in Configs /\ [c EXCEPT !.settings = d.settings] \in Configs
  BY DEF Configs

(* A process that has not bootstrapped, over a database never rendered.    *)
LEMMA InitIInv == Init => IInv
<1> SUFFICES ASSUME Init PROVE IInv
  OBVIOUS
<1>1. TypeOK
  <2>1. /\ db \in Configs /\ snaps \in [Versions -> MaybeConfig]
        /\ rendered \in MaybeConfig /\ version \in 0..MaxVersion
    BY PipelineAssumption DEF Init, MaybeConfig
  <2>2. edge \in [hosts : HostRows \cup {NoConfig}, settings : Settings \cup {NoConfig}]
    BY DEF Init, NoEdge
  <2>3. up \in BOOLEAN /\ overlapped \in BOOLEAN /\ last \in {"none", "ok", "err", "rollback"}
    BY DEF Init
  <2>4. /\ pc \in [Tasks -> {"idle"} \cup ReloadSteps \cup RollbackSteps]
        /\ local \in [Tasks -> MaybeConfig] /\ next \in [Tasks -> 0..MaxVersion]
    BY PipelineAssumption DEF Init, MaybeConfig
  <2>5. /\ tag \in MaybeConfig /\ fetch \in MaybeConfig \cup {NoFetch}
        /\ doc \in [cfg : MaybeConfig, key : 0..MaxGen \cup {NoKey}]
        /\ ops \in 0..MaxOps /\ writes \in 0..MaxWrites /\ faults \in 0..MaxFaults
        /\ written \in SUBSET Tables
    BY PipelineAssumption DEF Init, NoDoc, MaybeConfig
  <2>. QED
    BY <2>1, <2>2, <2>3, <2>4, <2>5 DEF TypeOK
<1>2. InHand /\ OnlyValidatedServed
  BY DEF Init, InHand, OnlyValidatedServed, Validated, Numbered, RollbackSteps, Present
<1>3. SoloProgress /\ SoloReloadServesDatabase
  BY DEF Init, SoloProgress, SoloReloadServesDatabase, Agrees, Idle, AfterHosts, AfterCerts,
     AfterSettings, AfterEdgeHosts, AfterEdge
<1>. QED
  BY <1>1, <1>2, <1>3 DEF IInv

(* Every step keeps the types.                                             *)
LEMMA TypeStep == ASSUME IInv, [Next]_vars PROVE TypeOK'
<1> USE DEF IInv
<1>1. ASSUME NEW t \in Tasks, Bootstrap(t) PROVE TypeOK'
  BY <1>1 DEF Bootstrap, Begin, Idle, AllIdle, memVars, pollVars, boundVars, TypeOK,
     MaybeConfig, ReloadSteps
<1>2. ASSUME NEW t \in Tasks, ReloadBegins(t) PROVE TypeOK'
  <2>1. /\ pc' \in [Tasks -> {"idle"} \cup ReloadSteps \cup RollbackSteps]
        /\ overlapped' \in BOOLEAN /\ written' \in SUBSET Tables
    BY <1>2 DEF ReloadBegins, Begin, TypeOK, ReloadSteps
  <2>2. local' \in [Tasks -> MaybeConfig] /\ ops' \in 0..MaxOps
    BY <1>2, PipelineAssumption DEF ReloadBegins, Begin, TypeOK, MaybeConfig
  <2>. QED
    BY <1>2, <2>1, <2>2 DEF ReloadBegins, memVars, pollVars, TypeOK
<1>24. CASE Write
  <2>1. db' \in Configs
    BY <1>24, PipelineAssumption DEF Write, TypeOK, Configs
  <2>2. written' \in SUBSET Tables /\ writes' \in 0..MaxWrites
    BY <1>24, PipelineAssumption DEF Write, TypeOK, Tables
  <2>. QED
    BY <1>24, <2>1, <2>2 DEF Write, memVars, taskVars, pollVars, TypeOK
<1>3. ASSUME NEW t \in Tasks, RollbackBegins(t) PROVE TypeOK'
  BY <1>3, PipelineAssumption DEF RollbackBegins, Begin, Idle, AllIdle, memVars, pollVars,
     TypeOK, MaybeConfig, RollbackSteps
<1>4. ASSUME NEW t \in Tasks, DbError(t) PROVE TypeOK'
  BY <1>4, PipelineAssumption DEF DbError, Return, pollVars, TypeOK, MaybeConfig, InHand,
     Numbered
<1>5. ASSUME NEW t \in Tasks, ReadHosts(t) PROVE TypeOK'
  BY <1>5 DEF ReadHosts, Goto, memVars, pollVars, boundVars, obsVars, TypeOK, MaybeConfig,
     ReloadSteps
<1>6. ASSUME NEW t \in Tasks, ReadCerts(t) PROVE TypeOK'
  <2>1. [local[t] EXCEPT !.cert = db.cert] \in Configs
    BY <1>6, ConfigFields DEF ReadCerts, Goto, InHand, TypeOK
  <2>. QED
    BY <1>6, <2>1 DEF ReadCerts, Goto, memVars, pollVars, boundVars, obsVars, TypeOK, MaybeConfig, ReloadSteps
<1>7. ASSUME NEW t \in Tasks, ReadSettings(t) PROVE TypeOK'
  <2>1. [local[t] EXCEPT !.settings = db.settings] \in Configs
    BY <1>7, ConfigFields DEF ReadSettings, InHand, TypeOK
  <2>2. /\ pc' \in [Tasks -> {"idle"} \cup ReloadSteps \cup RollbackSteps]
        /\ local' \in [Tasks -> MaybeConfig] /\ next' \in [Tasks -> 0..MaxVersion]
    BY <1>7, <2>1, PipelineAssumption DEF ReadSettings, Goto, Return, TypeOK, MaybeConfig, ReloadSteps
  <2>3. up' \in BOOLEAN /\ last' \in {"none", "ok", "err", "rollback"}
    BY <1>7 DEF ReadSettings, Return, TypeOK
  <2>. QED
    BY <1>7, <2>2, <2>3 DEF ReadSettings, pollVars, boundVars, TypeOK
<1>8. ASSUME NEW t \in Tasks, SetHosts(t) PROVE TypeOK'
  BY <1>8, PipelineAssumption DEF SetHosts, Goto, pollVars, boundVars, obsVars, TypeOK, InHand,
     Validated, Configs, ReloadSteps
<1>9. ASSUME NEW t \in Tasks, SetEnabled(t) PROVE TypeOK'
  BY <1>9, PipelineAssumption DEF SetEnabled, Goto, pollVars, boundVars, obsVars, TypeOK,
     InHand, Validated, Configs, ReloadSteps
<1>10. ASSUME NEW t \in Tasks, Compare(t) PROVE TypeOK'
  BY <1>10 DEF Compare, memVars, pollVars, boundVars, obsVars, TypeOK, MaybeConfig, ReloadSteps
<1>11. ASSUME NEW t \in Tasks, SwapSame(t) PROVE TypeOK'
  <2>1. Json(local[t]) \in Configs
    BY <1>11, JsonOfConfig DEF SwapSame, InHand, Validated
  <2>. QED
    BY <1>11, <2>1, PipelineAssumption DEF SwapSame, Return, pollVars, boundVars, TypeOK, MaybeConfig
<1>12. ASSUME NEW t \in Tasks, ReadLatest(t) PROVE TypeOK'
  <2>1. PICK v \in 0..(MaxVersion - 1) : next' = [next EXCEPT ![t] = v + 1]
    BY <1>12 DEF ReadLatest
  <2>2. v + 1 \in 0..MaxVersion
    BY PipelineAssumption
  <2>. QED
    BY <1>12, <2>1, <2>2 DEF ReadLatest, Goto, memVars, pollVars, boundVars, obsVars, TypeOK, ReloadSteps
<1>13. ASSUME NEW t \in Tasks, AddSnapshot(t) PROVE TypeOK'
  <2>1. Json(local[t]) \in Configs /\ next[t] \in Versions
    BY <1>13, JsonOfConfig DEF AddSnapshot, InHand, Validated, Numbered
  <2>2. snaps' \in [Versions -> MaybeConfig]
    BY <1>13, <2>1 DEF AddSnapshot, TypeOK, MaybeConfig
  <2>3. /\ pc' \in [Tasks -> {"idle"} \cup ReloadSteps \cup RollbackSteps]
        /\ local' \in [Tasks -> MaybeConfig] /\ next' \in [Tasks -> 0..MaxVersion]
    BY <1>13, PipelineAssumption DEF AddSnapshot, Goto, Return, TypeOK, MaybeConfig, ReloadSteps
  <2>4. up' \in BOOLEAN /\ last' \in {"none", "ok", "err", "rollback"}
    BY <1>13 DEF AddSnapshot, Return, TypeOK
  <2>. QED
    BY <1>13, <2>2, <2>3, <2>4 DEF AddSnapshot, pollVars, boundVars, TypeOK
<1>14. ASSUME NEW t \in Tasks, Prune(t) PROVE TypeOK'
  BY <1>14, PipelineAssumption DEF Prune, Goto, memVars, pollVars, boundVars, obsVars, TypeOK, MaybeConfig,
     ReloadSteps
<1>15. ASSUME NEW t \in Tasks, Swap(t) PROVE TypeOK'
  <2>1. Json(local[t]) \in Configs
    BY <1>15, JsonOfConfig DEF Swap, InHand, Validated
  <2>. QED
    BY <1>15, <2>1, PipelineAssumption DEF Swap, Return, pollVars, boundVars, TypeOK, MaybeConfig
<1>16. ASSUME NEW t \in Tasks, RollbackSwaps(t) PROVE TypeOK'
  BY <1>16 DEF RollbackSwaps, Goto, pollVars, boundVars, obsVars, TypeOK, RollbackSteps
<1>17. ASSUME NEW t \in Tasks, RollbackLatest(t) PROVE TypeOK'
  <2>1. PICK v \in 0..MaxVersion : next' = [next EXCEPT ![t] = v]
    <3>1. \A w \in 0..(MaxVersion - 1) : w + 1 \in 0..MaxVersion
      BY PipelineAssumption
    <3>2. MaxVersion > 0 => 1 \in 0..MaxVersion
      BY PipelineAssumption
    <3>. QED
      BY <1>17, <3>1, <3>2 DEF RollbackLatest
  <2>2. faults' \in 0..MaxFaults
    BY <1>17, PipelineAssumption DEF RollbackLatest, TypeOK
  <2>. QED
    BY <1>17, <2>1, <2>2 DEF RollbackLatest, Goto, memVars, pollVars, obsVars, TypeOK, RollbackSteps
<1>18. ASSUME NEW t \in Tasks, RollbackInserts(t) PROVE TypeOK'
  <2>1. local[t] \in Configs /\ next[t] \in Versions
    BY <1>18 DEF RollbackInserts, Goto, InHand, Validated, Numbered, RollbackSteps
  <2>2. snaps' \in [Versions -> MaybeConfig]
    BY <1>18, <2>1 DEF RollbackInserts, TypeOK, MaybeConfig
  <2>3. faults' \in 0..MaxFaults
    BY <1>18, PipelineAssumption DEF RollbackInserts, TypeOK
  <2>. QED
    BY <1>18, <2>2, <2>3 DEF RollbackInserts, Goto, memVars, pollVars, obsVars, TypeOK, RollbackSteps
<1>19. ASSUME NEW t \in Tasks, RollbackVersion(t) PROVE TypeOK'
  BY <1>19, PipelineAssumption DEF RollbackVersion, Return, pollVars, boundVars, TypeOK,
     MaybeConfig, InHand, Numbered
<1>20. CASE Crash
  <2>1. rendered' \in MaybeConfig /\ version' \in 0..MaxVersion /\ ops' \in 0..MaxOps
    BY <1>20, PipelineAssumption DEF Crash, TypeOK, MaybeConfig
  <2>2. edge' \in [hosts : HostRows \cup {NoConfig}, settings : Settings \cup {NoConfig}]
    BY <1>20 DEF Crash, NoEdge
  <2>3. /\ up' \in BOOLEAN /\ overlapped' \in BOOLEAN /\ written' \in SUBSET Tables
        /\ last' \in {"none", "ok", "err", "rollback"}
    BY <1>20 DEF Crash
  <2>4. /\ pc' \in [Tasks -> {"idle"} \cup ReloadSteps \cup RollbackSteps]
        /\ local' \in [Tasks -> MaybeConfig] /\ next' \in [Tasks -> 0..MaxVersion]
    BY <1>20, PipelineAssumption DEF Crash, MaybeConfig
  <2>5. /\ tag' \in MaybeConfig /\ fetch' \in MaybeConfig \cup {NoFetch}
        /\ doc' \in [cfg : MaybeConfig, key : 0..MaxGen \cup {NoKey}]
    BY <1>20 DEF Crash, NoDoc, TypeOK, MaybeConfig
  <2>. QED
    BY <1>20, <2>1, <2>2, <2>3, <2>4, <2>5 DEF Crash, TypeOK
<1>21. CASE Poll
  BY <1>21 DEF Poll, memVars, taskVars, boundVars, obsVars, TypeOK
<1>22. CASE Answer
  <2>1. doc' \in [cfg : MaybeConfig, key : 0..MaxGen \cup {NoKey}] /\ tag' \in MaybeConfig
    BY <1>22 DEF Answer, InjectKeys, NoDoc, TypeOK, MaybeConfig, Configs
  <2>2. faults' \in 0..MaxFaults
    BY <1>22, PipelineAssumption DEF Answer, TypeOK
  <2>. QED
    BY <1>22, <2>1, <2>2 DEF Answer, memVars, taskVars, obsVars, TypeOK
<1>23. CASE UNCHANGED vars
  BY <1>23 DEF vars, memVars, taskVars, pollVars, boundVars, obsVars, TypeOK
<1>. QED
  BY <1>1, <1>2, <1>3, <1>4, <1>5, <1>6, <1>7, <1>8, <1>9, <1>10, <1>11, <1>12, <1>13, <1>14,
     <1>15, <1>16, <1>17, <1>18, <1>19, <1>20, <1>21, <1>22, <1>23, <1>24 DEF Next, ReloadStep,
     RollbackStep

(* An operation past validation, or past LatestSnapshotVersion, holds a    *)
(* validated configuration, or a version to insert.                        *)
LEMMA InHandStep == ASSUME IInv, [Next]_vars PROVE InHand'
<1> USE DEF IInv
<1>1. ASSUME NEW t \in Tasks, Bootstrap(t) PROVE InHand'
  BY <1>1 DEF Bootstrap, Begin, Idle, AllIdle, InHand, TypeOK, Validated, Numbered,
     RollbackSteps
<1>24. CASE Write
  BY <1>24 DEF Write, taskVars, InHand
<1>2. ASSUME NEW t \in Tasks, ReloadBegins(t) PROVE InHand'
  BY <1>2 DEF ReloadBegins, Begin, Idle, AllIdle, InHand, TypeOK, Validated, Numbered, RollbackSteps
<1>3. ASSUME NEW t \in Tasks, RollbackBegins(t) PROVE InHand'
  BY <1>3 DEF RollbackBegins, Begin, Idle, AllIdle, InHand, TypeOK, Validated, Numbered,
     RollbackSteps, OnlyValidatedServed, Present, MaybeConfig
<1>4. ASSUME NEW t \in Tasks, DbError(t) PROVE InHand'
  BY <1>4 DEF DbError, Return, InHand, TypeOK, Validated, Numbered, RollbackSteps
<1>5. ASSUME NEW t \in Tasks, ReadHosts(t) PROVE InHand'
  BY <1>5 DEF ReadHosts, Goto, InHand, TypeOK, Validated, Numbered, RollbackSteps
<1>6. ASSUME NEW t \in Tasks, ReadCerts(t) PROVE InHand'
  <2>1. [local[t] EXCEPT !.cert = db.cert] \in Configs
    BY <1>6, ConfigFields DEF ReadCerts, Goto, InHand, TypeOK
  <2>. QED
    BY <1>6, <2>1 DEF ReadCerts, Goto, InHand, TypeOK, Validated, Numbered, RollbackSteps
<1>7. ASSUME NEW t \in Tasks, ReadSettings(t) PROVE InHand'
  <2>1. [local[t] EXCEPT !.settings = db.settings] \in Configs
    BY <1>7, ConfigFields DEF ReadSettings, InHand, TypeOK
  <2>. QED
    BY <1>7, <2>1 DEF ReadSettings, Goto, Return, InHand, TypeOK, Validated, Numbered, RollbackSteps
<1>8. ASSUME NEW t \in Tasks, SetHosts(t) PROVE InHand'
  BY <1>8 DEF SetHosts, Goto, InHand, TypeOK, Validated, Numbered, RollbackSteps
<1>9. ASSUME NEW t \in Tasks, SetEnabled(t) PROVE InHand'
  BY <1>9 DEF SetEnabled, Goto, InHand, TypeOK, Validated, Numbered, RollbackSteps
<1>10. ASSUME NEW t \in Tasks, Compare(t) PROVE InHand'
  BY <1>10 DEF Compare, InHand, TypeOK, Validated, Numbered, RollbackSteps
<1>11. ASSUME NEW t \in Tasks, SwapSame(t) PROVE InHand'
  BY <1>11 DEF SwapSame, Return, InHand, TypeOK, Validated, Numbered, RollbackSteps
<1>12. ASSUME NEW t \in Tasks, ReadLatest(t) PROVE InHand'
  <2>1. PICK v \in 0..(MaxVersion - 1) : next' = [next EXCEPT ![t] = v + 1]
    BY <1>12 DEF ReadLatest
  <2>2. v + 1 \in Versions
    BY PipelineAssumption DEF Versions
  <2>. QED
    BY <1>12, <2>1, <2>2 DEF ReadLatest, Goto, InHand, TypeOK, Validated, Numbered, RollbackSteps
<1>13. ASSUME NEW t \in Tasks, AddSnapshot(t) PROVE InHand'
  BY <1>13 DEF AddSnapshot, Goto, Return, InHand, TypeOK, Validated, Numbered, RollbackSteps
<1>14. ASSUME NEW t \in Tasks, Prune(t) PROVE InHand'
  BY <1>14 DEF Prune, Goto, InHand, TypeOK, Validated, Numbered, RollbackSteps
<1>15. ASSUME NEW t \in Tasks, Swap(t) PROVE InHand'
  BY <1>15 DEF Swap, Return, InHand, TypeOK, Validated, Numbered, RollbackSteps
<1>16. ASSUME NEW t \in Tasks, RollbackSwaps(t) PROVE InHand'
  BY <1>16 DEF RollbackSwaps, Goto, InHand, TypeOK, Validated, Numbered, RollbackSteps
<1>17. ASSUME NEW t \in Tasks, RollbackLatest(t) PROVE InHand'
  <2>1. PICK v \in Versions : next' = [next EXCEPT ![t] = v]
    <3>1. \A w \in 0..(MaxVersion - 1) : w + 1 \in Versions
      BY PipelineAssumption DEF Versions
    <3>2. MaxVersion > 0 => 1 \in Versions
      BY PipelineAssumption DEF Versions
    <3>. QED
      BY <1>17, <3>1, <3>2 DEF RollbackLatest
  <2>. QED
    BY <1>17, <2>1 DEF RollbackLatest, Goto, InHand, TypeOK, Validated, Numbered, RollbackSteps
<1>18. ASSUME NEW t \in Tasks, RollbackInserts(t) PROVE InHand'
  BY <1>18 DEF RollbackInserts, Goto, InHand, TypeOK, Validated, Numbered, RollbackSteps
<1>19. ASSUME NEW t \in Tasks, RollbackVersion(t) PROVE InHand'
  BY <1>19 DEF RollbackVersion, Return, InHand, TypeOK, Validated, Numbered, RollbackSteps
<1>20. CASE Crash
  BY <1>20 DEF Crash, NoEdge, InHand, TypeOK, Validated, Numbered, RollbackSteps
<1>21. CASE Poll
  BY <1>21 DEF Poll, taskVars, InHand, TypeOK, Validated, Numbered, RollbackSteps
<1>22. CASE Answer
  BY <1>22 DEF Answer, taskVars, InHand, TypeOK, Validated, Numbered, RollbackSteps
<1>23. CASE UNCHANGED vars
  BY <1>23 DEF vars, taskVars, InHand
<1>. QED
  BY <1>1, <1>2, <1>3, <1>4, <1>5, <1>6, <1>7, <1>8, <1>9, <1>10, <1>11, <1>12, <1>13, <1>14,
     <1>15, <1>16, <1>17, <1>18, <1>19, <1>20, <1>21, <1>22, <1>23, <1>24 DEF Next, ReloadStep,
     RollbackStep

(* Only swaps and inserts touch what is served or kept, and they take it   *)
(* from an operation that has validated it.                                *)
LEMMA ValidStep == ASSUME IInv, [Next]_vars PROVE OnlyValidatedServed'
<1> USE DEF IInv
<1>1. ASSUME NEW t \in Tasks, Bootstrap(t) PROVE OnlyValidatedServed'
  BY <1>1 DEF Bootstrap, Begin, Idle, AllIdle, memVars, OnlyValidatedServed, Present
<1>24. CASE Write
  BY <1>24 DEF Write, memVars, OnlyValidatedServed, Present
<1>2. ASSUME NEW t \in Tasks, ReloadBegins(t) PROVE OnlyValidatedServed'
  BY <1>2 DEF ReloadBegins, Begin, Idle, AllIdle, memVars, OnlyValidatedServed, Present
<1>3. ASSUME NEW t \in Tasks, RollbackBegins(t) PROVE OnlyValidatedServed'
  BY <1>3 DEF RollbackBegins, Begin, Idle, AllIdle, memVars, OnlyValidatedServed, Present
<1>4. ASSUME NEW t \in Tasks, DbError(t) PROVE OnlyValidatedServed'
  BY <1>4 DEF DbError, Return, OnlyValidatedServed, Present
<1>5. ASSUME NEW t \in Tasks, ReadHosts(t) PROVE OnlyValidatedServed'
  BY <1>5 DEF ReadHosts, Goto, memVars, OnlyValidatedServed, Present
<1>6. ASSUME NEW t \in Tasks, ReadCerts(t) PROVE OnlyValidatedServed'
  BY <1>6 DEF ReadCerts, Goto, memVars, OnlyValidatedServed, Present
<1>7. ASSUME NEW t \in Tasks, ReadSettings(t) PROVE OnlyValidatedServed'
  BY <1>7 DEF ReadSettings, Goto, Return, OnlyValidatedServed, Present
<1>8. ASSUME NEW t \in Tasks, SetHosts(t) PROVE OnlyValidatedServed'
  BY <1>8 DEF SetHosts, Goto, OnlyValidatedServed, Present
<1>9. ASSUME NEW t \in Tasks, SetEnabled(t) PROVE OnlyValidatedServed'
  BY <1>9 DEF SetEnabled, Goto, OnlyValidatedServed, Present
<1>10. ASSUME NEW t \in Tasks, Compare(t) PROVE OnlyValidatedServed'
  BY <1>10 DEF Compare, memVars, OnlyValidatedServed, Present
<1>11. ASSUME NEW t \in Tasks, SwapSame(t) PROVE OnlyValidatedServed'
  BY <1>11, JsonOfConfig DEF SwapSame, Return, InHand, Validated, OnlyValidatedServed, Present
<1>12. ASSUME NEW t \in Tasks, ReadLatest(t) PROVE OnlyValidatedServed'
  BY <1>12 DEF ReadLatest, Goto, memVars, OnlyValidatedServed, Present
<1>13. ASSUME NEW t \in Tasks, AddSnapshot(t) PROVE OnlyValidatedServed'
  <2>1. Json(local[t]) \in Configs /\ Good(Json(local[t]))
    BY <1>13, JsonOfConfig DEF AddSnapshot, InHand, Validated
  <2>2. \A v \in Versions : snaps'[v] = snaps[v] \/ snaps'[v] = Json(local[t])
    BY <1>13 DEF AddSnapshot, TypeOK
  <2>. QED
    BY <1>13, <2>1, <2>2 DEF AddSnapshot, OnlyValidatedServed, Present
<1>14. ASSUME NEW t \in Tasks, Prune(t) PROVE OnlyValidatedServed'
  BY <1>14 DEF Prune, Goto, memVars, OnlyValidatedServed, Present
<1>15. ASSUME NEW t \in Tasks, Swap(t) PROVE OnlyValidatedServed'
  BY <1>15, JsonOfConfig DEF Swap, Return, InHand, Validated, OnlyValidatedServed, Present
<1>16. ASSUME NEW t \in Tasks, RollbackSwaps(t) PROVE OnlyValidatedServed'
  BY <1>16 DEF RollbackSwaps, Goto, InHand, TypeOK, Validated, RollbackSteps,
     OnlyValidatedServed, Present
<1>17. ASSUME NEW t \in Tasks, RollbackLatest(t) PROVE OnlyValidatedServed'
  BY <1>17 DEF RollbackLatest, Goto, memVars, OnlyValidatedServed, Present
<1>18. ASSUME NEW t \in Tasks, RollbackInserts(t) PROVE OnlyValidatedServed'
  BY <1>18 DEF RollbackInserts, Goto, memVars, InHand, TypeOK, Validated, RollbackSteps,
     OnlyValidatedServed, Present
<1>19. ASSUME NEW t \in Tasks, RollbackVersion(t) PROVE OnlyValidatedServed'
  BY <1>19 DEF RollbackVersion, Return, OnlyValidatedServed, Present
<1>20. CASE Crash
  BY <1>20 DEF Crash, NoEdge, OnlyValidatedServed, Present
<1>21. CASE Poll
  BY <1>21 DEF Poll, memVars, OnlyValidatedServed, Present
<1>22. CASE Answer
  BY <1>22 DEF Answer, memVars, OnlyValidatedServed, Present
<1>23. CASE UNCHANGED vars
  BY <1>23 DEF vars, memVars, OnlyValidatedServed, Present
<1>. QED
  BY <1>1, <1>2, <1>3, <1>4, <1>5, <1>6, <1>7, <1>8, <1>9, <1>10, <1>11, <1>12, <1>13, <1>14,
     <1>15, <1>16, <1>17, <1>18, <1>19, <1>20, <1>21, <1>22, <1>23, <1>24 DEF Next, ReloadStep,
     RollbackStep

(* A Reload that runs alone agrees with every table that nobody writes     *)
(* while it runs, and the edge agrees with it.                             *)
LEMMA ProgressStep == ASSUME IInv, [Next]_vars PROVE SoloProgress'
<1> USE DEF IInv, SoloProgress, Agrees, Idle, AllIdle, AfterHosts, AfterCerts, AfterSettings,
   AfterEdgeHosts, AfterEdge
<1>1. ASSUME NEW t \in Tasks, Bootstrap(t) PROVE SoloProgress'
  BY <1>1 DEF Bootstrap, Begin, memVars, TypeOK
<1>24. CASE Write
  <2>1. UNCHANGED <<rendered, edge, pc, local, overlapped>> /\ written \subseteq written'
    BY <1>24 DEF Write, memVars, taskVars
  <2>2. /\ "hosts" \in written' \/ db'.hosts = db.hosts
        /\ "cert" \in written' \/ db'.cert = db.cert
        /\ "settings" \in written' \/ db'.settings = db.settings
    BY <1>24 DEF Write, TypeOK, Configs
  <2>. QED
    BY <2>1, <2>2
<1>2. ASSUME NEW t \in Tasks, ReloadBegins(t) PROVE SoloProgress'
  BY <1>2 DEF ReloadBegins, Begin, memVars, TypeOK
<1>3. ASSUME NEW t \in Tasks, RollbackBegins(t) PROVE SoloProgress'
  <2>1. PICK c : Begin(t, "rbSwap", c)
    BY <1>3 DEF RollbackBegins
  <2>2. \A u \in Tasks : u # t => pc'[u] = pc[u] /\ local'[u] = local[u]
    BY <2>1 DEF Begin, TypeOK
  <2>3. pc'[t] = "rbSwap"
    BY <2>1 DEF Begin, TypeOK
  <2>4. UNCHANGED <<db, rendered, edge>>
    BY <1>3 DEF RollbackBegins, memVars
  <2>5. ~overlapped' => AllIdle
    BY <2>1 DEF Begin
  <2>. QED
    BY <2>2, <2>3, <2>4, <2>5
<1>4. ASSUME NEW t \in Tasks, DbError(t) PROVE SoloProgress'
  BY <1>4 DEF DbError, Return, TypeOK
<1>5. ASSUME NEW t \in Tasks, ReadHosts(t) PROVE SoloProgress'
  BY <1>5 DEF ReadHosts, Goto, memVars, obsVars, TypeOK
<1>6. ASSUME NEW t \in Tasks, ReadCerts(t) PROVE SoloProgress'
  BY <1>6 DEF ReadCerts, Goto, memVars, obsVars, TypeOK
<1>7. ASSUME NEW t \in Tasks, ReadSettings(t) PROVE SoloProgress'
  BY <1>7 DEF ReadSettings, Goto, Return, TypeOK, InHand, Validated, Json, Configs
<1>8. ASSUME NEW t \in Tasks, SetHosts(t) PROVE SoloProgress'
  BY <1>8 DEF SetHosts, Goto, obsVars, TypeOK, InHand, Validated, Json, Configs
<1>9. ASSUME NEW t \in Tasks, SetEnabled(t) PROVE SoloProgress'
  BY <1>9 DEF SetEnabled, Goto, obsVars, TypeOK, InHand, Validated, Json, Configs
<1>10. ASSUME NEW t \in Tasks, Compare(t) PROVE SoloProgress'
  BY <1>10 DEF Compare, memVars, obsVars, TypeOK, InHand, Validated, Json, Configs
<1>11. ASSUME NEW t \in Tasks, SwapSame(t) PROVE SoloProgress'
  BY <1>11 DEF SwapSame, Return, TypeOK, InHand, Validated, Json, Configs
<1>12. ASSUME NEW t \in Tasks, ReadLatest(t) PROVE SoloProgress'
  BY <1>12 DEF ReadLatest, Goto, memVars, obsVars, TypeOK
<1>13. ASSUME NEW t \in Tasks, AddSnapshot(t) PROVE SoloProgress'
  BY <1>13 DEF AddSnapshot, Goto, Return, TypeOK
<1>14. ASSUME NEW t \in Tasks, Prune(t) PROVE SoloProgress'
  BY <1>14 DEF Prune, Goto, memVars, obsVars, TypeOK
<1>15. ASSUME NEW t \in Tasks, Swap(t) PROVE SoloProgress'
  BY <1>15 DEF Swap, Return, TypeOK, InHand, Validated, Json, Configs
<1>16. ASSUME NEW t \in Tasks, RollbackSwaps(t) PROVE SoloProgress'
  BY <1>16 DEF RollbackSwaps, Goto, obsVars, TypeOK
<1>17. ASSUME NEW t \in Tasks, RollbackLatest(t) PROVE SoloProgress'
  BY <1>17 DEF RollbackLatest, Goto, memVars, obsVars, TypeOK
<1>18. ASSUME NEW t \in Tasks, RollbackInserts(t) PROVE SoloProgress'
  BY <1>18 DEF RollbackInserts, Goto, memVars, obsVars, TypeOK
<1>19. ASSUME NEW t \in Tasks, RollbackVersion(t) PROVE SoloProgress'
  BY <1>19 DEF RollbackVersion, Return, TypeOK
<1>20. CASE Crash
  BY <1>20 DEF Crash, NoEdge, TypeOK
<1>21. CASE Poll
  BY <1>21 DEF Poll, memVars, taskVars, obsVars, TypeOK
<1>22. CASE Answer
  BY <1>22 DEF Answer, memVars, taskVars, obsVars, TypeOK
<1>23. CASE UNCHANGED vars
  BY <1>23 DEF vars, memVars, taskVars, obsVars
<1>. QED
  BY <1>1, <1>2, <1>3, <1>4, <1>5, <1>6, <1>7, <1>8, <1>9, <1>10, <1>11, <1>12, <1>13, <1>14,
     <1>15, <1>16, <1>17, <1>18, <1>19, <1>20, <1>21, <1>22, <1>23, <1>24 DEF Next, ReloadStep,
     RollbackStep

(* When a lone Reload returns, what it holds is what is served.            *)
LEMMA SoloStep == ASSUME IInv, [Next]_vars PROVE SoloReloadServesDatabase'
<1> USE DEF IInv, SoloProgress, Agrees, Idle, AllIdle, AfterHosts, AfterCerts, AfterSettings,
   AfterEdgeHosts, AfterEdge, SoloReloadServesDatabase
<1>1. ASSUME NEW t \in Tasks, Bootstrap(t) PROVE SoloReloadServesDatabase'
  BY <1>1 DEF Bootstrap, Begin, memVars, TypeOK
<1>24. CASE Write
  <2>1. UNCHANGED <<rendered, edge, up, pc, overlapped, last>> /\ written \subseteq written'
    BY <1>24 DEF Write, memVars, taskVars
  <2>2. /\ "hosts" \in written' \/ db'.hosts = db.hosts
        /\ "cert" \in written' \/ db'.cert = db.cert
        /\ "settings" \in written' \/ db'.settings = db.settings
    BY <1>24 DEF Write, TypeOK, Configs
  <2>. QED
    BY <2>1, <2>2
<1>2. ASSUME NEW t \in Tasks, ReloadBegins(t) PROVE SoloReloadServesDatabase'
  BY <1>2 DEF ReloadBegins, Begin, memVars, TypeOK
<1>3. ASSUME NEW t \in Tasks, RollbackBegins(t) PROVE SoloReloadServesDatabase'
  BY <1>3 DEF RollbackBegins, Begin, memVars, TypeOK
<1>4. ASSUME NEW t \in Tasks, DbError(t) PROVE SoloReloadServesDatabase'
  BY <1>4 DEF DbError, Return, TypeOK
<1>5. ASSUME NEW t \in Tasks, ReadHosts(t) PROVE SoloReloadServesDatabase'
  BY <1>5 DEF ReadHosts, Goto, memVars, obsVars, TypeOK
<1>6. ASSUME NEW t \in Tasks, ReadCerts(t) PROVE SoloReloadServesDatabase'
  BY <1>6 DEF ReadCerts, Goto, memVars, obsVars, TypeOK
<1>7. ASSUME NEW t \in Tasks, ReadSettings(t) PROVE SoloReloadServesDatabase'
  BY <1>7 DEF ReadSettings, Goto, Return, TypeOK
<1>8. ASSUME NEW t \in Tasks, SetHosts(t) PROVE SoloReloadServesDatabase'
  BY <1>8 DEF SetHosts, Goto, obsVars, TypeOK
<1>9. ASSUME NEW t \in Tasks, SetEnabled(t) PROVE SoloReloadServesDatabase'
  BY <1>9 DEF SetEnabled, Goto, obsVars, TypeOK
<1>10. ASSUME NEW t \in Tasks, Compare(t) PROVE SoloReloadServesDatabase'
  BY <1>10 DEF Compare, memVars, obsVars, TypeOK
<1>11. ASSUME NEW t \in Tasks, SwapSame(t) PROVE SoloReloadServesDatabase'
  BY <1>11 DEF SwapSame, Return, TypeOK, InHand, Validated, Json, Configs
<1>12. ASSUME NEW t \in Tasks, ReadLatest(t) PROVE SoloReloadServesDatabase'
  BY <1>12 DEF ReadLatest, Goto, memVars, obsVars, TypeOK
<1>13. ASSUME NEW t \in Tasks, AddSnapshot(t) PROVE SoloReloadServesDatabase'
  BY <1>13 DEF AddSnapshot, Goto, Return, TypeOK
<1>14. ASSUME NEW t \in Tasks, Prune(t) PROVE SoloReloadServesDatabase'
  BY <1>14 DEF Prune, Goto, memVars, obsVars, TypeOK
<1>15. ASSUME NEW t \in Tasks, Swap(t) PROVE SoloReloadServesDatabase'
  BY <1>15 DEF Swap, Return, TypeOK, InHand, Validated, Json, Configs
<1>16. ASSUME NEW t \in Tasks, RollbackSwaps(t) PROVE SoloReloadServesDatabase'
  BY <1>16 DEF RollbackSwaps, Goto, obsVars, TypeOK
<1>17. ASSUME NEW t \in Tasks, RollbackLatest(t) PROVE SoloReloadServesDatabase'
  BY <1>17 DEF RollbackLatest, Goto, memVars, obsVars, TypeOK
<1>18. ASSUME NEW t \in Tasks, RollbackInserts(t) PROVE SoloReloadServesDatabase'
  BY <1>18 DEF RollbackInserts, Goto, memVars, obsVars, TypeOK
<1>19. ASSUME NEW t \in Tasks, RollbackVersion(t) PROVE SoloReloadServesDatabase'
  BY <1>19 DEF RollbackVersion, Return, TypeOK
<1>20. CASE Crash
  BY <1>20 DEF Crash, NoEdge, TypeOK
<1>21. CASE Poll
  BY <1>21 DEF Poll, memVars, taskVars, obsVars, TypeOK
<1>22. CASE Answer
  BY <1>22 DEF Answer, memVars, taskVars, obsVars, TypeOK
<1>23. CASE UNCHANGED vars
  BY <1>23 DEF vars, memVars, taskVars, obsVars
<1>. QED
  BY <1>1, <1>2, <1>3, <1>4, <1>5, <1>6, <1>7, <1>8, <1>9, <1>10, <1>11, <1>12, <1>13, <1>14,
     <1>15, <1>16, <1>17, <1>18, <1>19, <1>20, <1>21, <1>22, <1>23, <1>24 DEF Next, ReloadStep,
     RollbackStep

(* The inductive invariant holds in every reachable state.                 *)
THEOREM Invariance == Spec => []IInv
<1>1. IInv /\ [Next]_vars => IInv'
  BY TypeStep, InHandStep, ValidStep, ProgressStep, SoloStep DEF IInv
<1>. QED
  BY InitIInv, <1>1, PTL DEF Spec

(* The engine state and the snapshot table keep their types under any      *)
(* number of concurrent reloads, rollbacks and restarts.                   *)
THEOREM Typing == Spec => []TypeOK
<1>1. IInv => TypeOK
  BY DEF IInv
<1>. QED
  BY <1>1, Invariance, PTL

(* A configuration that renderConfig rejects is never served and never     *)
(* becomes a snapshot (engine.go:203-253, 594-611).                        *)
THEOREM NothingUnvalidated == Spec => []OnlyValidatedServed
<1>1. IInv => OnlyValidatedServed
  BY DEF IInv
<1>. QED
  BY <1>1, Invariance, PTL

(* A Reload that no other operation overlapped leaves Traefik and the edge *)
(* in agreement and at the database, but for tables written since it began *)
(* (engine.go:207-253).                                                    *)
THEOREM SoloReloadIsFaithful == Spec => []SoloReloadServesDatabase
<1>1. IInv => SoloReloadServesDatabase
  BY DEF IInv
<1>. QED
  BY <1>1, Invariance, PTL

(* The newest snapshot survives every step: inserts never overwrite it and *)
(* PruneSnapshots keeps the Keep >= 1 newest (engine.go:236-245).          *)
LEMMA NewestSurvives ==
    ASSUME IInv, [Next]_vars, NEW v \in Versions, IsLatest(v), Present(v)
    PROVE  Present(v)'
<1> USE DEF IInv
<1>1. ASSUME NEW t \in Tasks, Prune(t) PROVE Present(v)'
  <2>1. {w \in Versions : Present(w) /\ w > v} = {}
    BY DEF IsLatest, Versions
  <2>2. Kept(v)
    BY <2>1, FS_EmptySet, PipelineAssumption DEF Kept
  <2>. QED
    BY <1>1, <2>2 DEF Prune, Present
<1>2. ASSUME NEW t \in Tasks, AddSnapshot(t) PROVE Present(v)'
  BY <1>2 DEF AddSnapshot, Present, TypeOK
<1>3. ASSUME NEW t \in Tasks, RollbackInserts(t) PROVE Present(v)'
  BY <1>3 DEF RollbackInserts, Present, TypeOK
<1>4. CASE UNCHANGED snaps
  BY <1>4 DEF Present
<1>5. ASSUME NEW t \in Tasks,
             Bootstrap(t) \/ ReloadBegins(t) \/ RollbackBegins(t) \/ DbError(t) \/ ReadHosts(t) \/ ReadCerts(t)
      PROVE  UNCHANGED snaps
  BY <1>5 DEF Bootstrap, ReloadBegins, RollbackBegins, DbError, ReadHosts, ReadCerts
<1>6. ASSUME NEW t \in Tasks,
             ReadSettings(t) \/ SetHosts(t) \/ SetEnabled(t) \/ Compare(t) \/ SwapSame(t)
                \/ ReadLatest(t) \/ Swap(t)
      PROVE  UNCHANGED snaps
  BY <1>6 DEF ReadSettings, SetHosts, SetEnabled, Compare, SwapSame, ReadLatest, Swap
<1>7. ASSUME NEW t \in Tasks, RollbackSwaps(t) \/ RollbackLatest(t) \/ RollbackVersion(t)
      PROVE  UNCHANGED snaps
  BY <1>7 DEF RollbackSwaps, RollbackLatest, RollbackVersion
<1>8. ASSUME Write \/ Crash \/ Poll \/ Answer \/ UNCHANGED vars PROVE UNCHANGED snaps
  BY <1>8 DEF Write, Crash, Poll, Answer, vars
<1>. QED
  BY <1>1, <1>2, <1>3, <1>4, <1>5, <1>6, <1>7, <1>8 DEF Next, ReloadStep, RollbackStep

(* MAX(version) of the snapshot table never goes down, whatever overlaps.  *)
THEOREM HistoryIsMonotonic == Spec => HistoryNeverRegresses
<1>1. ASSUME IInv, [Next]_vars
      PROVE  \A v, w \in 0..MaxVersion : IsLatest(v) /\ IsLatest(w)' => v <= w
  <2> SUFFICES ASSUME NEW v \in 0..MaxVersion, NEW w \in 0..MaxVersion, IsLatest(v), IsLatest(w)'
               PROVE  v <= w
    OBVIOUS
  <2>1. CASE v = 0
    BY <2>1, PipelineAssumption
  <2>2. CASE v # 0
    <3>1. v \in Versions /\ Present(v)
      BY <2>2, PipelineAssumption DEF IsLatest, Versions
    <3>2. Present(v)'
      BY <1>1, <3>1, NewestSurvives
    <3>. QED
      BY <3>1, <3>2 DEF IsLatest
  <2>. QED
    BY <2>1, <2>2
<1>. QED
  BY <1>1, Invariance, PTL DEF Spec, HistoryNeverRegresses

=============================================================================
