-------------------------------- MODULE Bans --------------------------------
(***************************************************************************)
(* internal/engine/bans.go and internal/store/bans.go: automatic and       *)
(* manual bans, the cached auto-ban settings, and the reloads that carry   *)
(* the bans table to the deny router.                                      *)
(*                                                                         *)
(* Four kinds of goroutine work on the table: the single observer worker   *)
(* of secmetrics (onWAFEvent), banReloadLoop, banPruneLoop, and API calls. *)
(* Every SQL statement, every atomic load or store of the cache and every  *)
(* banMu section is a step.  Of Reload only the read of the active bans    *)
(* and the outcome are kept; the rest of it is module Pipeline.            *)
(*                                                                         *)
(* The four settings are abstracted to two, written and read one by one.   *)
(* Wall-clock time is left out: a temporary ban may expire, and a recorded *)
(* block may have left the window, at any later moment.                    *)
(***************************************************************************)
EXTENDS Naturals

CONSTANTS
    IPs,
    Calls,                     \* API calls in flight
    Worker, Loop, Pruner,      \* runObservers, banReloadLoop, banPruneLoop
    NoIP, NoCache,
    Thresholds,                \* values of ban.threshold
    DefaultThreshold,          \* defBanThreshold
    MaxEvents,                 \* bound: WAF blocks in a behaviour
    MaxCalls,                  \* bound: API calls in a behaviour
    MaxFaults                  \* bound: failing database statements in a behaviour

ASSUME BansAssumption ==
    /\ Thresholds \subseteq Nat \ {0}
    /\ DefaultThreshold \in Thresholds
    /\ MaxEvents \in Nat /\ MaxCalls \in Nat /\ MaxFaults \in Nat
    /\ Worker # Loop /\ Worker # Pruner /\ Loop # Pruner
    /\ {Worker, Loop, Pruner} \cap Calls = {}
    /\ NoIP \notin IPs

BanConfigs == [enabled : BOOLEAN, threshold : Thresholds]
Defaults == [enabled |-> FALSE, threshold |-> DefaultThreshold]
Tasks == Calls \cup {Worker, Loop, Pruner}

ASSUME NoCacheAssumption == NoCache \notin BanConfigs

VARIABLES
    row,        \* the bans table: the row of each IP, or "none"
    setting,    \* the ban.* rows of the settings table
    cache,      \* e.banConfig
    hits,       \* len(e.banHits[ip])
    signal,     \* a value is buffered in e.banReload
    pc, ip, cfg,            \* per task: position, IP and settings in hand
    carried,    \* the bans the latest Reload read
    failed,     \* a Reload failed since then
    tainted,    \* since the last SetBanConfig something went around it: see CacheAgrees
    events, calls, faults   \* how much of the bounds has been used

dataVars == <<row, setting, cache, hits, signal>>
taskVars == <<pc, ip, cfg>>
obsVars == <<carried, failed, tainted>>
boundVars == <<events, calls, faults>>
vars == <<dataVars, taskVars, obsVars, boundVars>>

Kinds == {"temp", "perm"}
LoadSteps == {"loadEnabled", "loadThreshold", "storeLoaded"}
SetSteps == {"setEnabled", "setThreshold", "storeSet"}
OtherSteps == {"restoreEnabled", "restoreThreshold", "putEnabled", "putThreshold"}
Steps == {"idle", "count", "check", "update", "insert", "signal", "debounce", "sweep", "prune",
          "delete", "forget", "read", "render"} \cup LoadSteps \cup SetSteps \cup OtherSteps

Active == {a \in IPs : row[a] \in Kinds}

TypeOK ==
    /\ row \in [IPs -> {"none", "expired"} \cup Kinds]
    /\ setting \in BanConfigs
    /\ cache \in BanConfigs \cup {NoCache}
    /\ hits \in [IPs -> Nat]
    /\ \A a \in IPs : \E n \in Thresholds : hits[a] < n
    /\ signal \in BOOLEAN
    /\ pc \in [Tasks -> Steps]
    /\ ip \in [Tasks -> IPs \cup {NoIP}]
    /\ cfg \in [Tasks -> BanConfigs]
    /\ carried \in SUBSET IPs
    /\ failed \in BOOLEAN /\ tainted \in BOOLEAN
    /\ events \in 0..MaxEvents /\ calls \in 0..MaxCalls /\ faults \in 0..MaxFaults

\* After Bootstrap: its Reload has read an empty table, nothing has asked for the settings.
Init ==
    /\ row = [a \in IPs |-> "none"]
    /\ setting \in BanConfigs
    /\ cache = NoCache
    /\ hits = [a \in IPs |-> 0]
    /\ signal = FALSE
    /\ pc = [t \in Tasks |-> "idle"]
    /\ ip = [t \in Tasks |-> NoIP]
    /\ cfg = [t \in Tasks |-> Defaults]
    /\ carried = {} /\ failed = FALSE /\ tainted = FALSE
    /\ events = 0 /\ calls = 0 /\ faults = 0

-----------------------------------------------------------------------------
Goto(t, from, to) ==
    /\ pc[t] = from
    /\ pc' = [pc EXCEPT ![t] = to]

Return(t) ==
    /\ pc' = [pc EXCEPT ![t] = "idle"]
    /\ ip' = [ip EXCEPT ![t] = NoIP]
    /\ cfg' = [cfg EXCEPT ![t] = Defaults]

Fault == faults < MaxFaults /\ faults' = faults + 1
NoFault == UNCHANGED faults

(* BanConfig: the cached value, or four reads that are then cached.        *)

\* What the caller goes on with once it has the settings.
AfterConfig(t) ==
    IF t = Worker THEN "count" ELSE IF t = Pruner THEN "sweep" ELSE "setEnabled"

\* A write of the settings that other tasks may be reading, or the other way round.
Writing(t) == pc[t] \in SetSteps
Loading(t) == pc[t] \in LoadSteps
Beside(t) == \E u \in Tasks \ {t} : Writing(u) \/ Loading(u)

\* A caller enters BanConfig.
CallBanConfig(t) ==
    /\ cfg' = [cfg EXCEPT ![t] = IF cache = NoCache THEN Defaults ELSE cache]
    /\ pc' = [pc EXCEPT ![t] = IF cache = NoCache THEN "loadEnabled" ELSE AfterConfig(t)]
    /\ tainted' = (tainted \/ (cache = NoCache /\ \E u \in Tasks : Writing(u)))

\* GetSetting; an error yields the default, as a missing row does.
LoadEnabled(t) ==
    /\ Goto(t, "loadEnabled", "loadThreshold")
    /\ \/ cfg' = [cfg EXCEPT ![t].enabled = setting.enabled] /\ NoFault /\ UNCHANGED tainted
       \/ cfg' = [cfg EXCEPT ![t].enabled = Defaults.enabled] /\ Fault /\ tainted' = TRUE
    /\ UNCHANGED <<dataVars, ip, carried, failed, events, calls>>

LoadThreshold(t) ==
    /\ Goto(t, "loadThreshold", "storeLoaded")
    /\ \/ cfg' = [cfg EXCEPT ![t].threshold = setting.threshold] /\ NoFault /\ UNCHANGED tainted
       \/ cfg' = [cfg EXCEPT ![t].threshold = Defaults.threshold] /\ Fault /\ tainted' = TRUE
    /\ UNCHANGED <<dataVars, ip, carried, failed, events, calls>>

\* e.banConfig.Store of what was loaded
StoreLoaded(t) ==
    /\ Goto(t, "storeLoaded", AfterConfig(t))
    /\ cache' = cfg[t]
    /\ UNCHANGED <<row, setting, hits, signal, ip, cfg, obsVars, boundVars>>
-----------------------------------------------------------------------------
(* handleSetBanConfig and SetBanConfig                                     *)

SetConfig(t) ==
    /\ t \in Calls /\ pc[t] = "idle"
    /\ calls < MaxCalls /\ calls' = calls + 1
    /\ CallBanConfig(t)
    /\ UNCHANGED <<dataVars, ip, carried, failed, events, faults>>

SetFailsQuietly(t) ==
    /\ pc[t] \in {"setEnabled", "setThreshold"}
    /\ Fault
    /\ Return(t)
    /\ UNCHANGED <<dataVars, obsVars, events, calls>>

\* A SetSetting fails: the cache is dropped, since the table may be half written.
SetFails(t) ==
    /\ pc[t] \in {"setEnabled", "setThreshold"}
    /\ Fault
    /\ cache' = NoCache
    /\ tainted' = (tainted /\ Beside(t))
    /\ Return(t)
    /\ UNCHANGED <<row, setting, hits, signal, carried, failed, events, calls>>

\* The request overrides what BanConfig returned; the first of the keys is written.
SetEnabled(t) ==
    /\ Goto(t, "setEnabled", "setThreshold")
    /\ \E c \in BanConfigs :
         /\ cfg' = [cfg EXCEPT ![t] = c]
         /\ setting' = [setting EXCEPT !.enabled = c.enabled]
    /\ tainted' = Beside(t)
    /\ UNCHANGED <<row, cache, hits, signal, ip, carried, failed, boundVars>>

SetThreshold(t) ==
    /\ Goto(t, "setThreshold", "storeSet")
    /\ setting' = [setting EXCEPT !.threshold = cfg[t].threshold]
    /\ UNCHANGED <<row, cache, hits, signal, ip, cfg, obsVars, boundVars>>

StoreSet(t) ==
    /\ pc[t] = "storeSet"
    /\ cache' = cfg[t]
    /\ Return(t)
    /\ UNCHANGED <<row, setting, hits, signal, obsVars, boundVars>>

(* The writers behind the cache: handleBackupRestore and handleSetSettings *)
(* write ban.* rows with SetSetting like any other key.                    *)

RestoreSettings(t) ==
    /\ t \in Calls /\ pc[t] = "idle"
    /\ calls < MaxCalls /\ calls' = calls + 1
    /\ pc' = [pc EXCEPT ![t] = "restoreEnabled"]
    /\ UNCHANGED <<dataVars, ip, cfg, obsVars, events, faults>>

PutSettings(t) ==
    /\ t \in Calls /\ pc[t] = "idle"
    /\ calls < MaxCalls /\ calls' = calls + 1
    /\ pc' = [pc EXCEPT ![t] = "putEnabled"]
    /\ UNCHANGED <<dataVars, ip, cfg, obsVars, events, faults>>

\* One SetSetting of either; a key that is not sent, or whose write fails, keeps its value.
\* The restore ends with a Reload, PUT /api/settings with nothing.
WriteEnabled(t) ==
    /\ Goto(t, "restoreEnabled", "restoreThreshold") \/ Goto(t, "putEnabled", "putThreshold")
    /\ \E b \in BOOLEAN : setting' = [setting EXCEPT !.enabled = b]
    /\ tainted' = (tainted \/ setting' # setting)
    /\ UNCHANGED <<row, cache, hits, signal, ip, cfg, carried, failed, boundVars>>

WriteThreshold(t) ==
    /\ Goto(t, "restoreThreshold", "read") \/ Goto(t, "putThreshold", "idle")
    /\ \E n \in Thresholds : setting' = [setting EXCEPT !.threshold = n]
    /\ tainted' = (tainted \/ setting' # setting)
    /\ UNCHANGED <<row, cache, hits, signal, ip, cfg, carried, failed, boundVars>>

-----------------------------------------------------------------------------
(* onWAFEvent                                                              *)

\* A blocked request of client a reaches the observer worker.
WAFEvent(a) ==
    /\ pc[Worker] = "idle"
    /\ events < MaxEvents /\ events' = events + 1
    /\ ip' = [ip EXCEPT ![Worker] = a]
    /\ CallBanConfig(Worker)
    /\ UNCHANGED <<dataVars, carried, failed, calls, faults>>

CountWithoutReset ==
    LET a == ip[Worker] IN
    /\ pc[Worker] = "count"
    /\ \/ /\ ~cfg[Worker].enabled
          /\ Return(Worker) /\ UNCHANGED hits
       \/ /\ cfg[Worker].enabled
          /\ \E kept \in 0..hits[a] :
               /\ hits' = [hits EXCEPT ![a] = kept + 1]
               /\ IF kept + 1 >= cfg[Worker].threshold
                    THEN Goto(Worker, "count", "check") /\ UNCHANGED <<ip, cfg>>
                    ELSE Return(Worker)
    /\ UNCHANGED <<row, setting, cache, signal, obsVars, boundVars>>

\* The early return, or the banMu section; kept of the recorded blocks are still inside
\* the window.
CountBlock ==
    LET a == ip[Worker] IN
    /\ pc[Worker] = "count"
    /\ \/ /\ ~cfg[Worker].enabled
          /\ Return(Worker) /\ UNCHANGED hits
       \/ /\ cfg[Worker].enabled
          /\ \E kept \in 0..hits[a] :
               \/ /\ kept + 1 >= cfg[Worker].threshold
                  /\ hits' = [hits EXCEPT ![a] = 0]
                  /\ Goto(Worker, "count", "check") /\ UNCHANGED <<ip, cfg>>
               \/ /\ kept + 1 < cfg[Worker].threshold
                  /\ hits' = [hits EXCEPT ![a] = kept + 1]
                  /\ Return(Worker)
    /\ UNCHANGED <<row, setting, cache, signal, obsVars, boundVars>>

\* IsActivelyBanned; its error reads as "not banned".
CheckBanned ==
    /\ pc[Worker] = "check"
    /\ \/ ip[Worker] \in Active /\ NoFault /\ Return(Worker)
       \/ ip[Worker] \notin Active /\ NoFault /\ Goto(Worker, "check", "update") /\ UNCHANGED <<ip, cfg>>
       \/ Fault /\ Goto(Worker, "check", "update") /\ UNCHANGED <<ip, cfg>>
    /\ UNCHANGED <<dataVars, obsVars, events, calls>>

SignalUnbuffered ==
    /\ pc[Worker] = "signal"
    /\ signal' = (signal \/ pc[Loop] = "idle")
    /\ Return(Worker)
    /\ UNCHANGED <<row, setting, cache, hits, obsVars, boundVars>>

\* scheduleBanReload: a send that a full buffer turns into a no-op.
ScheduleBanReload ==
    /\ pc[Worker] = "signal"
    /\ signal' = TRUE
    /\ Return(Worker)
    /\ UNCHANGED <<row, setting, cache, hits, obsVars, boundVars>>

-----------------------------------------------------------------------------
(* AddBan, by onWAFEvent and by AddManualBan; RemoveBan                    *)

\* What follows a successful AddBan.
AfterAddBan(t) == IF t = Worker THEN "signal" ELSE "read"

ManualBan(t, a) ==
    /\ t \in Calls /\ pc[t] = "idle"
    /\ calls < MaxCalls /\ calls' = calls + 1
    /\ pc' = [pc EXCEPT ![t] = "update"]
    /\ ip' = [ip EXCEPT ![t] = a]
    /\ UNCHANGED <<dataVars, cfg, obsVars, events, faults>>

\* UPDATE bans ... WHERE ip=?: an expired row is revived, an active one overwritten.
UpdateBan(t) ==
    /\ pc[t] = "update"
    /\ \/ /\ row[ip[t]] # "none"
          /\ \E k \in Kinds : row' = [row EXCEPT ![ip[t]] = k]
          /\ Goto(t, "update", AfterAddBan(t))
       \/ /\ row[ip[t]] = "none"
          /\ Goto(t, "update", "insert") /\ UNCHANGED row
    /\ UNCHANGED <<setting, cache, hits, signal, ip, cfg, obsVars, boundVars>>

\* INSERT INTO bans: ip is the primary key.
InsertBan(t) ==
    /\ pc[t] = "insert"
    /\ \/ /\ row[ip[t]] = "none"
          /\ \E k \in Kinds : row' = [row EXCEPT ![ip[t]] = k]
          /\ Goto(t, "insert", AfterAddBan(t)) /\ UNCHANGED <<ip, cfg>>
       \/ /\ row[ip[t]] # "none"
          /\ Return(t) /\ UNCHANGED row
    /\ UNCHANGED <<setting, cache, hits, signal, obsVars, boundVars>>

\* A statement of AddBan, DeleteBan or PruneExpiredBans fails: the caller gives up.
StatementFails(t) ==
    /\ pc[t] \in {"update", "insert", "delete", "prune"}
    /\ Fault
    /\ Return(t)
    /\ UNCHANGED <<dataVars, obsVars, events, calls>>

RemoveBan(t, a) ==
    /\ t \in Calls /\ pc[t] = "idle"
    /\ calls < MaxCalls /\ calls' = calls + 1
    /\ pc' = [pc EXCEPT ![t] = "delete"]
    /\ ip' = [ip EXCEPT ![t] = a]
    /\ UNCHANGED <<dataVars, cfg, obsVars, events, faults>>

DeleteBan(t) ==
    /\ Goto(t, "delete", "forget")
    /\ row' = [row EXCEPT ![ip[t]] = "none"]
    /\ UNCHANGED <<setting, cache, hits, signal, ip, cfg, obsVars, boundVars>>

ForgetHits(t) ==
    /\ Goto(t, "forget", "read")
    /\ hits' = [hits EXCEPT ![ip[t]] = 0]
    /\ UNCHANGED <<row, setting, cache, signal, ip, cfg, obsVars, boundVars>>

-----------------------------------------------------------------------------
(* banReloadLoop and banPruneLoop                                          *)

LoopWakes ==
    /\ signal /\ signal' = FALSE
    /\ Goto(Loop, "idle", "debounce")
    /\ UNCHANGED <<row, setting, cache, hits, ip, cfg, obsVars, boundVars>>

\* The two-second timer.
Debounced ==
    /\ Goto(Loop, "debounce", "read")
    /\ UNCHANGED <<dataVars, ip, cfg, obsVars, boundVars>>

\* Time passes for a temporary ban.
Expire(a) ==
    /\ row[a] = "temp"
    /\ row' = [row EXCEPT ![a] = "expired"]
    /\ UNCHANGED <<setting, cache, hits, signal, taskVars, obsVars, boundVars>>

\* A tick of banPruneLoop begins with sweepBanHits, which asks for the settings.
PruneTick ==
    /\ pc[Pruner] = "idle"
    /\ CallBanConfig(Pruner)
    /\ UNCHANGED <<dataVars, ip, carried, failed, boundVars>>

SweepOnly ==
    /\ pc[Pruner] = "sweep"
    /\ \E S \in SUBSET IPs : hits' = [a \in IPs |-> IF a \in S THEN 0 ELSE hits[a]]
    /\ Return(Pruner)
    /\ UNCHANGED <<row, setting, cache, signal, obsVars, boundVars>>

\* Any of the windows may have gone stale.  The settings are a local of sweepBanHits.
SweepBanHits ==
    /\ Goto(Pruner, "sweep", "prune")
    /\ \E S \in SUBSET IPs : hits' = [a \in IPs |-> IF a \in S THEN 0 ELSE hits[a]]
    /\ cfg' = [cfg EXCEPT ![Pruner] = Defaults]
    /\ UNCHANGED <<row, setting, cache, signal, ip, obsVars, boundVars>>

PruneOnly ==
    /\ pc[Pruner] = "prune"
    /\ row' = [a \in IPs |-> IF row[a] = "expired" THEN "none" ELSE row[a]]
    /\ Return(Pruner)
    /\ UNCHANGED <<setting, cache, hits, signal, obsVars, boundVars>>

\* PruneExpiredBans, and Reload when it removed a row.
PruneExpiredBans ==
    /\ pc[Pruner] = "prune"
    /\ row' = [a \in IPs |-> IF row[a] = "expired" THEN "none" ELSE row[a]]
    /\ IF row' = row THEN Return(Pruner)
                     ELSE Goto(Pruner, "prune", "read") /\ UNCHANGED <<ip, cfg>>
    /\ UNCHANGED <<setting, cache, hits, signal, obsVars, boundVars>>

-----------------------------------------------------------------------------
(* Reload, by whoever calls it                                             *)

\* ListActiveBans
ReadBans(t) ==
    /\ Goto(t, "read", "render")
    /\ carried' = Active
    /\ failed' = FALSE
    /\ UNCHANGED <<dataVars, ip, cfg, tainted, boundVars>>

ReloadReturns(t) ==
    /\ pc[t] = "render"
    /\ Return(t)
    /\ UNCHANGED <<dataVars, obsVars, boundVars>>

\* Any statement of Reload fails, or its request's context is cancelled: logged or
\* reported, not retried.
ReloadFails(t) ==
    /\ pc[t] \in {"read", "render"}
    /\ Fault
    /\ failed' = TRUE
    /\ Return(t)
    /\ UNCHANGED <<dataVars, carried, tainted, events, calls>>

-----------------------------------------------------------------------------
ConfigStep(t) ==
    LoadEnabled(t) \/ LoadThreshold(t) \/ StoreLoaded(t)
       \/ SetEnabled(t) \/ SetThreshold(t) \/ StoreSet(t) \/ SetFails(t)
       \/ WriteEnabled(t) \/ WriteThreshold(t)
TableStep(t) == UpdateBan(t) \/ InsertBan(t) \/ DeleteBan(t) \/ ForgetHits(t) \/ StatementFails(t)
ReloadStep(t) == ReadBans(t) \/ ReloadReturns(t) \/ ReloadFails(t)
TaskStep(t) == ConfigStep(t) \/ TableStep(t) \/ ReloadStep(t)
WorkerStep == CountBlock \/ CheckBanned \/ ScheduleBanReload
LoopStep == LoopWakes \/ Debounced
PrunerStep == PruneTick \/ SweepBanHits \/ PruneExpiredBans

Next ==
    \/ \E t \in Tasks : TaskStep(t)
    \/ WorkerStep \/ LoopStep \/ PrunerStep
    \/ \E a \in IPs : WAFEvent(a) \/ Expire(a)
    \/ \E t \in Calls :
         \/ SetConfig(t) \/ RestoreSettings(t) \/ PutSettings(t)
         \/ \E a \in IPs : ManualBan(t, a) \/ RemoveBan(t, a)

Spec == Init /\ [][Next]_vars

(* The goroutines go on once started, the loop receives what is buffered,  *)
(* and the prune ticker ticks.  Nothing forces an event, a call or expiry. *)
FairSpec ==
    /\ Spec
    /\ \A t \in Tasks : WF_vars(TaskStep(t))
    /\ WF_vars(WorkerStep) /\ WF_vars(LoopStep) /\ WF_vars(PrunerStep)

-----------------------------------------------------------------------------
(* Properties                                                              *)

(* No lost wake-up: while an active ban is missing from what the latest    *)
(* Reload read, somebody is still going to read the table: a signal is     *)
(* buffered or about to be, the loop is debouncing, or a Reload is about   *)
(* to start, unless a Reload failed (bans.go:153-180).                     *)
BansAreOwed ==
    (Active \ carried # {} /\ ~failed) =>
        \/ signal \/ pc[Worker] = "signal" \/ pc[Loop] = "debounce"
        \/ \E t \in Tasks : pc[t] = "read"

(* The same for a ban that is over: its expired row is still there for the *)
(* pruner to find, or whoever removed it is on the way to a Reload         *)
(* (bans.go:208-244).                                                      *)
LiftsAreOwed ==
    ~failed => \A a \in carried \ Active :
        \/ row[a] = "expired"
        \/ pc[Loop] = "debounce" \/ \E t \in Tasks : pc[t] \in {"forget", "read"}

(* After a SetBanConfig, also one that failed half-way, the cached         *)
(* settings are the stored ones (bans.go:57-81) until something goes       *)
(* around it: a write behind the cache by a restore or PUT /api/settings,  *)
(* a load or another write that overlaps it, a load that met a database    *)
(* error.  The next SetBanConfig that is alone puts an end to each of      *)
(* these.  MCBansCache shows that they do happen.                          *)
CacheAgrees ==
    (~tainted /\ \A t \in Tasks : ~Writing(t) /\ ~Loading(t)) => cache \in {NoCache, setting}

(* Every difference between the bans in force and what the latest Reload   *)
(* read is eventually read by one, unless a Reload fails.                  *)
BansConverge ==
    \A a \in IPs : (a \in Active) # (a \in carried) ~> ((a \in Active) = (a \in carried) \/ failed)

(* "The cache is the source of truth within the process: SetBanConfig is   *)
(* the only writer and refreshes it" (bans.go:45-47): between calls the    *)
(* cached settings are the stored ones.                                    *)
CacheIsSourceOfTruth ==
    (\A t \in Tasks : pc[t] \notin LoadSteps \cup SetSteps \cup OtherSteps) => cache \in {NoCache, setting}
=============================================================================
