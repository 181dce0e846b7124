------------------------------ MODULE Pipeline ------------------------------
(***************************************************************************)
(* internal/engine: the render -> validate -> snapshot -> serve pipeline.  *)
(*                                                                         *)
(* API handlers, background loops and the ACME manager write the tables;   *)
(* most of them call Engine.Reload afterwards, some only later or never    *)
(* (PUT /api/settings, the status rows of an issuance, an automatic ban    *)
(* before its debounce), so writes and Reloads are actions of their own.   *)
(* An operator may call Engine.Rollback.  None of them holds a lock from   *)
(* its first read to its last write: each database statement, each edge    *)
(* setter and each e.mu section is a step of its own here, and any number  *)
(* of operations may be in flight.                                         *)
(*                                                                         *)
(* A configuration is abstracted to the three inputs the properties tell   *)
(* apart: the host rows, the certificate row (a generation: every issuance *)
(* stores a new PEM and a new key) and the settings (some of which hold a  *)
(* raw snippet that does not parse or does not validate).  Its rendered    *)
(* document keeps of the host rows only what Traefik is told (JsonRow):    *)
(* rows that differ in what only the edge reads render to one document.    *)
(* The hash stands for the document, so equal hashes are equal documents.  *)
(***************************************************************************)
EXTENDS Naturals, FiniteSets

CONSTANTS
    Tasks,        \* goroutines that call Reload or Rollback
    HostRows,     \* values of the hosts table
    Settings,     \* values of the settings table
    BadSettings,  \* those that renderConfig rejects
    JsonRow(_),   \* the part of a hosts table that reaches the Traefik document
    NoConfig,     \* e.rendered == nil and its document {}; also an absent snapshot row
    NoFetch,      \* no provider request is being answered
    NoKey,        \* the key of a certificate that InjectKeys left out
    Keep,         \* snapshots kept by PruneSnapshots
    MaxGen,       \* bound: certificate issuances
    MaxVersion,   \* bound: snapshot versions
    MaxOps,       \* bound: reloads, rollbacks and restarts in a behaviour
    MaxWrites,    \* bound: writes of the tables in a behaviour
    MaxFaults     \* bound: failing database statements in a behaviour

Configs == [hosts : HostRows, cert : 0..MaxGen, settings : Settings]
Json(c) == [c EXCEPT !.hosts = JsonRow(c.hosts)]
Good(c) == c.settings \notin BadSettings

ASSUME PipelineAssumption ==
    /\ Keep \in Nat \ {0}
    /\ MaxGen \in Nat /\ MaxVersion \in Nat /\ MaxOps \in Nat
    /\ MaxWrites \in Nat /\ MaxFaults \in Nat
    /\ BadSettings \subseteq Settings
    /\ \A h \in HostRows : JsonRow(h) \in HostRows
    /\ NoConfig \notin Configs
    /\ NoFetch \notin Configs \cup {NoConfig}
    /\ NoKey \notin 0..MaxGen

VARIABLES
    db,          \* the tables a render reads
    snaps,       \* config_snapshots: version -> configuration
    rendered,    \* e.rendered
    version,     \* e.version
    edge,        \* what the edge was last given: host rows and feature flags
    up,          \* Bootstrap has returned: the API and the loops run
    pc, local, next,          \* per task: position, config in hand, snapshot version in hand
    tag, doc, fetch,          \* Traefik: ETag and document held; configuration being fetched
    ops, writes, faults,      \* how much of the bounds has been used
    overlapped, last,         \* did the latest operation overlap another; its outcome
    written                   \* the tables written since the latest operation began

memVars == <<rendered, version, edge, up>>
taskVars == <<pc, local, next>>
pollVars == <<tag, doc, fetch>>
boundVars == <<ops, writes, faults>>
obsVars == <<overlapped, last, written>>
vars == <<db, snaps, memVars, taskVars, pollVars, boundVars, obsVars>>

Tables == {"hosts", "cert", "settings"}
Versions == 1..MaxVersion
MaybeConfig == Configs \cup {NoConfig}
ReloadSteps == {"hosts", "certs", "settings", "edgeHosts", "edgeFlags", "compare",
                "same", "latest", "insert", "prune", "swap"}
RollbackSteps == {"rbSwap", "rbLatest", "rbInsert", "rbVersion"}
Idle(t) == pc[t] = "idle"
AllIdle == \A t \in Tasks : Idle(t)

TypeOK ==
    /\ db \in Configs
    /\ snaps \in [Versions -> MaybeConfig]
    /\ rendered \in MaybeConfig
    /\ version \in 0..MaxVersion
    /\ edge \in [hosts : HostRows \cup {NoConfig}, settings : Settings \cup {NoConfig}]
    /\ up \in BOOLEAN
    /\ pc \in [Tasks -> {"idle"} \cup ReloadSteps \cup RollbackSteps]
    /\ local \in [Tasks -> MaybeConfig]
    /\ next \in [Tasks -> 0..MaxVersion]
    /\ tag \in MaybeConfig
    /\ doc \in [cfg : MaybeConfig, key : 0..MaxGen \cup {NoKey}]
    /\ fetch \in MaybeConfig \cup {NoFetch}
    /\ ops \in 0..MaxOps /\ writes \in 0..MaxWrites /\ faults \in 0..MaxFaults
    /\ overlapped \in BOOLEAN /\ written \in SUBSET Tables
    /\ last \in {"none", "ok", "err", "rollback"}

NoEdge == [hosts |-> NoConfig, settings |-> NoConfig]
NoDoc == [cfg |-> NoConfig, key |-> NoKey]

\* A new process over a database that has never been rendered.
Init ==
    /\ db \in {c \in Configs : c.cert = 0 /\ Good(c)}
    /\ snaps = [v \in Versions |-> NoConfig]
    /\ rendered = NoConfig /\ version = 0 /\ edge = NoEdge /\ up = FALSE
    /\ pc = [t \in Tasks |-> "idle"]
    /\ local = [t \in Tasks |-> NoConfig]
    /\ next = [t \in Tasks |-> 0]
    /\ tag = NoConfig /\ fetch = NoFetch
    /\ doc = NoDoc
    /\ ops = 0 /\ writes = 0 /\ faults = 0
    /\ overlapped = FALSE /\ last = "none" /\ written = {}

-----------------------------------------------------------------------------
(* Starting and ending an operation                                        *)

Begin(t, step, cfg) ==
    /\ Idle(t)
    /\ pc' = [pc EXCEPT ![t] = step]
    /\ local' = [local EXCEPT ![t] = cfg]
    /\ overlapped' = ~AllIdle /\ written' = {}

Return(t, outcome) ==
    /\ pc' = [pc EXCEPT ![t] = "idle"]
    /\ local' = [local EXCEPT ![t] = NoConfig]
    /\ next' = [next EXCEPT ![t] = 0]
    /\ last' = outcome
    /\ up' = TRUE

Goto(t, from, to) ==
    /\ pc[t] = from
    /\ pc' = [pc EXCEPT ![t] = to]

\* Bootstrap: the first Reload of the process, before anything else may call the engine.
Bootstrap(t) ==
    /\ ~up /\ AllIdle
    /\ Begin(t, "hosts", NoConfig)
    /\ UNCHANGED <<db, snaps, memVars, next, pollVars, boundVars, last>>

\* A statement of a handler, a loop or the ACME manager changes a table that is rendered.
Write ==
    /\ up /\ writes < MaxWrites /\ writes' = writes + 1
    /\ \/ /\ \E h \in HostRows \ {db.hosts} : db' = [db EXCEPT !.hosts = h]
          /\ written' = written \cup {"hosts"}
       \/ /\ \E s \in Settings \ {db.settings} : db' = [db EXCEPT !.settings = s]
          /\ written' = written \cup {"settings"}
       \/ /\ db.cert < MaxGen /\ db' = [db EXCEPT !.cert = @ + 1]
          /\ written' = written \cup {"cert"}
    /\ UNCHANGED <<snaps, memVars, taskVars, pollVars, ops, faults, overlapped, last>>

\* A handler (reloadAfterChange) or a loop calls Reload, after its write or without one.
ReloadBegins(t) ==
    /\ up /\ ops < MaxOps /\ ops' = ops + 1
    /\ Begin(t, "hosts", NoConfig)
    /\ UNCHANGED <<db, snaps, memVars, next, pollVars, writes, faults, last>>

\* xgress dies and is started again; a managed Traefik dies with it, an external one keeps
\* what it has.
Crash ==
    /\ ops < MaxOps /\ ops' = ops + 1
    /\ rendered' = NoConfig /\ version' = 0 /\ edge' = NoEdge /\ up' = FALSE
    /\ pc' = [t \in Tasks |-> "idle"]
    /\ local' = [t \in Tasks |-> NoConfig]
    /\ next' = [t \in Tasks |-> 0]
    /\ \/ UNCHANGED <<tag, doc>>
       \/ tag' = NoConfig /\ doc' = NoDoc
    /\ fetch' = NoFetch
    /\ overlapped' = FALSE /\ last' = "none" /\ written' = {}
    /\ UNCHANGED <<db, snaps, writes, faults>>

-----------------------------------------------------------------------------
(* Reload                                                                  *)

\* A statement of renderConfig or of the snapshot step returns an error.
DbError(t) ==
    /\ pc[t] \in {"hosts", "certs", "settings", "latest", "insert"}
    /\ faults < MaxFaults /\ faults' = faults + 1
    /\ Return(t, "err")
    /\ UNCHANGED <<db, snaps, rendered, version, edge, pollVars, ops, writes, overlapped, written>>

\* ListHosts; the other fields are overwritten by the reads that follow.
ReadHosts(t) ==
    /\ Goto(t, "hosts", "certs")
    /\ local' = [local EXCEPT ![t] = db]
    /\ UNCHANGED <<db, snaps, memVars, next, pollVars, boundVars, obsVars>>

\* ListCertificates (and, with the same effect, the middlewares, access lists and bans)
ReadCerts(t) ==
    /\ Goto(t, "certs", "settings")
    /\ local' = [local EXCEPT ![t].cert = db.cert]
    /\ UNCHANGED <<db, snaps, memVars, next, pollVars, boundVars, obsVars>>

ServeUnvalidated(t) ==
    LET res == [local[t] EXCEPT !.settings = db.settings] IN
    /\ Goto(t, "settings", "edgeHosts")
    /\ local' = [local EXCEPT ![t] = res]
    /\ UNCHANGED <<db, snaps, memVars, next, pollVars, boundVars, obsVars>>

SkipEdgeWhenUnchanged(t) ==
    LET res == [local[t] EXCEPT !.settings = db.settings] IN
    /\ pc[t] = "settings"
    /\ \/ /\ Good(res)
          /\ Goto(t, "settings", IF rendered = Json(res) THEN "same" ELSE "edgeHosts")
          /\ local' = [local EXCEPT ![t] = res]
          /\ UNCHANGED <<next, up, last>>
       \/ /\ ~Good(res)
          /\ Return(t, "err")
    /\ UNCHANGED <<db, snaps, rendered, version, edge, pollVars, boundVars, overlapped, written>>

\* ListAllSettings, Render and ValidateConfig
ReadSettings(t) ==
    LET res == [local[t] EXCEPT !.settings = db.settings] IN
    /\ pc[t] = "settings"
    /\ \/ /\ Good(res)
          /\ Goto(t, "settings", "edgeHosts")
          /\ local' = [local EXCEPT ![t] = res]
          /\ UNCHANGED <<next, up, last>>
       \/ /\ ~Good(res)
          /\ Return(t, "err")
    /\ UNCHANGED <<db, snaps, rendered, version, edge, pollVars, boundVars, overlapped, written>>

\* e.edge.SetHosts
SetHosts(t) ==
    /\ Goto(t, "edgeHosts", "edgeFlags")
    /\ edge' = [edge EXCEPT !.hosts = local[t].hosts]
    /\ UNCHANGED <<db, snaps, rendered, version, up, local, next, pollVars, boundVars, obsVars>>

\* e.edge.SetEnabled
SetEnabled(t) ==
    /\ Goto(t, "edgeFlags", "compare")
    /\ edge' = [edge EXCEPT !.settings = local[t].settings]
    /\ UNCHANGED <<db, snaps, rendered, version, up, local, next, pollVars, boundVars, obsVars>>

\* The RLock section: is the new hash the served one?
Compare(t) ==
    /\ pc[t] = "compare"
    /\ pc' = [pc EXCEPT ![t] = IF rendered = Json(local[t]) THEN "same" ELSE "latest"]
    /\ UNCHANGED <<db, snaps, memVars, local, next, pollVars, boundVars, obsVars>>

\* The Lock section of the unchanged case.
SwapSame(t) ==
    /\ pc[t] = "same"
    /\ rendered' = Json(local[t])
    /\ Return(t, "ok")
    /\ UNCHANGED <<db, snaps, version, edge, pollVars, boundVars, overlapped, written>>

Present(v) == snaps[v] # NoConfig
IsLatest(v) ==
    /\ v # 0 => Present(v)
    /\ \A w \in Versions : Present(w) => w <= v

\* LatestSnapshotVersion: MAX(version), 0 for an empty table
ReadLatest(t) ==
    /\ Goto(t, "latest", "insert")
    /\ \E v \in 0..(MaxVersion - 1) : IsLatest(v) /\ next' = [next EXCEPT ![t] = v + 1]
    /\ UNCHANGED <<db, snaps, memVars, local, pollVars, boundVars, obsVars>>

\* AddSnapshot: the version is the primary key.
AddSnapshot(t) ==
    /\ pc[t] = "insert"
    /\ \/ /\ ~Present(next[t])
          /\ snaps' = [snaps EXCEPT ![next[t]] = Json(local[t])]
          /\ Goto(t, "insert", "prune")
          /\ UNCHANGED <<local, next, up, last>>
       \/ /\ Present(next[t])
          /\ Return(t, "err")
          /\ UNCHANGED snaps
    /\ UNCHANGED <<db, rendered, version, edge, pollVars, boundVars, overlapped, written>>

\* The newest Keep rows survive.
Kept(v) == Cardinality({w \in Versions : Present(w) /\ w > v}) < Keep
KeptOldest(v) == Cardinality({w \in Versions : Present(w) /\ w < v}) < Keep

PruneOldestFirst(t) ==
    /\ Goto(t, "prune", "swap")
    /\ snaps' = [v \in Versions |-> IF KeptOldest(v) THEN snaps[v] ELSE NoConfig]
    /\ UNCHANGED <<db, memVars, local, next, pollVars, boundVars, obsVars>>

\* PruneSnapshots; its error is ignored.
Prune(t) ==
    /\ Goto(t, "prune", "swap")
    /\ \/ /\ snaps' = [v \in Versions |-> IF Kept(v) THEN snaps[v] ELSE NoConfig]
          /\ UNCHANGED faults
       \/ /\ faults < MaxFaults /\ faults' = faults + 1
          /\ UNCHANGED snaps
    /\ UNCHANGED <<db, memVars, local, next, pollVars, ops, writes, obsVars>>

\* The final Lock section.
Swap(t) ==
    /\ pc[t] = "swap"
    /\ rendered' = Json(local[t])
    /\ version' = next[t]
    /\ Return(t, "ok")
    /\ UNCHANGED <<db, snaps, edge, pollVars, boundVars, overlapped, written>>

-----------------------------------------------------------------------------
(* Rollback                                                                *)

\* GetSnapshot; a missing version is an error to the caller.
RollbackBegins(t) ==
    /\ up /\ ops < MaxOps
    /\ \E v \in Versions : Present(v) /\ Begin(t, "rbSwap", snaps[v])
    /\ ops' = ops + 1
    /\ UNCHANGED <<db, snaps, memVars, next, pollVars, writes, faults, last>>

RollbackSwaps(t) ==
    /\ Goto(t, "rbSwap", "rbLatest")
    /\ rendered' = local[t]
    /\ UNCHANGED <<db, snaps, version, edge, up, local, next, pollVars, boundVars, obsVars>>

RollbackCountsTwice(t) ==
    /\ Goto(t, "rbLatest", "rbInsert")
    /\ \E v \in 0..(MaxVersion - 1) : IsLatest(v) /\ next' = [next EXCEPT ![t] = v + 2]
    /\ UNCHANGED <<db, snaps, memVars, local, pollVars, boundVars, obsVars>>

\* An error leaves next at 0, so the increment makes it 1.
RollbackLatest(t) ==
    /\ Goto(t, "rbLatest", "rbInsert")
    /\ \/ /\ \E v \in 0..(MaxVersion - 1) : IsLatest(v) /\ next' = [next EXCEPT ![t] = v + 1]
          /\ UNCHANGED faults
       \/ /\ faults < MaxFaults /\ faults' = faults + 1
          /\ MaxVersion > 0 /\ next' = [next EXCEPT ![t] = 1]
    /\ UNCHANGED <<db, snaps, memVars, local, pollVars, ops, writes, obsVars>>

\* The result of AddSnapshot is ignored, a duplicate key included.
RollbackInserts(t) ==
    /\ Goto(t, "rbInsert", "rbVersion")
    /\ \/ /\ snaps' = IF Present(next[t]) THEN snaps ELSE [snaps EXCEPT ![next[t]] = local[t]]
          /\ UNCHANGED faults
       \/ /\ faults < MaxFaults /\ faults' = faults + 1
          /\ UNCHANGED snaps
    /\ UNCHANGED <<db, memVars, local, next, pollVars, ops, writes, obsVars>>

RollbackVersion(t) ==
    /\ pc[t] = "rbVersion"
    /\ version' = next[t]
    /\ Return(t, "rollback")
    /\ UNCHANGED <<db, snaps, rendered, edge, pollVars, boundVars, overlapped, written>>

-----------------------------------------------------------------------------
(* Traefik polls the provider endpoint (handleProvider, ProviderDocument)  *)

PollByVersion ==
    /\ up /\ fetch = NoFetch
    /\ version # 0 => snaps[version] # tag
    /\ fetch' = rendered
    /\ UNCHANGED <<db, snaps, memVars, taskVars, tag, doc, boundVars, obsVars>>

\* The hash differs from the poller's ETag (else: 304): ProviderDocument takes e.rendered.
\* No ETag and the ETag "empty" are one value: both go with the document {}.
Poll ==
    /\ up /\ fetch = NoFetch
    /\ rendered # tag
    /\ fetch' = rendered
    /\ UNCHANGED <<db, snaps, memVars, taskVars, tag, doc, boundVars, obsVars>>

\* A document without certificates is served as it is; else the placeholder becomes the key,
\* or the certificate is left out.
InjectKeys(c, key) == IF c = NoConfig THEN NoDoc ELSE [cfg |-> c, key |-> key]

\* The key is that of the certificate row as it is by then; a row that cannot be read only
\* costs its certificate, and the ETag stays that of the full document.
Answer ==
    /\ fetch # NoFetch
    /\ tag' = fetch
    /\ \/ doc' = InjectKeys(fetch, db.cert) /\ UNCHANGED faults
       \/ /\ faults < MaxFaults /\ faults' = faults + 1
          /\ doc' = InjectKeys(fetch, NoKey)
    /\ fetch' = NoFetch
    /\ UNCHANGED <<db, snaps, memVars, taskVars, ops, writes, obsVars>>

-----------------------------------------------------------------------------
ReloadStep(t) ==
    \/ ReadHosts(t) \/ ReadCerts(t) \/ ReadSettings(t) \/ SetHosts(t) \/ SetEnabled(t)
    \/ Compare(t) \/ SwapSame(t) \/ ReadLatest(t) \/ AddSnapshot(t) \/ Prune(t) \/ Swap(t)
    \/ DbError(t)
RollbackStep(t) ==
    RollbackSwaps(t) \/ RollbackLatest(t) \/ RollbackInserts(t) \/ RollbackVersion(t)

Next ==
    \/ \E t \in Tasks :
         Bootstrap(t) \/ ReloadBegins(t) \/ RollbackBegins(t) \/ ReloadStep(t) \/ RollbackStep(t)
    \/ Write \/ Crash \/ Poll \/ Answer

Spec == Init /\ [][Next]_vars

\* Traefik keeps polling.  Nothing is assumed of the operations: TraefikFollows needs none.
FairSpec == Spec /\ WF_vars(Poll) /\ WF_vars(Answer)

-----------------------------------------------------------------------------
(* Properties                                                              *)

(* "a bad change never takes down the proxy" (engine.go:206): whatever the *)
(* edits, failures, rollbacks and restarts, the served configuration and   *)
(* every snapshot a rollback could bring back passed renderConfig.         *)
OnlyValidatedServed ==
    /\ rendered # NoConfig => Good(rendered)
    /\ \A v \in Versions : Present(v) => Good(snaps[v])

(* The version history never loses its newest entry: concurrent inserts,   *)
(* collisions and PruneSnapshots leave MAX(version) where it was or higher *)
(* (engine.go:236-245, 603-605).                                           *)
HistoryNeverRegresses ==
    [][\A v, w \in 0..MaxVersion : IsLatest(v) /\ IsLatest(w)' => v <= w]_vars

(* A Reload that no other operation overlapped and that returned without   *)
(* error (engine.go:203-253), the unchanged-hash shortcut included, leaves *)
(* Traefik's configuration and the edge in agreement, and both at the      *)
(* contents of the database, but for the tables somebody has written since *)
(* the Reload began: those stay stale until the next one.                  *)
SoloReloadServesDatabase ==
    (up /\ AllIdle /\ ~overlapped /\ last = "ok") =>
        /\ rendered.hosts = JsonRow(edge.hosts) /\ rendered.settings = edge.settings
        /\ "hosts" \in written \/ edge.hosts = db.hosts
        /\ "cert" \in written \/ rendered.cert = db.cert
        /\ "settings" \in written \/ edge.settings = db.settings

(* Traefik ends up with what is served, the empty document of a process    *)
(* that never rendered included: the 304 shortcut does not answer "not     *)
(* modified" for good while Traefik holds something else                   *)
(* (RenderedHash, engine.go:360-367).                                      *)
TraefikFollows ==
    \A c \in MaybeConfig :
        (up /\ rendered = c) ~> (doc.cfg = c \/ rendered # c \/ ~up)

(* "keep the freshest Result object; hash/JSON are identical"              *)
(* (engine.go:230): the unchanged shortcut never alters what is served.    *)
UnchangedSwapIsIdentical ==
    [][\A t \in Tasks : SwapSame(t) => rendered' = rendered]_vars

(* "The snapshot JSON still contains @@KEY placeholders, so it serves      *)
(* correctly with current certificate keys." (engine.go:592-593): when no  *)
(* operation is running and no table was written since the last one began, *)
(* the document Traefik holds for the served configuration pairs each      *)
(* certificate with the key issued with it.                                *)
KeyPairsMatch ==
    (AllIdle /\ written = {} /\ rendered # NoConfig /\ doc.cfg = rendered /\ tag = rendered)
        => doc.cfg.cert = doc.key
=============================================================================
