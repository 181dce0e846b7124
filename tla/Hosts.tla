-------------------------------- MODULE Hosts --------------------------------
(***************************************************************************)
(* The configuration the operators keep: hosts, access lists, reusable     *)
(* middlewares, plugin settings, the raw snippet, schedules, and backups:  *)
(* internal/api/handlers_hosts.go, handlers_features.go,                   *)
(* handlers_middlewares.go, handlers_backup.go and                         *)
(* internal/engine/schedule.go over the store.                             *)
(*                                                                         *)
(* A job is an API request past its authentication, or the scheduler; each *)
(* statement on the database is a step.  A reload is one step here and     *)
(* serves the tables it finds; how reloads interleave is Pipeline.         *)
(***************************************************************************)
EXTENDS Rendering

CONSTANTS
    Jobs,           \* bound: API requests served at one time
    Scheduler,      \* the goroutine of StartScheduler
    HostForms,      \* bodies a host request may carry
    AclForms,       \* bodies an access list request may carry
    MwForms,        \* bodies a middleware request may carry
    SnippetForms,   \* snippets, each the set of its routers
    Foreign,        \* backups of other installations, or written by hand
    Installations,  \* databases the behaviours start from
    Catalogue,      \* databases that are only rendered
    MaxEdits,       \* bound: requests that change something
    MaxBroken       \* bound: statements that fail

(* What the columns and the settings can hold; an id has at most one row.  *)
Optional(S) == {s \in SUBSET S : \A r, q \in s : r = q}

HostTable == [Hosts -> Optional(Host)]
AclTable == [Acls -> Optional(Acl)]
MwTable == [Mws -> Optional(Middleware)]

Database == [hosts : HostTable, acls : AclTable, mws : MwTable,
             waf : BOOLEAN, cache : BOOLEAN, banned : BOOLEAN, raw : SUBSET RawRouter]

(* A backup; keys are the settings it has a value for.                     *)
SettingKeys == {"waf", "cache", "raw"}

BackupDoc == [hosts : HostTable, acls : AclTable, mws : MwTable,
              settings : [waf : BOOLEAN, cache : BOOLEAN, raw : SUBSET RawRouter],
              keys : SUBSET SettingKeys]

(* The snippet is parsed before anything is rendered.                      *)
Parses(snippet) == \A t \in snippet : ParseRawConfig(t.rank)

(* Bodies are decoded into the types of the rows; toUsers drops a user     *)
(* without a name or a hash, which only a backup can bring.  A behaviour   *)
(* starts with a database that Bootstrap could render.                     *)
ASSUME HostsAssumption ==
    /\ Scheduler \notin Jobs
    /\ MaxEdits \in Nat /\ MaxBroken \in Nat
    /\ HostForms \subseteq Host /\ MwForms \subseteq Middleware
    /\ AclForms \subseteq {a \in Acl : a.users => a.usable}
    /\ SnippetForms \subseteq SUBSET RawRouter /\ Foreign \subseteq BackupDoc
    /\ \A d \in Installations \cup Catalogue : d \in Database /\ Parses(d.raw)

VARIABLES
    db,         \* the tables, as Rendering reads them
    keys,       \* settings that have a row
    plans,      \* schedules: <<host, wanted>>
    served,     \* the tables behind the document being served
    known,      \* ids drawn so far
    file,       \* the exported backup: none, or one
    job,        \* each job: at, id and row of the host it writes, admin, todo, flag; the
                \* backup doc it reads or writes; for the properties, then (the tables when
                \* an export began) and sound (nothing failed, nobody else wrote)
    stale,      \* jobs whose host was written since they read it
    edits,      \* changing requests so far
    broken      \* statements that failed so far

hostsVars == <<db, keys, plans, served, known, file, job, stale, edits, broken>>

Workers == Jobs \cup {Scheduler}

NoRow == [kind |-> "proxy", enabled |-> FALSE, waf |-> FALSE, cache |-> FALSE,
          mode |-> "single", groups |-> 0, location |-> "none", acls |-> {}, mws |-> {},
          tls |-> FALSE, force |-> FALSE, pages |-> FALSE, assets |-> FALSE, hsts |-> FALSE,
          cors |-> FALSE, raw |-> "none", complete |-> TRUE, edition |-> 0]

NoDoc == [hosts |-> [i \in Hosts |-> {}], acls |-> [a \in Acls |-> {}], mws |-> [m \in Mws |-> {}],
          settings |-> [waf |-> FALSE, cache |-> FALSE, raw |-> {}], keys |-> {}]

NoJob == [at |-> "idle", id |-> {}, row |-> NoRow, admin |-> FALSE, todo |-> {},
          flag |-> FALSE, sound |-> TRUE, doc |-> NoDoc, then |-> NoDoc]

HostsInit ==
    /\ \/ db \in Installations /\ edits = 0 /\ broken = 0
       \/ db \in Catalogue /\ edits = MaxEdits /\ broken = MaxBroken
    /\ keys = {} /\ plans = {} /\ served = db /\ file = {} /\ stale = {}
    /\ known = Rows(db.hosts) \cup Rows(db.acls) \cup Rows(db.mws)
    /\ job = [w \in Workers |-> NoJob]

-----------------------------------------------------------------------------
Stage(w, at) == job[w].at = at

GoTo(w, at) == job' = [job EXCEPT ![w].at = at]

(* A request that will change something, while the bound lasts.            *)
Edit(w) == Stage(w, "idle") /\ w \in Jobs /\ edits < MaxEdits /\ edits' = edits + 1

(* Row i was written by w: the copies others hold are old.                 *)
Touches(w, ids) ==
    stale' = (stale \cup {v \in Workers \ {w} : job[v].id \cap ids # {}}) \ {w}

Restoring == {"wipeHosts", "wipeMws", "wipeAcls", "addHosts", "addMws", "addAcls", "settings"}

Exporting == {"exportMws", "exportAcls", "exportSettings"}

(* A restore or an export during which another job writes is marked.       *)
Disturb(w, j) ==
    [v \in Workers |-> IF v # w /\ j[v].at \in Restoring \cup Exporting
                       THEN [j[v] EXCEPT !.sound = FALSE] ELSE j[v]]

(* w goes on to at; a restore keeps its document.                          *)
GoesOn(w, at, sound) ==
    IF at \in Restoring THEN [NoJob EXCEPT !.at = at, !.doc = job[w].doc, !.sound = sound]
    ELSE [NoJob EXCEPT !.at = at]

(* One statement of w is executed and w goes on to at.                     *)
Writes(w, at) == job' = Disturb(w, [job EXCEPT ![w] = GoesOn(w, at, job[w].sound)])

-----------------------------------------------------------------------------
(* Reload: the snippet is parsed again; on any error what is served stays. *)
Reload(w) ==
    /\ Stage(w, "reload")
    /\ \/ Parses(db.raw) /\ served' = db /\ UNCHANGED broken
       \/ ~Parses(db.raw) /\ UNCHANGED <<served, broken>>
       \/ broken < MaxBroken /\ broken' = broken + 1 /\ UNCHANGED served
    /\ job' = [job EXCEPT ![w] = NoJob] /\ stale' = stale \ {w}
    /\ UNCHANGED <<db, keys, plans, known, file, edits>>

-----------------------------------------------------------------------------
(* Hosts.                                                                  *)

(* Mutant of Permitted: an empty snippet of an operator clears the old one.*)
PermittedClearing(admin, f, prev) == IF admin \/ f.raw \in {"none", prev} THEN {f} ELSE {}

(* rawYAMLRequiresAdmin: the row an admin or an operator may write, if     *)
(* any.  An operator keeps the text there was, and may not bring another.  *)
Permitted(admin, f, prev) ==
    IF admin THEN {f}
    ELSE IF f.raw = "none" THEN {[f EXCEPT !.raw = prev]}
    ELSE IF f.raw = prev THEN {f} ELSE {}

CreateHost(w, i) ==
    /\ Edit(w) /\ i \notin known
    /\ \E admin \in BOOLEAN, f \in HostForms : \E r \in Permitted(admin, f, "none") :
        ValidateHost(r) /\ db' = [db EXCEPT !.hosts[i] = {r}]
    /\ known' = known \cup {i} /\ Writes(w, "reload")
    /\ UNCHANGED <<keys, plans, served, file, stale, broken>>

(* handleUpdateHost reads the row, checks the body against it, ...         *)
UpdateHostReads(w, i) ==
    /\ Edit(w)
    /\ \E old \in db.hosts[i], admin \in BOOLEAN, f \in HostForms :
        \E r \in Permitted(admin, f, old.raw) :
            /\ ValidateHost(r)
            /\ job' = [job EXCEPT ![w] = [@ EXCEPT !.at = "update", !.id = {i}, !.row = r,
                                                   !.admin = admin]]
    /\ stale' = stale \ {w}
    /\ UNCHANGED <<db, keys, plans, served, known, file, broken>>

(* ... and then writes every column, if the row is still there.            *)
UpdateHost(w) ==
    /\ Stage(w, "update")
    /\ db' = [db EXCEPT !.hosts =
                [i \in Hosts |-> IF i \in job[w].id /\ @[i] # {} THEN {job[w].row} ELSE @[i]]]
    /\ Writes(w, "reload") /\ Touches(w, job[w].id)
    /\ UNCHANGED <<keys, plans, served, known, file, edits, broken>>

DeleteHost(w, i) ==
    /\ Edit(w) /\ i \in known /\ db' = [db EXCEPT !.hosts[i] = {}]
    /\ Writes(w, "reload") /\ Touches(w, {i})
    /\ UNCHANGED <<keys, plans, served, known, file, broken>>

(* handleDockerImport: a disabled proxy host for each router of the list   *)
(* that is found; an insert that fails is passed over.                     *)
DockerImport(w, ids) ==
    /\ Edit(w) /\ ids \cap known = {}
    /\ db' = [db EXCEPT !.hosts = [i \in Hosts |-> IF i \in ids THEN {NoRow} ELSE @[i]]]
    /\ known' = known \cup ids /\ Writes(w, "reload")
    /\ UNCHANGED <<keys, plans, served, file, stale, broken>>

-----------------------------------------------------------------------------
(* Access lists and middlewares.  A host keeps the id of a deleted one.    *)

CreateAccessList(w, a) ==
    /\ Edit(w) /\ a \notin known
    /\ \E f \in AclForms : db' = [db EXCEPT !.acls[a] = {f}]
    /\ known' = known \cup {a} /\ Writes(w, "reload")
    /\ UNCHANGED <<keys, plans, served, file, stale, broken>>

UpdateAccessList(w, a) ==
    /\ Edit(w) /\ db.acls[a] # {}
    /\ \E f \in AclForms : db' = [db EXCEPT !.acls[a] = {f}]
    /\ Writes(w, "reload")
    /\ UNCHANGED <<keys, plans, served, known, file, stale, broken>>

DeleteAccessList(w, a) ==
    /\ Edit(w) /\ a \in known /\ db' = [db EXCEPT !.acls[a] = {}]
    /\ Writes(w, "reload")
    /\ UNCHANGED <<keys, plans, served, known, file, stale, broken>>

CreateMiddleware(w, m) ==
    /\ Edit(w) /\ m \notin known
    /\ \E f \in MwForms : db' = [db EXCEPT !.mws[m] = {f}]
    /\ known' = known \cup {m} /\ Writes(w, "reload")
    /\ UNCHANGED <<keys, plans, served, file, stale, broken>>

UpdateMiddleware(w, m) ==
    /\ Edit(w) /\ db.mws[m] # {}
    /\ \E f \in MwForms : db' = [db EXCEPT !.mws[m] = {f}]
    /\ Writes(w, "reload")
    /\ UNCHANGED <<keys, plans, served, known, file, stale, broken>>

DeleteMiddleware(w, m) ==
    /\ Edit(w) /\ m \in known /\ db' = [db EXCEPT !.mws[m] = {}]
    /\ Writes(w, "reload")
    /\ UNCHANGED <<keys, plans, served, known, file, stale, broken>>

-----------------------------------------------------------------------------
(* Settings.                                                               *)

(* handleSetRawConfig validates before it persists.                        *)
SetRawConfig(w) ==
    /\ Edit(w)
    /\ \E s \in SnippetForms : Parses(s) /\ db' = [db EXCEPT !.raw = s]
    /\ keys' = keys \cup {"raw"} /\ Writes(w, "reload")
    /\ UNCHANGED <<plans, served, known, file, stale, broken>>

(* handleSetPlugins stores the WAF toggle, then the cache toggle (flag);   *)
(* it drops their errors: a statement that fails keeps the old value.  A   *)
(* rebuild of the WAF that fails ends it before the reload.                *)
SetPlugins(w) ==
    /\ Edit(w)
    /\ \E waf, cache \in BOOLEAN :
        /\ db' = [db EXCEPT !.waf = waf]
        /\ job' = Disturb(w, [job EXCEPT ![w].at = "cache", ![w].flag = cache])
    /\ keys' = keys \cup {"waf"}
    /\ UNCHANGED <<plans, served, known, file, stale, broken>>

SetCache(w) ==
    /\ Stage(w, "cache") /\ db' = [db EXCEPT !.cache = job[w].flag]
    /\ keys' = keys \cup {"cache"} /\ Writes(w, "rebuild")
    /\ UNCHANGED <<plans, served, known, file, stale, edits, broken>>

RebuildWAF(w) ==
    /\ Stage(w, "rebuild")
    /\ \/ GoTo(w, "reload") /\ UNCHANGED broken
       \/ broken < MaxBroken /\ broken' = broken + 1 /\ job' = [job EXCEPT ![w] = NoJob]
    /\ UNCHANGED <<db, keys, plans, served, known, file, stale, edits>>

-----------------------------------------------------------------------------
(* Schedules; a minute's tick applies the ones that match, one by one.     *)

CreateSchedule(w, i) ==
    /\ Edit(w) /\ \E on \in BOOLEAN : plans' = plans \cup {<<i, on>>}
    /\ UNCHANGED <<db, keys, served, known, file, job, stale, broken>>

DeleteSchedule(w, p) ==
    /\ Edit(w) /\ plans' = plans \ {p}
    /\ UNCHANGED <<db, keys, served, known, file, job, stale, broken>>

ListSchedules ==
    /\ Stage(Scheduler, "idle") /\ plans # {}
    /\ \E due \in (SUBSET plans) \ {{}} :
        job' = [job EXCEPT ![Scheduler].at = "plans", ![Scheduler].todo = due]
    /\ UNCHANGED <<db, keys, plans, served, known, file, stale, edits, broken>>

(* GetHost; a missing host, or one already as wanted, is passed over.      *)
ReadHost(p) ==
    LET rest == [job[Scheduler] EXCEPT !.todo = @ \ {p}] IN
    /\ Stage(Scheduler, "plans") /\ p \in job[Scheduler].todo
    /\ job' = [job EXCEPT ![Scheduler] =
                IF \E r \in db.hosts[p[1]] : r.enabled # p[2]
                THEN [rest EXCEPT !.at = "flip", !.id = {p[1]},
                                  !.row = [Row(db.hosts, p[1]) EXCEPT !.enabled = p[2]]]
                ELSE rest]
    /\ stale' = stale \ {Scheduler}
    /\ UNCHANGED <<db, keys, plans, served, known, file, edits, broken>>

(* The whole row is written back.                                          *)
FlipHost ==
    LET ids == job[Scheduler].id IN
    /\ Stage(Scheduler, "flip")
    /\ \/ /\ db' = [db EXCEPT !.hosts =
                     [i \in Hosts |-> IF i \in ids /\ @[i] # {} THEN {job[Scheduler].row} ELSE @[i]]]
          /\ job' = Disturb(Scheduler, [job EXCEPT ![Scheduler] =
                                [NoJob EXCEPT !.at = "plans", !.todo = job[Scheduler].todo,
                                               !.flag = TRUE]])
          /\ Touches(Scheduler, ids) /\ UNCHANGED broken
       \/ /\ broken < MaxBroken /\ broken' = broken + 1
          /\ GoTo(Scheduler, "plans") /\ UNCHANGED <<db, stale>>
    /\ UNCHANGED <<keys, plans, served, known, file, edits>>

TickEnds ==
    /\ Stage(Scheduler, "plans") /\ job[Scheduler].todo = {}
    /\ job' = [job EXCEPT ![Scheduler] =
                IF @.flag THEN [NoJob EXCEPT !.at = "reload"] ELSE NoJob]
    /\ UNCHANGED <<db, keys, plans, served, known, file, stale, edits, broken>>

-----------------------------------------------------------------------------
(* Backups.                                                                *)

Tables == [hosts |-> db.hosts, acls |-> db.acls, mws |-> db.mws,
           settings |-> [waf |-> db.waf, cache |-> db.cache, raw |-> db.raw], keys |-> keys]

(* Mutant of ListHosts: only the proxy hosts are listed.                   *)
ListHostsProxies == [i \in Hosts |-> {r \in db.hosts[i] : r.kind = "proxy"}]

(* ListHosts without a kind.                                               *)
ListHosts == db.hosts

(* A table of the document is read; an error is dropped, and the table is  *)
(* then missing from the document.                                         *)
Reads(w, r, to, doc) ==
    /\ \/ job' = [job EXCEPT ![w] = [r EXCEPT !.at = to, !.doc = doc]] /\ UNCHANGED broken
       \/ /\ broken < MaxBroken /\ broken' = broken + 1
          /\ job' = [job EXCEPT ![w] = [r EXCEPT !.at = to, !.sound = FALSE]]
    /\ UNCHANGED <<db, keys, plans, served, known, stale, edits>>

(* handleBackupExport reads the hosts, ...  Bound: one backup, begun       *)
(* before the first edit.                                                  *)
BackupExport(w) ==
    /\ Stage(w, "idle") /\ file = {} /\ edits = 0 /\ \A v \in Jobs : job[v].at \notin Exporting
    /\ Reads(w, [NoJob EXCEPT !.then = Tables], "exportMws", [NoDoc EXCEPT !.hosts = ListHosts])
    /\ UNCHANGED file

(* ... the middlewares, ...                                                *)
ExportMws(w) ==
    /\ Stage(w, "exportMws")
    /\ Reads(w, job[w], "exportAcls", [job[w].doc EXCEPT !.mws = db.mws])
    /\ UNCHANGED file

(* ... the access lists, ...                                               *)
ExportAcls(w) ==
    /\ Stage(w, "exportAcls")
    /\ Reads(w, job[w], "exportSettings", [job[w].doc EXCEPT !.acls = db.acls])
    /\ UNCHANGED file

(* ... and the settings, and answers 200 with what it has: whole, when     *)
(* every read worked and nobody wrote since the first.  Schedules are not  *)
(* part of it.                                                             *)
ExportSettings(w) ==
    /\ Stage(w, "exportSettings")
    /\ \/ /\ file' = {[doc |-> [job[w].doc EXCEPT !.settings = Tables.settings, !.keys = keys],
                       then |-> job[w].then, whole |-> job[w].sound]}
          /\ UNCHANGED broken
       \/ /\ broken < MaxBroken /\ broken' = broken + 1
          /\ file' = {[doc |-> job[w].doc, then |-> job[w].then, whole |-> FALSE]}
    /\ job' = [job EXCEPT ![w] = NoJob]
    /\ UNCHANGED <<db, keys, plans, served, known, stale, edits>>

(* handleBackupRestore validates the hosts of the document it is sent,     *)
(* wipes each table, inserts what the document holds, sets its settings    *)
(* and reloads; the error of a statement is ignored, an id that exists     *)
(* makes the insert fail.                                                  *)
RestoreStarts(w) ==
    /\ Edit(w)
    /\ \E doc \in {f.doc : f \in file} \cup Foreign :
        /\ \A i \in Hosts : \A r \in doc.hosts[i] : ValidateHost(r)
        /\ job' = [job EXCEPT ![w] = [NoJob EXCEPT !.at = "wipeHosts", !.doc = doc]]
    /\ UNCHANGED <<db, keys, plans, served, known, file, stale, broken>>

(* A step of the restore: done are the ids whose statement worked.  At     *)
(* most one fails, but a table that cannot be listed is not wiped at all.  *)
RestoreStep(w, to, ids, done) ==
    /\ \/ done = ids /\ Writes(w, to) /\ UNCHANGED broken
       \/ /\ broken < MaxBroken /\ broken' = broken + 1
          /\ Cardinality(ids \ done) = 1 \/ (done = {} /\ to \in {"wipeMws", "wipeAcls", "addHosts"})
          /\ job' = Disturb(w, [job EXCEPT ![w] = GoesOn(w, to, FALSE)])
    /\ UNCHANGED <<plans, served, file, edits>>

WipeHosts(w) ==
    /\ Stage(w, "wipeHosts")
    /\ \E done \in SUBSET Rows(db.hosts) :
           /\ RestoreStep(w, "wipeMws", Rows(db.hosts), done)
           /\ db' = [db EXCEPT !.hosts = [i \in Hosts |-> IF i \in done THEN {} ELSE @[i]]]
           /\ Touches(w, done) /\ UNCHANGED <<keys, known>>

WipeMws(w) ==
    /\ Stage(w, "wipeMws")
    /\ \E done \in SUBSET Rows(db.mws) :
           /\ RestoreStep(w, "wipeAcls", Rows(db.mws), done)
           /\ db' = [db EXCEPT !.mws = [m \in Mws |-> IF m \in done THEN {} ELSE @[m]]]
           /\ UNCHANGED <<keys, known, stale>>

WipeAcls(w) ==
    /\ Stage(w, "wipeAcls")
    /\ \E done \in SUBSET Rows(db.acls) :
           /\ RestoreStep(w, "addHosts", Rows(db.acls), done)
           /\ db' = [db EXCEPT !.acls = [a \in Acls |-> IF a \in done THEN {} ELSE @[a]]]
           /\ UNCHANGED <<keys, known, stale>>

AddHosts(w) ==
    /\ Stage(w, "addHosts")
    /\ \E done \in SUBSET Rows(job[w].doc.hosts) :
           /\ RestoreStep(w, "addMws", Rows(job[w].doc.hosts), done)
           /\ db' = [db EXCEPT !.hosts = [i \in Hosts |->
                       IF i \in done /\ @[i] = {} THEN job[w].doc.hosts[i] ELSE @[i]]]
           /\ known' = known \cup done /\ Touches(w, done) /\ UNCHANGED keys

AddMws(w) ==
    /\ Stage(w, "addMws")
    /\ \E done \in SUBSET Rows(job[w].doc.mws) :
           /\ RestoreStep(w, "addAcls", Rows(job[w].doc.mws), done)
           /\ db' = [db EXCEPT !.mws = [m \in Mws |->
                       IF m \in done /\ @[m] = {} THEN job[w].doc.mws[m] ELSE @[m]]]
           /\ known' = known \cup done /\ UNCHANGED <<keys, stale>>

AddAcls(w) ==
    /\ Stage(w, "addAcls")
    /\ \E done \in SUBSET Rows(job[w].doc.acls) :
           /\ RestoreStep(w, "settings", Rows(job[w].doc.acls), done)
           /\ db' = [db EXCEPT !.acls = [a \in Acls |->
                       IF a \in done /\ @[a] = {} THEN job[w].doc.acls[a] ELSE @[a]]]
           /\ known' = known \cup done /\ UNCHANGED <<keys, stale>>

(* Settings are overwritten key by key; one the file lacks stays.          *)
RestoreSettings(w) ==
    /\ Stage(w, "settings")
    /\ \E done \in SUBSET job[w].doc.keys :
           /\ RestoreStep(w, "reload", job[w].doc.keys, done)
           /\ db' = [db EXCEPT !.waf = IF "waf" \in done THEN job[w].doc.settings.waf ELSE @,
                               !.cache = IF "cache" \in done THEN job[w].doc.settings.cache ELSE @,
                               !.raw = IF "raw" \in done THEN job[w].doc.settings.raw ELSE @]
           /\ keys' = keys \cup done /\ UNCHANGED <<known, stale>>

-----------------------------------------------------------------------------
(* The process stops and starts again: Bootstrap reloads.                  *)
Reboot ==
    /\ broken < MaxBroken /\ broken' = broken + 1
    /\ job' = [w \in Workers |-> NoJob] /\ stale' = {}
    /\ served' = IF Parses(db.raw) THEN db ELSE served
    /\ UNCHANGED <<db, keys, plans, known, file, edits>>

HostsNext ==
    \/ \E w \in Workers : Reload(w)
    \/ \E w \in Jobs :
        \/ UpdateHost(w) \/ SetRawConfig(w) \/ SetPlugins(w) \/ SetCache(w) \/ RebuildWAF(w)
        \/ \E i \in Hosts : \/ CreateHost(w, i) \/ UpdateHostReads(w, i) \/ DeleteHost(w, i)
                            \/ CreateSchedule(w, i)
        \/ \E ids \in SUBSET (Hosts \ known) : DockerImport(w, ids)
        \/ \E a \in Acls : \/ CreateAccessList(w, a) \/ UpdateAccessList(w, a)
                           \/ DeleteAccessList(w, a)
        \/ \E m \in Mws : CreateMiddleware(w, m) \/ UpdateMiddleware(w, m) \/ DeleteMiddleware(w, m)
        \/ \E p \in plans : DeleteSchedule(w, p)
        \/ BackupExport(w) \/ ExportMws(w) \/ ExportAcls(w) \/ ExportSettings(w)
        \/ RestoreStarts(w) \/ WipeHosts(w) \/ WipeMws(w) \/ WipeAcls(w)
        \/ AddHosts(w) \/ AddMws(w) \/ AddAcls(w) \/ RestoreSettings(w)
    \/ ListSchedules \/ FlipHost \/ TickEnds
    \/ \E p \in job[Scheduler].todo : ReadHost(p)
    \/ Reboot

HostsSpec == HostsInit /\ [][HostsNext]_hostsVars

-----------------------------------------------------------------------------
(* Whatever was edited, deleted, restored or left half restored, what is   *)
(* served holds together: whatever Render refers to exists, but for the    *)
(* passwords of a list without a usable user; a text of an operator that   *)
(* refers to nothing costs only the hosts that carry it; every way Render  *)
(* makes to a backend passes the host's access lists and its WAF; and no   *)
(* router outranks the challenge and the ban, nor takes their place        *)
(* (Render, mergeMap, and ParseRawConfig in Reload).                       *)
ServedIsSound == Sound(served)

(* A job that writes a whole row back only changes what it was asked to:   *)
(* the scheduler the enabled flag, an operator never the text of the raw   *)
(* snippet, unless somebody else wrote the row after the job had read it.  *)
NothingLost ==
    [][\A i \in Hosts : \A old \in db.hosts[i], new \in db'.hosts[i] :
        /\ FlipHost /\ Scheduler \notin stale => [new EXCEPT !.enabled = old.enabled] = old
        /\ \A w \in Jobs : UpdateHost(w) /\ w \notin stale /\ ~job[w].admin /\ i \in job[w].id
                => new.raw = old.raw]_hostsVars

(* d holds what doc does.                                                  *)
Holds(d, doc) ==
    /\ d.hosts = doc.hosts /\ d.acls = doc.acls /\ d.mws = doc.mws
    /\ "waf" \in doc.keys => d.waf = doc.settings.waf
    /\ "cache" \in doc.keys => d.cache = doc.settings.cache
    /\ "raw" \in doc.keys => d.raw = doc.settings.raw

(* A restore in which every statement works and nobody else writes leaves  *)
(* exactly what its document holds; and when that document comes from an   *)
(* export in which every read worked and nobody wrote, the tables as they  *)
(* were when the export began.                                             *)
RestoreFaithful ==
    [][\A w \in Jobs : RestoreSettings(w) /\ job[w].sound /\ broken' = broken =>
        /\ Holds(db', job[w].doc)
        /\ \A f \in file : f.whole /\ f.doc = job[w].doc => Holds(db', f.then)]_hostsVars
=============================================================================
