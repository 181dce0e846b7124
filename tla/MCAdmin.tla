------------------------------ MODULE MCAdmin -------------------------------
(* The admin API: accounts and configuration share no state, so a          *)
(* behaviour moves in one of the two areas, chosen at the start, and the    *)
(* other rests at one of its initial states.  Accounts from an empty table *)
(* on, three ids on SQLite and two on Postgres, two requests at a time;    *)
(* two hosts, two access lists, a middleware and two requests at a time,   *)
(* and databases that are only rendered.                                   *)
EXTENDS Accounts, Hosts, TLC

CONSTANTS u1, u2, u3, q1, q2, j1, j2, h1, h2, a1, a2, m1

VARIABLE area

vars == <<accountsVars, hostsVars, area>>

Symmetry == Permutations({u1, u2, u3}) \cup Permutations({q1, q2}) \cup Permutations({j1, j2})

Both == [users |-> TRUE, usable |-> TRUE, ips |-> TRUE, any |-> TRUE]

Nobody == [Both EXCEPT !.usable = FALSE, !.any = FALSE]

Page == [next |-> {}, pages |-> {h2}]

Full == [NoRow EXCEPT !.enabled = TRUE, !.acls = {a1}, !.mws = {m1}]

SomeHosts ==
    {[Full EXCEPT !.raw = "errors"], [Full EXCEPT !.waf = TRUE, !.edition = 1],
     [Full EXCEPT !.mode = "mirroring", !.groups = 1]}

SomeAcls == {Both}

SomeMws == {Page}

(* A router that wants the place of the ban, to the backend of a host; one *)
(* that outranks it.                                                       *)
Low == [name |-> <<"banned">>, rank |-> 5, service |-> Svc(h1)]
High == [name |-> <<"raw">>, rank |-> ReservedRouterPriority, service |-> <<"raw">>]

SomeSnippets == {{Low}, {High}}

Empty == [hosts |-> NoDoc.hosts, acls |-> NoDoc.acls, mws |-> NoDoc.mws,
          waf |-> TRUE, cache |-> FALSE, banned |-> TRUE, raw |-> {}]

SmallInstallations ==
    {[Empty EXCEPT !.hosts[h1] = {[Full EXCEPT !.raw = "plain"]}, !.acls[a1] = {Both},
                   !.mws[m1] = {Page}],
     [Empty EXCEPT !.hosts[h1] = {[NoRow EXCEPT !.kind = "stream"]}]}

(* A list nobody can log in to; a snippet nobody here has parsed.          *)
SomeForeign ==
    {[NoDoc EXCEPT !.hosts[h1] = {Full}, !.acls[a1] = {Nobody}],
     [NoDoc EXCEPT !.settings.raw = {High}, !.keys = {"raw"}]}

Bodies ==
    {[NoRow EXCEPT !.enabled = TRUE, !.waf = waf, !.cache = cache, !.location = loc, !.acls = s,
                   !.assets = assets, !.tls = force, !.force = force, !.mws = m] :
        waf, cache, assets, force \in BOOLEAN, loc \in {"none", "strip"},
        s \in SUBSET Acls, m \in SUBSET Mws}
    \cup
    {f \in {[NoRow EXCEPT !.enabled = TRUE, !.waf = waf, !.mode = mode, !.groups = groups,
                          !.pages = hsts, !.raw = raw, !.hsts = hsts, !.cors = hsts,
                          !.kind = kind] :
        waf, hsts \in BOOLEAN, groups \in 0..2, raw \in Fragments,
        mode \in {"single", "weighted", "failover", "mirroring"},
        kind \in {"proxy", "redirection", "dead", "stream"}} : ValidateHost(f)}

Databases ==
    [hosts : {[i \in Hosts |-> IF i = h1 THEN {f} ELSE {}] : f \in Bodies},
     acls : {f \in [Acls -> {{}, {Nobody}, {Both}, {[Both EXCEPT !.any = FALSE]}}] :
                f[a2] \in {{}, {Both}}},
     mws : [Mws -> {{}, {Page}}], waf : BOOLEAN, cache : BOOLEAN, banned : {TRUE},
     raw : {{Low}}]

Init ==
    /\ area \in {"accounts", "hosts"}
    /\ IF area = "accounts" THEN AccountsInit /\ drawn = {}
       ELSE dialect = "sqlite" /\ drawn = {} /\ users = [u \in Users |-> {}] /\ sessions = {}
            /\ attempts = 0 /\ setups = 0 /\ meddled = {}
            /\ req = [q \in Requests |-> NoRequest]
    /\ IF area = "hosts" THEN HostsInit
       ELSE db = Empty /\ served = db /\ edits = 0 /\ broken = 0 /\ keys = {} /\ plans = {}
            /\ file = {} /\ stale = {} /\ known = {} /\ job = [w \in Workers |-> NoJob]

(* Bound: the ids a behaviour on Postgres draws, enough for two setups.    *)
PostgresIds == 2

Next ==
    \/ /\ area = "accounts" /\ AccountsNext /\ UNCHANGED <<hostsVars, area>>
       /\ dialect = "postgres" => Cardinality(drawn') <= PostgresIds
    \/ area = "hosts" /\ HostsNext /\ UNCHANGED <<accountsVars, area>>

Spec == Init /\ [][Next]_vars
=============================================================================
