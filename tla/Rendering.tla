----------------------------- MODULE Rendering ------------------------------
(***************************************************************************)
(* internal/traefikcfg: what a validated host is and what Render makes of  *)
(* the tables.  A document is the set of its routers, the names of the     *)
(* services and middlewares it defines, the references Render writes       *)
(* between them, and the references inside texts it takes from operators   *)
(* as they are: parameters of middlewares and fragments of hosts.          *)
(*                                                                         *)
(* A name such as host-<id>-trusted is the tuple <<"host", id, "trusted">>;*)
(* rules, headers, URLs and server lists are left out.  A router keeps     *)
(* what decides where a request goes: its rank (Priority; 0 leaves it to   *)
(* the length of the rule), whether it only matches some clients or some   *)
(* paths, its service and the set of its middlewares.                      *)
(***************************************************************************)
EXTENDS Naturals, FiniteSets

CONSTANTS
    Hosts,      \* host ids
    Acls,       \* access list ids
    Mws,        \* ids of reusable middlewares
    EdgeToken   \* a token gates the edge: it listens on the network

ASSUME RenderingAssumption == EdgeToken \in BOOLEAN

(* The raw YAML of a host: none, one middleware, or a middleware that      *)
(* refers to a service of the same fragment, as an errors page does.       *)
Fragments == {"none", "plain", "errors"}

(* A host row; edition stands for all the columns that no rule reads.      *)
Host == [kind : {"proxy", "redirection", "dead", "stream"}, enabled : BOOLEAN,
         waf : BOOLEAN, cache : BOOLEAN,
         mode : {"single", "weighted", "failover", "mirroring"}, groups : 0..2,
         location : {"none", "plain", "strip"}, acls : SUBSET Acls, mws : SUBSET Mws,
         tls : BOOLEAN, force : BOOLEAN, pages : BOOLEAN, assets : BOOLEAN, hsts : BOOLEAN,
         cors : BOOLEAN, raw : Fragments, complete : BOOLEAN, edition : Nat]

(* An access list: whether it has users, whether one of them has a name    *)
(* and a hash, whether it has addresses (those ParseAllowIPs keeps), and   *)
(* how they combine.                                                       *)
Acl == [users : BOOLEAN, usable : BOOLEAN, ips : BOOLEAN, any : BOOLEAN]

(* A reusable middleware: the middlewares its parameters name (a chain)    *)
(* and the hosts whose service they name (an errors page).                 *)
Middleware == [next : SUBSET Mws, pages : SUBSET Hosts]

Svc(i) == <<"svc", i>>

(* A router of the raw snippet.  Its name may be one Render gives, and its *)
(* service its own, a host's, or none that exists.                         *)
RawRouter == [name : {<<"raw">>, <<"banned">>} \cup {<<"host", i>> : i \in Hosts}, rank : Nat,
              service : {<<"raw">>, <<"elsewhere">>} \cup {Svc(i) : i \in Hosts}]

ReservedRouterPriority == 1000000

(* The snippet's router must stay below the system's own.                  *)
ParseRawConfig(rank) == rank < ReservedRouterPriority

(* validateHost; complete stands for the names and addresses a kind needs. *)
ValidateHost(h) ==
    /\ h.complete
    /\ h.kind = "proxy" /\ h.mode # "single"
        => h.groups >= IF h.mode \in {"failover", "mirroring"} THEN 2 ELSE 1

-----------------------------------------------------------------------------
(* db: the tables hosts, acls and mws as a set of rows per id (empty or    *)
(* one), the toggles waf and cache, banned (somebody is), and raw, the     *)
(* routers of the snippet.                                                 *)

Rows(table) == {i \in DOMAIN table : table[i] # {}}

Row(table, i) == CHOOSE r \in table[i] : TRUE

RoutesToEdge(h, db) == (h.waf /\ db.waf) \/ (h.cache /\ db.cache)

Token == <<"xgress-cache-token">>

Content == <<"xgress-content">>

(* buildHostService: the names it defines, and what they refer to.         *)
Composed(h, db) == ~RoutesToEdge(h, db) /\ h.mode # "single" /\ h.groups > 0

GroupServices(i, h, db) ==
    IF Composed(h, db) THEN {<<"svc", i, "group", g>> : g \in 1..h.groups} ELSE {}

(* A failover has one fallback; the other modes refer to every group.      *)
ServiceRefs(i, h, db) ==
    IF ~Composed(h, db) THEN {}
    ELSE {<<"svc", i, "group", g>> :
            g \in {n \in 1..h.groups : h.mode # "failover" \/ n <= 2}}

AuthMw(a) == <<"acl", a, "auth">>
IpMw(a) == <<"acl", a, "ip">>

(* What Render defines for a list: no password part unless a user has a    *)
(* name and a hash.                                                        *)
AclDefines(a, acl) ==
    (IF acl.ips THEN {IpMw(a)} ELSE {}) \cup (IF acl.users /\ acl.usable THEN {AuthMw(a)} ELSE {})

(* accessListMiddlewares: what the routers of a host refer to.             *)
AclParts(a, acl) ==
    (IF acl.ips THEN {IpMw(a)} ELSE {}) \cup (IF acl.users THEN {AuthMw(a)} ELSE {})

AccessListMiddlewares(h, db) ==
    UNION {AclParts(a, Row(db.acls, a)) : a \in h.acls \cap Rows(db.acls)}

(* perHostRawMiddlewares gives every name of a fragment a prefix; what the *)
(* middleware refers to keeps the name the fragment gave it.               *)
RawMw(i) == <<"host", i, "raw">>

RawServices(i, h) == IF h.raw = "errors" THEN {<<"host", i, "raw", "pages">>} ELSE {}

RawTexts(i, h) == IF h.raw = "errors" THEN {<<RawMw(i), <<"pages">>>>} ELSE {}

(* collectMiddlewareNames, errorPagesMiddleware: generated for the host,   *)
(* and reusable ones that still exist.                                     *)
Generated(i, h) ==
    {<<"host", i, x>> : x \in {y \in {"hsts", "cors", "errors", "raw"} :
        \/ y = "hsts" /\ h.hsts
        \/ y = "cors" /\ h.cors
        \/ y = "errors" /\ h.kind = "proxy" /\ h.pages
        \/ y = "raw" /\ h.kind = "proxy" /\ h.raw # "none"}}

CollectMiddlewareNames(h, db) == {<<"mw", m>> : m \in h.mws \cap Rows(db.mws)}

(* BuildMiddleware copies the parameters as they are.                      *)
MwTexts(m, mw) == {<<<<"mw", m>>, <<"mw", n>>>> : n \in mw.next} \cup {<<<<"mw", m>>, Svc(i)>> : i \in mw.pages}

Chain(i, h, db) ==
    AccessListMiddlewares(h, db) \cup CollectMiddlewareNames(h, db) \cup Generated(i, h)

EdgeChain(i, h, db) ==
    Chain(i, h, db) \cup IF RoutesToEdge(h, db) /\ EdgeToken THEN {Token} ELSE {}

(* A router; forwards is FALSE when a middleware answers in its stead.     *)
Router(name, service, mws, rank, clients, paths, forwards) ==
    [name |-> name, service |-> service, mws |-> mws, rank |-> rank, clients |-> clients,
     paths |-> paths, forwards |-> forwards, by |-> "xgress"]

(* addSatisfyAnyBypass: the lists whose addresses need no password.        *)
Bypassed(h, db) ==
    {a \in h.acls \cap Rows(db.acls) :
        LET acl == Row(db.acls, a) IN acl.any /\ acl.ips /\ acl.users}

(* Mutant of TrustedRouters: it drops the parts of every list.             *)
TrustedRoutersBare(i, h, db) ==
    {Router(<<"host", i, "trusted">>, Svc(i),
            EdgeChain(i, h, db) \ AccessListMiddlewares(h, db), 2000, Bypassed(h, db), {}, TRUE) :
        x \in {y \in {1} : Bypassed(h, db) # {}}}

TrustedRouters(i, h, db) ==
    {Router(<<"host", i, "trusted">>, Svc(i),
            EdgeChain(i, h, db) \ UNION {{AuthMw(a), IpMw(a)} : a \in Bypassed(h, db)},
            2000, Bypassed(h, db), {}, TRUE) :
        x \in {y \in {1} : Bypassed(h, db) # {}}}

AssetRouters(i, h, db) ==
    {Router(<<"host", i, "static">>, Svc(i), EdgeChain(i, h, db) \cup {<<"host", i, "cache">>},
            900, {}, {"assets"}, TRUE) : x \in {y \in {1} : h.assets}}

(* Locations have services of their own, unless the WAF must see them.     *)
HasLocation(h, db) == h.location # "none" /\ ~(h.waf /\ db.waf)

Strips(i, h) == IF h.location = "strip" THEN {<<"host", i, "strip">>} ELSE {}

LocationRouters(i, h, db) ==
    {Router(<<"host", i, "location">>, <<"svc", i, "location">>,
            Chain(i, h, db) \cup Strips(i, h), 1001, {}, {"location"}, TRUE) :
        x \in {y \in {1} : HasLocation(h, db)}}

RedirectRouters(i, h) ==
    {Router(<<"host", i, "http">>, Svc(i), {<<"host", i, "redirect">>}, 0, {}, {}, FALSE) :
        x \in {y \in {1} : h.tls /\ h.force}}

NoPart == [routers |-> {}, services |-> {}, mws |-> {}, refs |-> {}, texts |-> {}, edge |-> {}]

RenderProxyHost(i, h, db) ==
    [routers |-> {Router(<<"host", i>>, Svc(i), EdgeChain(i, h, db), 0, {}, {}, TRUE)}
                 \cup TrustedRouters(i, h, db) \cup AssetRouters(i, h, db)
                 \cup LocationRouters(i, h, db) \cup RedirectRouters(i, h),
     services |-> {Svc(i)} \cup GroupServices(i, h, db) \cup RawServices(i, h)
                  \cup {<<"svc", i, "location">> : x \in {y \in {1} : HasLocation(h, db)}},
     mws |-> Generated(i, h) \cup Strips(i, h)
             \cup (IF h.assets THEN {<<"host", i, "cache">>} ELSE {})
             \cup (IF h.tls /\ h.force THEN {<<"host", i, "redirect">>} ELSE {}),
     refs |-> ServiceRefs(i, h, db) \cup IF h.pages THEN {Content} ELSE {},
     texts |-> RawTexts(i, h),
     edge |-> IF RoutesToEdge(h, db) THEN {Svc(i)} ELSE {}]

(* A redirection answers by itself; it has no access lists.                *)
RenderRedirectionHost(i, h, db) ==
    [NoPart EXCEPT
        !.routers = {Router(<<"host", i>>, <<"noop">>, {<<"host", i, "redirect">>}
                            \cup CollectMiddlewareNames(h, db) \cup Generated(i, h),
                            0, {}, {}, FALSE)},
        !.services = {<<"noop">>},
        !.mws = {<<"host", i, "redirect">>} \cup Generated(i, h)]

RenderDeadHost(i) ==
    [NoPart EXCEPT !.routers = {Router(<<"host", i>>, <<"noop">>, {}, 1, {}, {}, TRUE)},
                   !.services = {<<"noop">>}]

(* TCP and UDP routers only meet TCP and UDP services.                     *)
RenderStreamHost(i) ==
    [NoPart EXCEPT !.routers = {Router(<<"stream", i>>, <<"stream", i>>, {}, 0, {}, {}, TRUE)},
                   !.services = {<<"stream", i>>}]

RenderHost(i, db) ==
    LET h == Row(db.hosts, i) IN
    CASE h.kind = "proxy"       -> RenderProxyHost(i, h, db)
      [] h.kind = "redirection" -> RenderRedirectionHost(i, h, db)
      [] h.kind = "dead"        -> RenderDeadHost(i)
      [] h.kind = "stream"      -> RenderStreamHost(i)

(* The challenge and the default site are always there; the ban router     *)
(* when somebody is banned.                                                *)
SystemRouters(db) ==
    {Router(<<"acme-http-challenge">>, <<"acme-http-challenge">>, {}, 1000000, {},
            {"challenge"}, TRUE),
     Router(<<"default-site">>, Content, {<<"default-path">>}, 1, {}, {}, TRUE)}
    \cup {Router(<<"banned">>, Content, {<<"banned-path">>}, 2000000, {"banned"}, {}, TRUE) :
            x \in {y \in {1} : db.banned}}

(* The snippet never replaces a name.                                      *)
MergeMap(routers, snippet) ==
    routers \cup {[Router(t.name, t.service, {}, t.rank, {}, {}, TRUE) EXCEPT !.by = "snippet"] :
                    t \in {u \in snippet : \A r \in routers : r.name # u.name}}

(* Render; the snippet, with a service of its own, is merged last.         *)
Render(db) ==
    LET on == {i \in Rows(db.hosts) : Row(db.hosts, i).enabled}
        part == [i \in on |-> RenderHost(i, db)]
    IN [routers |-> MergeMap(SystemRouters(db) \cup UNION {part[i].routers : i \in on}, db.raw),
        services |-> {<<"acme-http-challenge">>, Content} \cup (UNION {part[i].services : i \in on})
                     \cup {<<"raw">> : t \in db.raw},
        mws |-> {<<"default-path">>, <<"banned-path">>} \cup {<<"mw", m>> : m \in Rows(db.mws)}
                \cup (UNION {AclDefines(a, Row(db.acls, a)) : a \in Rows(db.acls)})
                \cup (IF EdgeToken /\ (db.waf \/ db.cache) THEN {Token} ELSE {})
                \cup UNION {part[i].mws : i \in on},
        refs |-> UNION {part[i].refs : i \in on},
        texts |-> (UNION {MwTexts(m, Row(db.mws, m)) : m \in Rows(db.mws)})
                  \cup UNION {part[i].texts : i \in on},
        edge |-> UNION {part[i].edge : i \in on}]

-----------------------------------------------------------------------------
(* What a served document must satisfy.  Traefik drops a router that       *)
(* refers to something undefined, itself or through a middleware.          *)

RoutersOf(i, doc) ==
    {r \in doc.routers : r.by = "xgress" /\ r.name[1] \in {"host", "stream"} /\ r.name[2] = i}

(* The lists that have users, none of whom can log in.                     *)
Unusable(db) ==
    {a \in Rows(db.acls) : Row(db.acls, a).users /\ ~Row(db.acls, a).usable}

(* What Render itself refers to exists, but for the passwords of a list    *)
(* that has none.                                                          *)
Closed(doc, db) ==
    /\ \A r \in doc.routers : r.by = "xgress" =>
        r.service \in doc.services /\ r.mws \subseteq doc.mws \cup {AuthMw(a) : a \in Unusable(db)}
    /\ doc.refs \subseteq doc.services

(* A text that refers to something undefined only costs the hosts that     *)
(* carry it.                                                               *)
Broken(doc) == {t[1] : t \in {u \in doc.texts : u[2] \notin doc.mws \cup doc.services}}

Isolated(doc, db) ==
    \A i \in Rows(db.hosts) : \A r \in RoutersOf(i, doc) :
        r.mws \cap Broken(doc) \subseteq {<<"mw", m>> : m \in Row(db.hosts, i).mws} \cup {RawMw(i)}

(* Every way to a backend of a host passes each of its access lists, or is *)
(* open only to addresses a satisfy-any list names.                        *)
Guarded(doc, db) ==
    \A i \in Rows(db.hosts) : LET h == Row(db.hosts, i) IN
        h.enabled /\ h.kind = "proxy" =>
            \A r \in RoutersOf(i, doc) : r.forwards =>
                \A a \in h.acls \cap Rows(db.acls) :
                    AclParts(a, Row(db.acls, a)) \subseteq r.mws \/ a \in r.clients

(* With the WAF on, every way to a backend of a WAF host leads through the *)
(* edge, with the token the edge asks for.                                 *)
Inspected(doc, db) ==
    \A i \in Rows(db.hosts) : LET h == Row(db.hosts, i) IN
        h.enabled /\ h.kind = "proxy" /\ h.waf /\ db.waf =>
            \A r \in RoutersOf(i, doc) : r.forwards =>
                r.service \in doc.edge /\ (EdgeToken => Token \in r.mws)

(* The system's routers are there, nothing outranks the challenge but the  *)
(* ban, and nothing the ban.                                               *)
SystemFirst(doc, db) ==
    /\ SystemRouters(db) \subseteq doc.routers
    /\ \A r \in doc.routers :
        /\ r \notin SystemRouters(db) => r.rank < ReservedRouterPriority
        /\ r.by = "xgress" /\ r.name = <<"banned">> => r.rank > ReservedRouterPriority

Sound(db) ==
    LET doc == Render(db) IN
    /\ Closed(doc, db) /\ Isolated(doc, db)
    /\ Guarded(doc, db) /\ Inspected(doc, db) /\ SystemFirst(doc, db)
=============================================================================
