-------------------------------- MODULE Edge --------------------------------
(***************************************************************************)
(* internal/edge: the loopback HTTP server that inspects and caches.       *)
(*                                                                         *)
(* A slot is a goroutine inside ServeHTTP.  What it reads once and keeps   *)
(* (the host row, the two feature flags, the WAF engine) is in its record, *)
(* because the engine replaces all of them while requests are in flight.   *)
(* Coraza's verdicts, the backend and the streaming proxy are external: a  *)
(* request carries the verdict it will get from each engine, a response    *)
(* likewise; engines differ in paranoia, threshold and rules.              *)
(***************************************************************************)
EXTENDS MemCache, SecMetrics

CONSTANTS
    Slots,        \* goroutines in ServeHTTP
    Domains,      \* the Host headers requests carry
    HostRows,     \* rows a Reload may push: [waf, cache, upstreams, locs]
    FirstRows,    \* the rows among them that Bootstrap may find
    Engines,      \* engines waf.Build can make of the settings
    NoEngine,     \* none was ever built
    FirstEngines, \* what Bootstrap may have put into s.waf
    Shapes,       \* requests: [domain, uri, kind, verdict, ip]
    Responses,    \* backend answers: [storable, ttl, len, verdict]
    Overhead,     \* bytes that encode adds to a body
    FailClosed,   \* s.wafRespFailClosed
    NoHost,       \* no row for a domain
    MaxRequests,  \* bound: requests in a behaviour
    MaxChanges    \* bound: pushes of the engine in a behaviour

Kinds == {"get", "post", "stream", "untrusted"}

(* clean: no rule interrupts.  attack, denied: a rule does, one with an    *)
(* attack tag or one without.  broken: Coraza fails to process.            *)
Verdicts == {"clean", "attack", "denied", "broken"}
Interrupts(verdict) == verdict \in {"attack", "denied"}
Harmful(verdict) == Interrupts(verdict) \/ (verdict = "broken" /\ FailClosed)

(* A request, and a response, that engine e or its absence lets through.   *)
Clears(e, verdict) == e # NoEngine => verdict[e] = "clean"
Lets(e, verdict) == e # NoEngine => ~Harmful(verdict[e])

(* What the environment sends and configures is well formed; ttl may be    *)
(* negative, max-age is what the backend says.                             *)
ASSUME EdgeAssumption ==
    /\ Overhead \in Nat /\ FailClosed \in BOOLEAN
    /\ MaxRequests \in Nat /\ MaxChanges \in Nat
    /\ NoEngine \notin Engines /\ FirstEngines \subseteq Engines \cup {NoEngine}
    /\ NoHost \notin HostRows /\ FirstRows \subseteq HostRows
    /\ Shapes # {} /\ IsFiniteSet(Slots)
    /\ \A s \in Shapes : /\ s.domain \in Domains /\ <<s.domain, s.uri>> \in Keys
                         /\ s.kind \in Kinds /\ s.verdict \in [Engines -> Verdicts]
    /\ \A h \in HostRows : h.waf \in BOOLEAN /\ h.cache \in BOOLEAN
    /\ \A r \in Responses : /\ r.storable \in BOOLEAN /\ r.ttl \in Int /\ r.len \in Nat
                            /\ r.verdict \in [Engines -> Verdicts]

VARIABLES
    byHost,        \* s.byHost
    wafEnabled,    \* s.wafEnabled
    cacheEnabled,  \* s.cacheEnabled
    engine,        \* what s.waf holds
    rq,            \* what each slot has in hand
    requests,      \* requests begun
    changes,       \* pushes made
    used,          \* engines, and the lack of one, that requests have met so far
    blocks         \* transactions an attack rule interrupted

configVars == <<byHost, wafEnabled, cacheEnabled, engine, changes, used>>
edgeVars == <<configVars, rq, requests, blocks>>
vars == <<edgeVars, storeVars, now, metricVars>>

Steps == {"idle", "flags", "inspect", "lookup", "upstream", "respond", "record"}
Answers == {"none", "forbidden", "badGateway", "blocked", "error", "stream", "HIT", "MISS"}

NoResponse ==
    [storable |-> FALSE, ttl |-> 0, len |-> 0, verdict |-> [e \in Engines |-> "clean"]]

(* What encode puts into the cache and decode takes out of it: a response, *)
(* with the key and the moment it was fetched.                             *)
CachedResponse == [key : Keys, at : 0..MaxTime, resp : Responses]

Idle == [pc |-> "idle", shape |-> CHOOSE s \in Shapes : TRUE, host |-> NoHost,
         waf |-> NoEngine, applyCache |-> FALSE, resp |-> NoResponse,
         origin |-> {}, attack |-> FALSE, answer |-> "none"]

WafOn == wafEnabled /\ engine # NoEngine /\ \A d \in Domains : byHost[d] # NoHost => byHost[d].waf

InForce == {engine} \cup IF WafOn THEN {} ELSE {NoEngine}

TypeOK ==
    /\ byHost \in [Domains -> HostRows \cup {NoHost}]
    /\ wafEnabled \in BOOLEAN /\ cacheEnabled \in BOOLEAN
    /\ engine \in Engines \cup {NoEngine} /\ used \subseteq Engines \cup {NoEngine}
    /\ requests \in 0..MaxRequests /\ changes \in 0..MaxChanges
    /\ blocks \in Nat
    /\ rq \in [Slots -> [pc : Steps, shape : Shapes, host : HostRows \cup {NoHost},
                         waf : Engines \cup {NoEngine}, applyCache : BOOLEAN,
                         resp : Responses \cup {NoResponse},
                         origin : {{}} \cup {{c} : c \in CachedResponse},
                         attack : BOOLEAN, answer : Answers]]
    /\ now \in 0..MaxTime

(* After Bootstrap: the first Reload has pushed the rows and flags, and    *)
(* RebuildWAF has built an engine or failed to.                            *)
Init ==
    /\ CacheInit /\ MetricsInit
    /\ byHost \in [Domains -> FirstRows]
    /\ wafEnabled = TRUE /\ cacheEnabled = TRUE /\ engine \in FirstEngines
    /\ rq = [s \in Slots |-> Idle]
    /\ requests = 0 /\ changes = 0 /\ blocks = 0
    /\ used = InForce

-----------------------------------------------------------------------------
(* The engine's pushes.  Reload calls SetHosts and then SetEnabled, which  *)
(* stores one flag and then the other; Reloads overlap, so a request can   *)
(* see any mixture.  RebuildWAF swaps in a new engine, or keeps the old    *)
(* one when the build fails: there is never a way back to none.            *)

Pushed ==
    /\ changes < MaxChanges
    /\ changes' = changes + 1
    /\ used' = used \cup InForce'
    /\ UNCHANGED <<rq, requests, blocks, storeVars, now, metricVars>>

SetHosts ==
    /\ \E d \in Domains, h \in HostRows \cup {NoHost} : byHost' = [byHost EXCEPT ![d] = h]
    /\ UNCHANGED <<wafEnabled, cacheEnabled, engine>>
    /\ Pushed

SetWafEnabled ==
    /\ wafEnabled' = ~wafEnabled
    /\ UNCHANGED <<byHost, cacheEnabled, engine>>
    /\ Pushed

SetCacheEnabled ==
    /\ cacheEnabled' = ~cacheEnabled
    /\ UNCHANGED <<byHost, wafEnabled, engine>>
    /\ Pushed

SetWAF ==
    /\ engine' \in Engines
    /\ UNCHANGED <<byHost, wafEnabled, cacheEnabled>>
    /\ Pushed

-----------------------------------------------------------------------------
(* ServeHTTP.                                                              *)

At(s, step) == rq[s].pc = step

Key(s) == <<rq[s].shape.domain, rq[s].shape.uri>>

Upgrade(s) == rq[s].shape.kind = "stream"

IsLocation(s) == rq[s].shape.uri \in rq[s].host.locs

(* target # "": a matching location has upstreams of its own.              *)
HasBackend(s) == IsLocation(s) \/ rq[s].host.upstreams

(* requestCacheable: POST stands for any request it refuses.               *)
Cacheable(s) == rq[s].applyCache /\ ~IsLocation(s) /\ rq[s].shape.kind = "get"

(* The handler has written its answer and returns, through its defers.     *)
Finished(s, answer) == rq' = [rq EXCEPT ![s].pc = "record", ![s].answer = answer]

Goes(s, step) == rq' = [rq EXCEPT ![s].pc = step]

InHandler == UNCHANGED <<configVars, requests, now>>

(* The token gate and the host lookup.                                     *)
Arrive(s, shape) ==
    LET h == byHost[shape.domain]
        ans == IF shape.kind = "untrusted" THEN "forbidden"
               ELSE IF h = NoHost THEN "badGateway" ELSE "none"
    IN
    /\ At(s, "idle") /\ requests < MaxRequests
    /\ requests' = requests + 1
    /\ rq' = [rq EXCEPT ![s] = [Idle EXCEPT !.shape = shape, !.host = h, !.answer = ans,
                                            !.pc = IF ans = "none" THEN "flags" ELSE "record"]]
    /\ UNCHANGED <<configVars, blocks, storeVars, now, metricVars>>

(* applyWAF, as the engine of the transaction or none, and applyCache.     *)
ReadFlags(s) ==
    /\ At(s, "flags")
    /\ rq' = [rq EXCEPT ![s].pc = "inspect",
                        ![s].waf = IF rq[s].host.waf /\ wafEnabled THEN engine ELSE NoEngine,
                        ![s].applyCache = rq[s].host.cache /\ cacheEnabled]
    /\ InHandler /\ UNCHANGED <<blocks, storeVars, metricVars>>

(* An interruption, in either phase: the transaction is over.              *)
Block(s, verdict) ==
    /\ Interrupts(verdict)
    /\ rq' = [rq EXCEPT ![s].pc = "record", ![s].answer = "blocked",
                        ![s].attack = verdict = "attack"]
    /\ blocks' = blocks + (IF verdict = "attack" THEN 1 ELSE 0)

(* wafRequest stops the request: a rule interrupts, or a processing error  *)
(* fails closed.                                                           *)
WafRequest(s) ==
    /\ At(s, "inspect") /\ rq[s].waf # NoEngine
    /\ \/ Block(s, rq[s].shape.verdict[rq[s].waf])
       \/ rq[s].shape.verdict[rq[s].waf] = "broken" /\ Finished(s, "error") /\ UNCHANGED blocks
    /\ InHandler /\ UNCHANGED <<storeVars, metricVars>>

(* Mutant of PassesRequest: upgrades are proxied before the inspection.    *)
PassesUpgrade(s) == ~Upgrade(s) => Clears(rq[s].waf, rq[s].shape.verdict)

(* wafRequest passes or does not run.  resolveBackend, then the streaming  *)
(* exits: upgrades and event streams, and requests that neither the cache  *)
(* nor the inspection needs buffered.  What the backend answers there      *)
(* reaches the client as it comes: nobody inspects it.                     *)
PassesRequest(s) == Clears(rq[s].waf, rq[s].shape.verdict)

Stream(s) ==
    \/ Finished(s, "badGateway")
    \/ \E r \in Responses :
          rq' = [rq EXCEPT ![s].pc = "record", ![s].answer = "stream", ![s].resp = r]

Resolve(s) ==
    /\ At(s, "inspect") /\ PassesRequest(s)
    /\ \/ ~HasBackend(s) /\ Finished(s, "badGateway")
       \/ /\ HasBackend(s)
          /\ Upgrade(s) \/ (~Cacheable(s) /\ rq[s].waf = NoEngine)
          /\ Stream(s)
       \/ /\ HasBackend(s) /\ ~Upgrade(s)
          /\ Cacheable(s) \/ rq[s].waf # NoEngine
          /\ Goes(s, IF Cacheable(s) THEN "lookup" ELSE "upstream")
    /\ InHandler /\ UNCHANGED <<blocks, storeVars, metricVars>>

(* Mutant of Lookup: the entry of the store is used without decode.        *)
LookupRaw(s) ==
    /\ At(s, "lookup")
    /\ Get(Key(s))
    /\ IF Hit(Key(s))
       THEN rq' = [rq EXCEPT ![s].pc = "record", ![s].answer = "HIT",
                             ![s].origin = {ll[Position(Key(s))]}]
       ELSE Goes(s, "upstream")
    /\ InHandler /\ UNCHANGED <<blocks, metricVars>>

Lookup(s) ==
    /\ At(s, "lookup")
    /\ Get(Key(s))
    /\ IF Hit(Key(s))
       THEN rq' = [rq EXCEPT ![s].pc = "record", ![s].answer = "HIT",
                             ![s].origin = {Found(Key(s))}]
       ELSE Goes(s, "upstream")
    /\ InHandler /\ UNCHANGED <<blocks, metricVars>>

(* client.Do and the read of the body: an answer, or an error after at     *)
(* most the client's timeout.                                              *)
Upstream(s) ==
    /\ At(s, "upstream")
    /\ \/ Finished(s, "badGateway")
       \/ \E r \in Responses : rq' = [rq EXCEPT ![s].pc = "respond", ![s].resp = r]
    /\ InHandler /\ UNCHANGED <<blocks, storeVars, metricVars>>

(* wafResponse and wafResponseFailMode, on the buffered prefix.            *)
WafResponse(s) ==
    /\ At(s, "respond") /\ rq[s].waf # NoEngine
    /\ \/ Block(s, rq[s].resp.verdict[rq[s].waf])
       \/ /\ rq[s].resp.verdict[rq[s].waf] = "broken" /\ FailClosed
          /\ Finished(s, "error") /\ UNCHANGED blocks
    /\ InHandler /\ UNCHANGED <<storeVars, metricVars>>

PassesResponse(s) == Lets(rq[s].waf, rq[s].resp.verdict)

(* Oversized bodies are streamed; responseTTL decides about the others.    *)
ResponseTTL(r) == r.storable /\ r.ttl > 0

StoreAndWrite(s) ==
    LET r == rq[s].resp IN
    /\ At(s, "respond") /\ PassesResponse(s)
    /\ IF r.len <= MaxEntryBytes /\ Cacheable(s) /\ ResponseTTL(r)
       THEN Set(Key(s), [key |-> Key(s), at |-> now, resp |-> r], r.len + Overhead, r.ttl)
       ELSE UNCHANGED storeVars
    /\ Finished(s, "MISS")
    /\ InHandler /\ UNCHANGED <<blocks, metricVars>>

(* Mutant of RecordTx: what the response phase blocked is not recorded.    *)
RecordRequests(s) ==
    /\ At(s, "record")
    /\ rq' = [rq EXCEPT ![s] = Idle]
    /\ IF rq[s].attack /\ rq[s].resp = NoResponse
       THEN Record([ip |-> rq[s].shape.ip, uri |-> rq[s].shape.uri], now)
       ELSE UNCHANGED metricVars
    /\ InHandler /\ UNCHANGED <<blocks, storeVars>>

(* recordTx, deferred if there is a transaction: an interrupted one is     *)
(* recorded once per matched rule with an attack tag; here one rule, or    *)
(* none, matches.                                                          *)
RecordTx(s) ==
    /\ At(s, "record")
    /\ rq' = [rq EXCEPT ![s] = Idle]
    /\ IF rq[s].attack
       THEN Record([ip |-> rq[s].shape.ip, uri |-> rq[s].shape.uri], now)
       ELSE UNCHANGED metricVars
    /\ InHandler /\ UNCHANGED <<blocks, storeVars>>

-----------------------------------------------------------------------------
Sweep == SweepExpired /\ UNCHANGED <<edgeVars, now, metricVars>>

Clock == Tick /\ UNCHANGED <<edgeVars, storeVars, metricVars>>

Observe == RunObservers /\ UNCHANGED <<edgeVars, storeVars, now>>

Handler(s) ==
    \/ ReadFlags(s) \/ WafRequest(s) \/ Resolve(s) \/ Lookup(s)
    \/ Upstream(s) \/ WafResponse(s) \/ StoreAndWrite(s) \/ RecordTx(s)

Next ==
    \/ \E s \in Slots, shape \in Shapes : Arrive(s, shape)
    \/ \E s \in Slots : Handler(s)
    \/ SetHosts \/ SetWafEnabled \/ SetCacheEnabled \/ SetWAF
    \/ Sweep \/ Clock \/ Observe

Spec == Init /\ [][Next]_vars

-----------------------------------------------------------------------------
(* A HIT is an answer that some backend gave to a cacheable GET of the     *)
(* same method, domain and URI, that responseTTL let into the cache, and   *)
(* whose lifetime is not over at the moment of the lookup.                 *)
HitIsFaithful ==
    [][\A s \in Slots : At(s, "lookup") /\ rq'[s].answer = "HIT" =>
        \E c \in rq'[s].origin :
            /\ c.key = Key(s) /\ rq[s].shape.kind = "get" /\ ~IsLocation(s)
            /\ ResponseTTL(c.resp) /\ c.at <= now /\ now <= c.at + c.resp.ttl]_vars

(* Whatever rows, flags and engines are pushed meanwhile, a request is     *)
(* answered only after the engine it began with let it through, and never  *)
(* by none unless the WAF was off, for some host, at some time.  What a    *)
(* backend answered to it reaches the client if that engine let it through *)
(* too, except to upgrades and event streams, which ServeHTTP does not     *)
(* inspect on the way back; what comes from the cache was let through by   *)
(* an engine in force at some time, when it was stored.                    *)
NothingHarmfulServed ==
    /\ \A s \in Slots : rq[s].answer \in {"stream", "HIT", "MISS"} =>
        /\ rq[s].waf \in used /\ Clears(rq[s].waf, rq[s].shape.verdict)
        /\ rq[s].answer = "stream" => Upgrade(s) \/ rq[s].waf = NoEngine
        /\ rq[s].answer = "MISS" => Lets(rq[s].waf, rq[s].resp.verdict)
        /\ \A c \in rq[s].origin : \E e \in used : Lets(e, c.resp.verdict)
    /\ \A i \in 1..Len(ll) : \E e \in used : Lets(e, ll[i].val.resp.verdict)

(* Every attack the WAF interrupted is counted once its handler is through *)
(* and is then with the observers, in their queue, or known to have found  *)
(* the queue full; the cuts of the count maps lose counts, never add any.  *)
EventsAccounted ==
    /\ blocks = total + Cardinality({s \in Slots : At(s, "record") /\ rq[s].attack})
    /\ total = delivered + Len(events) + overflow
    /\ Len(recent) = Min({total, RecentMax})
    /\ CountsHeld(byIP) <= total /\ CountsHeld(hourly) <= total
    /\ Cardinality(DOMAIN byIP) <= MaxCountKeys /\ Cardinality(DOMAIN hourly) <= MaxHours

OwnerOf(c) == c.key
ExpiryOf(c) == c.at + c.resp.ttl

(* The LRU store, as the edge drives it, is a BoundedCache: it forgets, it *)
(* never invents a value, never prolongs one, never exceeds its budgets.   *)
Store == INSTANCE BoundedCache WITH held <- HeldMap, Values <- CachedResponse,
                                     Owner <- OwnerOf, Expiry <- ExpiryOf

ImplementsBoundedCache == Store!Spec
=============================================================================
