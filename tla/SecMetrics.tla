----------------------------- MODULE SecMetrics -----------------------------
(***************************************************************************)
(* internal/secmetrics: the live counters of WAF detections and the queue  *)
(* that feeds them to the observers (the auto-ban evaluator).              *)
(*                                                                         *)
(* add runs under c.mu, so recording an event is one step; the worker that *)
(* drains the queue is another goroutine.  byHost is kept by the same code *)
(* as byIP and byRule, byCategory without a cap; byIP stands for them.     *)
(***************************************************************************)
EXTENDS Integers, Sequences, FiniteSets, FiniteSetsExt

CONSTANTS
    MaxCountKeys,   \* maxCountKeys: a count map is cut once it has more keys
    KeepCountKeys,  \* keepCountKeys: and is cut to this many
    MaxHours,       \* maxHourBuckets
    RecentMax,      \* recentMax
    ObserverQueue   \* observerQueue: the capacity of c.events

ASSUME MetricsAssumption ==
    /\ MaxCountKeys \in Nat /\ KeepCountKeys \in 1..MaxCountKeys
    /\ MaxHours \in Nat \ {0} /\ RecentMax \in Nat \ {0} /\ ObserverQueue \in Nat \ {0}

VARIABLES
    total,      \* c.total, and c.blocked: only blocked transactions are recorded
    byIP,       \* c.byIP, a partial function
    hourly,     \* c.hourly, hour -> count
    recent,     \* c.recent, newest last
    events,     \* c.events
    delivered,  \* events the observers were called with
    overflow    \* events that found the queue full

metricVars == <<total, byIP, hourly, recent, events, delivered, overflow>>

MetricsInit ==
    /\ total = 0 /\ byIP = <<>> /\ hourly = <<>>
    /\ recent = <<>> /\ events = <<>> /\ delivered = 0 /\ overflow = 0

(* m[k]++ on a map that need not have the key.                             *)
Counted(m, k) ==
    [x \in DOMAIN m \cup {k} |-> (IF x \in DOMAIN m THEN m[x] ELSE 0) + (IF x = k THEN 1 ELSE 0)]

(* capCounts: the keys it may keep.  sort.Slice orders ties arbitrarily.   *)
CapCounts(m) ==
    IF Cardinality(DOMAIN m) <= MaxCountKeys THEN {m}
    ELSE {Restrict(m, K) : K \in {S \in kSubset(KeepCountKeys, DOMAIN m) :
                                    \A i \in S, j \in DOMAIN m \ S : m[i] >= m[j]}}

CapOldestHours(m) ==
    Restrict(m, {h \in DOMAIN m : Cardinality({g \in DOMAIN m : g > h}) < MaxHours})

(* Record, add: e.At falls in hour h.                                      *)
Record(e, h) ==
    /\ total' = total + 1
    /\ byIP' \in CapCounts(Counted(byIP, e.ip))
    /\ hourly' = CapOldestHours(Counted(hourly, h))
    /\ LET r == Append(recent, e) IN
       recent' = IF Len(r) > RecentMax THEN Tail(r) ELSE r
    /\ IF Len(events) < ObserverQueue
       THEN events' = Append(events, e) /\ UNCHANGED overflow
       ELSE overflow' = overflow + 1 /\ UNCHANGED events
    /\ UNCHANGED delivered

(* One turn of runObservers.                                               *)
RunObservers ==
    /\ events # <<>>
    /\ events' = Tail(events)
    /\ delivered' = delivered + 1
    /\ UNCHANGED <<total, byIP, hourly, recent, overflow>>

CountsHeld(m) == SumFunction(m)
=============================================================================
