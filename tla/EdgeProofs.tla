------------------------------ MODULE EdgeProofs ------------------------------
(***************************************************************************)
(* Theorems about Edge: for any requests, host rows, responses and budgets *)
(* the store stays consistent, what a request's engine refuses is never    *)
(* served, a hit is a fresh copy of an answer to that request, no  *)
(* recorded attack is lost from the books, and the LRU store of the edge   *)
(* is a BoundedCache.                                                      *)
(***************************************************************************)
EXTENDS Edge, MemCacheProofs

-----------------------------------------------------------------------------
(* The counters.                                                           *)
Attacks == {[ip |-> s.ip, uri |-> s.uri] : s \in Shapes}

Counts(m) ==
    m = [x \in DOMAIN m |-> m[x]] /\ IsFiniteSet(DOMAIN m) /\ \A x \in DOMAIN m : m[x] \in Nat

MetricsInv ==
    /\ total \in Nat /\ delivered \in Nat /\ overflow \in Nat
    /\ recent \in Seq(Attacks) /\ events \in Seq(Attacks)
    /\ Counts(byIP) /\ Counts(hourly) /\ DOMAIN hourly \subseteq Nat
    /\ CountsHeld(byIP) <= total /\ CountsHeld(hourly) <= total
    /\ Cardinality(DOMAIN byIP) <= MaxCountKeys /\ Cardinality(DOMAIN hourly) <= MaxHours
    /\ total = delivered + Len(events) + overflow
    /\ Len(recent) = Min({total, RecentMax})

-----------------------------------------------------------------------------
(* The store: an entry was fetched for its key, not in the future, may be  *)
(* cached, and expires when its lifetime is over.                          *)
Fresh(e) ==
    /\ e.val.key = e.key /\ e.exp = e.val.at + e.val.resp.ttl
    /\ ResponseTTL(e.val.resp) /\ e.val.at <= now

HeldInv == StoreInv(CachedResponse) /\ \A e \in Entries(ll) : Fresh(e)

-----------------------------------------------------------------------------
(* What a slot has in hand at each step of ServeHTTP.                      *)
SlotRec == [pc : Steps, shape : Shapes, host : HostRows \cup {NoHost},
            waf : Engines \cup {NoEngine}, applyCache : BOOLEAN,
            resp : Responses \cup {NoResponse},
            origin : {{}} \cup {{c} : c \in CachedResponse},
            attack : BOOLEAN, answer : Answers]

Before == {"flags", "inspect", "lookup", "upstream"}
Working == Before \cup {"respond"}
Inspected == {"lookup", "upstream", "respond"}

Sound(r) ==
    /\ r.pc # "record" => r.answer = "none" /\ ~r.attack /\ r.origin = {}
    /\ r.pc \in Working => r.host # NoHost
    /\ r.pc \in Before => r.resp = NoResponse
    /\ r.pc = "lookup" => r.applyCache /\ r.shape.uri \notin r.host.locs /\ r.shape.kind = "get"
    /\ r.pc \in Inspected => Clears(r.waf, r.shape.verdict)

(* A request has an engine that was in force, or none if there was a time  *)
(* without, and is answered if that engine lets it; u stands for used.     *)
Guarded(r, u) ==
    /\ r.pc \in Working => r.host.waf \/ NoEngine \in u
    /\ r.pc \in Working \ {"flags"} => r.waf \in u
    /\ r.answer \in {"stream", "HIT", "MISS"} =>
          /\ r.waf \in u /\ Clears(r.waf, r.shape.verdict)
          /\ r.answer = "stream" => r.shape.kind = "stream" \/ r.waf = NoEngine
          /\ r.answer = "MISS" => Lets(r.waf, r.resp.verdict)
          /\ \A c \in r.origin : \E e \in u : Lets(e, c.resp.verdict)

SlotsInv == \A s \in Slots : Sound(rq[s]) /\ Guarded(rq[s], used)

StoreGuarded ==
    /\ InForce \subseteq used
    /\ \A e \in Entries(ll) : \E w \in used : Lets(w, e.val.resp.verdict)

(* An attack that RecordTx has yet to count.                               *)
Due(r) == r.pc = "record" /\ r.attack
Recording == {s \in Slots : Due(rq[s])}

Books == blocks = total + Cardinality(Recording)

IInv == TypeOK /\ HeldInv /\ MetricsInv /\ SlotsInv /\ StoreGuarded /\ Books

-----------------------------------------------------------------------------
(* Incrementing one counter adds one to the sum.                           *)
LEMMA CountedAdds ==
    ASSUME NEW m, Counts(m), NEW k
    PROVE  /\ Counts(Counted(m, k)) /\ CountsHeld(Counted(m, k)) = CountsHeld(m) + 1
           /\ CountsHeld(m) \in Nat /\ DOMAIN Counted(m, k) = DOMAIN m \cup {k}
<1>. DEFINE c == Counted(m, k)
            D == DOMAIN m \ {k}
<1>1. DOMAIN c = DOMAIN m \cup {k} /\ c = [x \in DOMAIN c |-> c[x]]
      /\ \A x \in DOMAIN m \cup {k} :
           c[x] = (IF x \in DOMAIN m THEN m[x] ELSE 0) + (IF x = k THEN 1 ELSE 0)
  BY DEF Counted
<1>. HIDE DEF c
<1>2. IsFiniteSet(DOMAIN m) /\ IsFiniteSet(DOMAIN c) /\ IsFiniteSet(D)
  <2>1. IsFiniteSet({k})
    BY FS_Singleton
  <2>2. IsFiniteSet(DOMAIN m)
    BY DEF Counts
  <2>3. IsFiniteSet(DOMAIN m \cup {k})
    BY <2>1, <2>2, FS_Union
  <2>4. D \in SUBSET (DOMAIN m)
    OBVIOUS
  <2>. QED
    BY <1>1, <2>2, <2>3, <2>4, FS_Subset
<1>3. (\A x \in DOMAIN m : m[x] \in Nat) /\ (\A x \in DOMAIN c : c[x] \in Nat)
  BY <1>1 DEF Counts
<1>4. SumFunctionOnSet(c, DOMAIN c) = c[k] + SumFunctionOnSet(c, D)
  <2>1. k \in DOMAIN c /\ DOMAIN c \ {k} = D
    BY <1>1
  <2>. HIDE DEF D
  <2>2. SumFunctionOnSet(c, DOMAIN c) = c[k] + SumFunctionOnSet(c, DOMAIN c \ {k})
    BY <1>2, <1>3, <2>1, SumRemove
  <2>. QED
    BY <2>1, <2>2
<1>5. SumFunctionOnSet(c, D) = SumFunctionOnSet(m, D)
  <2>1. \A x \in D : c[x] = m[x]
    BY <1>1, <1>3
  <2>. HIDE DEF D
  <2>. QED
    BY <1>2, <2>1, SumAgrees
<1>6. SumFunctionOnSet(m, D) \in Nat
  <2>1. \A x \in D : m[x] \in Nat
    BY <1>3
  <2>. HIDE DEF D
  <2>. QED
    BY <1>2, <2>1, SumType
<1>7. SumFunctionOnSet(c, DOMAIN c) = SumFunctionOnSet(m, DOMAIN m) + 1
      /\ SumFunctionOnSet(m, DOMAIN m) \in Nat
  <2>1. CASE k \in DOMAIN m
    <3>1. SumFunctionOnSet(m, DOMAIN m) = m[k] + SumFunctionOnSet(m, D)
      BY <1>2, <1>3, <2>1, SumRemove
    <3>2. c[k] = m[k] + 1 /\ m[k] \in Nat
      BY <1>1, <1>3, <2>1
    <3>. QED
      BY <1>4, <1>5, <1>6, <3>1, <3>2
  <2>2. CASE k \notin DOMAIN m
    <3>1. D = DOMAIN m
      BY <2>2
    <3>2. c[k] = 1
      BY <1>1, <2>2
    <3>. QED
      BY <1>4, <1>5, <1>6, <3>1, <3>2
  <2>. QED
    BY <2>1, <2>2
<1>. QED
  BY <1>1, <1>2, <1>3, <1>7 DEF Counts, CountsHeld, SumFunction, c

(* Cutting a count map never adds to its sum.                              *)
LEMMA RestrictLess ==
    ASSUME NEW m, Counts(m), NEW K, K \subseteq DOMAIN m
    PROVE  /\ Counts(Restrict(m, K)) /\ DOMAIN Restrict(m, K) = K
           /\ CountsHeld(Restrict(m, K)) <= CountsHeld(m) /\ CountsHeld(m) \in Nat
           /\ CountsHeld(Restrict(m, K)) \in Nat
<1>. DEFINE c == Restrict(m, K)
            L == DOMAIN m \ K
<1>1. DOMAIN c = K /\ c = [x \in DOMAIN c |-> c[x]] /\ \A x \in K : c[x] = m[x]
  BY DEF Restrict
<1>. HIDE DEF c
<1>2. IsFiniteSet(DOMAIN m) /\ IsFiniteSet(K) /\ IsFiniteSet(L)
  <2>1. IsFiniteSet(DOMAIN m)
    BY DEF Counts
  <2>2. L \in SUBSET (DOMAIN m) /\ K \in SUBSET (DOMAIN m)
    OBVIOUS
  <2>. HIDE DEF L
  <2>. QED
    BY <2>1, <2>2, FS_Subset
<1>3. \A x \in DOMAIN m : m[x] \in Nat
  BY DEF Counts
<1>4. K \cap L = {} /\ K \cup L = DOMAIN m /\ \A x \in K \cup L : m[x] \in Nat
  BY <1>3
<1>. HIDE DEF L
<1>5. SumFunctionOnSet(m, K \cup L) = SumFunctionOnSet(m, K) + SumFunctionOnSet(m, L)
  BY <1>2, <1>4, SumUnion
<1>6. SumFunctionOnSet(m, K) \in Nat /\ SumFunctionOnSet(m, L) \in Nat
  BY <1>2, <1>4, SumType
<1>7. SumFunctionOnSet(c, K) = SumFunctionOnSet(m, K)
  BY <1>1, <1>2, SumAgrees
<1>8. SumFunctionOnSet(c, DOMAIN c) = SumFunctionOnSet(m, K)
      /\ SumFunctionOnSet(m, DOMAIN m) = SumFunctionOnSet(m, K) + SumFunctionOnSet(m, L)
  BY <1>1, <1>4, <1>5, <1>7
<1>9. Counts(c)
  BY <1>1, <1>2, <1>3 DEF Counts
<1>. QED
  BY <1>1, <1>6, <1>8, <1>9 DEF CountsHeld, SumFunction, c

(* A set of natural numbers has a least element.                           *)
LEMMA Least ==
    ASSUME NEW S, IsFiniteSet(S), S \subseteq Nat, S # {}
    PROVE  \E x \in S : \A y \in S : x <= y
<1>. DEFINE UpTo(x) == {y \in S : y <= x}
            C == {UpTo(x) : x \in S}
<1>1. PICK T \in C : \A U \in C : U \subseteq T => U = T
  <2>1. C \in Family(S)
    BY DEF Family
  <2>2. C # {}
    OBVIOUS
  <2>. HIDE DEF C
  <2>. QED
    BY <2>1, <2>2, Minimal
<1>2. PICK x \in S : T = UpTo(x)
  OBVIOUS
<1>3. ASSUME NEW y \in S PROVE x <= y
  <2>1. SUFFICES ASSUME y < x PROVE FALSE
    OBVIOUS
  <2>0. x \in Nat /\ y \in Nat /\ \A z \in S : z \in Nat
    OBVIOUS
  <2>2. UpTo(y) \subseteq UpTo(x)
    <3>1. \A z \in S : z <= y => z <= x
      BY <2>0, <2>1
    <3>. QED
      BY <3>1
  <2>3. UpTo(y) = UpTo(x)
    BY <1>1, <1>2, <2>2
  <2>4. x \in UpTo(x) /\ x \notin UpTo(y)
    BY <2>0, <2>1
  <2>. QED
    BY <2>3, <2>4
<1>. QED
  BY <1>3

(* The newest hours are no more than the cap allows: all but the oldest of *)
(* them are newer than the oldest.                                         *)
LEMMA NewestFit ==
    ASSUME NEW D, IsFiniteSet(D), D \subseteq Nat
    PROVE  Cardinality({h \in D : Cardinality({g \in D : g > h}) < MaxHours}) <= MaxHours
<1>. DEFINE H == {h \in D : Cardinality({g \in D : g > h}) < MaxHours}
<1>0. IsFiniteSet(H) /\ H \subseteq D
  BY FS_Subset
<1>1. CASE H = {}
  <2>. HIDE DEF H
  <2>1. Cardinality(H) = 0 /\ MaxHours \in Nat
    BY <1>1, FS_EmptySet, MetricsAssumption
  <2>2. Cardinality(H) <= MaxHours
    BY <2>1
  <2>. QED
    BY <2>2 DEF H
<1>2. CASE H # {}
  <2>. HIDE DEF H
  <2>1. PICK x \in H : \A y \in H : x <= y
    <3>1. H \subseteq Nat
      BY <1>0
    <3>. QED
      BY <1>0, <1>2, <3>1, Least
  <2>. DEFINE N == {g \in D : g > x}
  <2>2. Cardinality(N) < MaxHours
    BY DEF H
  <2>3. H \ {x} \subseteq N
    BY <1>0, <2>1
  <2>4. IsFiniteSet(N)
    <3>1. N \in SUBSET D
      OBVIOUS
    <3>. QED
      BY <3>1, FS_Subset
  <2>. HIDE DEF N
  <2>5. Cardinality(H \ {x}) <= Cardinality(N) /\ Cardinality(N) \in Nat
    BY <2>3, <2>4, FS_Subset, FS_CardinalityType
  <2>6. Cardinality(H \ {x}) = Cardinality(H) - 1 /\ Cardinality(H) \in Nat
    BY <1>0, FS_RemoveElement, FS_CardinalityType
  <2>7. MaxHours \in Nat
    BY MetricsAssumption
  <2>8. Cardinality(H) <= MaxHours
    BY <2>2, <2>5, <2>6, <2>7
  <2>. QED
    BY <2>8 DEF H
<1>. QED
  BY <1>1, <1>2

(* The smaller of two numbers.                                             *)
LEMMA MinOfTwo ==
    ASSUME NEW a \in Nat, NEW b \in Nat
    PROVE  Min({a, b}) = IF a <= b THEN a ELSE b
BY DEF Min
(* A map that was cut counts no more than before, in at most MaxCountKeys  *)
(* keys (CapCounts).                                                       *)
LEMMA CapCountsFits ==
    ASSUME NEW m, Counts(m), NEW c \in CapCounts(m)
    PROVE  /\ Counts(c) /\ CountsHeld(c) <= CountsHeld(m) /\ CountsHeld(c) \in Nat
           /\ Cardinality(DOMAIN c) <= MaxCountKeys
<1>0. CountsHeld(m) \in Nat
  BY CountedAdds
<1>1. CASE Cardinality(DOMAIN m) <= MaxCountKeys
  <2>1. c = m
    BY <1>1 DEF CapCounts
  <2>. QED
    BY <1>0, <1>1, <2>1
<1>2. CASE ~(Cardinality(DOMAIN m) <= MaxCountKeys)
  <2>1. PICK K \in kSubset(KeepCountKeys, DOMAIN m) : c = Restrict(m, K)
    BY <1>2 DEF CapCounts
  <2>2. K \subseteq DOMAIN m /\ Cardinality(K) = KeepCountKeys
    BY DEF kSubset
  <2>3. KeepCountKeys <= MaxCountKeys
    BY MetricsAssumption
  <2>4. /\ Counts(c) /\ DOMAIN c = K /\ CountsHeld(c) <= CountsHeld(m)
        /\ CountsHeld(c) \in Nat
    BY <2>1, <2>2, RestrictLess
  <2>. QED
    BY <2>2, <2>3, <2>4
<1>. QED
  BY <1>1, <1>2

(* The same for the hours (CapOldestHours).                                *)
LEMMA CapHoursFits ==
    ASSUME NEW m, Counts(m), DOMAIN m \subseteq Nat
    PROVE  /\ Counts(CapOldestHours(m)) /\ DOMAIN CapOldestHours(m) \subseteq Nat
           /\ CountsHeld(CapOldestHours(m)) <= CountsHeld(m) /\ CountsHeld(CapOldestHours(m)) \in Nat
           /\ Cardinality(DOMAIN CapOldestHours(m)) <= MaxHours
<1>. DEFINE H == {h \in DOMAIN m : Cardinality({g \in DOMAIN m : g > h}) < MaxHours}
<1>1. Cardinality(H) <= MaxHours
  BY NewestFit DEF Counts
<1>2. H \subseteq DOMAIN m /\ CapOldestHours(m) = Restrict(m, H)
  BY DEF CapOldestHours
<1>. HIDE DEF H
<1>3. /\ Counts(Restrict(m, H)) /\ DOMAIN Restrict(m, H) = H
      /\ CountsHeld(Restrict(m, H)) <= CountsHeld(m) /\ CountsHeld(Restrict(m, H)) \in Nat
  BY <1>2, RestrictLess
<1>. QED
  BY <1>1, <1>2, <1>3

(* Recording an event keeps the books.                                     *)
LEMMA RecordStep ==
    ASSUME MetricsInv, NEW e \in Attacks, NEW h \in Nat, Record(e, h)
    PROVE  MetricsInv' /\ total' = total + 1
<1>0. total \in Nat /\ delivered \in Nat /\ overflow \in Nat /\ recent \in Seq(Attacks)
      /\ events \in Seq(Attacks) /\ RecentMax \in Nat \ {0}
  BY MetricsAssumption DEF MetricsInv
<1>1. total' = total + 1 /\ delivered' = delivered
  BY DEF Record
<1>2. /\ Counts(byIP') /\ CountsHeld(byIP') <= total'
      /\ Cardinality(DOMAIN byIP') <= MaxCountKeys
  <2>. DEFINE m == Counted(byIP, e.ip)
  <2>1. Counts(byIP) /\ CountsHeld(byIP) <= total
    BY DEF MetricsInv
  <2>2. Counts(m) /\ CountsHeld(m) = CountsHeld(byIP) + 1 /\ CountsHeld(byIP) \in Nat
    BY <2>1, CountedAdds
  <2>3. byIP' \in CapCounts(m)
    BY DEF Record
  <2>. HIDE DEF m
  <2>4. /\ Counts(byIP') /\ CountsHeld(byIP') <= CountsHeld(m) /\ CountsHeld(byIP') \in Nat
        /\ Cardinality(DOMAIN byIP') <= MaxCountKeys
    BY <2>2, <2>3, CapCountsFits
  <2>. QED
    BY <1>0, <1>1, <2>1, <2>2, <2>4
<1>3. /\ Counts(hourly') /\ DOMAIN hourly' \subseteq Nat /\ CountsHeld(hourly') <= total'
      /\ Cardinality(DOMAIN hourly') <= MaxHours
  <2>. DEFINE m == Counted(hourly, h)
  <2>1. Counts(hourly) /\ CountsHeld(hourly) <= total /\ DOMAIN hourly \subseteq Nat
    BY DEF MetricsInv
  <2>2. /\ Counts(m) /\ CountsHeld(m) = CountsHeld(hourly) + 1 /\ CountsHeld(hourly) \in Nat
        /\ DOMAIN m = DOMAIN hourly \cup {h}
    BY <2>1, CountedAdds
  <2>3. hourly' = CapOldestHours(m)
    BY DEF Record
  <2>. HIDE DEF m
  <2>4. DOMAIN m \subseteq Nat
    BY <2>1, <2>2
  <2>5. /\ Counts(hourly') /\ DOMAIN hourly' \subseteq Nat
        /\ CountsHeld(hourly') <= CountsHeld(m) /\ CountsHeld(hourly') \in Nat
        /\ Cardinality(DOMAIN hourly') <= MaxHours
    BY <2>2, <2>3, <2>4, CapHoursFits
  <2>. QED
    BY <1>0, <1>1, <2>1, <2>2, <2>5
<1>4. recent' \in Seq(Attacks) /\ Len(recent') = Min({total', RecentMax})
  <2>. DEFINE r == Append(recent, e)
  <2>1. r \in Seq(Attacks) /\ Len(r) = Len(recent) + 1 /\ Len(recent) \in Nat
    BY <1>0
  <2>2. recent' = IF Len(r) > RecentMax THEN Tail(r) ELSE r
    BY DEF Record
  <2>. HIDE DEF r
  <2>3. Tail(r) \in Seq(Attacks) /\ Len(Tail(r)) = Len(r) - 1
    <3>1. r # <<>>
      BY <2>1
    <3>. QED
      BY <2>1, <3>1
  <2>4. Len(recent) = IF total <= RecentMax THEN total ELSE RecentMax
    <3>1. Len(recent) = Min({total, RecentMax})
      BY DEF MetricsInv
    <3>. QED
      BY <1>0, <3>1, MinOfTwo
  <2>5. Min({total', RecentMax}) = IF total' <= RecentMax THEN total' ELSE RecentMax
    BY <1>0, <1>1, MinOfTwo
  <2>6. Len(recent') = IF total' <= RecentMax THEN total' ELSE RecentMax
    BY <1>0, <1>1, <2>1, <2>2, <2>3, <2>4
  <2>. QED
    BY <2>1, <2>2, <2>3, <2>5, <2>6
<1>5. events' \in Seq(Attacks) /\ overflow' \in Nat
      /\ Len(events') + overflow' = Len(events) + overflow + 1
  <2>1. CASE Len(events) < ObserverQueue
    <3>1. events' = Append(events, e) /\ overflow' = overflow
      BY <2>1 DEF Record
    <3>. QED
      BY <1>0, <3>1
  <2>2. CASE ~(Len(events) < ObserverQueue)
    <3>1. events' = events /\ overflow' = overflow + 1
      BY <2>2 DEF Record
    <3>. QED
      BY <1>0, <3>1
  <2>. QED
    BY <2>1, <2>2
<1>6. total' = delivered' + Len(events') + overflow'
  <2>1. total = delivered + Len(events) + overflow
    BY DEF MetricsInv
  <2>. DEFINE a == Len(events)
              b == Len(events')
  <2>2. a \in Nat /\ b \in Nat
    BY <1>0, <1>5
  <2>3. total = delivered + a + overflow /\ b + overflow' = a + overflow + 1
    BY <1>5, <2>1
  <2>4. delivered \in Nat /\ overflow \in Nat /\ overflow' \in Nat /\ total' = total + 1
        /\ delivered' = delivered
    BY <1>0, <1>1, <1>5
  <2>. HIDE DEF a, b
  <2>5. total' = delivered' + b + overflow'
    <3>1. (delivered + a + overflow) + 1 = delivered + (a + overflow + 1)
      BY <2>2, <2>4
    <3>2. delivered + (b + overflow') = delivered + b + overflow'
      BY <2>2, <2>4
    <3>. QED
      BY <2>3, <2>4, <3>1, <3>2
  <2>. QED
    BY <2>5 DEF b
<1>7. total' \in Nat /\ delivered' \in Nat
  BY <1>0, <1>1
<1>. QED
  BY <1>1, <1>2, <1>3, <1>4, <1>5, <1>6, <1>7 DEF MetricsInv

(* The observers take the oldest event of the queue.                       *)
LEMMA ObserveStep ==
    ASSUME MetricsInv, RunObservers
    PROVE  MetricsInv' /\ total' = total
<1>0. events \in Seq(Attacks) /\ events # <<>> /\ delivered \in Nat /\ overflow \in Nat
      /\ total = delivered + Len(events) + overflow
  BY DEF MetricsInv, RunObservers
<1>1. /\ events' = Tail(events) /\ delivered' = delivered + 1 /\ total' = total /\ byIP' = byIP
      /\ hourly' = hourly /\ recent' = recent /\ overflow' = overflow
  BY DEF RunObservers
<1>2. events' \in Seq(Attacks) /\ Len(events') = Len(events) - 1 /\ Len(events) \in Nat
  BY <1>0, <1>1
<1>3. total' = delivered' + Len(events') + overflow' /\ delivered' \in Nat
  BY <1>0, <1>1, <1>2
<1>. QED
  BY <1>1, <1>2, <1>3 DEF MetricsInv

-----------------------------------------------------------------------------
(* The slots.  A step of slot s gives it the record v and leaves the rest. *)
Moves(s, v) == v \in SlotRec /\ rq' = [rq EXCEPT ![s] = v]

(* The slots hold records.                                                 *)
LEMMA TypedSlots == TypeOK => rq \in [Slots -> SlotRec]
BY DEF TypeOK, SlotRec

(* What is true of a slot at rest.                                         *)
LEMMA IdleIs ==
    /\ Idle \in SlotRec /\ Sound(Idle) /\ (\A u : Guarded(Idle, u)) /\ ~Due(Idle)
    /\ Idle.pc = "idle" /\ Idle.resp = NoResponse /\ Idle.origin = {} /\ Idle.attack = FALSE
    /\ Idle.answer = "none" /\ Idle.waf = NoEngine /\ Idle.applyCache = FALSE
<1>1. (CHOOSE s \in Shapes : TRUE) \in Shapes
  BY EdgeAssumption
<1>2. Idle \in SlotRec
  BY <1>1 DEF Idle, SlotRec, Steps, Answers
<1>. QED
  BY <1>2 DEF Idle, Sound, Guarded, Due, Working, Before, Inspected

(* What a record may rely on only grows.                                   *)
LEMMA MoreUsed ==
    ASSUME NEW r, NEW u, NEW w, u \subseteq w, Guarded(r, u)
    PROVE  Guarded(r, w)
BY DEF Guarded

(* What holds of every slot holds after a step that makes it hold of s.    *)
LEMMA SlotsStep ==
    ASSUME TypeOK, SlotsInv, NEW s \in Slots, NEW v, Moves(s, v), Sound(v),
           used \subseteq used', Guarded(v, used)
    PROVE  SlotsInv' /\ rq' \in [Slots -> SlotRec]
<1>1. rq \in [Slots -> SlotRec] /\ v \in SlotRec
  BY TypedSlots DEF Moves
<1>2. \A t \in Slots : rq'[t] = IF t = s THEN v ELSE rq[t]
  BY <1>1 DEF Moves
<1>3. rq' \in [Slots -> SlotRec]
  BY <1>1 DEF Moves
<1>4. ASSUME NEW t \in Slots PROVE Sound(rq'[t]) /\ Guarded(rq'[t], used')
  <2>1. Sound(rq'[t]) /\ Guarded(rq'[t], used)
    BY <1>2 DEF SlotsInv
  <2>. QED
    BY <2>1, MoreUsed
<1>. QED
  BY <1>3, <1>4 DEF SlotsInv

(* A step of one slot changes the number of events still to be recorded by *)
(* at most one.                                                            *)
LEMMA RecordingStep ==
    ASSUME TypeOK, NEW s \in Slots, NEW v, Moves(s, v)
    PROVE  /\ Cardinality(Recording) \in Nat /\ Cardinality(Recording') \in Nat
           /\ Cardinality(Recording') + (IF Due(rq[s]) THEN 1 ELSE 0)
                = Cardinality(Recording) + (IF Due(v) THEN 1 ELSE 0)
<1>1. rq \in [Slots -> SlotRec] /\ v \in SlotRec
  BY TypedSlots DEF Moves
<1>2. \A t \in Slots : rq'[t] = IF t = s THEN v ELSE rq[t]
  BY <1>1 DEF Moves
<1>. DEFINE A == Recording
            B == Recording'
            C == {t \in Slots \ {s} : Due(rq[t])}
<1>3. A = (IF Due(rq[s]) THEN C \cup {s} ELSE C)
  BY DEF Recording
<1>4. B = (IF Due(v) THEN C \cup {s} ELSE C)
  BY <1>2 DEF Recording
<1>5. IsFiniteSet(C) /\ s \notin C
  <2>1. C \in SUBSET Slots
    OBVIOUS
  <2>. QED
    BY <2>1, FS_Subset, EdgeAssumption
<1>. HIDE DEF A, B, C
<1>6. Cardinality(C) \in Nat /\ Cardinality(C \cup {s}) = Cardinality(C) + 1
  BY <1>5, FS_AddElement, FS_CardinalityType
<1>7. Cardinality(A) = (IF Due(rq[s]) THEN Cardinality(C) + 1 ELSE Cardinality(C))
  BY <1>3, <1>6
<1>8. Cardinality(B) = (IF Due(v) THEN Cardinality(C) + 1 ELSE Cardinality(C))
  BY <1>4, <1>6
<1>9. /\ Cardinality(A) \in Nat /\ Cardinality(B) \in Nat
      /\ Cardinality(B) + (IF Due(rq[s]) THEN 1 ELSE 0) = Cardinality(A) + (IF Due(v) THEN 1 ELSE 0)
  BY <1>6, <1>7, <1>8
<1>. QED
  BY <1>9 DEF A, B
(* What a handler step must do: land the slot in a sound record, and pay   *)
(* for every attack once when it is blocked and once when it is recorded.  *)
Pays(s, v) ==
    /\ blocks' = blocks + (IF Due(v) THEN 1 ELSE 0)
    /\ total' = total + (IF Due(rq[s]) THEN 1 ELSE 0)

Lands(s, v) == Moves(s, v) /\ Sound(v) /\ Guarded(v, used) /\ Pays(s, v)

Keeps(v, r) ==
    /\ v.shape = r.shape /\ v.host = r.host /\ v.waf = r.waf
    /\ v.applyCache = r.applyCache /\ v.resp = r.resp /\ v.origin = r.origin

(* A request that is answered (Finished) goes to its deferred call.        *)
LEMMA FinishedIs ==
    ASSUME TypeOK, NEW s \in Slots, NEW a \in Answers, Finished(s, a)
    PROVE  \E v : Moves(s, v) /\ Keeps(v, rq[s]) /\ v.pc = "record" /\ v.answer = a
                  /\ v.attack = rq[s].attack
<1>. DEFINE v == [rq[s] EXCEPT !.pc = "record", !.answer = a]
<1>1. rq \in [Slots -> SlotRec] /\ rq[s] \in SlotRec
  BY TypedSlots
<1>2. rq' = [rq EXCEPT ![s] = v]
  BY <1>1 DEF Finished
<1>3. v \in SlotRec /\ Keeps(v, rq[s]) /\ v.pc = "record" /\ v.answer = a /\ v.attack = rq[s].attack
  BY <1>1 DEF SlotRec, Keeps, Steps
<1>. HIDE DEF v
<1>. QED
  BY <1>2, <1>3 DEF Moves

(* A request that goes on (Goes) keeps what it has read.                   *)
LEMMA GoesIs ==
    ASSUME TypeOK, NEW s \in Slots, NEW p \in Steps, Goes(s, p)
    PROVE  \E v : Moves(s, v) /\ Keeps(v, rq[s]) /\ v.pc = p /\ v.answer = rq[s].answer
                  /\ v.attack = rq[s].attack
<1>. DEFINE v == [rq[s] EXCEPT !.pc = p]
<1>1. rq \in [Slots -> SlotRec] /\ rq[s] \in SlotRec
  BY TypedSlots
<1>2. rq' = [rq EXCEPT ![s] = v]
  BY <1>1 DEF Goes
<1>3. v \in SlotRec /\ Keeps(v, rq[s]) /\ v.pc = p /\ v.answer = rq[s].answer /\ v.attack = rq[s].attack
  BY <1>1 DEF SlotRec, Keeps
<1>. HIDE DEF v
<1>. QED
  BY <1>2, <1>3 DEF Moves

(* A block by the WAF (Block) counts, if it is for an attack.              *)
LEMMA BlockIs ==
    ASSUME TypeOK, NEW s \in Slots, NEW x, Block(s, x)
    PROVE  \E v : Moves(s, v) /\ Keeps(v, rq[s]) /\ v.pc = "record" /\ v.answer = "blocked"
                  /\ (Due(v) <=> x = "attack")
                  /\ blocks' = blocks + (IF x = "attack" THEN 1 ELSE 0)
<1>. DEFINE b == x = "attack"
            v == [rq[s] EXCEPT !.pc = "record", !.answer = "blocked", !.attack = b]
<1>1. rq \in [Slots -> SlotRec] /\ rq[s] \in SlotRec
  BY TypedSlots
<1>2. rq' = [rq EXCEPT ![s] = v]
  BY <1>1 DEF Block
<1>3. b \in BOOLEAN
  OBVIOUS
<1>4. v \in SlotRec /\ Keeps(v, rq[s]) /\ v.pc = "record" /\ v.answer = "blocked" /\ v.attack = b
  <2>. HIDE DEF b
  <2>. QED
    BY <1>1, <1>3 DEF SlotRec, Keeps, Steps, Answers
<1>. HIDE DEF v
<1>5. Due(v) <=> x = "attack"
  BY <1>4, Zenon DEF Due
<1>6. blocks' = blocks + (IF x = "attack" THEN 1 ELSE 0)
  BY DEF Block
<1>. QED
  BY <1>2, <1>4, <1>5, <1>6 DEF Moves

(* A request arrives, and reads its host.                                  *)
LEMMA ArriveLands ==
    ASSUME TypeOK, SlotsInv, MetricsInv, StoreGuarded, NEW s \in Slots, NEW shape \in Shapes,
           Arrive(s, shape)
    PROVE  \E v : Lands(s, v)
<1>. DEFINE h == byHost[shape.domain]
            a == IF shape.kind = "untrusted" THEN "forbidden"
                 ELSE IF h = NoHost THEN "badGateway" ELSE "none"
            p == IF a = "none" THEN "flags" ELSE "record"
            v == [Idle EXCEPT !.shape = shape, !.host = h, !.answer = a, !.pc = p]
<1>1. rq \in [Slots -> SlotRec] /\ rq[s] \in SlotRec /\ rq[s].pc = "idle"
  BY TypedSlots DEF Arrive, At
<1>2. h \in HostRows \cup {NoHost} /\ a \in Answers /\ p \in Steps
  BY EdgeAssumption DEF TypeOK, Answers, Steps
<1>3. rq' = [rq EXCEPT ![s] = v]
  BY DEF Arrive
<1>4. a \in {"forbidden", "badGateway", "none"} /\ p \in {"flags", "record"}
      /\ (p = "flags" => h # NoHost /\ a = "none")
  OBVIOUS
<1>5. h # NoHost => h.waf \/ NoEngine \in used
  BY EdgeAssumption DEF StoreGuarded, InForce, WafOn
<1>. HIDE DEF h, a, p
<1>6. /\ v \in SlotRec /\ v.pc = p /\ v.shape = shape /\ v.host = h /\ v.answer = a
      /\ v.resp = NoResponse /\ v.origin = {} /\ v.attack = FALSE
  BY <1>2, IdleIs DEF SlotRec
<1>. HIDE DEF v
<1>7. Sound(v)
  BY <1>4, <1>6 DEF Sound, Before, Working, Inspected
<1>8. Guarded(v, used)
  BY <1>4, <1>5, <1>6 DEF Guarded, Working, Before
<1>9. ~Due(v) /\ ~Due(rq[s])
  BY <1>1, <1>6 DEF Due
<1>10. Pays(s, v)
  <2>1. blocks' = blocks /\ total' = total /\ blocks \in Nat /\ total \in Nat
    BY DEF Arrive, metricVars, TypeOK, MetricsInv
  <2>. QED
    BY <1>9, <2>1 DEF Pays
<1>. QED
  BY <1>3, <1>6, <1>7, <1>8, <1>10 DEF Lands, Moves
(* A step of a handler that is not yet through, with nothing to pay.       *)
LEMMA Unpaid ==
    ASSUME TypeOK, MetricsInv, NEW s \in Slots, ~Due(rq[s]), NEW v, ~Due(v),
           blocks' = blocks, total' = total
    PROVE  Pays(s, v)
<1>1. blocks \in Nat /\ total \in Nat
  BY DEF TypeOK, MetricsInv
<1>. QED
  BY <1>1 DEF Pays

(* What the invariant says of one slot.                                    *)
LEMMA InHand ==
    ASSUME TypeOK, SlotsInv, NEW s \in Slots
    PROVE  rq[s] \in SlotRec /\ Sound(rq[s]) /\ Guarded(rq[s], used)
           /\ (rq[s].pc # "record" => ~Due(rq[s]))
<1>1. rq[s] \in SlotRec
  BY TypedSlots
<1>. QED
  BY <1>1 DEF SlotsInv, Due

(* It reads the flags.                                                     *)
LEMMA ReadFlagsLands ==
    ASSUME TypeOK, SlotsInv, MetricsInv, StoreGuarded, NEW s \in Slots, ReadFlags(s)
    PROVE  \E v : Lands(s, v)
<1>. DEFINE r == rq[s]
            w == IF rq[s].host.waf /\ wafEnabled THEN engine ELSE NoEngine
            c == rq[s].host.cache /\ cacheEnabled
            v == [rq[s] EXCEPT !.pc = "inspect", !.waf = w, !.applyCache = c]
<1>1. r \in SlotRec /\ Sound(r) /\ Guarded(r, used) /\ r.pc = "flags" /\ ~Due(r)
  BY InHand DEF ReadFlags, At
<1>2. w \in Engines \cup {NoEngine} /\ c \in BOOLEAN
  BY DEF TypeOK
<1>3. rq' = [rq EXCEPT ![s] = v]
  <2>1. rq \in [Slots -> SlotRec]
    BY TypedSlots
  <2>. QED
    BY <2>1 DEF ReadFlags
<1>4. w \in used
  <2>1. r.host.waf \/ NoEngine \in used
    BY <1>1 DEF Guarded, Working, Before
  <2>2. engine \in used /\ (~wafEnabled => NoEngine \in used)
    BY DEF StoreGuarded, InForce, WafOn
  <2>. QED
    BY <2>1, <2>2
<1>5. r.host # NoHost /\ r.resp = NoResponse /\ r.answer = "none" /\ r.origin = {} /\ ~r.attack
  BY <1>1 DEF Sound, Working, Before
<1>. HIDE DEF w, c, r
<1>6. /\ v \in SlotRec /\ v.pc = "inspect" /\ v.shape = r.shape /\ v.host = r.host /\ v.resp = r.resp
      /\ v.origin = r.origin /\ v.attack = r.attack /\ v.answer = r.answer /\ v.waf = w
  BY <1>1, <1>2 DEF SlotRec, Steps, r
<1>. HIDE DEF v
<1>7. Sound(v) /\ ~Due(v)
  BY <1>5, <1>6 DEF Sound, Before, Working, Inspected, Due
<1>8. Guarded(v, used)
  <2>1. r.host.waf \/ NoEngine \in used
    BY <1>1 DEF Guarded, Working, Before
  <2>. QED
    BY <1>4, <1>5, <1>6, <2>1 DEF Guarded
<1>9. Pays(s, v)
  BY <1>1, <1>7, Unpaid DEF ReadFlags, metricVars, r
<1>. QED
  BY <1>3, <1>6, <1>7, <1>8, <1>9 DEF Lands, Moves

(* An interruption lands in "record" with an answer that serves nothing.   *)
LEMMA BlockLands ==
    ASSUME TypeOK, SlotsInv, MetricsInv, NEW s \in Slots, NEW x, Block(s, x),
           rq[s].pc # "record", total' = total
    PROVE  \E v : Lands(s, v)
<1>1. PICK v : Moves(s, v) /\ Keeps(v, rq[s]) /\ v.pc = "record" /\ v.answer = "blocked"
               /\ (Due(v) <=> x = "attack")
               /\ blocks' = blocks + (IF x = "attack" THEN 1 ELSE 0)
  BY BlockIs
<1>2. ~Due(rq[s])
  BY InHand
<1>3. Sound(v) /\ Guarded(v, used)
  BY <1>1 DEF Sound, Guarded, Before, Working, Inspected
<1>4. Pays(s, v)
  <2>1. total \in Nat
    BY DEF MetricsInv
  <2>. QED
    BY <1>1, <1>2, <2>1 DEF Pays
<1>. QED
  BY <1>1, <1>3, <1>4 DEF Lands

(* An answer is right if the verdicts are.                                 *)
LEMMA FinishedLands ==
    ASSUME TypeOK, SlotsInv, MetricsInv, NEW s \in Slots, NEW a \in Answers, Finished(s, a),
           rq[s].pc # "record", total' = total, blocks' = blocks,
           a \notin {"stream", "HIT"},
           a = "MISS" => /\ rq[s].waf \in used /\ Clears(rq[s].waf, rq[s].shape.verdict)
                         /\ Lets(rq[s].waf, rq[s].resp.verdict)
    PROVE  \E v : Lands(s, v)
<1>1. PICK v : Moves(s, v) /\ Keeps(v, rq[s]) /\ v.pc = "record" /\ v.answer = a
               /\ v.attack = rq[s].attack
  BY FinishedIs
<1>2. Sound(rq[s]) /\ ~Due(rq[s])
  BY InHand
<1>3. ~rq[s].attack /\ rq[s].origin = {}
  BY <1>2 DEF Sound
<1>4. Sound(v) /\ ~Due(v)
  BY <1>1, <1>3 DEF Sound, Before, Working, Inspected, Due
<1>5. Guarded(v, used)
  BY <1>1, <1>3 DEF Guarded, Working, Before, Keeps
<1>6. Pays(s, v)
  BY <1>2, <1>4, Unpaid
<1>. QED
  BY <1>1, <1>4, <1>5, <1>6 DEF Lands

(* The WAF looks at the request.                                           *)
LEMMA WafRequestLands ==
    ASSUME TypeOK, SlotsInv, MetricsInv, NEW s \in Slots, WafRequest(s)
    PROVE  \E v : Lands(s, v)
<1>1. rq[s].pc # "record" /\ total' = total
  BY DEF WafRequest, At, metricVars
<1>2. CASE Block(s, rq[s].shape.verdict[rq[s].waf])
  BY <1>1, <1>2, BlockLands
<1>3. CASE Finished(s, "error") /\ blocks' = blocks
  <2>1. "error" \in Answers
    BY DEF Answers
  <2>. QED
    BY <1>1, <1>3, <2>1, FinishedLands
<1>. QED
  BY <1>2, <1>3 DEF WafRequest
(* The request is sent on, or there is no backend.                         *)
LEMMA ResolveLands ==
    ASSUME TypeOK, SlotsInv, MetricsInv, NEW s \in Slots, Resolve(s)
    PROVE  \E v : Lands(s, v)
<1>. DEFINE r == rq[s]
<1>0. /\ r \in SlotRec /\ Sound(r) /\ Guarded(r, used) /\ r.pc = "inspect" /\ ~Due(r)
      /\ total' = total /\ blocks' = blocks
  BY InHand DEF Resolve, At, metricVars
<1>1. /\ r.host # NoHost /\ r.resp = NoResponse /\ r.answer = "none" /\ r.origin = {} /\ ~r.attack
  BY <1>0 DEF Sound, Working, Before
<1>2. Clears(r.waf, r.shape.verdict) /\ r.waf \in used /\ (r.host.waf \/ NoEngine \in used)
  BY <1>0 DEF Resolve, PassesRequest, Guarded, Working, Before
<1>3. CASE Finished(s, "badGateway")
  <2>1. "badGateway" \in Answers
    BY DEF Answers
  <2>. QED
    BY <1>0, <1>3, <2>1, FinishedLands
<1>4. ASSUME NEW a \in Responses, Upgrade(s) \/ rq[s].waf = NoEngine,
             rq' = [rq EXCEPT ![s].pc = "record", ![s].answer = "stream", ![s].resp = a]
      PROVE  \E v : Lands(s, v)
  <2>. DEFINE v == [rq[s] EXCEPT !.pc = "record", !.answer = "stream", !.resp = a]
  <2>1. rq' = [rq EXCEPT ![s] = v]
    <3>1. rq \in [Slots -> SlotRec]
      BY TypedSlots
    <3>. QED
      BY <1>4, <3>1
  <2>2. /\ v \in SlotRec /\ v.pc = "record" /\ v.answer = "stream" /\ v.origin = r.origin
        /\ v.attack = r.attack /\ v.shape = r.shape /\ v.waf = r.waf
    BY <1>0 DEF SlotRec, Steps, Answers
  <2>. HIDE DEF v
  <2>3. Sound(v) /\ ~Due(v)
    BY <1>1, <2>2 DEF Sound, Before, Working, Inspected, Due
  <2>4. Guarded(v, used)
    BY <1>1, <1>2, <1>4, <2>2 DEF Guarded, Working, Before, Upgrade
  <2>5. Pays(s, v)
    BY <1>0, <2>3, Unpaid
  <2>. QED
    BY <2>1, <2>2, <2>3, <2>4, <2>5 DEF Lands, Moves
<1>5. CASE ~HasBackend(s) /\ Finished(s, "badGateway")
  BY <1>3, <1>5
<1>6. CASE (Upgrade(s) \/ rq[s].waf = NoEngine) /\ Stream(s)
  BY <1>3, <1>4, <1>6 DEF Stream
<1>7. CASE Goes(s, IF Cacheable(s) THEN "lookup" ELSE "upstream")
  <2>. DEFINE p == IF Cacheable(s) THEN "lookup" ELSE "upstream"
  <2>1. p \in Steps /\ p \in {"lookup", "upstream"}
    BY DEF Steps
  <2>2. p = "lookup" => r.applyCache /\ r.shape.uri \notin r.host.locs /\ r.shape.kind = "get"
    BY DEF Cacheable, IsLocation
  <2>. HIDE DEF p
  <2>3. Goes(s, p)
    BY <1>7 DEF p
  <2>4. PICK v : Moves(s, v) /\ Keeps(v, rq[s]) /\ v.pc = p /\ v.answer = rq[s].answer
                 /\ v.attack = rq[s].attack
    BY <2>1, <2>3, GoesIs
  <2>5. Sound(v) /\ ~Due(v)
    BY <1>1, <1>2, <2>1, <2>2, <2>4 DEF Sound, Before, Working, Inspected, Due, Keeps
  <2>6. Guarded(v, used)
    BY <1>1, <1>2, <2>4 DEF Guarded, Keeps
  <2>7. Pays(s, v)
    BY <1>0, <2>5, Unpaid
  <2>. QED
    BY <2>4, <2>5, <2>6, <2>7 DEF Lands
<1>. QED
  BY <1>5, <1>6, <1>7 DEF Resolve

(* What a hit finds.                                                       *)
LEMMA FoundIs ==
    ASSUME HeldInv, NEW k, Hit(k), now \in Nat
    PROVE  \E e \in Entries(ll) : /\ e.key = k /\ Found(k) = e.val /\ e.val \in CachedResponse
                                  /\ now <= e.exp /\ Fresh(e)
<1>. DEFINE e == ll[Position(k)]
<1>1. k \in items /\ ~Expired(e)
  BY DEF Hit
<1>2. Position(k) \in 1..Len(ll) /\ e.key = k /\ e \in Entry(CachedResponse)
  BY <1>1, PositionIs DEF HeldInv
<1>3. e \in Entries(ll) /\ Found(k) = e.val
  BY <1>2 DEF Entries, Found
<1>. HIDE DEF e
<1>4. e.val \in CachedResponse /\ e.exp \in Nat
  BY <1>2 DEF Entry
<1>5. now <= e.exp
  BY <1>1, <1>4 DEF Expired
<1>6. Fresh(e)
  BY <1>3 DEF HeldInv
<1>. QED
  BY <1>2, <1>3, <1>4, <1>5, <1>6

(* What the cache holds belongs to the request and is harmless.            *)
LEMMA LookupLands ==
    ASSUME TypeOK, HeldInv, SlotsInv, MetricsInv, StoreGuarded, NEW s \in Slots, Lookup(s)
    PROVE  \E v : Lands(s, v)
<1>. DEFINE r == rq[s]
<1>0. /\ r \in SlotRec /\ Sound(r) /\ Guarded(r, used) /\ r.pc = "lookup" /\ ~Due(r)
      /\ total' = total /\ blocks' = blocks
  BY InHand DEF Lookup, At, metricVars
<1>1. /\ r.host # NoHost /\ r.resp = NoResponse /\ r.answer = "none" /\ r.origin = {} /\ ~r.attack
      /\ Clears(r.waf, r.shape.verdict)
  BY <1>0 DEF Sound, Working, Before, Inspected
<1>2. (r.host.waf \/ NoEngine \in used) /\ r.waf \in used
  BY <1>0 DEF Guarded, Working, Before
<1>4. CASE Hit(Key(s))
  <2>1. now \in Nat
    BY DEF TypeOK
  <2>2. PICK e \in Entries(ll) : Found(Key(s)) = e.val /\ e.val \in CachedResponse
    BY <1>4, <2>1, FoundIs
  <2>. DEFINE o == {e.val}
              v == [rq[s] EXCEPT !.pc = "record", !.answer = "HIT", !.origin = o]
  <2>3. rq' = [rq EXCEPT ![s] = v]
    <3>1. rq \in [Slots -> SlotRec]
      BY TypedSlots
    <3>. QED
      BY <1>4, <2>2, <3>1 DEF Lookup
  <2>4. o \in {{}} \cup {{c} : c \in CachedResponse} /\ \A c \in o : c = e.val
    BY <2>2
  <2>. HIDE DEF o
  <2>5. /\ v \in SlotRec
        /\ v.pc = "record" /\ v.answer = "HIT" /\ v.origin = o /\ v.attack = r.attack
        /\ v.shape = r.shape /\ v.waf = r.waf
    BY <1>0, <2>4 DEF SlotRec, Keeps, Steps, Answers
  <2>. HIDE DEF v
  <2>6. Sound(v) /\ ~Due(v)
    BY <1>1, <2>5 DEF Sound, Before, Working, Inspected, Due
  <2>7. \E w \in used : Lets(w, e.val.resp.verdict)
    BY DEF StoreGuarded
  <2>8. Guarded(v, used)
    BY <1>1, <1>2, <2>4, <2>5, <2>7 DEF Guarded, Working, Before
  <2>9. Pays(s, v)
    BY <1>0, <2>6, Unpaid
  <2>. QED
    BY <2>3, <2>5, <2>6, <2>8, <2>9 DEF Lands, Moves
<1>5. CASE ~Hit(Key(s))
  <2>1. Goes(s, "upstream")
    BY <1>5 DEF Lookup
  <2>2. "upstream" \in Steps
    BY DEF Steps
  <2>3. PICK v : Moves(s, v) /\ Keeps(v, rq[s]) /\ v.pc = "upstream" /\ v.answer = rq[s].answer
                 /\ v.attack = rq[s].attack
    BY <2>1, <2>2, GoesIs
  <2>4. Sound(v) /\ ~Due(v)
    BY <1>1, <2>3 DEF Sound, Before, Working, Inspected, Due, Keeps
  <2>5. Guarded(v, used)
    BY <1>1, <1>2, <2>3 DEF Guarded, Keeps
  <2>6. Pays(s, v)
    BY <1>0, <2>4, Unpaid
  <2>. QED
    BY <2>3, <2>4, <2>5, <2>6 DEF Lands
<1>. QED
  BY <1>4, <1>5

(* The backend answers.                                                    *)
LEMMA UpstreamLands ==
    ASSUME TypeOK, SlotsInv, MetricsInv, NEW s \in Slots, Upstream(s)
    PROVE  \E v : Lands(s, v)
<1>. DEFINE r == rq[s]
<1>0. /\ r \in SlotRec /\ Sound(r) /\ Guarded(r, used) /\ r.pc = "upstream" /\ ~Due(r)
      /\ total' = total /\ blocks' = blocks
  BY InHand DEF Upstream, At, metricVars
<1>1. /\ r.host # NoHost /\ r.answer = "none" /\ r.origin = {} /\ ~r.attack
      /\ Clears(r.waf, r.shape.verdict)
  BY <1>0 DEF Sound, Working, Before, Inspected
<1>2. CASE Finished(s, "badGateway")
  <2>1. "badGateway" \in Answers
    BY DEF Answers
  <2>. QED
    BY <1>0, <1>2, <2>1, FinishedLands
<1>3. ASSUME NEW a \in Responses, rq' = [rq EXCEPT ![s].pc = "respond", ![s].resp = a]
      PROVE  \E v : Lands(s, v)
  <2>. DEFINE v == [rq[s] EXCEPT !.pc = "respond", !.resp = a]
  <2>1. rq' = [rq EXCEPT ![s] = v]
    <3>1. rq \in [Slots -> SlotRec]
      BY TypedSlots
    <3>. QED
      BY <1>3, <3>1
  <2>2. /\ v \in SlotRec /\ v.pc = "respond" /\ v.answer = r.answer /\ v.origin = r.origin
        /\ v.attack = r.attack /\ v.shape = r.shape /\ v.host = r.host /\ v.waf = r.waf
    BY <1>0 DEF SlotRec, Steps
  <2>. HIDE DEF v
  <2>3. Sound(v) /\ ~Due(v)
    BY <1>1, <2>2 DEF Sound, Before, Working, Inspected, Due
  <2>4. Guarded(v, used)
    BY <1>0, <1>1, <2>2 DEF Guarded, Working, Before
  <2>5. Pays(s, v)
    BY <1>0, <2>3, Unpaid
  <2>. QED
    BY <2>1, <2>2, <2>3, <2>4, <2>5 DEF Lands, Moves
<1>. QED
  BY <1>2, <1>3 DEF Upstream

(* The WAF looks at the response.                                          *)
LEMMA WafResponseLands ==
    ASSUME TypeOK, SlotsInv, MetricsInv, NEW s \in Slots, WafResponse(s)
    PROVE  \E v : Lands(s, v)
<1>1. rq[s].pc # "record" /\ total' = total
  BY DEF WafResponse, At, metricVars
<1>2. CASE Block(s, rq[s].resp.verdict[rq[s].waf])
  BY <1>1, <1>2, BlockLands
<1>3. CASE Finished(s, "error") /\ blocks' = blocks
  <2>1. "error" \in Answers
    BY DEF Answers
  <2>. QED
    BY <1>1, <1>3, <2>1, FinishedLands
<1>. QED
  BY <1>2, <1>3 DEF WafResponse

(* The response is stored and written.                                     *)
LEMMA StoreAndWriteLands ==
    ASSUME TypeOK, SlotsInv, MetricsInv, NEW s \in Slots, StoreAndWrite(s)
    PROVE  (\E v : Lands(s, v)) /\ \E w \in used : Lets(w, rq[s].resp.verdict)
<1>0. /\ Sound(rq[s]) /\ Guarded(rq[s], used) /\ rq[s].pc = "respond"
      /\ total' = total /\ blocks' = blocks /\ Finished(s, "MISS") /\ PassesResponse(s)
  BY InHand DEF StoreAndWrite, At, metricVars
<1>1. Clears(rq[s].waf, rq[s].shape.verdict) /\ rq[s].waf \in used
  BY <1>0 DEF Sound, Inspected, Guarded, Working, Before
<1>2. Lets(rq[s].waf, rq[s].resp.verdict)
  BY <1>0 DEF PassesResponse
<1>3. "MISS" \in Answers
  BY DEF Answers
<1>. QED
  BY <1>0, <1>1, <1>2, <1>3, FinishedLands

(* The deferred call records the event of a blocked request.               *)
LEMMA RecordTxLands ==
    ASSUME TypeOK, SlotsInv, MetricsInv, NEW s \in Slots, RecordTx(s)
    PROVE  (\E v : Lands(s, v)) /\ MetricsInv'
<1>1. rq[s] \in SlotRec /\ rq[s].pc = "record" /\ rq' = [rq EXCEPT ![s] = Idle] /\ blocks' = blocks
  BY InHand DEF RecordTx, At
<1>2. MetricsInv' /\ total' = total + (IF rq[s].attack THEN 1 ELSE 0)
  <2>1. CASE rq[s].attack
    <3>. DEFINE e == [ip |-> rq[s].shape.ip, uri |-> rq[s].shape.uri]
    <3>1. rq[s].shape \in Shapes /\ now \in Nat
      BY <1>1 DEF SlotRec, TypeOK
    <3>2. e \in Attacks
      BY <3>1 DEF Attacks
    <3>3. Record(e, now)
      BY <2>1 DEF RecordTx
    <3>. HIDE DEF e
    <3>. QED
      BY <2>1, <3>1, <3>2, <3>3, RecordStep
  <2>2. CASE ~rq[s].attack
    <3>1. UNCHANGED metricVars
      BY <2>2 DEF RecordTx
    <3>. QED
      BY <2>2, <3>1 DEF metricVars, MetricsInv
  <2>. QED
    BY <2>1, <2>2
<1>3. Due(rq[s]) <=> rq[s].attack
  BY <1>1 DEF Due
<1>4. Pays(s, Idle)
  <2>1. blocks \in Nat
    BY DEF TypeOK
  <2>. QED
    BY <1>1, <1>2, <1>3, <2>1, IdleIs DEF Pays
<1>. QED
  BY <1>1, <1>2, <1>4, IdleIs DEF Lands, Moves
-----------------------------------------------------------------------------
(* The store.  It stays as it is, it forgets, or it puts an entry that is  *)
(* fresh, and let through by an engine in force, in place of its key's.    *)
Forgets == now' = now /\ Becomes(CachedResponse, Entries(ll))

Puts ==
    /\ now' = now
    /\ \E e \in Entry(CachedResponse) :
         /\ Fresh(e) /\ now <= e.exp /\ \E w \in used : Lets(w, e.val.resp.verdict)
         /\ Becomes(CachedResponse, {x \in Entries(ll) : x.key # e.key} \cup {e})

StaysPut == UNCHANGED storeVars /\ (now' = now \/ (now' \in Nat /\ now' > now))

(* What a request stores is a Put of the abstract cache, or nothing.       *)
LEMMA WritePuts ==
    ASSUME TypeOK, HeldInv, SlotsInv, MetricsInv, NEW s \in Slots, StoreAndWrite(s)
    PROVE  StaysPut \/ Puts
<1>. DEFINE r == rq[s].resp
            e == [key |-> Key(s), val |-> [key |-> Key(s), at |-> now, resp |-> r],
                  exp |-> now + r.ttl, size |-> KeyLen + (r.len + Overhead)]
<1>0. now' = now /\ now \in 0..MaxTime /\ MaxTime \in Nat
  BY CacheAssumption DEF StoreAndWrite, InHandler, TypeOK
<1>1. CASE UNCHANGED storeVars
  BY <1>0, <1>1 DEF StaysPut
<1>2. CASE /\ ResponseTTL(r)
           /\ Set(Key(s), [key |-> Key(s), at |-> now, resp |-> r], r.len + Overhead, r.ttl)
  <2>1. rq[s] \in SlotRec
    BY InHand
  <2>2. r \in Responses
    <3>1. r \in Responses \cup {NoResponse}
      BY <2>1 DEF SlotRec
    <3>2. r # NoResponse
      BY <1>2 DEF ResponseTTL, NoResponse
    <3>. QED
      BY <3>1, <3>2
  <2>3. Key(s) \in Keys
    <3>1. rq[s].shape \in Shapes
      BY <2>1 DEF SlotRec
    <3>. QED
      BY <3>1, EdgeAssumption DEF Key
  <2>4. r.ttl \in Int /\ r.ttl > 0 /\ r.len \in Nat /\ Overhead \in Nat /\ KeyLen \in Nat
    BY <1>2, <2>2, EdgeAssumption, CacheAssumption DEF ResponseTTL
  <2>. DEFINE c == [key |-> Key(s), at |-> now, resp |-> r]
              x == now + r.ttl
              z == KeyLen + (r.len + Overhead)
  <2>5. c \in CachedResponse /\ c.key = Key(s) /\ c.at = now /\ c.resp = r
    BY <1>0, <2>2, <2>3 DEF CachedResponse
  <2>6. x \in Nat /\ z \in Nat /\ now <= x
    BY <1>0, <2>4
  <2>. HIDE DEF c
  <2>7. e = [key |-> Key(s), val |-> c, exp |-> x, size |-> z]
    BY DEF c
  <2>8. Set(Key(s), c, r.len + Overhead, r.ttl)
    BY <1>2 DEF c
  <2>. HIDE DEF e
  <2>9. e \in Entry(CachedResponse) /\ e.key = Key(s) /\ e.val = c /\ e.exp = x
    BY <2>3, <2>5, <2>6, <2>7 DEF Entry
  <2>10. Fresh(e) /\ now <= e.exp
    BY <1>0, <1>2, <2>5, <2>6, <2>9 DEF Fresh
  <2>11. \E w \in used : Lets(w, e.val.resp.verdict)
    BY <2>5, <2>9, StoreAndWriteLands
  <2>12. UNCHANGED storeVars \/ Becomes(CachedResponse, {y \in Entries(ll) : y.key # Key(s)} \cup {e})
    BY <2>7, <2>8, <2>9, SetStep DEF HeldInv
  <2>13. CASE UNCHANGED storeVars
    BY <1>1, <2>13
  <2>14. CASE Becomes(CachedResponse, {y \in Entries(ll) : y.key # Key(s)} \cup {e})
    BY <1>0, <2>9, <2>10, <2>11, <2>14 DEF Puts
  <2>. QED
    BY <2>12, <2>13, <2>14
<1>. QED
  BY <1>1, <1>2 DEF StoreAndWrite

(* Every step of the edge, seen from the store.                            *)
LEMMA StoreMoves ==
    ASSUME TypeOK, HeldInv, SlotsInv, MetricsInv, [Next]_vars
    PROVE  StaysPut \/ Forgets \/ Puts
<1>1. ASSUME UNCHANGED <<storeVars, now>> PROVE StaysPut
  BY <1>1 DEF StaysPut
<1>2. ASSUME NEW s \in Slots, Lookup(s) PROVE Forgets
  <2>1. now' = now /\ Get(Key(s)) /\ StoreInv(CachedResponse)
    BY <1>2 DEF Lookup, InHandler, HeldInv
  <2>. QED
    BY <2>1, GetStep DEF Forgets
<1>3. ASSUME Sweep PROVE Forgets
  <2>1. now' = now /\ SweepExpired /\ StoreInv(CachedResponse)
    BY <1>3 DEF Sweep, HeldInv
  <2>. QED
    BY <2>1, SweepStep DEF Forgets
<1>4. ASSUME Clock PROVE StaysPut
  <2>1. PICK d \in Strides : now' = now + d
    BY <1>4 DEF Clock, Tick
  <2>2. d \in Nat \ {0} /\ now \in Nat
    BY CacheAssumption DEF TypeOK
  <2>. QED
    BY <1>4, <2>1, <2>2 DEF StaysPut, Clock
<1>5. ASSUME NEW s \in Slots, Handler(s) PROVE StaysPut \/ Forgets \/ Puts
  <2>1. CASE Lookup(s)
    BY <1>2, <2>1
  <2>2. CASE StoreAndWrite(s)
    BY <2>2, WritePuts
  <2>3. CASE ReadFlags(s) \/ WafRequest(s) \/ Resolve(s) \/ Upstream(s) \/ WafResponse(s) \/ RecordTx(s)
    BY <1>1, <2>3 DEF ReadFlags, WafRequest, Resolve, Upstream, WafResponse, RecordTx, InHandler
  <2>. QED
    BY <1>5, <2>1, <2>2, <2>3 DEF Handler
<1>6. ASSUME NEW s \in Slots, NEW shape \in Shapes, Arrive(s, shape) PROVE StaysPut
  BY <1>1, <1>6 DEF Arrive
<1>7. ASSUME SetHosts \/ SetWafEnabled \/ SetCacheEnabled \/ SetWAF PROVE StaysPut
  BY <1>1, <1>7 DEF SetHosts, SetWafEnabled, SetCacheEnabled, SetWAF, Pushed
<1>8. ASSUME Observe PROVE StaysPut
  BY <1>1, <1>8 DEF Observe
<1>9. CASE UNCHANGED vars
  BY <1>1, <1>9 DEF vars
<1>. QED
  BY <1>3, <1>4, <1>5, <1>6, <1>7, <1>8, <1>9 DEF Next

(* The store stays consistent with the values it stands for.               *)
LEMMA HeldStep ==
    ASSUME TypeOK, HeldInv, StaysPut \/ Forgets \/ Puts
    PROVE  HeldInv'
<1>0. now \in Nat /\ StoreInv(CachedResponse) /\ \A e \in Entries(ll) : Fresh(e)
  BY DEF TypeOK, HeldInv
<1>1. CASE StaysPut
  <2>1. ll' = ll /\ items' = items /\ curBytes' = curBytes /\ now' \in Nat /\ now' >= now
    BY <1>0, <1>1 DEF StaysPut, storeVars
  <2>2. StoreInv(CachedResponse)'
    BY <1>0, <2>1 DEF StoreInv
  <2>3. ASSUME NEW e \in Entries(ll) PROVE Fresh(e)'
    <3>1. e \in Entry(CachedResponse)
      BY <1>0 DEF StoreInv, Consistent, Entries
    <3>2. e.val.at \in Nat
      BY <3>1 DEF Entry, CachedResponse
    <3>. QED
      BY <1>0, <2>1, <3>2 DEF Fresh
  <2>4. Entries(ll') = Entries(ll)
    BY <2>1
  <2>. QED
    BY <2>2, <2>3, <2>4 DEF HeldInv
<1>2. ASSUME NEW A, Becomes(CachedResponse, A), \A e \in A : Fresh(e), now' = now PROVE HeldInv'
  BY <1>2 DEF Becomes, HeldInv, Fresh
<1>3. CASE Forgets
  BY <1>0, <1>2, <1>3 DEF Forgets
<1>4. CASE Puts
  BY <1>0, <1>2, <1>4 DEF Puts
<1>. QED
  BY <1>1, <1>3, <1>4
-----------------------------------------------------------------------------
(* The engine's pushes, and what no step undoes: used only grows.          *)
LEMMA ConfigStep ==
    ASSUME TypeOK, StoreGuarded, [Next]_vars
    PROVE  /\ byHost' \in [Domains -> HostRows \cup {NoHost}]
           /\ wafEnabled' \in BOOLEAN /\ cacheEnabled' \in BOOLEAN /\ engine' \in Engines \cup {NoEngine}
           /\ requests' \in 0..MaxRequests /\ changes' \in 0..MaxChanges
           /\ used' \subseteq Engines \cup {NoEngine} /\ now' \in 0..MaxTime
           /\ used \subseteq used' /\ InForce' \subseteq used'
<1>0. /\ byHost \in [Domains -> HostRows \cup {NoHost}]
      /\ wafEnabled \in BOOLEAN /\ cacheEnabled \in BOOLEAN /\ engine \in Engines \cup {NoEngine}
      /\ requests \in 0..MaxRequests /\ changes \in 0..MaxChanges
      /\ used \subseteq Engines \cup {NoEngine} /\ now \in 0..MaxTime /\ InForce \subseteq used
  BY DEF TypeOK, StoreGuarded
<1>1. ASSUME UNCHANGED configVars PROVE InForce' = InForce
  BY <1>1 DEF InForce, WafOn, configVars
<1>2. CASE UNCHANGED <<configVars, requests, now>>
  BY <1>0, <1>1, <1>2 DEF configVars
<1>3. ASSUME NEW s \in Slots, NEW shape \in Shapes, Arrive(s, shape)
      PROVE  UNCHANGED <<configVars, now>> /\ requests' \in 0..MaxRequests
  BY <1>0, <1>3, EdgeAssumption DEF Arrive
<1>4. CASE \E s \in Slots, shape \in Shapes : Arrive(s, shape)
  BY <1>0, <1>1, <1>3, <1>4 DEF configVars
<1>5. ASSUME NEW s \in Slots, Handler(s) PROVE UNCHANGED <<configVars, requests, now>>
  BY <1>5 DEF Handler, ReadFlags, WafRequest, Resolve, Lookup, Upstream, WafResponse,
              StoreAndWrite, RecordTx, InHandler
<1>6. CASE Pushed /\ byHost' \in [Domains -> HostRows \cup {NoHost}]
           /\ wafEnabled' \in BOOLEAN /\ cacheEnabled' \in BOOLEAN /\ engine' \in Engines \cup {NoEngine}
  <2>1. changes' \in 0..MaxChanges /\ requests' = requests /\ now' = now
    BY <1>0, <1>6, EdgeAssumption DEF Pushed
  <2>2. used' = used \cup InForce'
    BY <1>6 DEF Pushed
  <2>3. InForce' \subseteq Engines \cup {NoEngine}
    BY <1>6 DEF InForce
  <2>4. used' \subseteq Engines \cup {NoEngine} /\ used \subseteq used' /\ InForce' \subseteq used'
    BY <1>0, <2>2, <2>3
  <2>. QED
    BY <1>0, <1>6, <2>1, <2>4
<1>7. SetHosts \/ SetWafEnabled \/ SetCacheEnabled \/ SetWAF
      => Pushed /\ byHost' \in [Domains -> HostRows \cup {NoHost}]
         /\ wafEnabled' \in BOOLEAN /\ cacheEnabled' \in BOOLEAN /\ engine' \in Engines \cup {NoEngine}
  BY <1>0 DEF SetHosts, SetWafEnabled, SetCacheEnabled, SetWAF
<1>8. Sweep \/ Observe \/ UNCHANGED vars => UNCHANGED <<configVars, requests, now>>
  BY DEF Sweep, Observe, vars, edgeVars
<1>9. CASE Clock
  <2>1. PICK d \in Strides : now' = now + d /\ now + d <= MaxTime
    BY <1>9 DEF Clock, Tick
  <2>2. d \in Nat /\ MaxTime \in Nat
    BY CacheAssumption
  <2>3. now' \in 0..MaxTime
    BY <1>0, <2>1, <2>2
  <2>4. UNCHANGED <<configVars, requests>>
    BY <1>9 DEF Clock, edgeVars
  <2>. QED
    BY <1>0, <1>1, <2>3, <2>4 DEF configVars
<1>. QED
  BY <1>2, <1>4, <1>5, <1>6, <1>7, <1>8, <1>9 DEF Next

(* Every step of the edge, seen from the slots and the counters.           *)
LEMMA SlotMoves ==
    ASSUME TypeOK, HeldInv, SlotsInv, MetricsInv, StoreGuarded, [Next]_vars
    PROVE  /\ MetricsInv'
           /\ \/ \E s \in Slots : \E v : Lands(s, v)
              \/ rq' = rq /\ blocks' = blocks /\ total' = total
<1>1. ASSUME UNCHANGED metricVars PROVE MetricsInv'
  BY <1>1 DEF metricVars, MetricsInv
<1>2. ASSUME NEW s \in Slots, NEW shape \in Shapes, Arrive(s, shape)
      PROVE  MetricsInv' /\ \E v : Lands(s, v)
  BY <1>1, <1>2, ArriveLands DEF Arrive
<1>3. ASSUME NEW s \in Slots, Handler(s) PROVE MetricsInv' /\ \E v : Lands(s, v)
  <2>1. CASE ReadFlags(s)
    BY <1>1, <2>1, ReadFlagsLands DEF ReadFlags
  <2>2. CASE WafRequest(s)
    BY <1>1, <2>2, WafRequestLands DEF WafRequest
  <2>3. CASE Resolve(s)
    BY <1>1, <2>3, ResolveLands DEF Resolve
  <2>4. CASE Lookup(s)
    BY <1>1, <2>4, LookupLands DEF Lookup
  <2>5. CASE Upstream(s)
    BY <1>1, <2>5, UpstreamLands DEF Upstream
  <2>6. CASE WafResponse(s)
    BY <1>1, <2>6, WafResponseLands DEF WafResponse
  <2>7. CASE StoreAndWrite(s)
    BY <1>1, <2>7, StoreAndWriteLands DEF StoreAndWrite
  <2>8. CASE RecordTx(s)
    BY <2>8, RecordTxLands
  <2>. QED
    BY <1>3, <2>1, <2>2, <2>3, <2>4, <2>5, <2>6, <2>7, <2>8 DEF Handler
<1>4. CASE SetHosts \/ SetWafEnabled \/ SetCacheEnabled \/ SetWAF
  <2>1. Pushed
    BY <1>4 DEF SetHosts, SetWafEnabled, SetCacheEnabled, SetWAF
  <2>. QED
    BY <1>1, <2>1 DEF Pushed, metricVars
<1>5. CASE Sweep \/ Clock \/ UNCHANGED vars
  <2>1. UNCHANGED <<edgeVars, metricVars>>
    BY <1>5 DEF Sweep, Clock, vars
  <2>. QED
    BY <1>1, <2>1 DEF edgeVars, metricVars
<1>6. CASE Observe
  <2>1. RunObservers /\ rq' = rq /\ blocks' = blocks
    BY <1>6 DEF Observe, edgeVars
  <2>. QED
    BY <2>1, ObserveStep
<1>. QED
  BY <1>2, <1>3, <1>4, <1>5, <1>6 DEF Next

(* The parts together are inductive.                                       *)
LEMMA EdgeStep == IInv /\ [Next]_vars => IInv'
<1>. SUFFICES ASSUME IInv, [Next]_vars PROVE IInv'
  OBVIOUS
<1>0. TypeOK /\ HeldInv /\ MetricsInv /\ SlotsInv /\ StoreGuarded /\ Books
  BY DEF IInv
<1>1. MetricsInv' /\ \/ \E s \in Slots : \E v : Lands(s, v)
                     \/ rq' = rq /\ blocks' = blocks /\ total' = total
  BY <1>0, SlotMoves
<1>2. StaysPut \/ Forgets \/ Puts
  BY <1>0, StoreMoves
<1>3. HeldInv'
  BY <1>0, <1>2, HeldStep
<1>4. /\ byHost' \in [Domains -> HostRows \cup {NoHost}]
      /\ wafEnabled' \in BOOLEAN /\ cacheEnabled' \in BOOLEAN /\ engine' \in Engines \cup {NoEngine}
      /\ requests' \in 0..MaxRequests /\ changes' \in 0..MaxChanges
      /\ used' \subseteq Engines \cup {NoEngine} /\ now' \in 0..MaxTime
      /\ used \subseteq used' /\ InForce' \subseteq used'
  BY <1>0, ConfigStep
<1>5. StoreGuarded'
  <2>1. \A e \in Entries(ll) : \E w \in used : Lets(w, e.val.resp.verdict)
    BY <1>0 DEF StoreGuarded
  <2>2. \A e \in Entries(ll)' : \E w \in used : Lets(w, e.val.resp.verdict)
    <3>1. CASE StaysPut
      BY <2>1, <3>1 DEF StaysPut, storeVars
    <3>2. CASE Forgets
      BY <2>1, <3>2 DEF Forgets, Becomes
    <3>3. CASE Puts
      BY <2>1, <3>3 DEF Puts, Becomes
    <3>. QED
      BY <1>2, <3>1, <3>2, <3>3
  <2>. QED
    BY <1>4, <2>2 DEF StoreGuarded
<1>6. /\ SlotsInv' /\ rq' \in [Slots -> SlotRec] /\ blocks' \in Nat
      /\ blocks' = total' + Cardinality(Recording')
  <2>0. blocks \in Nat /\ total \in Nat /\ blocks = total + Cardinality(Recording)
    BY <1>0 DEF TypeOK, MetricsInv, Books
  <2>1. ASSUME NEW s \in Slots, NEW v, Lands(s, v)
        PROVE  /\ SlotsInv' /\ rq' \in [Slots -> SlotRec] /\ blocks' \in Nat
               /\ blocks' = total' + Cardinality(Recording')
    <3>1. Moves(s, v) /\ Sound(v) /\ Guarded(v, used) /\ Pays(s, v)
      BY <2>1 DEF Lands
    <3>2. SlotsInv' /\ rq' \in [Slots -> SlotRec]
      BY <1>0, <1>4, <3>1, SlotsStep
    <3>. DEFINE a == Cardinality(Recording)
                b == Cardinality(Recording')
    <3>3. /\ a \in Nat /\ b \in Nat
          /\ b + (IF Due(rq[s]) THEN 1 ELSE 0) = a + (IF Due(v) THEN 1 ELSE 0)
      BY <1>0, <3>1, RecordingStep
    <3>4. blocks = total + a
      BY <2>0
    <3>. HIDE DEF a, b
    <3>5. blocks' \in Nat /\ blocks' = total' + b
      BY <2>0, <3>1, <3>3, <3>4 DEF Pays
    <3>. QED
      BY <3>2, <3>5 DEF b
  <2>2. CASE rq' = rq /\ blocks' = blocks /\ total' = total
    <3>1. Recording' = Recording
      BY <2>2 DEF Recording
    <3>2. rq' \in [Slots -> SlotRec]
      BY <1>0, <2>2, TypedSlots
    <3>3. SlotsInv'
      BY <1>0, <1>4, <2>2, MoreUsed DEF SlotsInv
    <3>. QED
      BY <2>0, <2>2, <3>1, <3>2, <3>3
  <2>. QED
    BY <1>1, <2>1, <2>2
<1>7. TypeOK'
  BY <1>4, <1>6 DEF TypeOK, SlotRec
<1>. QED
  BY <1>1, <1>3, <1>5, <1>6, <1>7 DEF IInv, Books
(* A map without keys counts nothing.                                      *)
LEMMA EmptyCounts ==
    ASSUME NEW m, m = <<>>
    PROVE  Counts(m) /\ CountsHeld(m) = 0 /\ DOMAIN m = {} /\ Cardinality(DOMAIN m) = 0
<1>1. DOMAIN m = {} /\ m = [x \in DOMAIN m |-> m[x]]
  OBVIOUS
<1>2. IsFiniteSet({}) /\ Cardinality({}) = 0
  BY FS_EmptySet
<1>3. SumFunctionOnSet(m, {}) = 0
  BY <1>2, SumRec
<1>. QED
  BY <1>1, <1>2, <1>3 DEF Counts, CountsHeld, SumFunction

(* An edge that has just started satisfies the invariant.                  *)
LEMMA EdgeInit == Init => IInv
<1>. SUFFICES ASSUME Init PROVE IInv
  OBVIOUS
<1>1. TypeOK
  <2>1. Idle \in SlotRec
    BY IdleIs
  <2>2. rq \in [Slots -> SlotRec]
    BY <2>1 DEF Init
  <2>3. byHost \in [Domains -> HostRows \cup {NoHost}]
    BY EdgeAssumption DEF Init
  <2>4. used \subseteq Engines \cup {NoEngine}
    BY EdgeAssumption DEF InForce, Init
  <2>5. /\ requests \in 0..MaxRequests /\ changes \in 0..MaxChanges /\ blocks \in Nat
        /\ now \in 0..MaxTime
    BY EdgeAssumption, CacheAssumption DEF Init, CacheInit
  <2>6. wafEnabled \in BOOLEAN /\ cacheEnabled \in BOOLEAN /\ engine \in Engines \cup {NoEngine}
    BY EdgeAssumption DEF Init
  <2>. QED
    BY <2>2, <2>3, <2>4, <2>5, <2>6 DEF TypeOK, SlotRec
<1>2. Entries(ll) = {}
  <2>1. ll = <<>>
    BY DEF Init, CacheInit
  <2>2. 1..Len(ll) = {}
    BY <2>1
  <2>. QED
    BY <2>2 DEF Entries
<1>3. HeldInv
  BY <1>2, StoreInit DEF Init, HeldInv
<1>4. MetricsInv
  <2>1. /\ total = 0 /\ byIP = <<>> /\ hourly = <<>> /\ recent = <<>> /\ events = <<>>
        /\ delivered = 0 /\ overflow = 0
    BY DEF Init, MetricsInit
  <2>2. /\ Counts(byIP) /\ CountsHeld(byIP) = 0 /\ Cardinality(DOMAIN byIP) = 0
        /\ Counts(hourly) /\ CountsHeld(hourly) = 0 /\ Cardinality(DOMAIN hourly) = 0
        /\ DOMAIN hourly = {}
    BY <2>1, EmptyCounts
  <2>3. MaxCountKeys \in Nat /\ MaxHours \in Nat /\ RecentMax \in Nat
    BY MetricsAssumption
  <2>4. Min({total, RecentMax}) = 0
    BY <2>1, <2>3, MinOfTwo
  <2>5. /\ recent \in Seq(Attacks) /\ Len(recent) = 0
        /\ events \in Seq(Attacks) /\ Len(events) = 0
    BY <2>1
  <2>. QED
    BY <2>1, <2>2, <2>3, <2>4, <2>5 DEF MetricsInv
<1>5. \A s \in Slots : rq[s] = Idle
  BY DEF Init
<1>6. SlotsInv
  BY <1>5, IdleIs DEF SlotsInv
<1>7. StoreGuarded
  BY <1>2 DEF StoreGuarded, Init
<1>8. Books
  <2>1. Recording = {}
    BY <1>5, IdleIs DEF Recording
  <2>. QED
    BY <2>1, FS_EmptySet DEF Books, Init, MetricsInit
<1>. QED
  BY <1>1, <1>3, <1>4, <1>6, <1>7, <1>8 DEF IInv

-----------------------------------------------------------------------------
(* The inductive invariant: the store, the slots and the counters, each    *)
(* with what it needs of the others.                                       *)
THEOREM EdgeInductive == Spec => []IInv
<1>. QED
  BY EdgeInit, EdgeStep, PTL DEF Spec

(* Every variable of the edge keeps its type, for any requests, rows and   *)
(* responses.                                                              *)
THEOREM EdgeTyping == Spec => []TypeOK
<1>1. IInv => TypeOK
  BY DEF IInv
<1>. QED
  BY <1>1, EdgeInductive, PTL

(* memStore: whatever ServeHTTP and the janitor do, the list, the index    *)
(* and m.curBytes agree and stay within the budgets.                       *)
THEOREM StoreStaysConsistent == Spec => []CacheAccounting
<1>1. IInv => CacheAccounting
  BY StoreAccounts DEF IInv, HeldInv
<1>. QED
  BY <1>1, EdgeInductive, PTL

(* ServeHTTP: a request is answered only if the engine it began with let   *)
(* it through, and its response too where ServeHTTP inspects it; a hit was *)
(* let through by an engine in force when it was stored.  So it is for any *)
(* engines, rows, flags and responses, pushed under requests in flight.    *)
THEOREM RefusedIsNeverServed == Spec => []NothingHarmfulServed
<1>1. IInv => NothingHarmfulServed
  <2>. SUFFICES ASSUME IInv PROVE NothingHarmfulServed
    OBVIOUS
  <2>1. \A s \in Slots : Guarded(rq[s], used)
    BY DEF IInv, SlotsInv
  <2>2. \A e \in Entries(ll) : \E w \in used : Lets(w, e.val.resp.verdict)
    BY DEF IInv, StoreGuarded
  <2>3. \A i \in 1..Len(ll) : \E w \in used : Lets(w, ll[i].val.resp.verdict)
    BY <2>2 DEF Entries
  <2>. QED
    BY <2>1, <2>3 DEF NothingHarmfulServed, Guarded, Upgrade
<1>. QED
  BY <1>1, EdgeInductive, PTL

(* recordTx and Counters.add: every attack that was blocked is counted     *)
(* once its handler returns, and is with the observers, queued, or known   *)
(* to have found the queue full; the caps never make a count grow.         *)
THEOREM AttacksAreAccounted == Spec => []EventsAccounted
<1>1. IInv => EventsAccounted
  <2>1. {s \in Slots : At(s, "record") /\ rq[s].attack} = Recording
    BY DEF Recording, Due, At
  <2>. QED
    BY <2>1 DEF IInv, Books, MetricsInv, EventsAccounted
<1>. QED
  BY <1>1, EdgeInductive, PTL

(* ServeHTTP answers HIT with what some backend gave to that GET, which    *)
(* may be cached, and whose lifetime is not over when it is looked up.     *)
THEOREM HitsAreFaithful == Spec => HitIsFaithful
<1>1. IInv /\ [Next]_vars =>
        [\A s \in Slots : At(s, "lookup") /\ rq'[s].answer = "HIT" =>
          \E c \in rq'[s].origin :
            /\ c.key = Key(s) /\ rq[s].shape.kind = "get" /\ ~IsLocation(s)
            /\ ResponseTTL(c.resp) /\ c.at <= now /\ now <= c.at + c.resp.ttl]_vars
  <2>. SUFFICES ASSUME IInv, [Next]_vars, NEW s \in Slots, At(s, "lookup"), rq'[s].answer = "HIT"
                PROVE  \E c \in rq'[s].origin :
                         /\ c.key = Key(s) /\ rq[s].shape.kind = "get" /\ ~IsLocation(s)
                         /\ ResponseTTL(c.resp) /\ c.at <= now /\ now <= c.at + c.resp.ttl
    OBVIOUS
  <2>0. TypeOK /\ HeldInv /\ SlotsInv /\ rq \in [Slots -> SlotRec]
    BY TypedSlots DEF IInv
  <2>1. rq[s].answer = "none" /\ rq[s].shape.kind = "get" /\ ~IsLocation(s) /\ rq[s].pc = "lookup"
    BY <2>0 DEF SlotsInv, Sound, At, IsLocation
  <2>2. ASSUME NEW t \in Slots, NEW v, rq' = [rq EXCEPT ![t] = v], t # s PROVE FALSE
    BY <2>0, <2>1, <2>2
  <2>3. ASSUME rq' = rq PROVE FALSE
    BY <2>1, <2>3
  <2>4. PICK t \in Slots : Handler(t) \/ \E shape \in Shapes : Arrive(t, shape)
    <3>1. SetHosts \/ SetWafEnabled \/ SetCacheEnabled \/ SetWAF => rq' = rq
      BY DEF SetHosts, SetWafEnabled, SetCacheEnabled, SetWAF, Pushed
    <3>2. Sweep \/ Clock \/ Observe \/ UNCHANGED vars => rq' = rq
      BY DEF Sweep, Clock, Observe, vars, edgeVars
    <3>. QED
      BY <2>3, <3>1, <3>2 DEF Next
  <2>5. t = s
    <3>1. \E v : Lands(t, v)
      BY <2>4, ArriveLands, ReadFlagsLands, WafRequestLands, ResolveLands, LookupLands,
         UpstreamLands, WafResponseLands, StoreAndWriteLands, RecordTxLands DEF IInv, Handler
    <3>. QED
      BY <2>2, <3>1 DEF Lands, Moves
  <2>6. Lookup(s)
    BY <2>1, <2>4, <2>5 DEF Handler, Arrive, ReadFlags, WafRequest, Resolve, Upstream,
       WafResponse, StoreAndWrite, RecordTx, At
  <2>7. Hit(Key(s))
    <3>1. ASSUME ~Hit(Key(s)) PROVE FALSE
      <4>1. rq' = [rq EXCEPT ![s].pc = "upstream"]
        BY <2>6, <3>1 DEF Lookup, Goes
      <4>2. rq'[s].answer = rq[s].answer
        BY <2>0, <4>1 DEF SlotRec
      <4>. QED
        BY <2>1, <4>2
    <3>. QED
      BY <3>1
  <2>8. PICK e \in Entries(ll) : /\ e.key = Key(s) /\ Found(Key(s)) = e.val
                                 /\ now <= e.exp /\ Fresh(e)
    <3>1. now \in Nat
      BY <2>0 DEF TypeOK
    <3>. QED
      BY <2>0, <2>7, <3>1, FoundIs
  <2>9. rq'[s].origin = {e.val}
    <3>1. rq' = [rq EXCEPT ![s].pc = "record", ![s].answer = "HIT", ![s].origin = {e.val}]
      BY <2>6, <2>7, <2>8 DEF Lookup
    <3>. QED
      BY <2>0, <3>1 DEF SlotRec
  <2>. QED
    BY <2>1, <2>8, <2>9 DEF Fresh
<1>. QED
  BY <1>1, EdgeInductive, PTL DEF Spec, HitIsFaithful
-----------------------------------------------------------------------------
(* The refinement: the list is the map it stands for.                      *)
Row(e) == [val |-> e.val, exp |-> e.exp, size |-> e.size]

StandsFor ==
    /\ HeldMap = [k \in items |-> HeldMap[k]]
    /\ \A e \in Entries(ll) : e.key \in items /\ HeldMap[e.key] = Row(e)
    /\ \A k \in items : \E e \in Entries(ll) : e.key = k
    /\ Cardinality(items) <= MaxEntries /\ curBytes <= MaxBytes
    /\ SumFunctionOnSet([k \in items |-> HeldMap[k].size], items) = curBytes

(* The list stands for a partial map of keys.                              *)
LEMMA HeldIs == StoreInv(CachedResponse) => StandsFor
<1>. SUFFICES ASSUME StoreInv(CachedResponse) PROVE StandsFor
  OBVIOUS
<1>. DEFINE V == CachedResponse
<1>0. /\ ll \in Seq(Entry(V)) /\ Len(ll) \in Nat /\ Distinct(ll)
      /\ items = Keyed(ll) /\ curBytes = Size(Entries(ll))
      /\ curBytes <= MaxBytes /\ Len(ll) <= MaxEntries
  BY DEF StoreInv, Consistent
<1>1. HeldMap = [k \in items |-> HeldMap[k]]
      /\ \A k \in items : HeldMap[k] = Row(ll[Position(k)])
  BY DEF HeldMap, Row
<1>2. \A e \in Entries(ll) : e.key \in items
  BY <1>0 DEF Entries, Keyed
<1>3. \A k \in items : Position(k) \in 1..Len(ll) /\ ll[Position(k)].key = k
  BY PositionIs
<1>4. \A k \in items : \E e \in Entries(ll) : e.key = k
  BY <1>3 DEF Entries
<1>5. ASSUME NEW e \in Entries(ll) PROVE HeldMap[e.key] = Row(e)
  <2>1. PICK i \in 1..Len(ll) : e = ll[i]
    BY DEF Entries
  <2>2. e.key \in items
    BY <1>2
  <2>3. Position(e.key) = i
    BY <1>0, <1>3, <2>1, <2>2 DEF Distinct
  <2>. QED
    BY <1>1, <2>1, <2>2, <2>3
<1>6. Cardinality(items) <= MaxEntries
  <2>1. CacheAccounting
    BY StoreAccounts
  <2>. QED
    BY <1>0, <2>1 DEF CacheAccounting
<1>7. SumFunctionOnSet([k \in items |-> HeldMap[k].size], items) = curBytes
  <2>. DEFINE S == Entries(ll)
              f == [e \in S |-> e.size]
              b == [e \in S |-> e.key]
              g == [k \in items |-> HeldMap[k].size]
  <2>1. Sized(S)
    <3>1. S = ElementsAt(ll, 1..Len(ll))
      BY DEF Entries, ElementsAt
    <3>. QED
      BY <1>0, <3>1, EntriesSized
  <2>2. \A x, y \in S : b[x] = b[y] => x = y
    BY <1>0 DEF Entries, Distinct
  <2>3. ASSUME NEW x \in S PROVE f[x] = g[b[x]] /\ f[x] \in Nat
    <3>1. f[x] = x.size /\ b[x] = x.key /\ x.key \in items /\ x.size \in Nat
      BY <1>2, <2>1 DEF Sized
    <3>2. HeldMap[x.key].size = x.size
      <4>1. HeldMap[x.key] = Row(x)
        BY <1>5
      <4>2. Row(x).size = x.size
        BY DEF Row
      <4>. QED
        BY <4>1, <4>2
    <3>. QED
      BY <3>1, <3>2
  <2>4. Renamed(b, S) = items
    <3>1. \A x \in S : b[x] \in items
      BY <1>2
    <3>2. \A k \in items : \E x \in S : b[x] = k
      BY <1>4
    <3>. HIDE DEF b, S
    <3>. QED
      BY <3>1, <3>2 DEF Renamed
  <2>5. Size(S) = SumFunctionOnSet(f, S)
    BY <2>1, SizeIsSum
  <2>. HIDE DEF f, b, g, S
  <2>6. SumFunctionOnSet(g, Renamed(b, S)) = SumFunctionOnSet(f, S)
    BY <2>1, <2>2, <2>3, SumRenamed DEF Sized
  <2>. QED
    BY <1>0, <2>4, <2>5, <2>6 DEF g, S
<1>. QED
  BY <1>0, <1>1, <1>2, <1>4, <1>5, <1>6, <1>7 DEF StandsFor

(* So does the list after a step.                                          *)
LEMMA HeldIsNext == StoreInv(CachedResponse)' => StandsFor'
BY HeldIs, PTL

(* Both budgets of the abstract cache are those of the store.              *)
LEMMA Fits == StandsFor => Store!WithinBudget(HeldMap)
<1>. SUFFICES ASSUME StandsFor PROVE Store!WithinBudget(HeldMap)
  OBVIOUS
<1>1. DOMAIN HeldMap = items
  BY DEF StandsFor
<1>. DEFINE g == [k \in items |-> HeldMap[k].size]
<1>2. DOMAIN g = items
  OBVIOUS
<1>3. Store!Bytes(HeldMap) = SumFunctionOnSet(g, items)
  <2>1. [k \in DOMAIN HeldMap |-> HeldMap[k].size] = g
    BY <1>1
  <2>. HIDE DEF g
  <2>2. Store!Bytes(HeldMap) = Store!SumFunctionOnSet(g, items)
    BY <1>2, <2>1 DEF Store!Bytes, Store!SumFunction, g
  <2>3. Store!SumFunctionOnSet(g, items) = SumFunctionOnSet(g, items)
    BY DEF Store!SumFunctionOnSet, SumFunctionOnSet, Store!FoldFunctionOnSet, FoldFunctionOnSet,
           Store!MapThenFoldSet, MapThenFoldSet
  <2>. QED
    BY <2>2, <2>3
<1>4. Store!Cardinality(items) = Cardinality(items)
  BY DEF Store!Cardinality, Cardinality
<1>. QED
  BY <1>1, <1>3, <1>4 DEF StandsFor, Store!WithinBudget

(* The map after a step is within both budgets.                            *)
LEMMA FitsNext == StandsFor' => Store!WithinBudget(HeldMap)'
BY Fits, PTL

(* Where every entry left was there before, keys have only disappeared.    *)
LEMMA ForgetImplements ==
    ASSUME StandsFor, StandsFor', Entries(ll)' \subseteq Entries(ll)
    PROVE  Store!Forget
<1>1. \A k \in items' : k \in items /\ HeldMap'[k] = HeldMap[k]
  <2>. SUFFICES ASSUME NEW k \in items' PROVE k \in items /\ HeldMap'[k] = HeldMap[k]
    OBVIOUS
  <2>1. PICK e \in Entries(ll)' : e.key = k
    BY DEF StandsFor
  <2>2. HeldMap'[e.key] = Row(e)
    BY DEF StandsFor, Row
  <2>3. e \in Entries(ll)
    OBVIOUS
  <2>4. e.key \in items /\ HeldMap[e.key] = Row(e)
    BY <2>3 DEF StandsFor
  <2>. QED
    BY <2>1, <2>2, <2>4
<1>2. HeldMap' = [k \in items' |-> HeldMap'[k]]
  BY DEF StandsFor
<1>3. DOMAIN HeldMap = items
  BY DEF StandsFor
<1>4. HeldMap' = [k \in items' |-> HeldMap[k]]
  BY <1>1, <1>2
<1>5. HeldMap' = Store!Restrict(HeldMap, items') /\ items' \in SUBSET DOMAIN HeldMap
  BY <1>1, <1>3, <1>4 DEF Store!Restrict
<1>. QED
  BY <1>5 DEF Store!Forget

(* Where every entry left was there before under another key, or is the    *)
(* one that was set, the step is a Put of its key.                         *)
LEMMA PutImplements ==
    ASSUME StandsFor, StandsFor', NEW e \in Entry(CachedResponse), Fresh(e), now <= e.exp,
           Entries(ll)' \subseteq {x \in Entries(ll) : x.key # e.key} \cup {e}
    PROVE  e.key \in Keys /\ Store!Put(e.key)
<1>0. e.key \in Keys /\ e.val \in CachedResponse
  BY DEF Entry
<1>1. ASSUME NEW k \in items'
      PROVE  \/ k = e.key /\ HeldMap'[k] = Row(e)
             \/ k # e.key /\ k \in items /\ HeldMap'[k] = HeldMap[k]
  <2>1. PICK x \in Entries(ll)' : x.key = k
    BY DEF StandsFor
  <2>2. HeldMap'[x.key] = Row(x)
    BY DEF StandsFor, Row
  <2>3. x = e \/ (x \in Entries(ll) /\ x.key # e.key)
    OBVIOUS
  <2>4. x \in Entries(ll) => x.key \in items /\ HeldMap[x.key] = Row(x)
    BY DEF StandsFor
  <2>. QED
    BY <2>1, <2>2, <2>3, <2>4
<1>2. DOMAIN HeldMap = items /\ DOMAIN HeldMap' = items'
  BY DEF StandsFor
<1>3. items' \in SUBSET (DOMAIN HeldMap \cup {e.key})
  BY <1>1, <1>2
<1>4. \A j \in items' \ {e.key} : HeldMap'[j] = HeldMap[j]
  BY <1>1
<1>5. e.key \in items' =>
        /\ HeldMap'[e.key].val \in CachedResponse
        /\ OwnerOf(HeldMap'[e.key].val) = e.key
        /\ HeldMap'[e.key].exp = ExpiryOf(HeldMap'[e.key].val)
        /\ now <= ExpiryOf(HeldMap'[e.key].val)
  <2>. SUFFICES ASSUME e.key \in items'
                PROVE  /\ HeldMap'[e.key].val \in CachedResponse
                       /\ OwnerOf(HeldMap'[e.key].val) = e.key
                       /\ HeldMap'[e.key].exp = ExpiryOf(HeldMap'[e.key].val)
                       /\ now <= ExpiryOf(HeldMap'[e.key].val)
    OBVIOUS
  <2>1. HeldMap'[e.key] = Row(e)
    BY <1>1
  <2>2. Row(e).val = e.val /\ Row(e).exp = e.exp
    BY DEF Row
  <2>3. OwnerOf(e.val) = e.key /\ e.exp = ExpiryOf(e.val)
    BY DEF Fresh, OwnerOf, ExpiryOf
  <2>. QED
    BY <1>0, <2>1, <2>2, <2>3
<1>6. Store!WithinBudget(HeldMap)'
  BY FitsNext
<1>. QED
  BY <1>0, <1>2, <1>3, <1>4, <1>5, <1>6 DEF Store!Put

(* memStore, with the list, the index, the byte count, the eviction loop   *)
(* and the sweep, promises what BoundedCache says of a CacheStore: it      *)
(* never invents a value, never serves one under another key, never        *)
(* prolongs one and never exceeds its budgets.                             *)
THEOREM LruIsBounded == Spec => ImplementsBoundedCache
<1>1. Init => Store!Init
  <2>. SUFFICES ASSUME Init PROVE Store!Init
    OBVIOUS
  <2>1. items = {} /\ now = 0
    BY DEF Init, CacheInit
  <2>2. HeldMap = <<>>
    BY <2>1 DEF HeldMap
  <2>. QED
    BY <2>1, <2>2 DEF Store!Init
<1>2. IInv /\ [Next]_vars => [Store!Next]_(Store!cacheVars)
  <2>. SUFFICES ASSUME IInv, [Next]_vars PROVE [Store!Next]_(Store!cacheVars)
    OBVIOUS
  <2>1. StaysPut \/ Forgets \/ Puts
    BY StoreMoves DEF IInv
  <2>2. StandsFor
    BY HeldIs DEF IInv, HeldInv
  <2>3. ASSUME StaysPut PROVE [Store!Next]_(Store!cacheVars)
    <3>1. HeldMap' = HeldMap /\ (now' = now \/ now' > now)
      BY <2>3 DEF StaysPut, storeVars, HeldMap, Position
    <3>. QED
      BY <3>1 DEF Store!Next, Store!cacheVars
  <2>4. ASSUME Forgets PROVE [Store!Next]_(Store!cacheVars)
    <3>1. now' = now /\ StandsFor' /\ Entries(ll)' \subseteq Entries(ll)
      BY <2>4, HeldIsNext DEF Forgets, Becomes
    <3>2. Store!Forget
      BY <2>2, <3>1, ForgetImplements
    <3>. QED
      BY <3>1, <3>2 DEF Store!Next
  <2>5. ASSUME Puts PROVE [Store!Next]_(Store!cacheVars)
    <3>1. PICK e \in Entry(CachedResponse) :
            /\ Fresh(e) /\ now <= e.exp
            /\ Becomes(CachedResponse, {x \in Entries(ll) : x.key # e.key} \cup {e})
      BY <2>5 DEF Puts
    <3>2. /\ now' = now /\ StandsFor'
          /\ Entries(ll)' \subseteq {x \in Entries(ll) : x.key # e.key} \cup {e}
      BY <2>5, <3>1, HeldIsNext DEF Puts, Becomes
    <3>3. e.key \in Keys /\ Store!Put(e.key)
      BY <2>2, <3>1, <3>2, PutImplements
    <3>. QED
      BY <3>2, <3>3 DEF Store!Next
  <2>. QED
    BY <2>1, <2>3, <2>4, <2>5
<1>. QED
  BY <1>1, <1>2, EdgeInductive, PTL DEF Spec, ImplementsBoundedCache, Store!Spec
=============================================================================
