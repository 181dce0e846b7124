------------------------------ MODULE MemCache ------------------------------
(***************************************************************************)
(* internal/edge/cache.go: memStore, the bounded LRU cache of the edge.    *)
(*                                                                         *)
(* Every operation runs under m.mu, so each is one step.  A module that    *)
(* uses the cache conjoins Get, Set or SweepExpired with its own state and *)
(* lets Tick move the clock.                                               *)
(***************************************************************************)
EXTENDS Integers, Sequences, FiniteSets, FiniteSetsExt

CONSTANTS
    Keys,           \* method, domain and request URI
    KeyLen,         \* len(key)
    MaxBytes,       \* m.maxBytes
    MaxEntryBytes,  \* m.maxEntryBytes
    MaxEntries,     \* m.maxEntries
    Strides,        \* bound: by how much the clock may move at once
    MaxTime         \* bound: the last instant of a behaviour

ASSUME CacheAssumption ==
    /\ KeyLen \in Nat /\ MaxTime \in Nat /\ Strides \subseteq Nat \ {0}
    /\ MaxBytes \in Nat \ {0} /\ MaxEntryBytes \in Nat \ {0} /\ MaxEntries \in Nat \ {0}

VARIABLES
    ll,        \* m.ll: the entries [key, val, exp, size], most recently used first
    items,     \* the keys of m.items
    curBytes,  \* m.curBytes
    now        \* time.Now()

storeVars == <<ll, items, curBytes>>

CacheInit == ll = <<>> /\ items = {} /\ curBytes = 0 /\ now = 0

Tick == \E d \in Strides : now + d <= MaxTime /\ now' = now + d

(* The element m.items[k] points at.                                       *)
Position(k) == CHOOSE i \in 1..Len(ll) : ll[i].key = k

(* Mutant of Expired: an entry outlives its expiry.                        *)
ExpiredLate(e) == now > e.exp + 1

Expired(e) == now > e.exp

Dropped(s, i) == SubSeq(s, 1, i - 1) \o SubSeq(s, i + 1, Len(s))

(* removeLocked: the list, the index and the byte count lose the element.  *)
RemoveLocked(i) ==
    /\ ll' = Dropped(ll, i)
    /\ items' = items \ {ll[i].key}
    /\ curBytes' = curBytes - ll[i].size

Hit(k) == k \in items /\ ~Expired(ll[Position(k)])

Found(k) == ll[Position(k)].val

(* Mutant of Get: a hit prolongs the entry.                                *)
GetSliding(k) ==
    \/ k \notin items /\ UNCHANGED storeVars
    \/ k \in items /\ ~Hit(k) /\ RemoveLocked(Position(k))
    \/ /\ Hit(k)
       /\ ll' = <<[ll[Position(k)] EXCEPT !.exp = now + 1]>> \o Dropped(ll, Position(k))
       /\ UNCHANGED <<items, curBytes>>

Get(k) ==
    \/ k \notin items /\ UNCHANGED storeVars
    \/ k \in items /\ ~Hit(k) /\ RemoveLocked(Position(k))
    \/ /\ Hit(k)
       /\ ll' = <<ll[Position(k)]>> \o Dropped(ll, Position(k))
       /\ UNCHANGED <<items, curBytes>>

(* The bytes of a set of entries, of those behind the first n elements,    *)
(* and the loop at the end of Set: the elements at the back go until both  *)
(* budgets are met or nothing is left.                                     *)
Size(entries) == SumFunction([e \in entries |-> e.size])

Behind(s, n) == Size({s[i] : i \in (n + 1)..Len(s)})

Kept(s, bytes) ==
    Max({0} \cup {n \in 1..Len(s) : bytes - Behind(s, n) <= MaxBytes /\ n <= MaxEntries})

Evict(s, bytes) ==
    LET n == Kept(s, bytes) IN
    /\ ll' = SubSeq(s, 1, n)
    /\ items' = (items \cup {s[1].key}) \ {s[i].key : i \in (n + 1)..Len(s)}
    /\ curBytes' = bytes - Behind(s, n)

(* Mutant of Set: an overwritten entry keeps its bytes accounted.          *)
SetDrifting(k, v, len, ttl) ==
    LET e == [key |-> k, val |-> v, exp |-> now + ttl, size |-> KeyLen + len] IN
    \/ len > MaxEntryBytes /\ UNCHANGED storeVars
    \/ /\ len <= MaxEntryBytes /\ k \in items
       /\ Evict(<<e>> \o Dropped(ll, Position(k)), curBytes + e.size)
    \/ /\ len <= MaxEntryBytes /\ k \notin items
       /\ Evict(<<e>> \o ll, curBytes + e.size)

Set(k, v, len, ttl) ==
    LET e == [key |-> k, val |-> v, exp |-> now + ttl, size |-> KeyLen + len] IN
    \/ len > MaxEntryBytes /\ UNCHANGED storeVars
    \/ /\ len <= MaxEntryBytes /\ k \in items
       /\ Evict(<<e>> \o Dropped(ll, Position(k)), curBytes + e.size - ll[Position(k)].size)
    \/ /\ len <= MaxEntryBytes /\ k \notin items
       /\ Evict(<<e>> \o ll, curBytes + e.size)

(* The entries that have not expired keep their order.                     *)
SweepExpired ==
    LET live == {i \in 1..Len(ll) : ~Expired(ll[i])}
        gone == (1..Len(ll)) \ live
    IN
    /\ gone # {}
    /\ \E f \in Bijection(1..Cardinality(live), live) :
        /\ \A i, j \in DOMAIN f : i < j => f[i] < f[j]
        /\ ll' = [i \in DOMAIN f |-> ll[f[i]]]
    /\ items' = items \ {ll[i].key : i \in gone}
    /\ curBytes' = curBytes - Size({ll[i] : i \in gone})

(* The list, the index and the byte count tell one story, and it is within *)
(* the budgets: Get, Set and the sweep change all three in different ways. *)
CacheAccounting ==
    /\ items = {ll[i].key : i \in 1..Len(ll)}
    /\ Cardinality(items) = Len(ll)
    /\ curBytes = Behind(ll, 0)
    /\ curBytes <= MaxBytes /\ Len(ll) <= MaxEntries

(* The cache as the map it stands for.                                     *)
HeldMap == [k \in items |-> [val |-> ll[Position(k)].val, exp |-> ll[Position(k)].exp,
                          size |-> ll[Position(k)].size]]
=============================================================================
