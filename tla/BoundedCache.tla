---------------------------- MODULE BoundedCache ----------------------------
(***************************************************************************)
(* What the edge may rely on when it asks a CacheStore: a partial map from *)
(* keys to values with an expiry, which may forget anything at any moment, *)
(* never holds more than its budgets, never hands out under one key what   *)
(* was set under another, and never grants a value more than its lifetime. *)
(***************************************************************************)
EXTENDS Naturals, FiniteSets, Functions

CONSTANTS
    Keys, Values, MaxBytes, MaxEntries,
    Owner(_),   \* the key a value was set under
    Expiry(_)   \* the end of its lifetime

VARIABLES
    held,  \* key -> [val, exp, size], for the keys held
    now    \* the clock

cacheVars == <<held, now>>

Bytes(f) == SumFunction([k \in DOMAIN f |-> f[k].size])

WithinBudget(f) == Bytes(f) <= MaxBytes /\ Cardinality(DOMAIN f) <= MaxEntries

Init == held = <<>> /\ now \in Nat

(* Entries disappear: they were evicted or have expired.                   *)
Forget == \E S \in SUBSET DOMAIN held : held' = Restrict(held, S)

(* A key is set to a value whose lifetime is not over; any entries may be  *)
(* forgotten to make room.                                                 *)
Put(k) ==
    \E S \in SUBSET (DOMAIN held \cup {k}) :
        /\ DOMAIN held' = S
        /\ \A j \in S \ {k} : held'[j] = held[j]
        /\ k \in S => LET v == held'[k].val IN
                     /\ v \in Values /\ Owner(v) = k
                     /\ held'[k].exp = Expiry(v) /\ now <= Expiry(v)
        /\ WithinBudget(held')

Next ==
    \/ UNCHANGED now /\ (Forget \/ \E k \in Keys : Put(k))
    \/ UNCHANGED held /\ now' > now

Spec == Init /\ [][Next]_cacheVars
=============================================================================
