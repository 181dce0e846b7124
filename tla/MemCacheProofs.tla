---------------------------- MODULE MemCacheProofs ----------------------------
(***************************************************************************)
(* What Get, Set and SweepExpired do to the list, the index and the byte   *)
(* count of MemCache, for any budgets, and the facts about finite sums     *)
(* they rest on.  A sum is a fold, so its facts are proved with a minimal  *)
(* counterexample in place of an induction.                                *)
(***************************************************************************)
EXTENDS MemCache, FiniteSetTheorems, SequenceTheorems, TLAPS

-----------------------------------------------------------------------------
Family(S) == SUBSET SUBSET S

(* A set of subsets of a finite set has a minimal one.                     *)
LEMMA Minimal ==
    ASSUME NEW S, IsFiniteSet(S), NEW C \in Family(S), C # {}
    PROVE  \E T \in C : \A U \in C : U \subseteq T => U = T
<1>1. IsWellFoundedOn(StrictSubsetOrdering(S), SUBSET S)
  BY FS_StrictSubsetOrderingWellFounded, FS_FiniteSubsetsOfFinite
<1>2. PICK T \in C : \A U \in C : ~(<<U, T>> \in StrictSubsetOrdering(S))
  BY <1>1, WFMin DEF Family
<1>3. ASSUME NEW U \in C, U \subseteq T PROVE U = T
  BY <1>2, <1>3 DEF StrictSubsetOrdering, Family
<1>. QED
  BY <1>3

Some(T) == CHOOSE x \in T : TRUE

(* The recursive function that SumFunctionOnSet evaluates.                 *)
Adds(f, h, S) ==
    h = [T \in SUBSET S |-> IF T = {} THEN 0 ELSE f[Some(T)] + h[T \ {Some(T)}]]

(* The sum is the value at S of the function that adds up.                 *)
LEMMA SumUnfold ==
    ASSUME NEW f, NEW S
    PROVE  SumFunctionOnSet(f, S) = (CHOOSE h : Adds(f, h, S))[S]
BY DEF SumFunctionOnSet, FoldFunctionOnSet, MapThenFoldSet, Adds, Some

(* There is only one such function: a smallest set on which two differ has *)
(* an element to take away.                                                *)
LEMMA AddsUnique ==
    ASSUME NEW S, IsFiniteSet(S), NEW f, NEW g, NEW h, Adds(f, g, S), Adds(f, h, S)
    PROVE  g = h
<1>. DEFINE C == {T \in SUBSET S : g[T] # h[T]}
<1>1. CASE C = {}
  BY <1>1 DEF Adds
<1>2. ASSUME C # {} PROVE FALSE
  <2>1. PICK T \in C : \A U \in C : U \subseteq T => U = T
    <3>1. C \in Family(S)
      BY DEF Family
    <3>. HIDE DEF C
    <3>. QED
      BY <1>2, <3>1, Minimal
  <2>2. CASE T = {}
    BY <2>1, <2>2 DEF Adds
  <2>3. CASE T # {}
    <3>1. Some(T) \in T
      BY <2>3 DEF Some
    <3>2. g[T \ {Some(T)}] = h[T \ {Some(T)}]
      BY <2>1, <3>1
    <3>. QED
      BY <2>1, <2>3, <3>2 DEF Adds
  <2>. QED
    BY <2>2, <2>3
<1>. QED
  BY <1>1, <1>2

(* A sum of a set with elements is the sum of all but one, plus that one.  *)
LEMMA SumRec ==
    ASSUME NEW S, IsFiniteSet(S), NEW f
    PROVE  /\ SumFunctionOnSet(f, {}) = 0
           /\ S # {} => SumFunctionOnSet(f, S) = f[Some(S)] + SumFunctionOnSet(f, S \ {Some(S)})
<1>. DEFINE V(T) == SumFunctionOnSet(f, T)
            Next1(T) == IF T = {} THEN 0 ELSE f[Some(T)] + V(T \ {Some(T)})
            C == {T \in SUBSET S : V(T) # Next1(T)}
<1>1. ASSUME C # {} PROVE FALSE
  <2>1. PICK T \in C : \A U \in C : U \subseteq T => U = T
    <3>1. C \in Family(S)
      BY DEF Family
    <3>. HIDE DEF C
    <3>. QED
      BY <1>1, <3>1, Minimal
  <2>2. IsFiniteSet(T)
    BY FS_Subset
  <2>. DEFINE G == [U \in SUBSET T |-> Next1(U)]
  <2>. HIDE DEF V
  <2>3. \A U \in SUBSET T : U # T => G[U] = V(U)
    BY <2>1
  <2>4. \A U \in SUBSET T : U # {} => Some(U) \in U /\ U \ {Some(U)} \in SUBSET T /\ U \ {Some(U)} # T
    BY DEF Some
  <2>5. Adds(f, G, T)
    BY <2>3, <2>4 DEF Adds
  <2>6. Adds(f, CHOOSE h : Adds(f, h, T), T)
    BY <2>5
  <2>7. G = CHOOSE h : Adds(f, h, T)
    BY <2>2, <2>5, <2>6, AddsUnique
  <2>8. V(T) = G[T]
    BY <2>7, SumUnfold DEF V
  <2>. QED
    BY <2>1, <2>8
<1>. HIDE DEF V
<1>2. \A T \in SUBSET S : V(T) = Next1(T)
  BY <1>1
<1>3. V({}) = 0 /\ (S # {} => V(S) = f[Some(S)] + V(S \ {Some(S)}))
  BY <1>2
<1>. QED
  BY <1>3 DEF V

(* A sum of natural numbers is one.                                        *)
LEMMA SumType ==
    ASSUME NEW S, IsFiniteSet(S), NEW f, \A x \in S : f[x] \in Nat
    PROVE  SumFunctionOnSet(f, S) \in Nat
<1>. DEFINE V(T) == SumFunctionOnSet(f, T)
            C == {T \in SUBSET S : V(T) \notin Nat}
<1>1. ASSUME C # {} PROVE FALSE
  <2>1. PICK T \in C : \A U \in C : U \subseteq T => U = T
    <3>1. C \in Family(S)
      BY DEF Family
    <3>. HIDE DEF C
    <3>. QED
      BY <1>1, <3>1, Minimal
  <2>2. IsFiniteSet(T)
    BY FS_Subset
  <2>3. V({}) = 0 /\ (T # {} => V(T) = f[Some(T)] + V(T \ {Some(T)}))
    BY <2>2, SumRec
  <2>. HIDE DEF V
  <2>4. T # {} /\ Some(T) \in T
    <3>1. V({}) \in Nat /\ V(T) \notin Nat
      BY <2>1, <2>3
    <3>. QED
      BY <3>1 DEF Some
  <2>5. V(T \ {Some(T)}) \in Nat
    BY <2>1, <2>4
  <2>. QED
    BY <2>1, <2>3, <2>4, <2>5
<1>. QED
  BY <1>1

(* The order of the additions does not matter: any element may be last.    *)
LEMMA SumRemove ==
    ASSUME NEW S, IsFiniteSet(S), NEW f, \A x \in S : f[x] \in Nat, NEW y \in S
    PROVE  SumFunctionOnSet(f, S) = f[y] + SumFunctionOnSet(f, S \ {y})
<1>. DEFINE V(T) == SumFunctionOnSet(f, T)
            C == {T \in SUBSET S : \E z \in T : V(T) # f[z] + V(T \ {z})}
<1>1. ASSUME C # {} PROVE FALSE
  <2>1. PICK T \in C : \A U \in C : U \subseteq T => U = T
    <3>1. C \in Family(S)
      BY DEF Family
    <3>. HIDE DEF C
    <3>. QED
      BY <1>1, <3>1, Minimal
  <2>2. IsFiniteSet(T)
    BY FS_Subset
  <2>3. T # {} => V(T) = f[Some(T)] + V(T \ {Some(T)})
    BY <2>2, SumRec
  <2>4. \A U \in SUBSET T : V(U) \in Nat
    BY <2>2, FS_Subset, SumType
  <2>. HIDE DEF V
  <2>5. PICK z \in T : V(T) # f[z] + V(T \ {z})
    BY <2>1
  <2>. DEFINE c == Some(T)
  <2>6. c \in T
    BY <2>5 DEF Some
  <2>7. c # z
    BY <2>3, <2>5
  <2>. HIDE DEF c
  <2>8. V(T \ {c}) = f[z] + V((T \ {c}) \ {z})
    <3>1. T \ {c} \notin C
      BY <2>1, <2>6
    <3>. QED
      BY <2>1, <2>5, <2>7, <3>1
  <2>9. V(T \ {z}) = f[c] + V((T \ {z}) \ {c})
    <3>1. T \ {z} \notin C
      BY <2>1, <2>5
    <3>. QED
      BY <2>1, <2>6, <2>7, <3>1
  <2>10. (T \ {z}) \ {c} = (T \ {c}) \ {z}
    OBVIOUS
  <2>11. V(T) = f[c] + V(T \ {c})
    BY <2>3, <2>5 DEF c
  <2>12. f[c] \in Nat /\ f[z] \in Nat /\ V((T \ {c}) \ {z}) \in Nat
    BY <2>4, <2>6
  <2>. QED
    BY <2>5, <2>8, <2>9, <2>10, <2>11, <2>12
<1>. QED
  BY <1>1

(* A sum depends on nothing but the values it adds.                        *)
LEMMA SumAgrees ==
    ASSUME NEW S, IsFiniteSet(S), NEW f, NEW g, \A x \in S : f[x] = g[x]
    PROVE  SumFunctionOnSet(f, S) = SumFunctionOnSet(g, S)
<1>. DEFINE V(T) == SumFunctionOnSet(f, T)
            W(T) == SumFunctionOnSet(g, T)
            C == {T \in SUBSET S : V(T) # W(T)}
<1>1. ASSUME C # {} PROVE FALSE
  <2>1. PICK T \in C : \A U \in C : U \subseteq T => U = T
    <3>1. C \in Family(S)
      BY DEF Family
    <3>. HIDE DEF C
    <3>. QED
      BY <1>1, <3>1, Minimal
  <2>2. IsFiniteSet(T)
    BY FS_Subset
  <2>3. V({}) = 0 /\ (T # {} => V(T) = f[Some(T)] + V(T \ {Some(T)}))
    BY <2>2, SumRec
  <2>4. W({}) = 0 /\ (T # {} => W(T) = g[Some(T)] + W(T \ {Some(T)}))
    BY <2>2, SumRec
  <2>. HIDE DEF V, W
  <2>5. T # {} /\ Some(T) \in T
    BY <2>1, <2>3, <2>4 DEF Some
  <2>6. V(T \ {Some(T)}) = W(T \ {Some(T)}) /\ f[Some(T)] = g[Some(T)]
    BY <2>1, <2>5
  <2>. QED
    BY <2>1, <2>3, <2>4, <2>5, <2>6
<1>. QED
  BY <1>1

(* Sums over disjoint sets add up.                                         *)
LEMMA SumUnion ==
    ASSUME NEW A, NEW B, IsFiniteSet(A), IsFiniteSet(B), A \cap B = {},
           NEW f, \A x \in A \cup B : f[x] \in Nat
    PROVE  SumFunctionOnSet(f, A \cup B) = SumFunctionOnSet(f, A) + SumFunctionOnSet(f, B)
<1>. DEFINE V(T) == SumFunctionOnSet(f, T)
            C == {T \in SUBSET B : V(A \cup T) # V(A) + V(T)}
<1>0. IsFiniteSet(A \cup B) /\ \A T \in SUBSET (A \cup B) : IsFiniteSet(T)
  BY FS_Union, FS_Subset
<1>1. \A T \in SUBSET (A \cup B) : V(T) \in Nat
  BY <1>0, SumType
<1>2. \A T \in SUBSET (A \cup B) : \A y \in T : V(T) = f[y] + V(T \ {y})
  BY <1>0, SumRemove
<1>3. V({}) = 0
  BY <1>0, SumRec
<1>. HIDE DEF V
<1>4. ASSUME C # {} PROVE FALSE
  <2>1. PICK T \in C : \A U \in C : U \subseteq T => U = T
    <3>1. C \in Family(B)
      BY DEF Family
    <3>. HIDE DEF C
    <3>. QED
      BY <1>4, <3>1, Minimal
  <2>2. T # {}
    <3>1. A \cup {} = A /\ V(A) \in Nat
      BY <1>1
    <3>2. V(A) = V(A) + V({})
      BY <1>3, <3>1
    <3>. QED
      BY <2>1, <3>1, <3>2
  <2>3. PICK y \in T : TRUE
    BY <2>2
  <2>4. V(A \cup (T \ {y})) = V(A) + V(T \ {y})
    BY <2>1, <2>3
  <2>5. (A \cup T) \ {y} = A \cup (T \ {y})
    BY <2>3
  <2>6. V(A \cup T) = f[y] + V((A \cup T) \ {y}) /\ V(T) = f[y] + V(T \ {y})
    BY <1>2, <2>3
  <2>7. V(A) \in Nat /\ V(T \ {y}) \in Nat /\ f[y] \in Nat
    BY <1>1, <2>3
  <2>. QED
    BY <2>1, <2>4, <2>5, <2>6, <2>7
<1>5. V(A \cup B) = V(A) + V(B)
  BY <1>4
<1>. QED
  BY <1>5 DEF V

Renamed(b, S) == {b[x] : x \in S}

(* Summing along an injective renaming of the elements.                    *)
LEMMA SumRenamed ==
    ASSUME NEW S, IsFiniteSet(S), NEW f, NEW g, NEW b,
           \A x, y \in S : b[x] = b[y] => x = y,
           \A x \in S : f[x] = g[b[x]] /\ f[x] \in Nat
    PROVE  SumFunctionOnSet(g, Renamed(b, S)) = SumFunctionOnSet(f, S)
<1>. DEFINE Im(T) == {b[x] : x \in T}
            V(T) == SumFunctionOnSet(f, T)
            W(T) == SumFunctionOnSet(g, T)
            C == {T \in SUBSET S : W(Im(T)) # V(T)}
<1>0. \A T \in SUBSET S : IsFiniteSet(T)
  BY FS_Subset
<1>1. \A T \in SUBSET S : IsFiniteSet(Im(T))
  <2>. SUFFICES ASSUME NEW T \in SUBSET S PROVE IsFiniteSet(Im(T))
    OBVIOUS
  <2>. DEFINE m == [x \in T |-> b[x]]
  <2>1. m \in Surjection(T, Im(T))
    BY DEF Surjection
  <2>. QED
    BY <1>0, <2>1, FS_Surjection
<1>2. \A T \in SUBSET S : \A y \in T : V(T) = f[y] + V(T \ {y})
  BY <1>0, SumRemove
<1>3. \A T \in SUBSET S : \A y \in T : W(Im(T)) = g[b[y]] + W(Im(T) \ {b[y]})
  <2>. SUFFICES ASSUME NEW T \in SUBSET S, NEW y \in T
                PROVE  W(Im(T)) = g[b[y]] + W(Im(T) \ {b[y]})
    OBVIOUS
  <2>1. \A z \in Im(T) : g[z] \in Nat
    OBVIOUS
  <2>2. IsFiniteSet(Im(T)) /\ b[y] \in Im(T)
    BY <1>1
  <2>. HIDE DEF Im
  <2>. QED
    BY <2>1, <2>2, SumRemove
<1>4. V({}) = 0 /\ W({}) = 0
  BY <1>0, SumRec
<1>. HIDE DEF V, W
<1>5. ASSUME C # {} PROVE FALSE
  <2>1. PICK T \in C : \A U \in C : U \subseteq T => U = T
    <3>1. C \in Family(S)
      BY DEF Family
    <3>. HIDE DEF C
    <3>. QED
      BY <1>5, <3>1, Minimal
  <2>2. T # {}
    <3>1. Im({}) = {}
      OBVIOUS
    <3>. QED
      BY <1>4, <2>1, <3>1
  <2>3. PICK y \in T : TRUE
    BY <2>2
  <2>4. W(Im(T \ {y})) = V(T \ {y})
    BY <2>1, <2>3
  <2>5. Im(T) \ {b[y]} = Im(T \ {y})
    BY <2>3
  <2>6. V(T) = f[y] + V(T \ {y}) /\ W(Im(T)) = g[b[y]] + W(Im(T) \ {b[y]}) /\ f[y] = g[b[y]]
    BY <1>2, <1>3, <2>3
  <2>. QED
    BY <2>1, <2>4, <2>5, <2>6
<1>6. W(Im(S)) = V(S)
  BY <1>5
<1>7. Im(S) = Renamed(b, S)
  BY DEF Renamed
<1>. QED
  BY <1>6, <1>7 DEF V, W

-----------------------------------------------------------------------------
(***************************************************************************)
(* The store, for entries that carry values in V.                          *)
(***************************************************************************)
Entry(V) == [key : Keys, val : V, exp : Nat, size : Nat]

Entries(s) == {s[i] : i \in 1..Len(s)}

ElementsAt(s, I) == {s[i] : i \in I}
KeysAt(s, I) == {s[i].key : i \in I}

Keyed(s) == {s[i].key : i \in 1..Len(s)}

Distinct(s) == \A i, j \in 1..Len(s) : s[i].key = s[j].key => i = j

(* A list, an index and a byte count that agree.                           *)
Consistent(V, s, ks, b) ==
    s \in Seq(Entry(V)) /\ Distinct(s) /\ ks = Keyed(s) /\ b = Size(Entries(s))

StoreInv(V) ==
    /\ Consistent(V, ll, items, curBytes)
    /\ curBytes <= MaxBytes /\ Len(ll) <= MaxEntries

Sized(E) == IsFiniteSet(E) /\ \A e \in E : e.size \in Nat

(* The bytes of a set of entries, as a sum over a larger one.              *)
LEMMA SizeIsSum ==
    ASSUME NEW E, Sized(E), NEW F \in SUBSET E
    PROVE  Size(F) = SumFunctionOnSet([e \in E |-> e.size], F)
<1>1. IsFiniteSet(F)
  BY FS_Subset DEF Sized
<1>2. DOMAIN [e \in F |-> e.size] = F
  OBVIOUS
<1>3. \A e \in F : [d \in F |-> d.size][e] = [d \in E |-> d.size][e]
  OBVIOUS
<1>. QED
  BY <1>1, <1>2, <1>3, SumAgrees, Zenon DEF Size, SumFunction

(* The bytes of disjoint sets of entries add up.                           *)
LEMMA SizeUnion ==
    ASSUME NEW A, NEW B, Sized(A), Sized(B), A \cap B = {}
    PROVE  Size(A \cup B) = Size(A) + Size(B) /\ Size(A) \in Nat /\ Size(B) \in Nat
<1>. DEFINE g == [e \in A \cup B |-> e.size]
<1>1. Sized(A \cup B)
  BY FS_Union DEF Sized
<1>2. \A x \in A \cup B : g[x] \in Nat
  BY <1>1 DEF Sized
<1>3. Size(A) = SumFunctionOnSet(g, A) /\ Size(B) = SumFunctionOnSet(g, B)
      /\ Size(A \cup B) = SumFunctionOnSet(g, A \cup B)
  BY <1>1, SizeIsSum
<1>. HIDE DEF g
<1>4. SumFunctionOnSet(g, A \cup B) = SumFunctionOnSet(g, A) + SumFunctionOnSet(g, B)
  BY <1>2, SumUnion DEF Sized
<1>5. SumFunctionOnSet(g, A) \in Nat /\ SumFunctionOnSet(g, B) \in Nat
  BY <1>2, SumType DEF Sized
<1>. QED
  BY <1>3, <1>4, <1>5

(* The bytes of one entry.                                                 *)
LEMMA SizeOne ==
    ASSUME NEW e, e.size \in Nat
    PROVE  Sized({e}) /\ Size({e}) = e.size
<1>1. Sized({e})
  BY FS_Singleton DEF Sized
<1>. DEFINE g == [d \in {e} |-> d.size]
<1>2. g[e] = e.size /\ {e} \ {e} = {} /\ DOMAIN g = {e}
  OBVIOUS
<1>. HIDE DEF g
<1>3. SumFunctionOnSet(g, {e}) = g[e] + SumFunctionOnSet(g, {})
  <2>1. IsFiniteSet({e}) /\ \A x \in {e} : g[x] \in Nat
    BY <1>1, <1>2 DEF Sized
  <2>. QED
    BY <1>2, <2>1, SumRemove
<1>4. SumFunctionOnSet(g, {}) = 0
  BY FS_EmptySet, SumRec
<1>5. Size({e}) = SumFunctionOnSet(g, {e})
  BY <1>2 DEF Size, SumFunction, g
<1>. QED
  BY <1>1, <1>2, <1>3, <1>4, <1>5

(* No entries, no bytes.                                                   *)
LEMMA SizeEmpty == Sized({}) /\ Size({}) = 0
<1>1. SumFunctionOnSet([e \in {} |-> e.size], {}) = 0
  BY FS_EmptySet, SumRec
<1>2. DOMAIN [e \in {} |-> e.size] = {}
  OBVIOUS
<1>. QED
  BY <1>1, <1>2, FS_EmptySet DEF Size, SumFunction, Sized

(* The entries of the list have sizes.                                     *)
LEMMA EntriesSized ==
    ASSUME NEW V, NEW s \in Seq(Entry(V)), NEW I \in SUBSET (1..Len(s))
    PROVE  Sized(ElementsAt(s, I)) /\ ElementsAt(s, I) \subseteq Entry(V)
<1>1. IsFiniteSet(I)
  <2>1. 1 \in Int /\ Len(s) \in Int
    OBVIOUS
  <2>2. IsFiniteSet(1..Len(s))
    BY <2>1, FS_Interval
  <2>. QED
    BY <2>2, FS_Subset
<1>. DEFINE m == [i \in I |-> s[i]]
<1>2. m \in Surjection(I, ElementsAt(s, I))
  BY DEF Surjection, ElementsAt
<1>3. IsFiniteSet(ElementsAt(s, I))
  BY <1>1, <1>2, FS_Surjection
<1>4. \A i \in I : s[i] \in Entry(V)
  OBVIOUS
<1>. QED
  BY <1>3, <1>4 DEF Sized, Entry, ElementsAt

(* d holds the elements of s at the places I, each once.                   *)
Selected(s, I, d) == \E h \in Bijection(1..Len(d), I) : \A j \in 1..Len(d) : d[j] = s[h[j]]

(* Such a list is short of the rest.                                       *)
LEMMA SelectedKeeps ==
    ASSUME NEW V, NEW s \in Seq(Entry(V)), Distinct(s), NEW I \in SUBSET (1..Len(s)),
           NEW d \in Seq(Entry(V)), Selected(s, I, d)
    PROVE  /\ Consistent(V, d, Keyed(s) \ KeysAt(s, (1..Len(s)) \ I),
                         Size(Entries(s)) - Size(ElementsAt(s, (1..Len(s)) \ I)))
           /\ Entries(d) = ElementsAt(s, I)
           /\ Size(Entries(s)) \in Nat /\ Size(ElementsAt(s, (1..Len(s)) \ I)) \in Nat
<1>. DEFINE R == (1..Len(s)) \ I
            In == ElementsAt(s, I)
            Out == ElementsAt(s, R)
<1>0. PICK h \in Bijection(1..Len(d), I) : \A j \in 1..Len(d) : d[j] = s[h[j]]
  BY DEF Selected
<1>1. \A j \in 1..Len(d) : h[j] \in I /\ h[j] \in 1..Len(s) /\ d[j] = s[h[j]]
  BY <1>0 DEF Bijection, Injection
<1>2. \A j, k \in 1..Len(d) : h[j] = h[k] => j = k
  BY DEF Bijection, Injection, IsInjective
<1>3. \A i \in I : \E j \in 1..Len(d) : d[j] = s[i]
  BY <1>0 DEF Bijection, Surjection
<1>4. Distinct(d)
  BY <1>1, <1>2 DEF Distinct
<1>5. Entries(d) = In
  <2>1. Entries(d) \subseteq In
    BY <1>1 DEF Entries, ElementsAt
  <2>2. In \subseteq Entries(d)
    BY <1>3 DEF Entries, ElementsAt
  <2>. QED
    BY <2>1, <2>2
<1>6. Keyed(d) = Keyed(s) \ KeysAt(s, R)
  <2>1. ASSUME NEW j \in 1..Len(d) PROVE d[j].key \in Keyed(s) \ KeysAt(s, R)
    <3>1. d[j].key = s[h[j]].key /\ h[j] \in 1..Len(s) /\ h[j] \notin R
      BY <1>1
    <3>2. d[j].key \in Keyed(s)
      BY <3>1 DEF Keyed
    <3>3. \A i \in R : s[i].key # d[j].key
      BY <3>1 DEF Distinct
    <3>. QED
      BY <3>2, <3>3 DEF KeysAt
  <2>2. \A i \in I : s[i].key \in Keyed(d)
    BY <1>3 DEF Keyed, KeysAt
  <2>3. \A x \in Keyed(s) \ KeysAt(s, R) : x \in Keyed(d)
    BY <2>2 DEF Keyed, KeysAt
  <2>4. \A x \in Keyed(d) : x \in Keyed(s) \ KeysAt(s, R)
    BY <2>1 DEF Keyed, KeysAt
  <2>. QED
    BY <2>3, <2>4
<1>7. Entries(s) = In \cup Out /\ In \cap Out = {}
  <2>1. Entries(s) = In \cup Out
    BY DEF Entries, ElementsAt
  <2>2. In \cap Out = {}
    BY DEF Distinct, ElementsAt
  <2>. QED
    BY <2>1, <2>2
<1>8. Sized(In) /\ Sized(Out)
  <2>1. R \in SUBSET (1..Len(s))
    OBVIOUS
  <2>. HIDE DEF R
  <2>. QED
    BY <2>1, EntriesSized
<1>. HIDE DEF In, Out
<1>9. Size(Entries(s)) = Size(In) + Size(Out) /\ Size(In) \in Nat /\ Size(Out) \in Nat
  BY <1>7, <1>8, SizeUnion
<1>10. Size(Entries(s)) \in Nat /\ Size(In) = Size(Entries(s)) - Size(Out)
  BY <1>9
<1>. QED
  BY <1>4, <1>5, <1>6, <1>9, <1>10 DEF Consistent, In, Out

(* Dropping element i of a consistent store.                               *)
LEMMA DroppedKeeps ==
    ASSUME NEW V, NEW s, NEW ks, NEW b, Consistent(V, s, ks, b), NEW i \in 1..Len(s)
    PROVE  /\ Consistent(V, Dropped(s, i), ks \ {s[i].key}, b - s[i].size)
           /\ Entries(Dropped(s, i)) \subseteq Entries(s)
           /\ Len(Dropped(s, i)) = Len(s) - 1
           /\ b \in Nat /\ s[i].size \in Nat
<1>. DEFINE d == Dropped(s, i)
            I == (1..Len(s)) \ {i}
            h == [j \in 1..Len(d) |-> IF j < i THEN j ELSE j + 1]
<1>0. s \in Seq(Entry(V)) /\ Len(s) \in Nat /\ i \in Int /\ s[i] \in Entry(V)
      /\ Distinct(s) /\ ks = Keyed(s) /\ b = Size(Entries(s))
  BY DEF Consistent
<1>1. /\ d \in Seq(Entry(V)) /\ Len(d) = Len(s) - 1
      /\ \A j \in 1..Len(d) : d[j] = IF j < i THEN s[j] ELSE s[j + 1]
  <2>1. /\ SubSeq(s, 1, i - 1) \in Seq(Entry(V)) /\ Len(SubSeq(s, 1, i - 1)) = i - 1
        /\ \A j \in 1..(i - 1) : SubSeq(s, 1, i - 1)[j] = s[j]
    BY <1>0, SubSeqProperties
  <2>2. /\ SubSeq(s, i + 1, Len(s)) \in Seq(Entry(V)) /\ Len(SubSeq(s, i + 1, Len(s))) = Len(s) - i
        /\ \A j \in 1..(Len(s) - i) : SubSeq(s, i + 1, Len(s))[j] = s[i + j]
    <3>1. i + 1 \in Int /\ Len(s) \in Int /\ \A j \in (i + 1)..Len(s) : s[j] \in Entry(V)
      BY <1>0
    <3>2. /\ SubSeq(s, i + 1, Len(s)) \in Seq(Entry(V))
          /\ Len(SubSeq(s, i + 1, Len(s))) = IF i + 1 <= Len(s) THEN Len(s) - (i + 1) + 1 ELSE 0
          /\ \A j \in 1..(Len(s) - (i + 1) + 1) : SubSeq(s, i + 1, Len(s))[j] = s[(i + 1) + j - 1]
      BY <3>1, SubSeqProperties
    <3>. QED
      BY <1>0, <3>2
  <2>. DEFINE a == SubSeq(s, 1, i - 1)
              z == SubSeq(s, i + 1, Len(s))
  <2>. HIDE DEF a, z
  <2>3. /\ a \o z \in Seq(Entry(V)) /\ Len(a \o z) = Len(a) + Len(z)
        /\ \A j \in 1..(Len(a) + Len(z)) : (a \o z)[j] = IF j <= Len(a) THEN a[j] ELSE z[j - Len(a)]
    BY <2>1, <2>2, ConcatProperties DEF a, z
  <2>4. d = a \o z
    BY DEF Dropped, a, z
  <2>. HIDE DEF d
  <2>5. Len(a) = i - 1 /\ Len(z) = Len(s) - i
    BY <2>1, <2>2 DEF a, z
  <2>6. d \in Seq(Entry(V)) /\ Len(d) = Len(s) - 1
    BY <1>0, <2>3, <2>4, <2>5
  <2>7. ASSUME NEW j \in 1..Len(d) PROVE d[j] = IF j < i THEN s[j] ELSE s[j + 1]
    <3>1. CASE j < i
      BY <1>0, <2>1, <2>3, <2>4, <2>5, <2>6, <3>1 DEF a
    <3>2. CASE j >= i
      <4>1. j - (i - 1) \in 1..(Len(s) - i) /\ i + (j - (i - 1)) = j + 1
        BY <1>0, <2>6, <3>2
      <4>2. z[j - (i - 1)] = s[j + 1]
        BY <2>2, <4>1 DEF z
      <4>. QED
        BY <1>0, <2>3, <2>4, <2>5, <2>6, <3>2, <4>2
    <3>. QED
      BY <3>1, <3>2, <1>0
  <2>. QED
    BY <2>6, <2>7
<1>. HIDE DEF d
<1>2. h \in Bijection(1..Len(d), I)
  <2>1. h \in [1..Len(d) -> I]
    BY <1>0, <1>1
  <2>2. \A j, k \in 1..Len(d) : h[j] = h[k] => j = k
    BY <1>0, <1>1
  <2>3. \A k \in I : \E j \in 1..Len(d) : h[j] = k
    <3>. SUFFICES ASSUME NEW k \in I PROVE \E j \in 1..Len(d) : h[j] = k
      OBVIOUS
    <3>1. CASE k < i
      <4>1. k \in 1..Len(d) /\ h[k] = k
        BY <1>0, <1>1, <3>1
      <4>. QED
        BY <4>1
    <3>2. CASE k > i
      <4>1. k - 1 \in 1..Len(d) /\ h[k - 1] = k
        BY <1>0, <1>1, <3>2
      <4>. QED
        BY <4>1
    <3>. QED
      BY <1>0, <3>1, <3>2
  <2>. HIDE DEF h, I
  <2>. QED
    BY <2>1, <2>2, <2>3 DEF Bijection, Injection, IsInjective, Surjection
<1>3. \A j \in 1..Len(d) : d[j] = s[h[j]]
  BY <1>1
<1>4. I \in SUBSET (1..Len(s)) /\ (1..Len(s)) \ I = {i}
  OBVIOUS
<1>. HIDE DEF h, I
<1>5. /\ Consistent(V, d, Keyed(s) \ KeysAt(s, (1..Len(s)) \ I),
                    Size(Entries(s)) - Size(ElementsAt(s, (1..Len(s)) \ I)))
      /\ Entries(d) = ElementsAt(s, I)
      /\ Size(Entries(s)) \in Nat
  <2>1. d \in Seq(Entry(V)) /\ I \in SUBSET (1..Len(s)) /\ b = Size(Entries(s)) /\ Distinct(s)
        /\ s \in Seq(Entry(V))
    BY <1>0, <1>1, <1>4
  <2>2. Selected(s, I, d)
    BY <1>2, <1>3 DEF Selected
  <2>. QED
    BY <2>1, <2>2, SelectedKeeps
<1>6. KeysAt(s, (1..Len(s)) \ I) = {s[i].key} /\ ElementsAt(s, (1..Len(s)) \ I) = {s[i]}
  BY <1>4 DEF KeysAt, ElementsAt
<1>7. Size({s[i]}) = s[i].size /\ s[i].size \in Nat
  BY <1>0, SizeOne DEF Entry
<1>8. Entries(d) \subseteq Entries(s)
  BY <1>4, <1>5 DEF Entries, ElementsAt
<1>. QED
  BY <1>0, <1>1, <1>5, <1>6, <1>7, <1>8 DEF d

Fronted(e, s) == <<e>> \o s
With(S, x) == S \cup {x}

(* A new entry at the front of a consistent store.                         *)
LEMMA FrontedKeeps ==
    ASSUME NEW V, NEW s, NEW ks, NEW b, Consistent(V, s, ks, b),
           NEW e \in Entry(V), e.key \notin ks
    PROVE  /\ Consistent(V, Fronted(e, s), With(ks, e.key), b + e.size)
           /\ Entries(Fronted(e, s)) \subseteq Entries(s) \cup {e}
           /\ Len(Fronted(e, s)) = Len(s) + 1 /\ Fronted(e, s)[1] = e
<1>. DEFINE d == Fronted(e, s)
<1>0. s \in Seq(Entry(V)) /\ Len(s) \in Nat
      /\ Distinct(s) /\ ks = Keyed(s) /\ b = Size(Entries(s))
  BY DEF Consistent
<1>1. d \in Seq(Entry(V)) /\ Len(d) = Len(s) + 1 /\ d[1] = e
      /\ \A j \in 2..(Len(s) + 1) : d[j] = s[j - 1]
  BY <1>0 DEF Fronted
<1>. HIDE DEF d
<1>2. \A j \in 1..Len(d) : j = 1 \/ (j - 1 \in 1..Len(s) /\ d[j] = s[j - 1])
  BY <1>0, <1>1
<1>3. \A h \in 1..Len(s) : h + 1 \in 1..Len(d) /\ d[h + 1] = s[h]
  BY <1>0, <1>1
<1>4. 1 \in 1..Len(d)
  BY <1>0, <1>1
<1>5. \A h \in 1..Len(s) : s[h].key # e.key
  BY <1>0 DEF Keyed
<1>6. Distinct(d)
  <2>. SUFFICES ASSUME NEW i \in 1..Len(d), NEW j \in 1..Len(d), d[i].key = d[j].key PROVE i = j
    BY DEF Distinct
  <2>1. CASE i = 1
    BY <1>1, <1>2, <1>5, <2>1
  <2>2. CASE j = 1
    BY <1>1, <1>2, <1>5, <2>2
  <2>3. CASE i # 1 /\ j # 1
    <3>1. i - 1 = j - 1
      BY <1>0, <1>2, <2>3 DEF Distinct
    <3>. QED
      BY <1>0, <1>1, <3>1
  <2>. QED
    BY <2>1, <2>2, <2>3
<1>7. Entries(d) = Entries(s) \cup {e}
  <2>1. \A j \in 1..Len(d) : d[j] \in Entries(s) \cup {e}
    BY <1>1, <1>2 DEF Entries
  <2>2. e \in Entries(d) /\ \A h \in 1..Len(s) : s[h] \in Entries(d)
    BY <1>1, <1>3, <1>4 DEF Entries
  <2>3. Entries(d) \subseteq Entries(s) \cup {e}
    BY <2>1 DEF Entries
  <2>4. Entries(s) \cup {e} \subseteq Entries(d)
    BY <2>2 DEF Entries
  <2>. QED
    BY <2>3, <2>4
<1>8. Keyed(d) = ks \cup {e.key}
  <2>1. \A j \in 1..Len(d) : d[j].key \in Keyed(s) \cup {e.key}
    BY <1>1, <1>2 DEF Keyed
  <2>2. e.key \in Keyed(d) /\ \A h \in 1..Len(s) : s[h].key \in Keyed(d)
    BY <1>1, <1>3, <1>4 DEF Keyed
  <2>3. Keyed(d) \subseteq Keyed(s) \cup {e.key}
    BY <2>1 DEF Keyed
  <2>4. Keyed(s) \cup {e.key} \subseteq Keyed(d)
    BY <2>2 DEF Keyed
  <2>. QED
    BY <1>0, <2>3, <2>4
<1>9. Size(Entries(d)) = b + e.size
  <2>1. e \notin Entries(s)
    BY <1>5 DEF Entries
  <2>2. Sized(Entries(s))
    BY <1>0, EntriesSized DEF Entries, ElementsAt
  <2>3. Sized({e}) /\ Size({e}) = e.size
    BY SizeOne DEF Entry
  <2>4. Entries(s) \cap {e} = {}
    BY <2>1
  <2>. QED
    BY <1>0, <1>7, <2>2, <2>3, <2>4, SizeUnion
<1>. QED
  BY <1>1, <1>6, <1>7, <1>8, <1>9 DEF Consistent, With, d

(* The index finds the entry of a key (Position).                          *)
LEMMA PositionIs ==
    ASSUME NEW V, StoreInv(V), NEW k \in items
    PROVE  Position(k) \in 1..Len(ll) /\ ll[Position(k)].key = k /\ ll[Position(k)] \in Entry(V)
<1>1. \E i \in 1..Len(ll) : ll[i].key = k
  BY DEF StoreInv, Consistent, Keyed
<1>2. Position(k) \in 1..Len(ll) /\ ll[Position(k)].key = k
  BY <1>1 DEF Position
<1>3. ll \in Seq(Entry(V))
  BY DEF StoreInv, Consistent
<1>. QED
  BY <1>2, <1>3

(* What an operation may leave behind: a store within its budgets, with no *)
(* entries but those of A.                                                 *)
Becomes(V, A) == StoreInv(V)' /\ Entries(ll)' \subseteq A

(* removeLocked keeps the list, the index and the byte count together.     *)
LEMMA RemoveStep ==
    ASSUME NEW V, StoreInv(V), NEW i \in 1..Len(ll), RemoveLocked(i)
    PROVE  Becomes(V, Entries(ll))
<1>1. Consistent(V, ll, items, curBytes) /\ curBytes <= MaxBytes /\ Len(ll) <= MaxEntries
  BY DEF StoreInv
<1>2. /\ Consistent(V, Dropped(ll, i), items \ {ll[i].key}, curBytes - ll[i].size)
      /\ Entries(Dropped(ll, i)) \subseteq Entries(ll)
      /\ Len(Dropped(ll, i)) = Len(ll) - 1
      /\ curBytes \in Nat /\ ll[i].size \in Nat
  BY <1>1, DroppedKeeps
<1>3. ll' = Dropped(ll, i) /\ items' = items \ {ll[i].key} /\ curBytes' = curBytes - ll[i].size
  BY DEF RemoveLocked
<1>4. Consistent(V, ll', items', curBytes') /\ Entries(ll') \subseteq Entries(ll)
  BY <1>2, <1>3
<1>5. Len(ll) \in Nat
  BY <1>1 DEF Consistent
<1>6. curBytes' <= MaxBytes /\ Len(ll') <= MaxEntries
  BY <1>1, <1>2, <1>3, <1>5, CacheAssumption
<1>. QED
  BY <1>4, <1>6 DEF Becomes, StoreInv

(* Get moves a hit to the front and drops what has expired.                *)
LEMMA GetStep ==
    ASSUME NEW V, StoreInv(V), NEW k, Get(k)
    PROVE  Becomes(V, Entries(ll))
<1>1. CASE k \notin items /\ UNCHANGED storeVars
  BY <1>1 DEF Becomes, StoreInv, storeVars
<1>2. CASE k \in items /\ ~Hit(k) /\ RemoveLocked(Position(k))
  BY <1>2, PositionIs, RemoveStep
<1>3. CASE /\ Hit(k)
           /\ ll' = <<ll[Position(k)]>> \o Dropped(ll, Position(k))
           /\ UNCHANGED <<items, curBytes>>
  <2>. DEFINE e == ll[Position(k)]
              d == Dropped(ll, Position(k))
  <2>1. k \in items /\ Position(k) \in 1..Len(ll) /\ e.key = k /\ e \in Entry(V)
    BY <1>3, PositionIs DEF Hit
  <2>2. Consistent(V, ll, items, curBytes) /\ curBytes <= MaxBytes /\ Len(ll) <= MaxEntries
    BY DEF StoreInv
  <2>3. /\ Consistent(V, d, items \ {k}, curBytes - e.size)
        /\ Entries(d) \subseteq Entries(ll) /\ Len(d) = Len(ll) - 1
        /\ curBytes \in Nat /\ e.size \in Nat
    BY <2>1, <2>2, DroppedKeeps
  <2>4. e \in Entries(ll)
    BY <2>1 DEF Entries
  <2>. HIDE DEF e, d
  <2>5. /\ Consistent(V, Fronted(e, d), (items \ {k}) \cup {e.key}, (curBytes - e.size) + e.size)
        /\ Entries(Fronted(e, d)) \subseteq Entries(d) \cup {e}
        /\ Len(Fronted(e, d)) = Len(d) + 1
    <3>1. e.key \notin items \ {k}
      BY <2>1
    <3>. DEFINE ks == items \ {k}
                b == curBytes - e.size
    <3>2. Consistent(V, d, ks, b)
      BY <2>3
    <3>4. e \in Entry(V) /\ e.key \notin ks
      BY <2>1, <3>1
    <3>. HIDE DEF ks, b
    <3>3. /\ Consistent(V, Fronted(e, d), With(ks, e.key), b + e.size)
          /\ Entries(Fronted(e, d)) \subseteq Entries(d) \cup {e}
          /\ Len(Fronted(e, d)) = Len(d) + 1
      BY <3>2, <3>4, FrontedKeeps
    <3>. QED
      BY <3>3 DEF ks, b, With
  <2>6. (items \ {k}) \cup {e.key} = items /\ (curBytes - e.size) + e.size = curBytes
    BY <2>1, <2>3
  <2>7. ll' = Fronted(e, d) /\ items' = items /\ curBytes' = curBytes
    BY <1>3 DEF e, d, Fronted
  <2>8. Len(ll') = Len(ll)
    <3>1. Len(ll) \in Nat
      BY <2>2 DEF Consistent
    <3>. QED
      BY <2>3, <2>5, <2>7, <3>1
  <2>9. Consistent(V, ll', items', curBytes') /\ Entries(ll') \subseteq Entries(ll)
    BY <2>3, <2>4, <2>5, <2>6, <2>7
  <2>. QED
    BY <2>2, <2>7, <2>8, <2>9 DEF Becomes, StoreInv
<1>. QED
  BY <1>1, <1>2, <1>3 DEF Get

-----------------------------------------------------------------------------
(* The largest number of a bounded set.                                    *)
LEMMA MaxIs ==
    ASSUME NEW n \in Nat, NEW S \in SUBSET (0..n), S # {}
    PROVE  Max(S) \in S /\ \A y \in S : Max(S) >= y
<1>. DEFINE From(x) == S \cap (x..n)
            C == {From(x) : x \in S}
<1>1. IsFiniteSet(S)
  <2>1. 0 \in Int /\ n \in Int
    OBVIOUS
  <2>2. IsFiniteSet(0..n)
    BY <2>1, FS_Interval
  <2>. QED
    BY <2>2, FS_Subset
<1>2. PICK T \in C : \A U \in C : U \subseteq T => U = T
  <2>1. C \in Family(S)
    BY DEF Family
  <2>2. C # {}
    OBVIOUS
  <2>. HIDE DEF C
  <2>. QED
    BY <1>1, <2>1, <2>2, Minimal
<1>3. PICK x \in S : T = From(x)
  OBVIOUS
<1>4. ASSUME NEW y \in S PROVE x >= y
  <2>1. SUFFICES ASSUME y > x PROVE FALSE
    OBVIOUS
  <2>2. From(y) \subseteq From(x)
    BY <2>1
  <2>3. From(y) = From(x)
    BY <1>2, <1>3, <2>2
  <2>4. x \in From(x) /\ x \notin From(y)
    BY <2>1
  <2>. QED
    BY <2>3, <2>4
<1>5. \E z \in S : \A y \in S : z >= y
  BY <1>4
<1>. QED
  BY <1>5 DEF Max

(* Eviction keeps the front of the list, as much as the budgets allow.     *)
LEMMA EvictStep ==
    ASSUME NEW V, NEW s, NEW bytes, Consistent(V, s, items \cup {s[1].key}, bytes),
           Evict(s, bytes)
    PROVE  Becomes(V, Entries(s))
<1>. DEFINE n == Kept(s, bytes)
            I == 1..n
            R == (1..Len(s)) \ I
            d == SubSeq(s, 1, n)
<1>1. s \in Seq(Entry(V)) /\ Len(s) \in Nat /\ Distinct(s)
      /\ items \cup {s[1].key} = Keyed(s) /\ bytes = Size(Entries(s))
  BY DEF Consistent
<1>2. n \in 0..Len(s) /\ (n = 0 \/ (bytes - Behind(s, n) <= MaxBytes /\ n <= MaxEntries))
  <2>. DEFINE S == {0} \cup {m \in 1..Len(s) : bytes - Behind(s, m) <= MaxBytes /\ m <= MaxEntries}
  <2>1. S \in SUBSET (0..Len(s)) /\ S # {}
    BY <1>1
  <2>2. n = Max(S)
    BY DEF Kept
  <2>. HIDE DEF n
  <2>3. Max(S) \in S
    <3>. HIDE DEF S
    <3>. QED
      BY <1>1, <2>1, MaxIs
  <2>. QED
    BY <1>1, <2>2, <2>3
<1>. HIDE DEF n
<1>3. R = (n + 1)..Len(s) /\ I \in SUBSET (1..Len(s))
  BY <1>1, <1>2
<1>4. d \in Seq(Entry(V)) /\ Len(d) = n /\ \A j \in 1..n : d[j] = s[j]
  <2>1. 1 \in Int /\ n \in Int /\ \A j \in 1..n : s[j] \in Entry(V)
    BY <1>1, <1>2
  <2>2. /\ d \in Seq(Entry(V)) /\ Len(d) = (IF 1 <= n THEN n - 1 + 1 ELSE 0)
        /\ \A j \in 1..(n - 1 + 1) : d[j] = s[1 + j - 1]
    BY <2>1, SubSeqProperties
  <2>. QED
    BY <1>2, <2>2
<1>. HIDE DEF d
<1>5. Selected(s, I, d)
  <2>. DEFINE h == [j \in 1..Len(d) |-> j]
  <2>1. h \in Bijection(1..Len(d), I)
    BY <1>4 DEF Bijection, Injection, IsInjective, Surjection
  <2>2. \A j \in 1..Len(d) : d[j] = s[h[j]]
    BY <1>4
  <2>. HIDE DEF h
  <2>. QED
    BY <2>1, <2>2 DEF Selected
<1>. HIDE DEF I
<1>6. /\ Consistent(V, d, Keyed(s) \ KeysAt(s, R), Size(Entries(s)) - Size(ElementsAt(s, R)))
      /\ Entries(d) = ElementsAt(s, I)
  BY <1>1, <1>3, <1>4, <1>5, SelectedKeeps
<1>. HIDE DEF R
<1>7. /\ ll' = d /\ items' = Keyed(s) \ KeysAt(s, R)
      /\ Behind(s, n) = Size(ElementsAt(s, R)) /\ curBytes' = bytes - Behind(s, n)
  <2>1. KeysAt(s, R) = {s[i].key : i \in (n + 1)..Len(s)}
    BY <1>3 DEF KeysAt
  <2>2. Behind(s, n) = Size(ElementsAt(s, R))
    BY <1>3 DEF Behind, ElementsAt
  <2>. QED
    BY <1>1, <2>1, <2>2 DEF Evict, n, d
<1>8. Consistent(V, ll', items', curBytes')
  BY <1>1, <1>6, <1>7
<1>9. Entries(ll') \subseteq Entries(s)
  BY <1>3, <1>6, <1>7 DEF Entries, ElementsAt
<1>10. curBytes' <= MaxBytes /\ Len(ll') <= MaxEntries
  <2>1. CASE n = 0
    <3>1. I = {}
      BY <2>1 DEF I
    <3>2. Entries(d) = {}
      BY <1>6, <3>1 DEF ElementsAt
    <3>3. curBytes' = 0
      BY <1>7, <1>8, <3>2, SizeEmpty DEF Consistent
    <3>. QED
      BY <1>4, <1>7, <2>1, <3>3, CacheAssumption
  <2>2. CASE n # 0
    BY <1>2, <1>4, <1>7, <2>2
  <2>. QED
    BY <2>1, <2>2
<1>. QED
  BY <1>8, <1>9, <1>10 DEF Becomes, StoreInv

(* Set puts one entry at the front, in place of what its key had before.   *)
LEMMA SetStep ==
    ASSUME NEW V, StoreInv(V), NEW k, NEW v, NEW len, NEW ttl, Set(k, v, len, ttl),
           NEW e \in Entry(V), e = [key |-> k, val |-> v, exp |-> now + ttl, size |-> KeyLen + len]
    PROVE  \/ UNCHANGED storeVars
           \/ Becomes(V, {x \in Entries(ll) : x.key # k} \cup {e})
<1>0. Consistent(V, ll, items, curBytes) /\ e.key = k /\ e.size = KeyLen + len
  BY DEF StoreInv
<1>1. CASE len > MaxEntryBytes /\ UNCHANGED storeVars
  BY <1>1
<1>2. ASSUME NEW s, NEW ks, NEW b, Consistent(V, s, ks, b), k \notin ks, items \cup {k} = ks \cup {k},
             Entries(s) \subseteq Entries(ll), Evict(Fronted(e, s), b + e.size)
      PROVE  Becomes(V, {x \in Entries(ll) : x.key # k} \cup {e})
  <2>. DEFINE f == Fronted(e, s)
  <2>0. Consistent(V, s, ks, b) /\ e.key \notin ks
    BY <1>0, <1>2
  <2>1. /\ Consistent(V, f, With(ks, e.key), b + e.size)
        /\ Entries(f) \subseteq Entries(s) \cup {e} /\ f[1] = e
    BY <2>0, FrontedKeeps
  <2>. HIDE DEF f
  <2>2. items \cup {f[1].key} = With(ks, e.key)
    BY <1>0, <1>2, <2>1 DEF With
  <2>3. Becomes(V, Entries(f))
    <3>1. Consistent(V, f, items \cup {f[1].key}, b + e.size)
      BY <2>1, <2>2
    <3>2. Evict(f, b + e.size)
      BY <1>2 DEF f
    <3>. QED
      BY <3>1, <3>2, EvictStep
  <2>4. \A x \in Entries(s) : x.key # k
    BY <1>2 DEF Consistent, Keyed, Entries
  <2>5. Entries(f) \subseteq {x \in Entries(ll) : x.key # k} \cup {e}
    BY <1>2, <2>1, <2>4
  <2>. QED
    BY <2>3, <2>5 DEF Becomes
<1>3. CASE /\ len <= MaxEntryBytes /\ k \in items
           /\ Evict(<<e>> \o Dropped(ll, Position(k)), curBytes + e.size - ll[Position(k)].size)
  <2>. DEFINE p == Position(k)
  <2>1. p \in 1..Len(ll) /\ ll[p].key = k
    BY <1>3, PositionIs
  <2>. HIDE DEF p
  <2>2. /\ Consistent(V, Dropped(ll, p), items \ {ll[p].key}, curBytes - ll[p].size)
        /\ Entries(Dropped(ll, p)) \subseteq Entries(ll)
        /\ curBytes \in Nat /\ ll[p].size \in Nat
    BY <1>0, <2>1, DroppedKeeps
  <2>3. (curBytes - ll[p].size) + e.size = curBytes + e.size - ll[p].size
    <3>1. e.size \in Nat
      BY DEF Entry
    <3>. QED
      BY <2>2, <3>1
  <2>4. Evict(Fronted(e, Dropped(ll, p)), (curBytes - ll[p].size) + e.size)
    BY <1>3, <2>3 DEF Fronted, p
  <2>5. k \notin items \ {ll[p].key} /\ items \cup {k} = (items \ {ll[p].key}) \cup {k}
    BY <2>1
  <2>. QED
    BY <1>2, <2>2, <2>4, <2>5
<1>4. CASE /\ len <= MaxEntryBytes /\ k \notin items
           /\ Evict(<<e>> \o ll, curBytes + e.size)
  <2>1. Evict(Fronted(e, ll), curBytes + e.size)
    BY <1>4 DEF Fronted
  <2>. QED
    BY <1>0, <1>2, <1>4, <2>1
<1>. QED
  BY <1>1, <1>3, <1>4 DEF Set

(* The sweep removes what has expired and keeps the order of the rest.     *)
LEMMA SweepStep ==
    ASSUME NEW V, StoreInv(V), SweepExpired
    PROVE  Becomes(V, Entries(ll))
<1>. DEFINE live == {i \in 1..Len(ll) : ~Expired(ll[i])}
            gone == (1..Len(ll)) \ live
<1>0. /\ Consistent(V, ll, items, curBytes) /\ curBytes <= MaxBytes /\ Len(ll) <= MaxEntries
      /\ ll \in Seq(Entry(V)) /\ Len(ll) \in Nat /\ Distinct(ll)
      /\ items = Keyed(ll) /\ curBytes = Size(Entries(ll))
  BY DEF StoreInv, Consistent
<1>1. live \in SUBSET (1..Len(ll))
  OBVIOUS
<1>. HIDE DEF live
<1>2. Cardinality(live) \in Nat /\ Cardinality(live) <= Len(ll)
  <2>1. 1 \in Int /\ Len(ll) \in Int
    BY <1>0
  <2>2. IsFiniteSet(1..Len(ll)) /\ Cardinality(1..Len(ll)) = IF 1 > Len(ll) THEN 0 ELSE Len(ll) - 1 + 1
    BY <2>1, FS_Interval
  <2>3. IsFiniteSet(live) /\ Cardinality(live) <= Cardinality(1..Len(ll))
    BY <1>1, <2>2, FS_Subset
  <2>4. Cardinality(live) \in Nat
    BY <2>3, FS_CardinalityType
  <2>. QED
    BY <1>0, <2>2, <2>3, <2>4
<1>3. PICK f \in Bijection(1..Cardinality(live), live) : ll' = [i \in DOMAIN f |-> ll[f[i]]]
  BY DEF SweepExpired, live
<1>4. DOMAIN f = 1..Cardinality(live) /\ \A i \in DOMAIN f : f[i] \in 1..Len(ll)
  BY <1>1 DEF Bijection, Injection
<1>5. ll' \in Seq(Entry(V)) /\ Len(ll') = Cardinality(live)
      /\ \A j \in 1..Cardinality(live) : ll'[j] = ll[f[j]]
  <2>1. \A j \in 1..Cardinality(live) : ll[f[j]] \in Entry(V)
    BY <1>0, <1>4
  <2>2. ll' = [i \in 1..Cardinality(live) |-> ll[f[i]]]
    BY <1>3, <1>4
  <2>. QED
    BY <1>2, <2>1, <2>2
<1>6. Selected(ll, live, ll')
  BY <1>5 DEF Selected
<1>7. /\ Consistent(V, ll', Keyed(ll) \ KeysAt(ll, (1..Len(ll)) \ live),
                    Size(Entries(ll)) - Size(ElementsAt(ll, (1..Len(ll)) \ live)))
      /\ Entries(ll') = ElementsAt(ll, live)
      /\ Size(Entries(ll)) \in Nat /\ Size(ElementsAt(ll, (1..Len(ll)) \ live)) \in Nat
  BY <1>0, <1>1, <1>5, <1>6, SelectedKeeps
<1>8. items' = items \ KeysAt(ll, gone) /\ curBytes' = curBytes - Size(ElementsAt(ll, gone))
  BY DEF SweepExpired, KeysAt, ElementsAt, live
<1>9. Consistent(V, ll', items', curBytes')
  BY <1>0, <1>7, <1>8
<1>10. Entries(ll') \subseteq Entries(ll)
  BY <1>1, <1>7 DEF Entries, ElementsAt
<1>11. curBytes' <= MaxBytes /\ Len(ll') <= MaxEntries
  BY <1>0, <1>2, <1>5, <1>7, <1>8, CacheAssumption
<1>. QED
  BY <1>9, <1>10, <1>11 DEF Becomes, StoreInv

(* The inductive invariant says what the run checks.                       *)
LEMMA StoreAccounts ==
    ASSUME NEW V, StoreInv(V)
    PROVE  CacheAccounting
<1>0. /\ ll \in Seq(Entry(V)) /\ Len(ll) \in Nat /\ Distinct(ll)
      /\ items = Keyed(ll) /\ curBytes = Size(Entries(ll))
      /\ curBytes <= MaxBytes /\ Len(ll) <= MaxEntries
  BY DEF StoreInv, Consistent
<1>1. items = {ll[i].key : i \in 1..Len(ll)}
  BY <1>0 DEF Keyed
<1>2. Cardinality(items) = Len(ll)
  <2>. DEFINE h == [i \in 1..Len(ll) |-> ll[i].key]
  <2>1. h \in Bijection(1..Len(ll), items)
    <3>1. h \in [1..Len(ll) -> items]
      BY <1>1
    <3>2. \A i, j \in 1..Len(ll) : h[i] = h[j] => i = j
      BY <1>0 DEF Distinct
    <3>3. \A k \in items : \E i \in 1..Len(ll) : h[i] = k
      BY <1>1
    <3>. HIDE DEF h
    <3>. QED
      BY <3>1, <3>2, <3>3 DEF Bijection, Injection, IsInjective, Surjection
  <2>. HIDE DEF h
  <2>. QED
    BY <1>0, <2>1, FS_CountingElements DEF ExistsBijection
<1>3. curBytes = Behind(ll, 0)
  <2>1. (0 + 1)..Len(ll) = 1..Len(ll)
    OBVIOUS
  <2>. QED
    BY <1>0, <2>1 DEF Behind, Entries
<1>. QED
  BY <1>0, <1>1, <1>2, <1>3 DEF CacheAccounting

(* The empty store is consistent.                                          *)
LEMMA StoreInit ==
    ASSUME NEW V, CacheInit
    PROVE  StoreInv(V)
<1>1. ll = <<>> /\ items = {} /\ curBytes = 0
  BY DEF CacheInit
<1>2. ll \in Seq(Entry(V)) /\ Len(ll) = 0 /\ 1..Len(ll) = {}
  BY <1>1
<1>3. Entries(ll) = {} /\ Keyed(ll) = {} /\ Distinct(ll)
  BY <1>2 DEF Entries, Keyed, Distinct
<1>4. items = Keyed(ll) /\ curBytes = Size(Entries(ll))
  BY <1>1, <1>3, SizeEmpty
<1>5. curBytes <= MaxBytes /\ Len(ll) <= MaxEntries
  BY <1>1, <1>2, CacheAssumption
<1>. QED
  BY <1>2, <1>3, <1>4, <1>5 DEF StoreInv, Consistent
=============================================================================
