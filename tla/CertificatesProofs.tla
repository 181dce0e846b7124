-------------------------- MODULE CertificatesProofs --------------------------
(***************************************************************************)
(* The properties of Certificates, for any number of instances, renewal    *)
(* loops, API calls, certificates, generations and failures.               *)
(***************************************************************************)
EXTENDS Certificates, TLAPS

\* A worker between two rounds has no list.
RestInv ==
    /\ \A p \in Workers : w[p].at \in {"idle", "leaseInsert", "list"} => w[p].todo = {}
    /\ \A p \in Calls : w[p].at \notin {"list", "leaseInsert", "next"} /\ w[p].todo = {}

\* Why EnvIsOwners is inductive: the lock, the environment and the tokens of an instance
\* belong to workers of that instance.
EnvInv ==
    /\ EnvIsOwners
    /\ \A i \in Instances : envMu[i] # Nobody => On[envMu[i]] = i
    /\ \A i \in Instances : \A p \in tokens[i] : On[p] = i

\* Why OneRenewer holds: until a lease runs out under a round, a loop in a round has it.
LeaseInv == ~lapsed => \A p \in Loops : InRound(p) => lease = On[p] /\ current

\* p will write a copy of the row of c.
Has(p, c) ==
    \/ w[p].at \in Issuing /\ w[p].cert = c
    \/ \E r \in Row : <<c, r>> \in w[p].todo

\* Why NewestKept holds: no worker has two copies of one row; no two workers have one, of
\* the rows that are not in overlapped; ...
OwnInv ==
    \A p \in Workers :
        /\ \A c \in Certs, r, s \in Row : <<c, r>> \in w[p].todo /\ <<c, s>> \in w[p].todo => r = s
        /\ w[p].at \in Issuing => \A r \in Row : <<w[p].cert, r>> \notin w[p].todo

AloneInv == \A c \in Certs \ overlapped : \A p, q \in Workers : Has(p, c) /\ Has(q, c) => p = q

\* ... a key never parts with its certificate, nor exceeds the latest generation; ...
Paired(r, c) == r.key = r.pem /\ r.pem <= issued[c]
PairInv ==
    /\ \A c \in Certs : \A r \in row[c] : Paired(r, c)
    /\ \A p \in Workers :
        /\ \A c \in Certs, r \in Row : <<c, r>> \in w[p].todo => Paired(r, c)
        /\ w[p].at \in Issuing => Paired(w[p].copy, w[p].cert)
        /\ w[p].at = "save" => w[p].got <= issued[w[p].cert]

\* ... and a copy is as new as the row, and what was just issued is the newest.
FreshInv ==
    \A c \in Certs \ overlapped, p \in Workers :
        /\ \A r \in Row : <<c, r>> \in w[p].todo => \A x \in row[c] : x.pem = r.pem
        /\ w[p].at \in Issuing /\ w[p].cert = c => \A x \in row[c] : x.pem = w[p].copy.pem
        /\ w[p].at = "save" /\ w[p].cert = c => w[p].got = issued[c]

IInv ==
    /\ TypeOK /\ RestInv /\ EnvInv /\ LeaseInv /\ UnservedIsDue
    /\ OwnInv /\ AloneInv /\ PairInv /\ FreshInv

-----------------------------------------------------------------------------
\* The steps of worker p.
Acts(p) ==
    \/ LeaseUpdate(p) \/ LeaseInsert(p) \/ ListDue(p) \/ NextDue(p)
    \/ Mark(p) \/ Account(p) \/ Register(p) \/ DnsProvider(p) \/ Present(p) \/ Order(p)
    \/ Save(p) \/ SaveFailure(p)
    \/ p \in Calls /\ \E c \in Certs : RenewCert(p, c) \/ CreateCert(p, c)

(* The steps of the specification.                                         *)
LEMMA Steps ==
    ASSUME [Next]_vars
    PROVE  \/ \E p \in Workers : Acts(p)
           \/ \E c \in Certs : DeleteCert(c) \/ Ages(c)
           \/ LeaseExpires
           \/ \E i \in Instances : Crash(i)
           \/ UNCHANGED vars
<1>1. CASE UNCHANGED vars
  BY <1>1
<1>2. CASE Next
  <2>1. ASSUME NEW p \in Workers, LeaseUpdate(p) \/ Round(p) \/ Obtains(p) PROVE Acts(p)
    BY <2>1 DEF Round, Obtains, Acts
  <2>2. ASSUME NEW p \in Calls, NEW c \in Certs, RenewCert(p, c) \/ CreateCert(p, c)
        PROVE  p \in Workers /\ Acts(p)
    BY <2>2 DEF Acts, Workers
  <2>. QED
    BY <1>2, <2>1, <2>2 DEF Next
<1>. QED
  BY <1>1, <1>2

(* The records of a worker at rest and of no copy.                         *)
LEMMA RestTypes == AtRest \in Worker /\ NoCopy \in Row
<1>1. (CHOOSE c \in Certs : TRUE) \in Certs
  BY CertificatesAssumption
<1>2. NoCopy \in Row
  BY CertificatesAssumption DEF NoCopy, Row, Statuses
<1>. QED
  BY <1>1, <1>2, CertificatesAssumption DEF AtRest, Worker, Places

(* A worker's step changes what it has in hand, and nobody else's.         *)
LEMMA OwnHand ==
    ASSUME TypeOK, NEW p \in Workers, Acts(p)
    PROVE  w' \in [Workers -> Worker] /\ \A q \in Workers \ {p} : w'[q] = w[q]
<1>. DEFINE Goal == w' \in [Workers -> Worker] /\ \A q \in Workers \ {p} : w'[q] = w[q]
<1>0. w \in [Workers -> Worker]
  BY DEF TypeOK
<1>1. ASSUME NEW v \in Worker, w' = [w EXCEPT ![p] = v] PROVE Goal
  BY <1>0, <1>1
<1>2. ASSUME NEW place \in Places, Goes(p, place) PROVE Goal
  <2>1. [w[p] EXCEPT !.at = place] \in Worker
    BY <1>0 DEF Worker
  <2>. QED
    BY <1>0, <1>2 DEF Goes, Worker
<1>3. CASE Rests(p)
  BY <1>1, <1>3, RestTypes DEF Rests
<1>4. ASSUME NEW c \in Certs, NEW r \in Row, NEW rest \in SUBSET (Certs \X Row), Begins(p, c, r, rest)
      PROVE  Goal
  <2>. DEFINE v == [[[[w[p] EXCEPT !.at = "mark"] EXCEPT !.cert = c] EXCEPT !.copy = r] EXCEPT !.todo = rest]
  <2>1. v \in Worker
    BY <1>0 DEF Worker, Places
  <2>2. w' = [w EXCEPT ![p] = v]
    BY <1>0, <1>4 DEF Begins
  <2>. HIDE DEF v
  <2>. QED
    BY <1>1, <2>1, <2>2
<1>5. CASE Returns(p)
  <2>1. [AtRest EXCEPT !.at = "next", !.todo = w[p].todo] \in Worker
    BY <1>0, RestTypes DEF Worker, Places
  <2>. QED
    BY <1>1, <1>5, <2>1, RestTypes DEF Returns
<1>6. CASE LeaseUpdate(p) \/ LeaseInsert(p)
  <2>1. "list" \in Places /\ "leaseInsert" \in Places
    BY DEF Places
  <2>2. Goes(p, "list") \/ Goes(p, "leaseInsert") \/ Rests(p)
    BY <1>6 DEF LeaseUpdate, LeaseInsert
  <2>. QED
    BY <1>2, <1>3, <2>1, <2>2
<1>7. CASE ListDue(p)
  <2>1. ASSUME w' = [w EXCEPT ![p].at = "next",
                              ![p].todo = {cr \in Certs \X Row : cr[2] \in row[cr[1]] /\ Due(cr[1], cr[2])}]
        PROVE  Goal
    <3>. DEFINE due == {cr \in Certs \X Row : cr[2] \in row[cr[1]] /\ Due(cr[1], cr[2])}
    <3>1. due \in SUBSET (Certs \X Row)
      OBVIOUS
    <3>. HIDE DEF due
    <3>2. [w[p] EXCEPT !.at = "next", !.todo = due] \in Worker
      BY <1>0, <3>1 DEF Worker, Places
    <3>3. w' = [w EXCEPT ![p] = [w[p] EXCEPT !.at = "next", !.todo = due]]
      BY <1>0, <2>1 DEF due, Worker
    <3>. QED
      BY <1>1, <3>2, <3>3
  <2>. QED
    BY <1>3, <1>7, <2>1 DEF ListDue
<1>8. CASE NextDue(p)
  <2>1. ASSUME NEW cr \in w[p].todo, Begins(p, cr[1], cr[2], w[p].todo \ {cr}) PROVE Goal
    <3>1. cr[1] \in Certs /\ cr[2] \in Row /\ w[p].todo \ {cr} \in SUBSET (Certs \X Row)
      BY <1>0 DEF Worker
    <3>. QED
      BY <1>4, <2>1, <3>1
  <2>2. (\E cr \in w[p].todo : Begins(p, cr[1], cr[2], w[p].todo \ {cr})) \/ Rests(p)
    BY <1>8 DEF NextDue
  <2>. QED
    BY <1>3, <2>1, <2>2
<1>9. CASE Mark(p)
  <2>1. [w[p].copy EXCEPT !.status = "pending"] \in Row
    BY <1>0 DEF Worker, Row, Statuses
  <2>. QED
    BY <1>0, <1>9, <2>1 DEF Mark, Worker, Places
<1>10. CASE Account(p) \/ Register(p) \/ DnsProvider(p) \/ Present(p)
  BY <1>2, <1>10 DEF Account, Register, DnsProvider, Present, Places
<1>11. CASE Order(p)
  <2>1. CASE w' = [w EXCEPT ![p].at = "save", ![p].got = issued[w[p].cert] + 1]
             /\ issued[w[p].cert] < MaxIssued
    <3>1. w[p].cert \in Certs
      BY <1>0 DEF Worker
    <3>2. issued[w[p].cert] + 1 \in 0..MaxIssued
      BY <2>1, <3>1, CertificatesAssumption DEF TypeOK
    <3>. QED
      BY <1>0, <2>1, <3>2 DEF Worker, Places
  <2>. QED
    BY <1>2, <1>11, <2>1 DEF Order, Ordered, Places
<1>12. CASE Save(p) \/ SaveFailure(p)
  BY <1>5, <1>12 DEF Save, SaveFailure
<1>13. ASSUME NEW c \in Certs, RenewCert(p, c) \/ CreateCert(p, c) PROVE Goal
  <2>1. {} \in SUBSET (Certs \X Row) /\ row[c] \subseteq Row
    BY DEF TypeOK
  <2>. QED
    BY <1>4, <1>13, <2>1, RestTypes DEF RenewCert, CreateCert
<1>. QED
  BY <1>6, <1>7, <1>8, <1>9, <1>10, <1>11, <1>12, <1>13 DEF Acts

(* What a worker in Obtain writes has the type of a row, and Written       *)
(* leaves at most one (UpdateCertificate: the id is the primary key).      *)
LEMMA WrittenTypes ==
    ASSUME TypeOK, NEW c, NEW r \in Row
    PROVE  Written(c, r) \in [Certs -> {{}} \cup {{x} : x \in Row}]
BY DEF TypeOK, Written

(* Types are inductive.                                                    *)
LEMMA TypeStep ==
    ASSUME TypeOK, [Next]_vars
    PROVE  TypeOK'
<1>. DEFINE Tables == /\ row' \in [Certs -> {{}} \cup {{r} : r \in Row}]
                      /\ aged' \subseteq Certs \X (1..MaxIssued)
                      /\ issued' \in [Certs -> 0..MaxIssued]
            Election == lease' \in Instances \cup {Nobody} /\ current' \in BOOLEAN /\ account' \in BOOLEAN
            Process == /\ envMu' \in [Instances -> Workers \cup {Nobody}]
                       /\ env' \in [Instances -> Workers \cup {Nobody}]
                       /\ tokens' \in [Instances -> SUBSET Workers]
            Counts == calls' \in 0..MaxCalls /\ faults' \in 0..MaxFaults
            Ghosts == overlapped' \subseteq Certs /\ interrupted' \subseteq Certs /\ lapsed' \in BOOLEAN
            Goal == dns' \subseteq Certs /\ Tables /\ Election /\ Process /\ Counts /\ Ghosts
<1>. USE CertificatesAssumption DEF dbVars, procVars, ghostVars
<1>1. ASSUME NEW p \in Workers, Acts(p) PROVE Goal
  <2>0. w[p] \in Worker /\ w[p].cert \in Certs /\ w[p].copy \in Row /\ w[p].got \in 0..MaxIssued
        /\ On[p] \in Instances
    BY DEF TypeOK, Worker
  <2>1. dns' = dns
    BY <1>1, Zenon DEF Acts, LeaseUpdate, LeaseInsert, ListDue, NextDue, Mark, Account, Register, DnsProvider,
       Present, Order, Save, SaveFailure, RenewCert, CreateCert, dbVars
  <2>2. CASE LeaseUpdate(p) \/ LeaseInsert(p)
    BY <2>0, <2>1, <2>2 DEF LeaseUpdate, LeaseInsert, TypeOK
  <2>3. CASE ListDue(p)
    BY <2>1, <2>3 DEF ListDue, Fails, TypeOK
  <2>4. CASE NextDue(p)
    <3>1. overlapped' \subseteq Certs
      <4>1. ASSUME NEW cr \in w[p].todo, Begins(p, cr[1], cr[2], w[p].todo \ {cr})
            PROVE  overlapped' \subseteq Certs
        <5>1. cr[1] \in Certs
          BY <2>0 DEF Worker
        <5>. QED
          BY <4>1, <5>1 DEF Begins, TypeOK
      <4>2. (\E cr \in w[p].todo : Begins(p, cr[1], cr[2], w[p].todo \ {cr})) \/ UNCHANGED overlapped
        BY <2>4 DEF NextDue
      <4>. QED
        BY <4>1, <4>2 DEF TypeOK
    <3>. QED
      BY <2>1, <2>4, <3>1 DEF NextDue, TypeOK
  <2>5. CASE Mark(p)
    <3>1. [w[p].copy EXCEPT !.status = "pending"] \in Row
      BY <2>0 DEF Row, Statuses
    <3>2. row' \in [Certs -> {{}} \cup {{r} : r \in Row}]
      BY <2>5, <3>1, WrittenTypes DEF Mark, TypeOK
    <3>. QED
      BY <2>1, <2>5, <3>2 DEF Mark, Fails, TypeOK
  <2>6. CASE Account(p) \/ Register(p)
    <3>1. faults' \in 0..MaxFaults
      BY <2>6 DEF Account, Register, Fails, TypeOK
    <3>2. account' = account \/ account' = TRUE
      BY <2>6, Zenon DEF Account, Register
    <3>3. account' \in BOOLEAN
      BY <3>2 DEF TypeOK
    <3>. QED
      BY <2>1, <2>6, <3>1, <3>3 DEF Account, Register, TypeOK
  <2>7. CASE DnsProvider(p) \/ Present(p)
    BY <2>0, <2>1, <2>7 DEF DnsProvider, Present, Fails, Inst, TypeOK
  <2>8. CASE Order(p)
    <3>1. issued' \in [Certs -> 0..MaxIssued] /\ faults' \in 0..MaxFaults
      <4>1. CASE issued[w[p].cert] < MaxIssued /\ issued' = [issued EXCEPT ![w[p].cert] = @ + 1]
                 /\ faults' = faults
        BY <2>0, <4>1 DEF TypeOK
      <4>2. CASE issued' = issued /\ (faults' = faults \/ (faults < MaxFaults /\ faults' = faults + 1))
        BY <4>2 DEF TypeOK
      <4>. QED
        BY <2>8, <4>1, <4>2 DEF Order, Ordered
    <3>2. Process
      BY <2>0, <2>8 DEF Order, Inst, TypeOK
    <3>. QED
      BY <2>1, <2>8, <3>1, <3>2 DEF Order, TypeOK
  <2>9. CASE Save(p) \/ SaveFailure(p)
    <3>1. [status |-> "valid", pem |-> w[p].got, key |-> w[p].got] \in Row
          /\ [w[p].copy EXCEPT !.status = "failed"] \in Row
      BY <2>0 DEF Row, Statuses
    <3>2. row' \in [Certs -> {{}} \cup {{r} : r \in Row}]
      <4>1. \/ row' = row
            \/ row' = Written(w[p].cert, [status |-> "valid", pem |-> w[p].got, key |-> w[p].got])
            \/ row' = Written(w[p].cert, [w[p].copy EXCEPT !.status = "failed"])
        BY <2>9 DEF Save, SaveFailure
      <4>2. row \in [Certs -> {{}} \cup {{r} : r \in Row}]
        BY DEF TypeOK
      <4>3. \A r \in Row : Written(w[p].cert, r) \in [Certs -> {{}} \cup {{x} : x \in Row}]
        BY WrittenTypes
      <4>4. CASE row' = row
        BY <4>2, <4>4
      <4>5. CASE row' = Written(w[p].cert, [status |-> "valid", pem |-> w[p].got, key |-> w[p].got])
        BY <3>1, <4>3, <4>5, Zenon
      <4>6. CASE row' = Written(w[p].cert, [w[p].copy EXCEPT !.status = "failed"])
        BY <3>1, <4>3, <4>6, Zenon
      <4>. QED
        BY <4>1, <4>4, <4>5, <4>6
    <3>. QED
      BY <2>0, <2>1, <2>9, <3>2 DEF Save, SaveFailure, CutShort, Ended, Fails, TypeOK
  <2>10. ASSUME NEW c \in Certs, RenewCert(p, c) \/ CreateCert(p, c) PROVE Goal
    <3>1. row' \in [Certs -> {{}} \cup {{r} : r \in Row}]
      BY <2>10, RestTypes DEF RenewCert, CreateCert, TypeOK
    <3>2. overlapped' \subseteq Certs
      BY <2>10 DEF RenewCert, CreateCert, Begins, TypeOK
    <3>3. calls' \in 0..MaxCalls
      BY <2>10 DEF RenewCert, CreateCert, Called, TypeOK
    <3>. QED
      BY <2>1, <2>10, <3>1, <3>2, <3>3 DEF RenewCert, CreateCert, TypeOK
  <2>. QED
    BY <1>1, <2>2, <2>3, <2>4, <2>5, <2>6, <2>7, <2>8, <2>9, <2>10 DEF Acts
<1>2. ASSUME NEW c \in Certs, DeleteCert(c) \/ Ages(c) PROVE Goal /\ w' = w
  <2>1. row' \in [Certs -> {{}} \cup {{r} : r \in Row}] /\ calls' \in 0..MaxCalls
    BY <1>2 DEF DeleteCert, Ages, Called, TypeOK
  <2>2. aged' \subseteq Certs \X (1..MaxIssued)
    <3>1. row[c] \subseteq Row
      BY DEF TypeOK
    <3>2. ASSUME NEW r \in row[c], r.pem > 0 PROVE <<c, r.pem>> \in Certs \X (1..MaxIssued)
      <4>1. r.pem \in 1..MaxIssued
        BY <3>1, <3>2 DEF Row
      <4>. QED
        BY <4>1
    <3>3. aged \subseteq Certs \X (1..MaxIssued)
      BY DEF TypeOK
    <3>4. aged' = aged \/ \E r \in row[c] : r.pem > 0 /\ aged' = aged \cup {<<c, r.pem>>}
      BY <1>2 DEF DeleteCert, Ages
    <3>. QED
      BY <3>2, <3>3, <3>4
  <2>. QED
    BY <1>2, <2>1, <2>2 DEF DeleteCert, Ages, TypeOK
<1>3. ASSUME LeaseExpires PROVE Goal /\ w' = w
  <2>1. lapsed' \in BOOLEAN
    <3>. DEFINE held == \E p \in Loops : On[p] = lease /\ InRound(p)
    <3>1. lapsed \in BOOLEAN /\ lapsed' = (lapsed \/ held)
      BY <1>3 DEF LeaseExpires, TypeOK
    <3>. HIDE DEF held
    <3>. QED
      BY <3>1
  <2>2. current' \in BOOLEAN
    BY <1>3, Zenon DEF LeaseExpires
  <2>4. faults' \in 0..MaxFaults
    BY <1>3 DEF LeaseExpires, Fails, TypeOK
  <2>3. UNCHANGED <<dns, row, aged, issued, lease, account, procVars, w, calls, overlapped, interrupted>>
    BY <1>3 DEF LeaseExpires
  <2>. QED
    BY <2>1, <2>2, <2>3, <2>4 DEF TypeOK
<1>4. ASSUME NEW i \in Instances, Crash(i) PROVE Goal /\ w' \in [Workers -> Worker]
  BY <1>4, RestTypes DEF Crash, Fails, TypeOK, Worker
<1>5. ASSUME UNCHANGED vars PROVE Goal /\ w' = w
  BY <1>5 DEF vars, TypeOK
<1>6. Goal /\ w' \in [Workers -> Worker]
  <2>. HIDE DEF Goal
  <2>1. w \in [Workers -> Worker]
    BY DEF TypeOK
  <2>. QED
    BY <1>1, <1>2, <1>3, <1>4, <1>5, <2>1, OwnHand, Steps
<1>. QED
  BY <1>6 DEF TypeOK

-----------------------------------------------------------------------------
(***************************************************************************)
(* What a worker's step does to what it has in hand, to the row and to the *)
(* generations: it seeks work, lists what is due, takes up a certificate,  *)
(* goes on in Obtain, or returns from it.                                  *)
(***************************************************************************)
Seeks(p) ==
    /\ w[p].at \in {"idle", "leaseInsert", "list", "next"}
    /\ w'[p].at \in {"idle", "leaseInsert", "list"} /\ w'[p].todo = {}
    /\ UNCHANGED <<row, aged, issued, overlapped, interrupted>>

Lists(p) ==
    /\ w[p].at = "list" /\ w'[p].at = "next"
    /\ w'[p].todo = {cr \in Certs \X Row : cr[2] \in row[cr[1]] /\ Due(cr[1], cr[2])}
    /\ overlapped' = overlapped \cup {c \in Certs : Shared(c, p)}
    /\ UNCHANGED <<row, aged, issued, interrupted>>

Takes(p, c, r) ==
    /\ w[p].at \in {"next", "idle"} /\ w'[p].at = "mark" /\ w'[p].cert = c /\ w'[p].copy = r
    /\ w'[p].todo \subseteq w[p].todo /\ \A x \in Row : <<c, x>> \notin w'[p].todo
    /\ overlapped' = overlapped \cup {d \in {c} : Shared(d, p)}
    /\ UNCHANGED <<aged, issued, interrupted>>
    /\ \/ <<c, r>> \in w[p].todo /\ row' = row
       \/ r \in row[c] /\ row' = row
       \/ row[c] = {} /\ r = NoCopy /\ row' = [row EXCEPT ![c] = {NoCopy}]

Alike(r, s) == r.pem = s.pem /\ r.key = s.key

Stays(p) ==
    /\ w[p].at \in Issuing \ {"save", "saveFailure"} /\ w'[p].at \in Issuing /\ w'[p].cert = w[p].cert
    /\ w'[p].todo = w[p].todo /\ Alike(w'[p].copy, w[p].copy)
    /\ UNCHANGED <<aged, overlapped, interrupted>>
    /\ \/ row' = row
       \/ \E r \in Row : Alike(r, w[p].copy) /\ row' = Written(w[p].cert, r)
    /\ \/ w'[p].at # "save" /\ issued' = issued
       \/ /\ issued' = [issued EXCEPT ![w[p].cert] = @ + 1]
          /\ w'[p].got = issued[w[p].cert] + 1

Ends(p) ==
    /\ w[p].at \in {"save", "saveFailure"} /\ w'[p].at \in {"next", "idle"}
    /\ w'[p].todo = w[p].todo
    /\ UNCHANGED <<aged, issued, overlapped>>
    /\ \/ row' = row /\ CutShort(p)
       \/ /\ Ended(p)
          /\ \E r \in Row :
                /\ row' = Written(w[p].cert, r)
                /\ r.status \in {"valid", "failed"}
                /\ IF w[p].at = "save" THEN r.pem = w[p].got /\ r.key = w[p].got
                   ELSE Alike(r, w[p].copy)

(* What a step of a worker does with the copy it holds.                    *)
LEMMA Hand ==
    ASSUME TypeOK, RestInv, OwnInv, NEW p \in Workers, Acts(p)
    PROVE  \/ Seeks(p) \/ Lists(p) \/ Stays(p) \/ Ends(p)
           \/ \E c \in Certs, r \in Row : Takes(p, c, r)
<1>. USE DEF dbVars, ghostVars
<1>0. w \in [Workers -> Worker] /\ w[p] \in Worker /\ w[p].cert \in Certs
  BY DEF TypeOK, Worker
<1>1. ASSUME NEW place, Goes(p, place)
      PROVE  w'[p].at = place /\ w'[p].cert = w[p].cert /\ w'[p].todo = w[p].todo
             /\ w'[p].copy = w[p].copy
  BY <1>0, <1>1 DEF Goes, Worker
<1>2. ASSUME Rests(p) PROVE w'[p].at = "idle" /\ w'[p].todo = {}
  BY <1>0, <1>2 DEF Rests, AtRest
<1>3. ASSUME LeaseUpdate(p) \/ LeaseInsert(p) PROVE Seeks(p)
  BY <1>1, <1>2, <1>3 DEF LeaseUpdate, LeaseInsert, At, RestInv, Seeks
<1>4. ASSUME ListDue(p) PROVE Seeks(p) \/ Lists(p)
  <2>1. CASE Rests(p) /\ UNCHANGED overlapped
    BY <1>2, <1>4, <2>1 DEF ListDue, At, Seeks
  <2>2. CASE /\ w' = [w EXCEPT ![p].at = "next",
                ![p].todo = {cr \in Certs \X Row : cr[2] \in row[cr[1]] /\ Due(cr[1], cr[2])}]
             /\ overlapped' = overlapped \cup {c \in Certs : Shared(c, p)}
    BY <1>0, <1>4, <2>2 DEF ListDue, At, Lists, Worker
  <2>. QED
    BY <1>4, <2>1, <2>2 DEF ListDue
<1>5. ASSUME NEW c \in Certs, NEW r \in Row, NEW rest, Begins(p, c, r, rest)
      PROVE  /\ w'[p].at = "mark" /\ w'[p].cert = c /\ w'[p].copy = r /\ w'[p].todo = rest
             /\ overlapped' = overlapped \cup {d \in {c} : Shared(d, p)}
  BY <1>0, <1>5 DEF Begins, Worker
<1>6. ASSUME NextDue(p) PROVE Seeks(p) \/ \E c \in Certs, r \in Row : Takes(p, c, r)
  <2>1. CASE Rests(p) /\ UNCHANGED overlapped
    BY <1>2, <1>6, <2>1 DEF NextDue, At, Seeks
  <2>2. ASSUME NEW cr \in w[p].todo, Begins(p, cr[1], cr[2], w[p].todo \ {cr})
        PROVE  \E c \in Certs, r \in Row : Takes(p, c, r)
    <3>1. cr[1] \in Certs /\ cr[2] \in Row /\ cr = <<cr[1], cr[2]>>
      BY <1>0 DEF Worker
    <3>2. \A x \in Row : <<cr[1], x>> \notin w[p].todo \ {cr}
      BY <3>1 DEF OwnInv
    <3>3. At(p, "next") /\ UNCHANGED <<dbVars, interrupted>>
      BY <1>6 DEF NextDue
    <3>4. Takes(p, cr[1], cr[2])
      BY <1>5, <2>2, <3>1, <3>2, <3>3 DEF At, Takes
    <3>. QED
      BY <3>1, <3>4
  <2>. QED
    BY <1>6, <2>1, <2>2 DEF NextDue
<1>7. ASSUME NEW c \in Certs, p \in Calls, RenewCert(p, c) \/ CreateCert(p, c)
      PROVE  \E r \in Row : Takes(p, c, r)
  <2>1. row[c] \subseteq Row
    BY DEF TypeOK
  <2>2. CASE RenewCert(p, c)
    <3>1. PICK r \in row[c] : Begins(p, c, r, {})
      BY <2>2 DEF RenewCert
    <3>2. At(p, "idle") /\ UNCHANGED <<dbVars, interrupted>>
      BY <2>2 DEF RenewCert
    <3>3. Takes(p, c, r)
      BY <1>5, <2>1, <3>1, <3>2 DEF At, Takes
    <3>. QED
      BY <2>1, <3>3
  <2>3. CASE CreateCert(p, c)
    <3>1. Begins(p, c, NoCopy, {}) /\ At(p, "idle") /\ UNCHANGED <<aged, issued, interrupted>>
          /\ row[c] = {} /\ row' = [row EXCEPT ![c] = {NoCopy}]
      BY <2>3 DEF CreateCert
    <3>2. Takes(p, c, NoCopy)
      BY <1>5, <3>1, RestTypes DEF At, Takes
    <3>. QED
      BY <3>2, RestTypes
  <2>. QED
    BY <1>7, <2>2, <2>3
<1>8. ASSUME Mark(p) PROVE Stays(p)
  <2>. DEFINE r == [w[p].copy EXCEPT !.status = "pending"]
  <2>1. r \in Row /\ Alike(r, w[p].copy)
    BY <1>0 DEF Worker, Row, Statuses, Alike
  <2>2. w'[p].at = "account" /\ w'[p].cert = w[p].cert /\ w'[p].todo = w[p].todo /\ w'[p].copy = r
    BY <1>0, <1>8 DEF Mark, Worker
  <2>3. row' = row \/ row' = Written(w[p].cert, r)
    BY <1>8 DEF Mark
  <2>4. At(p, "mark") /\ UNCHANGED <<aged, issued, overlapped, interrupted>>
    BY <1>8 DEF Mark
  <2>. HIDE DEF r
  <2>. QED
    BY <2>1, <2>2, <2>3, <2>4 DEF Stays, At, Issuing
<1>9. ASSUME Account(p) \/ Register(p) \/ DnsProvider(p) \/ Present(p) PROVE Stays(p)
  <2>1. w[p].at \in {"account", "register", "challenge"}
    BY <1>9 DEF Account, Register, DnsProvider, Present, At
  <2>2. \E place \in {"register", "challenge", "order", "saveFailure"} : Goes(p, place)
    BY <1>9 DEF Account, Register, DnsProvider, Present
  <2>3. UNCHANGED <<row, aged, issued, overlapped, interrupted>>
    BY <1>9 DEF Account, Register, DnsProvider, Present
  <2>. QED
    BY <1>1, <2>1, <2>2, <2>3 DEF Stays, Alike, Issuing
<1>10. ASSUME Order(p) PROVE Stays(p)
  <2>1. At(p, "order") /\ UNCHANGED <<row, aged, overlapped, interrupted>>
    BY <1>10 DEF Order
  <2>2. CASE issued' = [issued EXCEPT ![w[p].cert] = @ + 1]
             /\ w' = [w EXCEPT ![p].at = "save", ![p].got = issued[w[p].cert] + 1]
    <3>1. /\ w'[p].at = "save" /\ w'[p].cert = w[p].cert /\ w'[p].todo = w[p].todo
          /\ w'[p].copy = w[p].copy /\ w'[p].got = issued[w[p].cert] + 1
      BY <1>0, <2>2 DEF Worker
    <3>. QED
      BY <2>1, <2>2, <3>1 DEF Stays, Alike, Issuing, At
  <2>3. CASE Goes(p, "saveFailure") /\ UNCHANGED issued
    BY <1>1, <2>1, <2>3 DEF Stays, Alike, Issuing, At
  <2>. QED
    BY <1>10, <2>2, <2>3 DEF Order, Ordered
<1>11. ASSUME Save(p) \/ SaveFailure(p) PROVE Ends(p)
  <2>1. w'[p].at \in {"next", "idle"} /\ w'[p].todo = w[p].todo
    <3>1. Returns(p)
      BY <1>11 DEF Save, SaveFailure
    <3>2. p \in Loops \/ w[p].todo = {}
      BY DEF RestInv, Workers
    <3>. QED
      BY <1>0, <3>1, <3>2 DEF Returns, AtRest
  <2>2. UNCHANGED <<aged, issued, overlapped>> /\ w[p].at \in {"save", "saveFailure"}
    BY <1>11 DEF Save, SaveFailure, At
  <2>. DEFINE r == [status |-> "valid", pem |-> w[p].got, key |-> w[p].got]
              s == [w[p].copy EXCEPT !.status = "failed"]
  <2>3. r \in Row /\ s \in Row /\ Alike(s, w[p].copy) /\ r.status = "valid" /\ s.status = "failed"
        /\ r.pem = w[p].got /\ r.key = w[p].got
    BY <1>0 DEF Worker, Row, Statuses, Alike
  <2>4. \/ row' = row /\ CutShort(p)
        \/ At(p, "save") /\ row' = Written(w[p].cert, r) /\ Ended(p)
        \/ At(p, "saveFailure") /\ row' = Written(w[p].cert, s) /\ Ended(p)
    BY <1>11 DEF Save, SaveFailure
  <2>. HIDE DEF r, s
  <2>. QED
    BY <2>1, <2>2, <2>3, <2>4 DEF Ends, At
<1>. QED
  BY <1>3, <1>4, <1>6, <1>7, <1>8, <1>9, <1>10, <1>11 DEF Acts

(* What the other steps do to them: a crash leaves its workers at rest.    *)
LEMMA Others ==
    ASSUME TypeOK
    PROVE  /\ \A i \in Instances : Crash(i) =>
                /\ \A q \in Workers : w'[q] = w[q] \/ (On[q] = i /\ w'[q].at = "idle" /\ w'[q].todo = {})
                /\ UNCHANGED <<row, aged, issued, overlapped>>
           /\ LeaseExpires => UNCHANGED <<w, row, aged, issued, overlapped, interrupted>>
           /\ \A c \in Certs : DeleteCert(c) =>
                /\ row' = [row EXCEPT ![c] = {}]
                /\ UNCHANGED <<w, aged, issued, overlapped, interrupted>>
           /\ \A c \in Certs : Ages(c) =>
                /\ aged \subseteq aged'
                /\ UNCHANGED <<w, row, issued, overlapped, interrupted>>
<1>1. ASSUME NEW i \in Instances, Crash(i)
      PROVE  /\ \A q \in Workers : w'[q] = w[q] \/ (On[q] = i /\ w'[q].at = "idle" /\ w'[q].todo = {})
             /\ UNCHANGED <<row, aged, issued, overlapped>>
  BY <1>1 DEF Crash, dbVars, AtRest
<1>2. ASSUME LeaseExpires PROVE UNCHANGED <<w, row, aged, issued, overlapped, interrupted>>
  BY <1>2 DEF LeaseExpires
<1>3. ASSUME NEW c \in Certs, DeleteCert(c)
      PROVE  row' = [row EXCEPT ![c] = {}] /\ UNCHANGED <<w, aged, issued, overlapped, interrupted>>
  BY <1>3 DEF DeleteCert, ghostVars
<1>4. ASSUME NEW c \in Certs, Ages(c)
      PROVE  aged \subseteq aged' /\ UNCHANGED <<w, row, issued, overlapped, interrupted>>
  BY <1>4 DEF Ages, ghostVars
<1>. QED
  BY <1>1, <1>2, <1>3, <1>4

(* A worker between two rounds has no list.                                *)
LEMMA RestStep ==
    ASSUME TypeOK, RestInv, OwnInv, [Next]_vars
    PROVE  RestInv'
<1>1. ASSUME NEW p \in Workers, Acts(p) PROVE RestInv'
  <2>1. \A q \in Workers \ {p} : w'[q] = w[q]
    BY <1>1, OwnHand
  <2>2. w'[p].at \in {"idle", "leaseInsert", "list"} => w'[p].todo = {}
    <3>1. CASE Seeks(p)
      BY <3>1 DEF Seeks
    <3>2. CASE Lists(p)
      BY <3>2 DEF Lists
    <3>3. CASE Stays(p)
      BY <3>3 DEF Stays, Issuing
    <3>4. CASE Ends(p)
      <4>1. p \in Loops => w'[p].at = "next"
        <5>1. Returns(p) \/ w[p].at \notin {"save", "saveFailure"}
          BY <1>1 DEF Acts, Save, SaveFailure, LeaseUpdate, LeaseInsert, ListDue, NextDue, Mark, Account,
             Register, DnsProvider, Present, Order, RenewCert, CreateCert, At
        <5>2. w \in [Workers -> Worker]
          BY DEF TypeOK
        <5>3. Returns(p) /\ p \in Loops => w'[p].at = "next"
          BY <5>2 DEF Returns, AtRest
        <5>. QED
          BY <3>4, <5>1, <5>3 DEF Ends
      <4>. QED
        BY <3>4, <4>1 DEF Ends, RestInv, Workers
    <3>5. ASSUME NEW c \in Certs, NEW r \in Row, Takes(p, c, r)
          PROVE  w'[p].at = "mark"
      BY <3>5 DEF Takes
    <3>. QED
      BY <1>1, <3>1, <3>2, <3>3, <3>4, <3>5, Hand
  <2>3. p \in Calls => w'[p].at \notin {"list", "leaseInsert", "next"} /\ w'[p].todo = {}
    <3>. SUFFICES ASSUME p \in Calls
                  PROVE  w'[p].at \notin {"list", "leaseInsert", "next"} /\ w'[p].todo = {}
      OBVIOUS
    <3>0. w[p].at \notin {"list", "leaseInsert", "next"} /\ w[p].todo = {} /\ p \notin Loops
      BY CertificatesAssumption DEF RestInv
    <3>1. ~ (LeaseUpdate(p) \/ LeaseInsert(p) \/ ListDue(p) \/ NextDue(p))
      BY <3>0 DEF LeaseUpdate, LeaseInsert, ListDue, NextDue, At
    <3>2. w \in [Workers -> Worker]
      BY DEF TypeOK
    <3>3. CASE Save(p) \/ SaveFailure(p)
      BY <3>0, <3>2, <3>3 DEF Save, SaveFailure, Returns, AtRest
    <3>4. CASE Mark(p) \/ Account(p) \/ Register(p) \/ DnsProvider(p) \/ Present(p) \/ Order(p)
      <4>1. w[p].at \notin {"list", "leaseInsert", "next", "idle", "save", "saveFailure"}
        BY <3>4 DEF Mark, Account, Register, DnsProvider, Present, Order, At
      <4>2. Stays(p)
        <5>1. ~Seeks(p)
          BY <4>1 DEF Seeks
        <5>2. ~Lists(p) /\ ~Ends(p)
          BY <4>1 DEF Lists, Ends
        <5>3. ASSUME NEW c \in Certs, NEW r \in Row, Takes(p, c, r) PROVE FALSE
          BY <4>1, <5>3 DEF Takes
        <5>. QED
          BY <1>1, <5>1, <5>2, <5>3, Hand
      <4>. QED
        BY <3>0, <4>2 DEF Stays, Issuing
    <3>5. ASSUME NEW c \in Certs, RenewCert(p, c) \/ CreateCert(p, c)
          PROVE  w'[p].at = "mark" /\ w'[p].todo = {}
      <4>1. PICK r \in row[c] \cup {NoCopy} : Begins(p, c, r, {})
        BY <3>5 DEF RenewCert, CreateCert
      <4>. QED
        BY <3>2, <4>1 DEF Begins, Worker
    <3>. QED
      BY <1>1, <3>1, <3>3, <3>4, <3>5 DEF Acts
  <2>. QED
    BY <2>1, <2>2, <2>3 DEF RestInv, Workers
<1>2. ASSUME NEW i \in Instances, Crash(i) PROVE RestInv'
  <2>1. \A q \in Workers : w'[q] = w[q] \/ (w'[q].at = "idle" /\ w'[q].todo = {})
    BY <1>2, Others
  <2>. QED
    BY <2>1 DEF RestInv, Workers
<1>3. CASE UNCHANGED w
  BY <1>3 DEF RestInv
<1>4. LeaseExpires \/ UNCHANGED vars \/ (\E c \in Certs : DeleteCert(c) \/ Ages(c)) => UNCHANGED w
  BY Others DEF vars
<1>. QED
  BY <1>1, <1>2, <1>3, <1>4, Steps

(* A worker with a copy has it in hand, or will take it from its list.     *)
LEMMA HasStep ==
    ASSUME TypeOK, NEW p \in Workers, NEW c \in Certs,
           Seeks(p) \/ Stays(p) \/ Ends(p) \/ \E d \in Certs \ {c}, r \in Row : Takes(p, d, r),
           Has(p, c)'
    PROVE  Has(p, c)
<1>1. CASE Seeks(p)
  BY <1>1 DEF Seeks, Has, Issuing
<1>2. CASE Stays(p)
  BY <1>2 DEF Stays, Has
<1>3. CASE Ends(p)
  BY <1>3 DEF Ends, Has, Issuing
<1>4. ASSUME NEW d \in Certs \ {c}, NEW r \in Row, Takes(p, d, r) PROVE Has(p, c)
  BY <1>4 DEF Takes, Has
<1>. QED
  BY <1>1, <1>2, <1>3, <1>4

(* A worker has one copy of a row at most.                                 *)
LEMMA OwnStep ==
    ASSUME TypeOK, RestInv, OwnInv, [Next]_vars
    PROVE  OwnInv'
<1>1. ASSUME NEW p \in Workers, Acts(p) PROVE OwnInv'
  <2>. DEFINE Own == /\ \A c \in Certs, r, s \in Row :
                            <<c, r>> \in w'[p].todo /\ <<c, s>> \in w'[p].todo => r = s
                     /\ w'[p].at \in Issuing => \A r \in Row : <<w'[p].cert, r>> \notin w'[p].todo
  <2>1. \A q \in Workers \ {p} : w'[q] = w[q]
    BY <1>1, OwnHand
  <2>2. ASSUME Seeks(p) PROVE Own
    BY <2>2 DEF Seeks
  <2>3. ASSUME Lists(p) PROVE Own
    <3>1. \A c \in Certs, r, s \in Row : r \in row[c] /\ s \in row[c] => r = s
      BY DEF TypeOK
    <3>. QED
      BY <2>3, <3>1 DEF Lists, Issuing
  <2>4. ASSUME Stays(p) PROVE Own
    BY <2>4 DEF Stays, OwnInv
  <2>5. ASSUME Ends(p) PROVE Own
    BY <2>5 DEF Ends, Issuing, OwnInv
  <2>6. ASSUME NEW c \in Certs, NEW r \in Row, Takes(p, c, r) PROVE Own
    BY <2>6 DEF Takes, OwnInv
  <2>7. Own
    <3>. HIDE DEF Own
    <3>. QED
      BY <1>1, <2>2, <2>3, <2>4, <2>5, <2>6, Hand
  <2>. QED
    BY <2>1, <2>7 DEF OwnInv
<1>2. ASSUME NEW i \in Instances, Crash(i) PROVE OwnInv'
  <2>1. \A q \in Workers : w'[q] = w[q] \/ (w'[q].at = "idle" /\ w'[q].todo = {})
    BY <1>2, Others
  <2>. QED
    BY <2>1 DEF OwnInv, Issuing
<1>3. CASE UNCHANGED w
  BY <1>3 DEF OwnInv
<1>4. LeaseExpires \/ UNCHANGED vars \/ (\E c \in Certs : DeleteCert(c) \/ Ages(c)) => UNCHANGED w
  BY Others DEF vars
<1>. QED
  BY <1>1, <1>2, <1>3, <1>4, Steps

(* Two workers have a copy of one row only where that was noted.           *)
LEMMA AloneStep ==
    ASSUME TypeOK, RestInv, OwnInv, AloneInv, [Next]_vars
    PROVE  AloneInv'
<1>1. ASSUME NEW p \in Workers, Acts(p), NEW c \in Certs \ overlapped', NEW q \in Workers, q # p,
             Has(p, c)', Has(q, c)'
      PROVE  FALSE
  <2>1. w'[q] = w[q]
    BY <1>1, OwnHand
  <2>2. Has(q, c)
    BY <1>1, <2>1 DEF Has
  <2>3. Shared(c, p)
    BY <1>1, <2>2 DEF Has, Shared
  <2>4. ASSUME Seeks(p) \/ Stays(p) \/ Ends(p) \/ \E d \in Certs \ {c}, r \in Row : Takes(p, d, r)
        PROVE  FALSE
    <3>1. Has(p, c)
      BY <1>1, <2>4, HasStep
    <3>2. c \notin overlapped
      BY <1>1, <2>4 DEF Seeks, Stays, Ends, Takes
    <3>. QED
      BY <1>1, <2>2, <3>1, <3>2 DEF AloneInv
  <2>5. ~Lists(p)
    BY <1>1, <2>3 DEF Lists
  <2>6. ASSUME NEW r \in Row, Takes(p, c, r) PROVE FALSE
    BY <1>1, <2>3, <2>6 DEF Takes
  <2>. QED
    BY <1>1, <2>4, <2>5, <2>6, Hand
<1>2. ASSUME NEW p \in Workers, Acts(p) PROVE AloneInv'
  <2>. SUFFICES ASSUME NEW c \in Certs \ overlapped', NEW q1 \in Workers, NEW q2 \in Workers,
                       Has(q1, c)', Has(q2, c)', q1 # q2
                PROVE  FALSE
    BY DEF AloneInv
  <2>1. q1 # p /\ q2 # p
    BY <1>1, <1>2
  <2>2. w'[q1] = w[q1] /\ w'[q2] = w[q2]
    BY <1>2, <2>1, OwnHand
  <2>3. overlapped \subseteq overlapped'
    <3>1. \A d \in Certs, r \in Row : Takes(p, d, r) => overlapped \subseteq overlapped'
      BY DEF Takes
    <3>2. Seeks(p) \/ Lists(p) \/ Stays(p) \/ Ends(p) => overlapped \subseteq overlapped'
      BY DEF Seeks, Lists, Stays, Ends
    <3>. QED
      BY <1>2, <3>1, <3>2, Hand
  <2>4. Has(q1, c) /\ Has(q2, c)
    BY <2>2 DEF Has
  <2>. QED
    BY <2>3, <2>4 DEF AloneInv
<1>3. ASSUME NEW i \in Instances, Crash(i) PROVE AloneInv'
  <2>1. \A q \in Workers : w'[q] = w[q] \/ (w'[q].at = "idle" /\ w'[q].todo = {})
    BY <1>3, Others
  <2>2. overlapped' = overlapped
    BY <1>3, Others
  <2>. QED
    <3>1. \A q \in Workers, c \in Certs : Has(q, c)' => Has(q, c)
      BY <2>1 DEF Has, Issuing
    <3>. QED
      BY <2>2, <3>1 DEF AloneInv
<1>4. CASE UNCHANGED <<w, overlapped>>
  BY <1>4 DEF AloneInv, Has
<1>5. LeaseExpires \/ UNCHANGED vars \/ (\E c \in Certs : DeleteCert(c) \/ Ages(c))
      => UNCHANGED <<w, overlapped>>
  BY Others DEF vars, ghostVars
<1>. QED
  BY <1>2, <1>3, <1>4, <1>5, Steps

(* A key never parts with its certificate, in the row or in a copy of it.  *)
LEMMA PairStep ==
    ASSUME TypeOK, RestInv, OwnInv, PairInv, [Next]_vars
    PROVE  PairInv'
<1>. DEFINE Rows == \A c \in Certs : \A r \in row'[c] : r.key = r.pem /\ r.pem <= issued'[c]
            Hands(p) == /\ \A c \in Certs, r \in Row : <<c, r>> \in w'[p].todo =>
                                r.key = r.pem /\ r.pem <= issued'[c]
                        /\ w'[p].at \in Issuing =>
                                /\ w'[p].copy.key = w'[p].copy.pem
                                /\ w'[p].copy.pem <= issued'[w'[p].cert]
                        /\ w'[p].at = "save" => w'[p].got <= issued'[w'[p].cert]
<1>0. SUFFICES Rows /\ \A p \in Workers : Hands(p)
  BY <1>0 DEF PairInv, Paired
<1>. USE DEF Paired
<1>t. /\ \A p \in Workers : w[p] \in Worker /\ w[p].cert \in Certs /\ w[p].copy \in Row
                              /\ w[p].got \in Nat /\ w[p].copy.pem \in Nat
      /\ \A c \in Certs : issued[c] \in Nat /\ row[c] \subseteq Row
      /\ \A r \in Row : r.pem \in Nat /\ r.key \in Nat
      /\ issued \in [Certs -> 0..MaxIssued]
  BY DEF TypeOK, Worker, Row
<1>1. ASSUME NEW p \in Workers, Acts(p) PROVE Rows /\ \A q \in Workers : Hands(q)
  <2>1. \A q \in Workers \ {p} : w'[q] = w[q]
    BY <1>1, OwnHand
  <2>2. \A c \in Certs : issued[c] <= issued'[c]
    <3>1. ASSUME Stays(p) PROVE \A c \in Certs : issued[c] <= issued'[c]
      BY <1>t, <3>1 DEF Stays
    <3>2. ASSUME issued' = issued PROVE \A c \in Certs : issued[c] <= issued'[c]
      BY <1>t, <3>2
    <3>3. Stays(p) \/ issued' = issued
      BY <1>1, Hand DEF Seeks, Lists, Ends, Takes
    <3>. QED
      BY <3>1, <3>2, <3>3
  <2>3. \A c \in Certs, r \in Row : Paired(r, c) => r.pem <= issued'[c]
    BY <1>t, <2>2, TypeStep DEF TypeOK
  <2>4. \A q \in Workers \ {p} : Hands(q)
    BY <1>t, <2>1, <2>2, TypeStep DEF PairInv, TypeOK
  <2>5. ASSUME row' = row PROVE Rows
    BY <1>t, <2>3, <2>5 DEF PairInv
  <2>6. ASSUME NEW r \in Row, row' = Written(w[p].cert, r), r.key = r.pem,
             r.pem <= issued'[w[p].cert]
      PROVE  Rows
    BY <1>t, <2>3, <2>6 DEF PairInv, Written, TypeOK
  <2>7. CASE Seeks(p) \/ Lists(p)
    <3>1. row' = row /\ issued' = issued /\ w'[p].at \notin Issuing
      BY <2>7 DEF Seeks, Lists, Issuing
    <3>2. \A c \in Certs, r \in Row : <<c, r>> \in w'[p].todo => r \in row[c]
      BY <2>7 DEF Seeks, Lists
    <3>3. Hands(p)
      BY <3>1, <3>2 DEF PairInv, Issuing
    <3>. QED
      BY <2>4, <2>5, <3>1, <3>3
  <2>8. CASE Stays(p)
    <3>1. Paired(w[p].copy, w[p].cert) /\ w[p].copy.pem <= issued'[w[p].cert]
      BY <1>t, <2>3, <2>8 DEF Stays, PairInv
    <3>2. Rows
      BY <2>5, <2>6, <2>8, <3>1 DEF Stays, Alike
    <3>3. w'[p].at = "save" => w'[p].got <= issued'[w'[p].cert]
      BY <1>t, <2>8 DEF Stays
    <3>4. Hands(p)
      BY <2>3, <2>8, <3>1, <3>3 DEF Stays, Alike, PairInv
    <3>. QED
      BY <2>4, <3>2, <3>4
  <2>9. CASE Ends(p)
    <3>1. /\ Paired(w[p].copy, w[p].cert) /\ issued' = issued
          /\ w[p].at = "save" => w[p].got <= issued[w[p].cert]
      BY <2>9 DEF Ends, PairInv, Issuing
    <3>2. Rows
      BY <2>5, <2>6, <2>9, <3>1 DEF Ends, Alike
    <3>3. Hands(p)
      BY <2>9, <3>1 DEF Ends, PairInv, Issuing
    <3>. QED
      BY <2>4, <3>2, <3>3
  <2>10. ASSUME NEW c \in Certs, NEW r \in Row, Takes(p, c, r) PROVE Rows /\ Hands(p)
    <3>0. NoCopy.key = 0 /\ NoCopy.pem = 0 /\ 0 <= issued[c]
      BY <1>t DEF NoCopy
    <3>1. Paired(r, c) /\ issued' = issued
      BY <2>10, <3>0 DEF Takes, PairInv
    <3>2. Rows
      <4>1. CASE row' = [row EXCEPT ![c] = {NoCopy}]
        BY <1>t, <3>0, <3>1, <4>1 DEF PairInv, TypeOK
      <4>. QED
        BY <2>5, <2>10, <4>1 DEF Takes
    <3>3. Hands(p)
      BY <2>10, <3>1 DEF Takes, PairInv
    <3>. QED
      BY <3>2, <3>3
  <2>. HIDE DEF Rows, Hands
  <2>. QED
    BY <1>1, <2>4, <2>7, <2>8, <2>9, <2>10, Hand
<1>2. ASSUME NEW i \in Instances, Crash(i) PROVE Rows /\ \A q \in Workers : Hands(q)
  <2>1. \A q \in Workers : w'[q] = w[q] \/ (w'[q].at = "idle" /\ w'[q].todo = {})
    BY <1>2, Others
  <2>2. UNCHANGED <<row, issued>>
    BY <1>2, Others
  <2>. QED
    BY <2>1, <2>2 DEF PairInv, Issuing
<1>3. ASSUME UNCHANGED <<w, issued>>, \A c \in Certs : row'[c] \subseteq row[c]
      PROVE  Rows /\ \A q \in Workers : Hands(q)
  BY <1>3 DEF PairInv
<1>4. LeaseExpires \/ UNCHANGED vars \/ (\E c \in Certs : DeleteCert(c) \/ Ages(c))
      => UNCHANGED <<w, issued>> /\ \A c \in Certs : row'[c] \subseteq row[c]
  BY Others DEF vars, dbVars, TypeOK
<1>. HIDE DEF Rows, Hands
<1>. QED
  BY <1>1, <1>2, <1>3, <1>4, Steps

(* While one worker has the only copy, the copy is as new as the row: only *)
(* that worker writes the row or has a generation issued.                  *)
LEMMA FreshStep ==
    ASSUME TypeOK, RestInv, OwnInv, AloneInv, FreshInv, [Next]_vars
    PROVE  FreshInv'
<1>. DEFINE Fresh(c, p) ==
                /\ \A r \in Row : <<c, r>> \in w'[p].todo => \A x \in row'[c] : x.pem = r.pem
                /\ w'[p].at \in Issuing /\ w'[p].cert = c => \A x \in row'[c] : x.pem = w'[p].copy.pem
                /\ w'[p].at = "save" /\ w'[p].cert = c => w'[p].got = issued'[c]
<1>t. /\ \A p \in Workers : w[p] \in Worker /\ w[p].cert \in Certs /\ w[p].got \in Nat
      /\ \A c \in Certs : issued[c] \in Nat /\ row[c] \subseteq Row
      /\ \A c \in Certs : \A r, s \in row[c] : r = s
      /\ issued \in [Certs -> 0..MaxIssued] /\ DOMAIN row = Certs
  BY DEF TypeOK, Worker
<1>1. ASSUME NEW p \in Workers, Acts(p), NEW c \in Certs \ overlapped' PROVE \A q \in Workers : Fresh(c, q)
  <2>1. \A q \in Workers \ {p} : w'[q] = w[q]
    BY <1>1, OwnHand
  <2>2. c \notin overlapped
    BY <1>1, Hand DEF Seeks, Lists, Stays, Ends, Takes
  <2>3. ASSUME row'[c] = row[c], issued'[c] = issued[c] PROVE \A q \in Workers \ {p} : Fresh(c, q)
    BY <2>1, <2>2, <2>3 DEF FreshInv
  <2>4. ASSUME Shared(c, p) \/ Has(p, c), NEW q \in Workers \ {p}, Has(q, c), c \notin {d \in {c} : Shared(d, p)}
        PROVE  FALSE
    <3>1. Shared(c, p)
      BY <2>4 DEF Has, Shared
    <3>. QED
      BY <2>4, <3>1
  <2>5. ASSUME NEW q \in Workers \ {p}, ~Has(q, c) PROVE Fresh(c, q)
    BY <2>1, <2>5 DEF Has, Issuing
  <2>6. ASSUME Has(p, c) PROVE \A q \in Workers \ {p} : Fresh(c, q)
    BY <2>2, <2>5, <2>6 DEF AloneInv
  <2>7. CASE Seeks(p)
    BY <2>3, <2>7 DEF Seeks, Issuing
  <2>8. CASE Lists(p)
    <3>1. row' = row /\ issued' = issued /\ w'[p].at = "next"
          /\ \A r \in Row : <<c, r>> \in w'[p].todo => r \in row[c]
      BY <2>8 DEF Lists
    <3>2. Fresh(c, p)
      BY <1>t, <3>1 DEF Issuing
    <3>. HIDE DEF Fresh
    <3>. QED
      BY <2>3, <3>1, <3>2
  <2>9. CASE Stays(p) \/ Ends(p)
    <3>1. \A q \in Workers \ {p} : Fresh(c, q)
      <4>1. CASE w[p].cert = c
        BY <2>6, <2>9, <4>1 DEF Has, Stays, Ends, Issuing
      <4>2. CASE w[p].cert # c
        <5>1. row'[c] = row[c] /\ issued'[c] = issued[c]
          BY <1>t, <2>9, <4>2 DEF Stays, Ends, Written, TypeOK
        <5>. QED
          BY <2>3, <5>1
      <4>. QED
        BY <4>1, <4>2
    <3>2. CASE Stays(p)
      <4>1. \A x \in row'[c] : x \in row[c] \/ (w[p].cert = c /\ Alike(x, w[p].copy))
        <5>1. CASE row' = row
          BY <5>1
        <5>2. ASSUME NEW r \in Row, Alike(r, w[p].copy), row' = Written(w[p].cert, r)
              PROVE  \A x \in row'[c] : x \in row[c] \/ (w[p].cert = c /\ Alike(x, w[p].copy))
          BY <1>t, <5>2 DEF Written
        <5>. QED
          BY <3>2, <5>1, <5>2 DEF Stays
      <4>2. \A r \in Row : <<c, r>> \in w'[p].todo => \A x \in row'[c] : x.pem = r.pem
        BY <2>2, <3>2, <4>1 DEF Stays, FreshInv, OwnInv
      <4>3. w'[p].cert = c => \A x \in row'[c] : x.pem = w'[p].copy.pem
        <5>1. w[p].at \in Issuing /\ w'[p].cert = w[p].cert /\ w'[p].copy.pem = w[p].copy.pem
          BY <3>2 DEF Stays, Alike
        <5>2. w[p].cert = c => \A x \in row[c] : x.pem = w[p].copy.pem
          BY <2>2, <5>1 DEF FreshInv
        <5>. QED
          BY <4>1, <5>1, <5>2 DEF Alike
      <4>4. w'[p].at = "save" /\ w'[p].cert = c => w'[p].got = issued'[c]
        BY <1>t, <2>2, <3>2 DEF Stays
      <4>. QED
        BY <3>1, <4>2, <4>3, <4>4
    <3>3. CASE Ends(p)
      <4>1. \A r \in Row : <<c, r>> \in w'[p].todo => w[p].cert # c
        BY <3>3 DEF Ends, OwnInv, Issuing
      <4>2. w[p].cert # c => row'[c] = row[c]
        BY <1>t, <3>3 DEF Ends, Written
      <4>3. Fresh(c, p)
        BY <2>2, <3>3, <4>1, <4>2 DEF Ends, FreshInv, Issuing
      <4>. HIDE DEF Fresh
      <4>. QED
        BY <3>1, <4>3
    <3>. QED
      BY <2>9, <3>2, <3>3
  <2>10. ASSUME NEW d \in Certs, NEW r \in Row, Takes(p, d, r) PROVE \A q \in Workers : Fresh(c, q)
    <3>1. issued' = issued /\ (row' = row \/ (row[d] = {} /\ row' = [row EXCEPT ![d] = {NoCopy}] /\ r = NoCopy))
      BY <2>10 DEF Takes
    <3>2. \A q \in Workers \ {p} : Fresh(c, q)
      <4>1. CASE row'[c] = row[c]
        BY <2>3, <3>1, <4>1
      <4>2. CASE c = d
        <5>1. ~Shared(c, p)
          BY <1>1, <2>10, <4>2 DEF Takes
        <5>2. \A q \in Workers \ {p} : ~Has(q, c)
          BY <5>1 DEF Has, Shared
        <5>. QED
          BY <2>5, <5>2
      <4>. QED
        BY <1>t, <3>1, <4>1, <4>2
    <3>3. \A s \in Row : <<c, s>> \in w'[p].todo => c # d /\ <<c, s>> \in w[p].todo
      BY <2>10 DEF Takes
    <3>4. c # d => row'[c] = row[c]
      BY <1>t, <3>1
    <3>5. \A s \in Row : <<c, s>> \in w'[p].todo => \A x \in row'[c] : x.pem = s.pem
      BY <2>2, <3>3, <3>4 DEF FreshInv
    <3>6. w'[p].at = "mark" /\ w'[p].cert = d /\ w'[p].copy = r
      BY <2>10 DEF Takes
    <3>7. c = d => \A x \in row'[c] : x.pem = r.pem
      <4>1. CASE <<d, r>> \in w[p].todo /\ row' = row
        BY <2>2, <4>1 DEF FreshInv
      <4>2. CASE r \in row[d] /\ row' = row
        BY <1>t, <4>2
      <4>3. CASE r = NoCopy /\ row' = [row EXCEPT ![d] = {NoCopy}]
        BY <1>t, <4>3
      <4>. QED
        BY <2>10, <4>1, <4>2, <4>3 DEF Takes
    <3>. QED
      BY <3>2, <3>5, <3>6, <3>7
  <2>. HIDE DEF Fresh
  <2>. QED
    BY <1>1, <2>7, <2>8, <2>9, <2>10, Hand
<1>2. ASSUME NEW i \in Instances, Crash(i) PROVE FreshInv'
  <2>1. \A q \in Workers : w'[q] = w[q] \/ (w'[q].at = "idle" /\ w'[q].todo = {})
    BY <1>2, Others
  <2>2. UNCHANGED <<row, issued, overlapped>>
    BY <1>2, Others
  <2>. QED
    BY <2>1, <2>2 DEF FreshInv, Issuing
<1>3. CASE UNCHANGED <<w, issued, overlapped>> /\ \A c \in Certs : row'[c] \subseteq row[c]
  BY <1>3 DEF FreshInv
<1>4. LeaseExpires \/ UNCHANGED vars \/ (\E c \in Certs : DeleteCert(c) \/ Ages(c))
      => UNCHANGED <<w, issued, overlapped>> /\ \A c \in Certs : row'[c] \subseteq row[c]
  BY Others DEF vars, dbVars, ghostVars, TypeOK
<1>5. (\A c \in Certs \ overlapped', q \in Workers : Fresh(c, q)) => FreshInv'
  BY DEF FreshInv
<1>. HIDE DEF Fresh
<1>. QED
  BY <1>1, <1>2, <1>3, <1>4, <1>5, Steps

(* A row that is not valid is being issued, or was left due, or its last   *)
(* issuance was cut short.                                                 *)
LEMMA UnservedStep ==
    ASSUME TypeOK, RestInv, OwnInv, UnservedIsDue, [Next]_vars
    PROVE  UnservedIsDue'
<1>. DEFINE Served(c) == \A r \in row'[c] : r.status # "valid" =>
                            r.status = "failed" \/ r.pem = 0 \/ <<c, r.pem>> \in aged'
            Ok(c) == c \notin interrupted' /\ ~Busy(c)' => Served(c)
<1>0. SUFFICES \A c \in Certs : Ok(c)
  BY <1>0 DEF UnservedIsDue, Due
<1>t. DOMAIN row = Certs /\ \A p \in Workers : w[p].cert \in Certs
  BY DEF TypeOK, Worker
<1>1. ASSUME NEW c \in Certs, row'[c] = row[c], aged \subseteq aged', c \notin interrupted' => c \notin interrupted,
             c \notin interrupted' /\ ~Busy(c)' => ~Busy(c)
      PROVE  Ok(c)
  BY <1>1 DEF UnservedIsDue, Due
<1>2. ASSUME NEW p \in Workers, Acts(p), NEW c \in Certs PROVE Ok(c)
  <2>1. \A q \in Workers \ {p} : w'[q] = w[q]
    BY <1>2, OwnHand
  <2>2. ASSUME Busy(c), w[p].at \in Issuing /\ w[p].cert = c => w'[p].at \in Issuing /\ w'[p].cert = c
        PROVE  Busy(c)'
    BY <2>1, <2>2 DEF Busy
  <2>3. CASE Seeks(p) \/ Lists(p)
    <3>1. w[p].at \notin Issuing /\ UNCHANGED <<row, aged, interrupted>>
      BY <2>3 DEF Seeks, Lists, Issuing
    <3>. QED
      BY <1>1, <2>2, <3>1
  <2>4. CASE Stays(p)
    <3>1. w[p].cert = c => Busy(c)'
      BY <2>4 DEF Stays, Busy
    <3>2. w[p].cert # c => row'[c] = row[c]
      BY <1>t, <2>4 DEF Stays, Written
    <3>3. Busy(c) => Busy(c)'
      BY <2>2, <2>4 DEF Stays
    <3>4. UNCHANGED <<aged, interrupted>>
      BY <2>4 DEF Stays
    <3>. QED
      BY <1>1, <3>1, <3>2, <3>3, <3>4
  <2>5. CASE Ends(p)
    <3>1. CASE w[p].cert # c
      <4>1. row'[c] = row[c] /\ aged' = aged /\ (c \notin interrupted' => c \notin interrupted)
        BY <1>t, <2>5, <3>1 DEF Ends, Written, CutShort, Ended
      <4>2. Busy(c) => Busy(c)'
        BY <2>2, <3>1
      <4>. QED
        BY <1>1, <4>1, <4>2
    <3>2. CASE w[p].cert = c
      <4>1. CASE CutShort(p)
        BY <3>2, <4>1 DEF CutShort
      <4>2. ASSUME NEW r \in Row, row' = Written(w[p].cert, r), r.status \in {"valid", "failed"}
            PROVE  Served(c)
        BY <1>t, <3>2, <4>2 DEF Written
      <4>. QED
        BY <2>5, <4>1, <4>2 DEF Ends
    <3>. QED
      BY <3>1, <3>2
  <2>6. ASSUME NEW d \in Certs, NEW r \in Row, Takes(p, d, r) PROVE Ok(c)
    <3>1. w[p].at \notin Issuing /\ w'[p].at \in Issuing /\ w'[p].cert = d
      BY <2>6 DEF Takes, Issuing
    <3>2. c = d => Busy(c)'
      BY <3>1 DEF Busy
    <3>3. c # d => row'[c] = row[c]
      BY <1>t, <2>6 DEF Takes
    <3>4. Busy(c) => Busy(c)'
      BY <2>2, <3>1
    <3>5. UNCHANGED <<aged, interrupted>>
      BY <2>6 DEF Takes
    <3>. QED
      BY <1>1, <3>2, <3>3, <3>4, <3>5
  <2>. HIDE DEF Ok
  <2>. QED
    BY <1>2, <2>3, <2>4, <2>5, <2>6, Hand
<1>3. ASSUME NEW i \in Instances, Crash(i), NEW c \in Certs PROVE Ok(c)
  <2>1. UNCHANGED <<row, aged>> /\ \A q \in Workers : w'[q] = w[q] \/ On[q] = i
    BY <1>3, Others
  <2>2. interrupted' = interrupted \cup
            {w[p].cert : p \in {q \in Workers : On[q] = i /\ w[q].at \in Issuing}}
    BY <1>3 DEF Crash
  <2>3. c \notin interrupted' /\ Busy(c) => Busy(c)'
    <3>. SUFFICES ASSUME c \notin interrupted', NEW q \in Workers, w[q].at \in Issuing, w[q].cert = c
                  PROVE  Busy(c)'
      BY DEF Busy
    <3>1. On[q] # i
      BY <2>2
    <3>. QED
      BY <2>1, <3>1 DEF Busy
  <2>. QED
    BY <1>1, <2>1, <2>2, <2>3
<1>4. ASSUME UNCHANGED <<w, interrupted>>, aged \subseteq aged', NEW c \in Certs,
             row'[c] = row[c] \/ row'[c] = {}
      PROVE  Ok(c)
  <2>1. Busy(c)' = Busy(c)
    BY <1>4 DEF Busy
  <2>2. row'[c] = {} => Ok(c)
    OBVIOUS
  <2>. QED
    BY <1>1, <1>4, <2>1, <2>2
<1>5. LeaseExpires \/ UNCHANGED vars \/ (\E c \in Certs : DeleteCert(c) \/ Ages(c))
      => /\ UNCHANGED <<w, interrupted>> /\ aged \subseteq aged'
         /\ \A c \in Certs : row'[c] = row[c] \/ row'[c] = {}
  BY <1>t, Others DEF vars, dbVars, ghostVars
<1>. HIDE DEF Ok
<1>. QED
  BY <1>2, <1>3, <1>4, <1>5, Steps

(* Until a lease ran out under a round, whoever is in a round holds it.    *)
LEMMA LeaseStep ==
    ASSUME TypeOK, RestInv, LeaseInv, [Next]_vars
    PROVE  LeaseInv'
<1>t. /\ w \in [Workers -> Worker] /\ On \in [Workers -> Instances] /\ Loops \subseteq Workers
      /\ Nobody \notin Instances
  BY CertificatesAssumption DEF TypeOK, Workers
<1>1. ASSUME NEW p \in Workers, Acts(p) PROVE LeaseInv'
  <2>1. \A q \in Workers \ {p} : w'[q] = w[q]
    BY <1>1, OwnHand
  <2>2. \A q \in Loops \ {p} : InRound(q)' => InRound(q)
    BY <1>t, <2>1 DEF InRound
  <2>3. CASE LeaseUpdate(p)
    <3>1. lapsed' = lapsed
      BY <2>3 DEF LeaseUpdate, ghostVars
    <3>2. CASE lease' = On[p] /\ current' = TRUE /\ lease # Nobody /\ (lease = On[p] \/ ~current)
      BY <2>2, <3>1, <3>2 DEF LeaseInv
    <3>3. CASE Goes(p, "leaseInsert") /\ UNCHANGED <<lease, current>>
      <4>1. ~InRound(p)'
        BY <1>t, <3>3 DEF Goes, InRound, Worker
      <4>. QED
        BY <2>2, <3>1, <3>3, <4>1 DEF LeaseInv
    <3>. QED
      BY <2>3, <3>2, <3>3 DEF LeaseUpdate
  <2>4. CASE LeaseInsert(p)
    <3>1. lapsed' = lapsed
      BY <2>4 DEF LeaseInsert, ghostVars
    <3>2. CASE lease = Nobody /\ lease' = On[p] /\ current' = TRUE
      <4>1. \A q \in Loops : InRound(q) /\ ~lapsed => FALSE
        BY <1>t, <3>2 DEF LeaseInv
      <4>. QED
        BY <2>2, <3>1, <3>2, <4>1 DEF LeaseInv
    <3>3. CASE Rests(p) /\ UNCHANGED <<lease, current>>
      <4>1. ~InRound(p)'
        BY <1>t, <3>3 DEF Rests, AtRest, InRound
      <4>. QED
        BY <2>2, <3>1, <3>3, <4>1 DEF LeaseInv
    <3>. QED
      BY <2>4, <3>2, <3>3 DEF LeaseInsert
  <2>5. ASSUME ~LeaseUpdate(p), ~LeaseInsert(p) PROVE LeaseInv'
    <3>1. UNCHANGED <<lease, current, lapsed>>
      BY <1>1, <2>5, Zenon DEF Acts, ListDue, NextDue, Mark, Account, Register, DnsProvider, Present, Order, Save,
         SaveFailure, RenewCert, CreateCert, dbVars, ghostVars
    <3>2. p \in Loops => w[p].at \notin {"idle", "leaseInsert"}
      BY <1>1, <2>5, CertificatesAssumption DEF Acts, ListDue, NextDue, Mark, Account, Register, DnsProvider,
         Present, Order, Save, SaveFailure, At
    <3>3. InRound(p)' => InRound(p)
      BY <3>2 DEF InRound
    <3>. QED
      BY <2>2, <3>1, <3>3 DEF LeaseInv
  <2>. QED
    BY <2>3, <2>4, <2>5
<1>2. CASE LeaseExpires
  <2>1. (\E p \in Loops : On[p] = lease /\ InRound(p)) => lapsed'
    BY <1>2, Zenon DEF LeaseExpires
  <2>2. w' = w /\ (lapsed => lapsed')
    BY <1>2, Zenon DEF LeaseExpires
  <2>3. \A p \in Loops : InRound(p)' => InRound(p)
    BY <2>2 DEF InRound
  <2>. QED
    BY <2>1, <2>2, <2>3 DEF LeaseInv
<1>3. ASSUME NEW i \in Instances, Crash(i) PROVE LeaseInv'
  <2>1. \A q \in Workers : w'[q] = w[q] \/ w'[q].at = "idle"
    BY <1>3, Others
  <2>2. UNCHANGED <<lease, current, lapsed>>
    BY <1>3 DEF Crash, dbVars
  <2>3. \A p \in Loops : InRound(p)' => InRound(p)
    BY <1>t, <2>1 DEF InRound
  <2>. QED
    BY <2>2, <2>3 DEF LeaseInv
<1>4. CASE UNCHANGED <<w, lease, current, lapsed>>
  BY <1>4 DEF LeaseInv, InRound
<1>5. UNCHANGED vars \/ (\E c \in Certs : DeleteCert(c) \/ Ages(c)) => UNCHANGED <<w, lease, current, lapsed>>
  BY DEF vars, dbVars, ghostVars, DeleteCert, Ages
<1>. QED
  BY <1>1, <1>2, <1>3, <1>4, <1>5, Steps

(* Only DnsProvider, Present, Order and a crash touch the lock, the        *)
(* environment and the tokens; the others neither enter nor leave "order". *)
LEMMA EnvStep ==
    ASSUME TypeOK, RestInv, OwnInv, EnvInv, [Next]_vars
    PROVE  EnvInv'
<1>. USE DEF EnvInv, EnvIsOwners, At
<1>t. /\ w \in [Workers -> Worker] /\ On \in [Workers -> Instances] /\ Nobody \notin Workers
      /\ envMu \in [Instances -> Workers \cup {Nobody}] /\ env \in [Instances -> Workers \cup {Nobody}]
      /\ tokens \in [Instances -> SUBSET Workers]
  BY CertificatesAssumption DEF TypeOK
<1>1. ASSUME NEW p \in Workers, Acts(p) PROVE EnvInv'
  <2>1. \A q \in Workers \ {p} : w'[q] = w[q]
    BY <1>1, OwnHand
  <2>2. dns' = dns
    BY <1>1, Zenon DEF Acts, LeaseUpdate, LeaseInsert, ListDue, NextDue, Mark, Account, Register, DnsProvider,
       Present, Order, Save, SaveFailure, RenewCert, CreateCert, dbVars
  <2>3. ASSUME NEW place, Goes(p, place) PROVE w'[p].at = place /\ w'[p].cert = w[p].cert
    BY <1>t, <2>3 DEF Goes, Worker
  <2>4. ASSUME w[p].at # "order", w'[p].at # "order", UNCHANGED <<envMu, env, tokens>> PROVE EnvInv'
    BY <1>t, <2>1, <2>2, <2>4
  <2>5. CASE DnsProvider(p)
    <3>1. CASE Goes(p, "saveFailure") /\ UNCHANGED <<envMu, env>>
      <4>1. UNCHANGED <<envMu, env, tokens>> /\ w[p].at = "challenge"
        BY <2>5, <3>1 DEF DnsProvider
      <4>. QED
        BY <2>3, <2>4, <3>1, <4>1
    <3>2. CASE /\ envMu' = [envMu EXCEPT ![Inst(p)] = p]
               /\ env' = [env EXCEPT ![Inst(p)] = p]
               /\ Goes(p, "order")
      <4>1. /\ w[p].at = "challenge" /\ envMu[On[p]] = Nobody /\ tokens' = tokens
            /\ w'[p].at = "order" /\ On[p] \in Instances
        BY <1>t, <2>3, <2>5, <3>2 DEF DnsProvider, Inst
      <4>2. /\ envMu'[On[p]] = p /\ env'[On[p]] = p
            /\ \A i \in Instances \ {On[p]} : envMu'[i] = envMu[i] /\ env'[i] = env[i]
        BY <1>t, <3>2, <4>1 DEF Inst
      <4>3. \A q \in Workers \ {p} : w[q].cert \in dns /\ w[q].at = "order" => On[q] # On[p]
        BY <1>t, <4>1
      <4>4. \A q \in Workers : On[q] \in Instances
        BY <1>t
      <4>5. \A q \in Workers : w'[q].cert \in dns' /\ w'[q].at = "order" => env'[On[q]] = q /\ envMu'[On[q]] = q
        BY <2>1, <2>2, <4>1, <4>2, <4>3, <4>4
      <4>6. ASSUME NEW i \in Instances
            PROVE  /\ env'[i] = envMu'[i]
                   /\ envMu'[i] # Nobody => w'[envMu'[i]].at = "order" /\ On[envMu'[i]] = i
        <5>1. CASE i = On[p]
          BY <4>1, <4>2, <5>1
        <5>2. CASE i # On[p]
          BY <1>t, <2>1, <4>1, <4>2, <5>2
        <5>. QED
          BY <5>1, <5>2
      <4>7. \A i \in Instances : \A q \in tokens'[i] : w'[q].at = "order" /\ On[q] = i
        BY <1>t, <2>1, <4>1
      <4>. QED
        BY <4>5, <4>6, <4>7
    <3>. QED
      BY <2>5, <3>1, <3>2 DEF DnsProvider
  <2>6. CASE Present(p)
    <3>1. /\ w[p].at = "challenge" /\ w[p].cert \notin dns /\ UNCHANGED <<envMu, env>>
          /\ w'[p].at = "order" /\ w'[p].cert = w[p].cert /\ On[p] \in Instances
      BY <1>t, <2>3, <2>6 DEF Present
    <3>2. tokens' = [tokens EXCEPT ![On[p]] = @ \cup {p}]
      BY <2>6 DEF Present, Inst
    <3>3. \A i \in Instances : \A q \in tokens'[i] : w'[q].at = "order" /\ On[q] = i
      BY <1>t, <2>1, <3>1, <3>2
    <3>4. \A q \in Workers : w'[q].cert \in dns' /\ w'[q].at = "order" => env'[On[q]] = q /\ envMu'[On[q]] = q
      BY <2>1, <2>2, <3>1
    <3>5. \A i \in Instances : envMu'[i] # Nobody => w'[envMu'[i]].at = "order"
      BY <1>t, <2>1, <3>1
    <3>. QED
      BY <3>1, <3>3, <3>4, <3>5
  <2>7. CASE Order(p)
    <3>1. w[p].at = "order" /\ On[p] \in Instances
      BY <1>t, <2>7 DEF Order
    <3>2. w'[p].at \in {"save", "saveFailure"}
      BY <1>t, <2>3, <2>7 DEF Order, Ordered, Worker
    <3>3. tokens' = [tokens EXCEPT ![On[p]] = @ \ {p}]
      BY <2>7 DEF Order, Inst
    <3>4. \A i \in Instances : \A q \in tokens'[i] : w'[q].at = "order" /\ On[q] = i
      BY <1>t, <2>1, <3>1, <3>3
    <3>5. /\ envMu[On[p]] = p => envMu' = [envMu EXCEPT ![On[p]] = Nobody] /\ env' = [env EXCEPT ![On[p]] = Nobody]
          /\ envMu[On[p]] # p => UNCHANGED <<envMu, env>>
      BY <2>7 DEF Order, Inst
    <3>6. ASSUME NEW i \in Instances
          PROVE  /\ env'[i] = envMu'[i]
                 /\ envMu'[i] # Nobody => envMu'[i] = envMu[i] /\ envMu[i] # p
      BY <1>t, <3>1, <3>5
    <3>7. \A i \in Instances : envMu'[i] # Nobody => w'[envMu'[i]].at = "order" /\ On[envMu'[i]] = i
      BY <1>t, <2>1, <3>6
    <3>8. ASSUME NEW q \in Workers, w'[q].cert \in dns', w'[q].at = "order"
          PROVE  env'[On[q]] = q /\ envMu'[On[q]] = q
      <4>1. q # p /\ w'[q] = w[q] /\ On[q] \in Instances
        BY <1>t, <2>1, <3>2, <3>8
      <4>2. envMu[On[q]] = q /\ env[On[q]] = q
        BY <2>2, <3>8, <4>1
      <4>. QED
        BY <1>t, <3>1, <3>5, <4>1, <4>2
    <3>. QED
      BY <3>4, <3>6, <3>7, <3>8
  <2>8. ASSUME ~DnsProvider(p), ~Present(p), ~Order(p) PROVE EnvInv'
    <3>1. UNCHANGED <<envMu, env, tokens>>
      BY <1>1, <2>8, Zenon DEF Acts, LeaseUpdate, LeaseInsert, ListDue, NextDue, Mark, Account, Register, Save,
         SaveFailure, RenewCert, CreateCert, procVars
    <3>2. w[p].at # "order"
      BY <1>1, <2>8 DEF Acts, LeaseUpdate, LeaseInsert, ListDue, NextDue, Mark, Account, Register, Save,
         SaveFailure, RenewCert, CreateCert
    <3>3. w'[p].at # "order"
      <4>1. CASE Mark(p)
        BY <1>t, <4>1 DEF Mark, Worker
      <4>2. CASE Account(p) \/ Register(p)
        BY <2>3, <4>2 DEF Account, Register
      <4>3. ASSUME ~Mark(p), ~Account(p), ~Register(p) PROVE ~Stays(p)
        BY <1>1, <2>8, <4>3 DEF Acts, LeaseUpdate, LeaseInsert, ListDue, NextDue, Save, SaveFailure, RenewCert,
           CreateCert, Stays, Issuing, Ends
      <4>4. Seeks(p) \/ Lists(p) \/ Ends(p) \/ (\E c \in Certs, r \in Row : Takes(p, c, r))
            => w'[p].at # "order"
        BY DEF Seeks, Lists, Ends, Takes
      <4>. QED
        BY <1>1, <4>1, <4>2, <4>3, <4>4, Hand
    <3>. QED
      BY <2>4, <3>1, <3>2, <3>3
  <2>. QED
    BY <2>5, <2>6, <2>7, <2>8
<1>2. ASSUME NEW i \in Instances, Crash(i) PROVE EnvInv'
  <2>1. /\ envMu' = [envMu EXCEPT ![i] = Nobody] /\ env' = [env EXCEPT ![i] = Nobody]
        /\ tokens' = [tokens EXCEPT ![i] = {}] /\ dns' = dns
    BY <1>2 DEF Crash, dbVars
  <2>2. \A q \in Workers : w'[q] = w[q] \/ w'[q].at = "idle"
    BY <1>2, Others
  <2>3. \A q \in Workers : On[q] # i => w'[q] = w[q]
    BY <1>2, Others
  <2>4. ASSUME NEW q \in Workers, w'[q].cert \in dns', w'[q].at = "order"
        PROVE  env'[On[q]] = q /\ envMu'[On[q]] = q
    <3>1. On[q] # i
      <4>1. w' = [p \in Workers |-> IF On[p] = i THEN AtRest ELSE w[p]]
        BY <1>2 DEF Crash
      <4>. QED
        BY <2>4, <4>1 DEF AtRest
    <3>. QED
      BY <1>t, <2>1, <2>3, <2>4, <3>1
  <2>5. ASSUME NEW j \in Instances
        PROVE  /\ env'[j] = envMu'[j]
               /\ envMu'[j] # Nobody => w'[envMu'[j]].at = "order" /\ On[envMu'[j]] = j
               /\ \A q \in tokens'[j] : w'[q].at = "order" /\ On[q] = j
    <3>1. CASE j = i
      BY <1>t, <2>1, <3>1
    <3>2. CASE j # i
      BY <1>t, <2>1, <2>3, <3>2
    <3>. QED
      BY <3>1, <3>2
  <2>. QED
    BY <2>4, <2>5
<1>3. CASE UNCHANGED <<w, dns, procVars>>
  BY <1>3 DEF procVars
<1>4. UNCHANGED vars \/ LeaseExpires \/ (\E c \in Certs : DeleteCert(c) \/ Ages(c))
      => UNCHANGED <<w, dns, procVars>>
  BY DEF vars, dbVars, DeleteCert, Ages, LeaseExpires
<1>. QED
  BY <1>1, <1>2, <1>3, <1>4, Steps

-----------------------------------------------------------------------------
(* At first no lock is held, no copy taken, and every row is of its        *)
(* generation or due.                                                      *)
LEMMA InitIInv == Init => IInv
<1>. SUFFICES ASSUME Init PROVE IInv
  OBVIOUS
<1>. USE CertificatesAssumption
<1>1. \A p \in Workers : w[p] = AtRest /\ w[p].at = "idle" /\ w[p].todo = {}
  BY DEF Init, AtRest
<1>2. /\ issued \in [Certs -> 0..1] /\ \A c \in Certs \ Initial : issued[c] = 0
      /\ row = [c \in Certs |->
                  {[status |-> IF issued[c] = 1 THEN "valid" ELSE "pending",
                    pem |-> issued[c], key |-> issued[c]] : d \in Initial \cap {c}}]
  BY DEF Init
<1>3. ASSUME NEW c \in Certs
      PROVE  /\ row[c] \in {{}} \cup {{r} : r \in Row}
             /\ \A r \in row[c] : Paired(r, c) /\ (r.status = "valid" \/ r.pem = 0)
  <2>. DEFINE r == [status |-> IF issued[c] = 1 THEN "valid" ELSE "pending", pem |-> issued[c], key |-> issued[c]]
  <2>1. issued[c] \in 0..1
    BY <1>2
  <2>2. r \in Row /\ Paired(r, c) /\ (r.status = "valid" \/ r.pem = 0)
    BY <2>1 DEF Row, Statuses, Paired
  <2>3. row[c] = {r : d \in Initial \cap {c}}
    BY <1>2
  <2>. HIDE DEF r
  <2>4. row[c] = {} \/ row[c] = {r}
    BY <2>3
  <2>. QED
    BY <2>2, <2>4
<1>4. TypeOK
  <2>1. row \in [Certs -> {{}} \cup {{r} : r \in Row}]
    BY <1>2, <1>3
  <2>2. issued \in [Certs -> 0..MaxIssued]
    BY <1>2
  <2>3. w \in [Workers -> Worker]
    BY RestTypes DEF Init
  <2>4. dns \subseteq Certs /\ aged = {} /\ calls = 0 /\ faults = 0
    BY DEF Init
  <2>5. lease = Nobody /\ current \in BOOLEAN /\ account \in BOOLEAN /\ lapsed \in BOOLEAN
        /\ overlapped = {} /\ interrupted = {}
    BY DEF Init
  <2>6. /\ envMu \in [Instances -> Workers \cup {Nobody}]
        /\ env \in [Instances -> Workers \cup {Nobody}]
        /\ tokens \in [Instances -> SUBSET Workers]
    BY DEF Init
  <2>. QED
    BY <2>1, <2>2, <2>3, <2>4, <2>5, <2>6 DEF TypeOK
<1>5. RestInv /\ OwnInv /\ AloneInv /\ FreshInv
  BY <1>1 DEF RestInv, OwnInv, AloneInv, FreshInv, Has, Issuing, Workers
<1>6. PairInv /\ UnservedIsDue
  BY <1>1, <1>3 DEF PairInv, UnservedIsDue, Due, Issuing
<1>7. EnvInv
  BY <1>1 DEF EnvInv, EnvIsOwners, At, Init
<1>8. LeaseInv
  BY <1>1 DEF LeaseInv, InRound, Workers
<1>. QED
  BY <1>4, <1>5, <1>6, <1>7, <1>8 DEF IInv

(* Every state of Certificates satisfies the inductive invariant.          *)
THEOREM CertificatesInductive == Spec => []IInv
<1>1. IInv /\ [Next]_vars => IInv'
  BY TypeStep, RestStep, EnvStep, LeaseStep, UnservedStep, OwnStep, AloneStep, PairStep, FreshStep DEF IInv
<1>. QED
  BY InitIInv, <1>1, PTL DEF Spec

(* Every variable keeps its type: above all, an id has at most one row,    *)
(* whatever interleaves UpdateCertificate with the handlers.               *)
THEOREM CertificatesTyping == Spec => []TypeOK
<1>1. IInv => TypeOK
  BY DEF IInv
<1>. QED
  BY CertificatesInductive, <1>1, PTL

(* dnsProvider and its cleanup: the credentials in the environment are     *)
(* those of the issuance that holds envMu.                                 *)
THEOREM CredentialsAreOwners == Spec => []EnvIsOwners
<1>1. IInv => EnvIsOwners
  BY DEF IInv, EnvInv
<1>. QED
  BY CertificatesInductive, <1>1, PTL

(* AcquireLease: two instances renew at once only after a lease ran out    *)
(* under a round.                                                          *)
THEOREM LeaseElectsOne == Spec => []OneRenewer
<1>1. IInv => OneRenewer
  BY DEF IInv, LeaseInv, OneRenewer
<1>. QED
  BY CertificatesInductive, <1>1, PTL

(* renewDueCertificates: what is not served and not being issued is due.   *)
THEOREM NothingForgotten == Spec => []UnservedIsDue
<1>1. IInv => UnservedIsDue
  BY DEF IInv
<1>. QED
  BY CertificatesInductive, <1>1, PTL

(* Obtain's writes never put an older generation, or a key without its     *)
(* certificate, over the row of a certificate one worker has.              *)
THEOREM NewestStays == Spec => NewestKept
<1>. DEFINE Kept == \A c \in Certs \ overlapped' :
                        \A r \in row[c], q \in row'[c] : q.pem >= r.pem /\ q.key = q.pem
<1>1. ASSUME IInv, IInv', [Next]_vars PROVE Kept
  <2>. SUFFICES ASSUME NEW c \in Certs \ overlapped', NEW r \in row[c], NEW q \in row'[c]
                PROVE  q.pem >= r.pem /\ q.key = q.pem
    OBVIOUS
  <2>. USE <1>1
  <2>t. /\ DOMAIN row = Certs /\ row[c] \subseteq Row /\ (\A x \in row[c] : x = r) /\ issued[c] \in Nat
        /\ \A x \in Row : x.pem \in Nat
        /\ \A p \in Workers : w[p].cert \in Certs
    BY DEF IInv, TypeOK, Row, Worker
  <2>1. q.key = q.pem
    BY DEF IInv, PairInv, Paired
  <2>2. r.pem \in Nat /\ r.pem <= issued[c]
    BY <2>t DEF IInv, PairInv, Paired
  <2>3. row'[c] \subseteq row[c] => q.pem >= r.pem
    BY <2>t, <2>2
  <2>4. ASSUME NEW p \in Workers, Acts(p) PROVE q.pem >= r.pem
    <3>. USE DEF IInv
    <3>1. c \notin overlapped
      BY <2>4, Hand DEF Seeks, Lists, Stays, Ends, Takes
    <3>2. CASE Seeks(p) \/ Lists(p)
      BY <2>3, <3>2 DEF Seeks, Lists
    <3>3. CASE Stays(p)
      <4>1. ASSUME NEW x \in Row, Alike(x, w[p].copy), row' = Written(w[p].cert, x) PROVE q.pem >= r.pem
        <5>1. w[p].cert = c => q.pem = w[p].copy.pem
          BY <2>t, <4>1 DEF Written, Alike
        <5>2. w[p].cert = c => r.pem = w[p].copy.pem
          BY <3>1, <3>3 DEF FreshInv, Stays
        <5>3. w[p].cert # c => row'[c] = row[c]
          BY <2>t, <4>1 DEF Written
        <5>. QED
          BY <2>2, <2>3, <5>1, <5>2, <5>3
      <4>. QED
        BY <2>3, <3>3, <4>1 DEF Stays
    <3>4. CASE Ends(p)
      <4>1. ASSUME NEW x \in Row, row' = Written(w[p].cert, x),
                   IF w[p].at = "save" THEN x.pem = w[p].got /\ x.key = w[p].got ELSE Alike(x, w[p].copy)
            PROVE  q.pem >= r.pem
        <5>1. w[p].cert = c => q = x
          BY <2>t, <4>1 DEF Written
        <5>2. w[p].cert = c => r.pem = w[p].copy.pem
          BY <3>1, <3>4 DEF FreshInv, Ends, Issuing
        <5>3. w[p].cert = c /\ w[p].at = "save" => w[p].got = issued[c]
          BY <3>1 DEF FreshInv
        <5>4. w[p].cert # c => row'[c] = row[c]
          BY <2>t, <4>1 DEF Written
        <5>. QED
          BY <2>2, <2>3, <2>t, <4>1, <5>1, <5>2, <5>3, <5>4 DEF Alike
      <4>. QED
        BY <2>3, <3>4, <4>1 DEF Ends
    <3>5. ASSUME NEW d \in Certs, NEW x \in Row, Takes(p, d, x) PROVE q.pem >= r.pem
      <4>1. row'[c] = row[c]
        BY <2>t, <3>5 DEF Takes
      <4>. QED
        BY <2>3, <4>1
    <3>. QED
      BY <2>4, <3>2, <3>3, <3>4, <3>5, Hand
  <2>5. ASSUME ~\E p \in Workers : Acts(p) PROVE row'[c] \subseteq row[c]
    <3>1. TypeOK
      BY DEF IInv
    <3>2. LeaseExpires \/ UNCHANGED vars \/ (\E d \in Certs : DeleteCert(d) \/ Ages(d))
            \/ (\E i \in Instances : Crash(i))
      BY <2>5, Steps
    <3>. QED
      BY <2>t, <3>1, <3>2, Others DEF vars, dbVars
  <2>. QED
    BY <2>1, <2>3, <2>4, <2>5
<1>2. Spec => [][Kept]_vars
  BY <1>1, CertificatesInductive, PTL DEF Spec
<1>. QED
  BY <1>2 DEF NewestKept
=============================================================================
