---------------------------- MODULE Certificates ----------------------------
(***************************************************************************)
(* internal/acme, the renewal loop of internal/engine and the certificate  *)
(* handlers of internal/api: how certificates are issued and renewed.      *)
(*                                                                         *)
(* Instances of xgress may share one database; each has a renewal loop and *)
(* serves API calls that issue in the background.  A worker is one such    *)
(* goroutine; each statement, each critical section and each exchange with *)
(* the CA is a step, so a worker holds a copy of a row that others change. *)
(* A certificate is known by its generation: 0 is no PEM, and a row written*)
(* by Obtain carries the PEM and the key of one generation.  The CA, lego  *)
(* and DNS are external: they answer or fail.                              *)
(***************************************************************************)
EXTENDS Naturals, FiniteSets

CONSTANTS
    Certs,      \* certificate ids
    Initial,    \* those with a row at first
    Instances,  \* processes on the database
    Loops,      \* renewalLoop goroutines
    Calls,      \* issueAsync goroutines
    On,         \* the instance a worker runs on
    Nobody,     \* no holder, no owner
    MaxIssued,  \* bound: certificates the CA issues per id
    MaxFaults,  \* bound: failing statements and orders, crashes, lapsed leases
    MaxCalls    \* bound: API calls

Workers == Loops \cup Calls

ASSUME CertificatesAssumption ==
    /\ Certs # {} /\ Initial \subseteq Certs /\ Loops \cap Calls = {}
    /\ On \in [Workers -> Instances]
    /\ Nobody \notin Instances \cup Workers
    /\ MaxIssued \in Nat \ {0} /\ MaxFaults \in Nat /\ MaxCalls \in Nat

VARIABLES
    dns,         \* the ids with challenge dns-01; the others use http-01
    row,         \* the certificates table: a set of rows per id, empty or one
    aged,        \* <<c, g>>: generation g of c is within 30 days of its end
    issued,      \* the latest generation the CA issued for an id
    lease,       \* holder of the lease row, Nobody before the first insert
    current,     \* the lease row has not expired
    account,     \* the ACME account row exists
    envMu,       \* per instance: the worker that holds m.envMu, or Nobody
    env,         \* per instance: the worker whose credentials are in the environment
    tokens,      \* per instance: the workers whose HTTP-01 token is presented
    w,           \* what each worker has in hand
    calls,       \* API calls made
    faults,      \* failures so far
    overlapped,  \* ids of which two workers had a copy at once
    interrupted, \* ids whose last issuance a crash or a failing statement cut short
    lapsed       \* a lease ran out while its holder was renewing

dbVars == <<dns, row, aged, issued, lease, current, account>>
procVars == <<envMu, env, tokens>>
ghostVars == <<overlapped, interrupted, lapsed>>
vars == <<dbVars, procVars, w, calls, faults, ghostVars>>

Statuses == {"pending", "valid", "failed"}
Row == [status : Statuses, pem : 0..MaxIssued, key : 0..MaxIssued]
Places == {"idle", "leaseInsert", "list", "next", "mark", "account", "register", "challenge",
           "order", "save", "saveFailure"}
NoCopy == [status |-> "pending", pem |-> 0, key |-> 0]

Worker == [at : Places, todo : SUBSET (Certs \X Row), cert : Certs, copy : Row,
           got : 0..MaxIssued]

AtRest == [at |-> "idle", todo |-> {}, cert |-> CHOOSE c \in Certs : TRUE, copy |-> NoCopy,
           got |-> 0]

TypeOK ==
    /\ dns \subseteq Certs
    /\ row \in [Certs -> {{}} \cup {{r} : r \in Row}]
    /\ aged \subseteq Certs \X (1..MaxIssued)
    /\ issued \in [Certs -> 0..MaxIssued]
    /\ lease \in Instances \cup {Nobody} /\ current \in BOOLEAN /\ account \in BOOLEAN
    /\ envMu \in [Instances -> Workers \cup {Nobody}]
    /\ env \in [Instances -> Workers \cup {Nobody}]
    /\ tokens \in [Instances -> SUBSET Workers]
    /\ w \in [Workers -> Worker]
    /\ calls \in 0..MaxCalls /\ faults \in 0..MaxFaults
    /\ overlapped \subseteq Certs /\ interrupted \subseteq Certs /\ lapsed \in BOOLEAN

(* Some certificates exist, valid or not yet issued; nothing is under way. *)
Init ==
    /\ dns \in SUBSET Certs
    /\ issued \in {f \in [Certs -> 0..1] : \A c \in Certs \ Initial : f[c] = 0}
    /\ row = [c \in Certs |->
                {[status |-> IF issued[c] = 1 THEN "valid" ELSE "pending",
                  pem |-> issued[c], key |-> issued[c]] : d \in Initial \cap {c}}]
    /\ aged = {} /\ lease = Nobody /\ current = FALSE /\ account = FALSE
    /\ envMu = [i \in Instances |-> Nobody]
    /\ env = [i \in Instances |-> Nobody]
    /\ tokens = [i \in Instances |-> {}]
    /\ w = [p \in Workers |-> AtRest]
    /\ calls = 0 /\ faults = 0
    /\ overlapped = {} /\ interrupted = {} /\ lapsed = FALSE

At(p, place) == w[p].at = place

Goes(p, place) == w' = [w EXCEPT ![p].at = place]

Rests(p) == w' = [w EXCEPT ![p] = AtRest]

Issuing == {"mark", "account", "register", "challenge", "order", "save", "saveFailure"}

Busy(c) == \E p \in Workers : w[p].at \in Issuing /\ w[p].cert = c

(* Some other worker has a copy of the row of c.                           *)
Shared(c, p) ==
    \E q \in Workers \ {p} :
        \/ w[q].at \in Issuing /\ w[q].cert = c
        \/ \E r \in Row : <<c, r>> \in w[q].todo

(* Worker p enters Obtain with its copy r of the row of c.                 *)
Begins(p, c, r, rest) ==
    /\ w' = [w EXCEPT ![p].at = "mark", ![p].cert = c, ![p].copy = r, ![p].todo = rest]
    /\ overlapped' = overlapped \cup {d \in {c} : Shared(d, p)}

Fails == faults < MaxFaults /\ faults' = faults + 1

-----------------------------------------------------------------------------
(* renewDueCertificates.                                                   *)

InRound(p) == p \in Loops /\ w[p].at \notin {"idle", "leaseInsert"}

(* AcquireLease, first statement: refresh our own lease or take an expired *)
(* one; if the UPDATE matches no row, try the INSERT.                      *)
LeaseUpdate(p) ==
    /\ p \in Loops /\ At(p, "idle")
    /\ \/ /\ lease # Nobody /\ (lease = On[p] \/ ~current)
          /\ lease' = On[p] /\ current' = TRUE
          /\ Goes(p, "list")
       \/ /\ lease = Nobody \/ (lease # On[p] /\ current)
          /\ Goes(p, "leaseInsert") /\ UNCHANGED <<lease, current>>
    /\ UNCHANGED <<dns, row, aged, issued, account, procVars, calls, faults, ghostVars>>

(* Mutant of LeaseInsert: a conflict replaces the row.                     *)
LeaseUpsert(p) ==
    /\ p \in Loops /\ At(p, "leaseInsert")
    /\ lease' = On[p] /\ current' = TRUE
    /\ Goes(p, "list")
    /\ UNCHANGED <<dns, row, aged, issued, account, procVars, calls, faults, ghostVars>>

LeaseInsert(p) ==
    /\ p \in Loops /\ At(p, "leaseInsert")
    /\ \/ /\ lease = Nobody
          /\ lease' = On[p] /\ current' = TRUE
          /\ Goes(p, "list")
       \/ /\ lease # Nobody
          /\ Rests(p) /\ UNCHANGED <<lease, current>>
    /\ UNCHANGED <<dns, row, aged, issued, account, procVars, calls, faults, ghostVars>>

(* Mutant of Due: a failed certificate waits for its expiry.               *)
DueByExpiry(c, r) == r.pem = 0 \/ <<c, r.pem>> \in aged

Due(c, r) == r.status = "failed" \/ r.pem = 0 \/ <<c, r.pem>> \in aged

ListDue(p) ==
    /\ At(p, "list")
    /\ \/ /\ w' = [w EXCEPT ![p].at = "next",
                            ![p].todo = {cr \in Certs \X Row : cr[2] \in row[cr[1]] /\ Due(cr[1], cr[2])}]
          /\ overlapped' = overlapped \cup {c \in Certs : Shared(c, p)}
          /\ UNCHANGED faults
       \/ Fails /\ Rests(p) /\ UNCHANGED overlapped
    /\ UNCHANGED <<dbVars, procVars, calls, interrupted, lapsed>>

(* The next certificate; after the last, a Reload if any was renewed (see  *)
(* Pipeline), and the loop waits for its timer.                            *)
NextDue(p) ==
    /\ At(p, "next")
    /\ \/ \E cr \in w[p].todo : Begins(p, cr[1], cr[2], w[p].todo \ {cr})
       \/ w[p].todo = {} /\ Rests(p) /\ UNCHANGED overlapped
    /\ UNCHANGED <<dbVars, procVars, calls, faults, interrupted, lapsed>>

-----------------------------------------------------------------------------
(* The handlers: handleRenewCert and handleCreateCert start an issuance in *)
(* the background, handleDeleteCert removes the row.                       *)

Called == calls < MaxCalls /\ calls' = calls + 1

RenewCert(p, c) ==
    /\ p \in Calls /\ At(p, "idle") /\ Called
    /\ \E r \in row[c] : Begins(p, c, r, {})
    /\ UNCHANGED <<dbVars, procVars, faults, interrupted, lapsed>>

CreateCert(p, c) ==
    /\ p \in Calls /\ At(p, "idle") /\ row[c] = {} /\ Called
    /\ row' = [row EXCEPT ![c] = {NoCopy}]
    /\ Begins(p, c, NoCopy, {})
    /\ UNCHANGED <<dns, aged, issued, lease, current, account, procVars, faults, interrupted, lapsed>>

DeleteCert(c) ==
    /\ row[c] # {} /\ Called
    /\ row' = [row EXCEPT ![c] = {}]
    /\ UNCHANGED <<dns, aged, issued, lease, current, account, procVars, w, faults, ghostVars>>

-----------------------------------------------------------------------------
(* Mutant of Written: a second row appears beside the first.               *)
Added(c, r) == [row EXCEPT ![c] = IF @ = {} THEN {} ELSE @ \cup {r}]

(* Obtain.  UpdateCertificate writes every column of the copy; it changes  *)
(* nothing when the row is gone.                                           *)
Written(c, r) == [row EXCEPT ![c] = IF @ = {} THEN {} ELSE {r}]

(* UpdateCertificate's error is dropped here.                              *)
Mark(p) ==
    LET r == [w[p].copy EXCEPT !.status = "pending"] IN
    /\ At(p, "mark")
    /\ w' = [w EXCEPT ![p].at = "account", ![p].copy = r]
    /\ \/ row' = Written(w[p].cert, r) /\ UNCHANGED faults
       \/ Fails /\ UNCHANGED row
    /\ UNCHANGED <<dns, aged, issued, lease, current, account, procVars, calls, ghostVars>>

(* getOrCreateAccount: any error of the lookup is taken for "none yet".    *)
Account(p) ==
    /\ At(p, "account")
    /\ \/ account /\ Goes(p, "challenge") /\ UNCHANGED faults
       \/ ~account /\ Goes(p, "register") /\ UNCHANGED faults
       \/ account /\ Fails /\ Goes(p, "register")
    /\ UNCHANGED <<dbVars, procVars, calls, ghostVars>>

(* The CA registers a key, or refuses; the account is inserted, but the    *)
(* unique index on email and CA refuses a second one.                      *)
Register(p) ==
    /\ At(p, "register")
    /\ \/ ~account /\ account' = TRUE /\ Goes(p, "challenge")
          /\ UNCHANGED faults
       \/ account /\ Goes(p, "saveFailure") /\ UNCHANGED <<account, faults>>
       \/ Fails /\ Goes(p, "saveFailure") /\ UNCHANGED account
    /\ UNCHANGED <<dns, row, aged, issued, lease, current, procVars, calls, ghostVars>>

Inst(p) == On[p]

(* dnsProvider: the stored credentials go into the environment under       *)
(* envMu, which stays locked until cleanup.  Credentials that cannot be    *)
(* read, or a provider that cannot be built, leave nothing behind.         *)
DnsProvider(p) ==
    /\ At(p, "challenge") /\ w[p].cert \in dns /\ envMu[Inst(p)] = Nobody
    /\ \/ /\ envMu' = [envMu EXCEPT ![Inst(p)] = p]
          /\ env' = [env EXCEPT ![Inst(p)] = p]
          /\ Goes(p, "order") /\ UNCHANGED faults
       \/ Fails /\ Goes(p, "saveFailure") /\ UNCHANGED <<envMu, env>>
    /\ UNCHANGED <<dbVars, tokens, calls, ghostVars>>

(* http-01 needs neither: the token is presented to the responder.         *)
Present(p) ==
    /\ At(p, "challenge") /\ w[p].cert \notin dns
    /\ tokens' = [tokens EXCEPT ![Inst(p)] = @ \cup {p}]
    /\ Goes(p, "order")
    /\ UNCHANGED <<dbVars, envMu, env, calls, faults, ghostVars>>

(* Certificate.Obtain: the CA validates and issues, or the order fails.    *)
(* At the bound MaxIssued the CA always refuses, as its rate limits do.    *)
Ordered(p) ==
    \/ /\ issued[w[p].cert] < MaxIssued
       /\ issued' = [issued EXCEPT ![w[p].cert] = @ + 1]
       /\ w' = [w EXCEPT ![p].at = "save", ![p].got = issued[w[p].cert] + 1]
       /\ UNCHANGED faults
    \/ /\ issued[w[p].cert] = MaxIssued \/ faults < MaxFaults
       /\ faults' = IF issued[w[p].cert] = MaxIssued THEN faults ELSE faults + 1
       /\ Goes(p, "saveFailure") /\ UNCHANGED issued

(* Mutant of Order: a failed order returns before the cleanup.             *)
OrderLeaks(p) ==
    /\ At(p, "order") /\ Ordered(p)
    /\ tokens' = [tokens EXCEPT ![Inst(p)] = @ \ {p}]
    /\ IF envMu[Inst(p)] = p /\ issued' # issued
       THEN /\ envMu' = [envMu EXCEPT ![Inst(p)] = Nobody]
            /\ env' = [env EXCEPT ![Inst(p)] = Nobody]
       ELSE UNCHANGED <<envMu, env>>
    /\ UNCHANGED <<dns, row, aged, lease, current, account, calls, ghostVars>>

(* Then the responder forgets the token, or the deferred cleanup restores  *)
(* the environment and unlocks.                                            *)
Order(p) ==
    /\ At(p, "order") /\ Ordered(p)
    /\ tokens' = [tokens EXCEPT ![Inst(p)] = @ \ {p}]
    /\ IF envMu[Inst(p)] = p
       THEN /\ envMu' = [envMu EXCEPT ![Inst(p)] = Nobody]
            /\ env' = [env EXCEPT ![Inst(p)] = Nobody]
       ELSE UNCHANGED <<envMu, env>>
    /\ UNCHANGED <<dns, row, aged, lease, current, account, calls, ghostVars>>

(* Obtain returns: the loop goes on with its list; a call is over, after a *)
(* Reload if it succeeded.                                                 *)
Returns(p) ==
    w' = [w EXCEPT ![p] = IF p \in Loops THEN [AtRest EXCEPT !.at = "next", !.todo = w[p].todo]
                          ELSE AtRest]

CutShort(p) == interrupted' = interrupted \cup {w[p].cert}

Ended(p) == interrupted' = interrupted \ {w[p].cert}

Save(p) ==
    LET g == w[p].got IN
    /\ At(p, "save")
    /\ \/ /\ row' = Written(w[p].cert, [status |-> "valid", pem |-> g, key |-> g])
          /\ Ended(p) /\ UNCHANGED faults
       \/ Fails /\ CutShort(p) /\ UNCHANGED row
    /\ Returns(p)
    /\ UNCHANGED <<dns, aged, issued, lease, current, account, procVars, calls, overlapped, lapsed>>

(* Mutant of SaveFailure: the failure also clears the material.            *)
SaveFailureEmpty(p) ==
    /\ At(p, "saveFailure")
    /\ row' = Written(w[p].cert, [status |-> "failed", pem |-> 0, key |-> 0])
    /\ Returns(p)
    /\ UNCHANGED <<dns, aged, issued, lease, current, account, procVars, calls, faults, ghostVars>>

SaveFailure(p) ==
    /\ At(p, "saveFailure")
    /\ \/ /\ row' = Written(w[p].cert, [w[p].copy EXCEPT !.status = "failed"])
          /\ Ended(p) /\ UNCHANGED faults
       \/ Fails /\ CutShort(p) /\ UNCHANGED row
    /\ Returns(p)
    /\ UNCHANGED <<dns, aged, issued, lease, current, account, procVars, calls, overlapped, lapsed>>

-----------------------------------------------------------------------------
(* The environment.                                                        *)

(* Time passes: a certificate comes within 30 days of its end.             *)
Ages(c) ==
    /\ \E r \in row[c] : r.pem > 0 /\ <<c, r.pem>> \notin aged /\ aged' = aged \cup {<<c, r.pem>>}
    /\ UNCHANGED <<dns, row, issued, lease, current, account, procVars, w, calls, faults, ghostVars>>

(* The lease's TTL is over; nobody renews it during a round.               *)
LeaseExpires ==
    /\ current /\ Fails
    /\ current' = FALSE
    /\ lapsed' = (lapsed \/ \E p \in Loops : On[p] = lease /\ InRound(p))
    /\ UNCHANGED <<dns, row, aged, issued, lease, account, procVars, w, calls, overlapped, interrupted>>

(* An instance dies and starts again, with the holderID it had: hostname   *)
(* and pid are the same when its container restarts.                       *)
Crash(i) ==
    /\ Fails
    /\ w' = [p \in Workers |-> IF On[p] = i THEN AtRest ELSE w[p]]
    /\ interrupted' = interrupted \cup
                        {w[p].cert : p \in {q \in Workers : On[q] = i /\ w[q].at \in Issuing}}
    /\ envMu' = [envMu EXCEPT ![i] = Nobody]
    /\ env' = [env EXCEPT ![i] = Nobody]
    /\ tokens' = [tokens EXCEPT ![i] = {}]
    /\ UNCHANGED <<dbVars, calls, overlapped, lapsed>>

-----------------------------------------------------------------------------
Obtains(p) ==
    \/ Mark(p) \/ Account(p) \/ Register(p) \/ DnsProvider(p) \/ Present(p) \/ Order(p)
    \/ Save(p) \/ SaveFailure(p)

Round(p) == LeaseInsert(p) \/ ListDue(p) \/ NextDue(p)

Next ==
    \/ \E p \in Workers : LeaseUpdate(p) \/ Round(p) \/ Obtains(p)
    \/ \E p \in Calls, c \in Certs : RenewCert(p, c) \/ CreateCert(p, c)
    \/ \E c \in Certs : DeleteCert(c) \/ Ages(c)
    \/ LeaseExpires
    \/ \E i \in Instances : Crash(i)

Spec == Init /\ [][Next]_vars

-----------------------------------------------------------------------------
(* Credentials in the process environment are those of the one issuance    *)
(* that holds envMu, for as long as it talks to its provider, and nothing  *)
(* stays behind: not after a failed order, not after a refused provider.   *)
EnvIsOwners ==
    /\ \A p \in Workers : w[p].cert \in dns /\ At(p, "order") =>
            env[On[p]] = p /\ envMu[On[p]] = p
    /\ \A i \in Instances :
            /\ env[i] = envMu[i]
            /\ envMu[i] # Nobody => At(envMu[i], "order")
            /\ \A p \in tokens[i] : At(p, "order")

(* Leader election: two instances renew at once only after a lease ran out *)
(* under an instance that was still renewing.                              *)
OneRenewer ==
    ~lapsed => \A p, q \in Loops : InRound(p) /\ InRound(q) => On[p] = On[q]

(* A certificate that is not valid, and so is not served, and that nobody  *)
(* is issuing, is due at the next round: unless a crash or an error of the *)
(* database cut its last issuance short.                                   *)
UnservedIsDue ==
    \A c \in Certs \ interrupted :
        ~Busy(c) => \A r \in row[c] : r.status # "valid" => Due(c, r)

(* While only one worker at a time has a copy of its row, a certificate    *)
(* never goes back to an older generation and never parts with its key,    *)
(* whatever fails.                                                         *)
NewestKept ==
    [][\A c \in Certs \ overlapped' :
        \A r \in row[c], q \in row'[c] : q.pem >= r.pem /\ q.key = q.pem]_vars
=============================================================================
