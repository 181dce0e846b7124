----------------------------- MODULE AdminProofs -----------------------------
(***************************************************************************)
(* The accounts (Accounts) and the configuration the operators keep        *)
(* (Hosts, over Rendering): what the admin API promises, for every number  *)
(* of accounts, requests, hosts, access lists, middlewares and jobs.       *)
(***************************************************************************)
EXTENDS Accounts, Hosts, FiniteSetTheorems, TLAPS

Checking == {q \in Requests : At(q, "lookup")}

Deleting(q) == At(q, "dropSessions") \/ At(q, "dropUser")

\* An account that was looked up, or is logged in, has been drawn.
LoginInv == \A q \in Requests : At(q, "session") => req[q].id \in drawn

\* Why OneSetup holds: on SQLite the insert of the first user finds an empty table, and then
\* nobody has been set up since it was last empty; no request has only read so far.
SetupInv ==
    dialect = "sqlite" =>
        setups <= 1 /\ (Present = {} => setups = 0) /\ \A q \in Requests : ~At(q, "insert")

\* Why DeletionKeepsAdmin holds: until another request changes an account, the caller who
\* was found to be an administrator still is one, and is not the account to be deleted.
DeleterInv ==
    \A q \in Requests : Deciding(q) /\ q \notin meddled =>
        req[q].me \in Admins /\ (Deleting(q) => req[q].me # req[q].id)

AccountsIInv == AccountsTypeOK /\ LoginInv /\ GuessesBounded /\ SetupInv /\ DeleterInv

-----------------------------------------------------------------------------
(* Any set of requests is finite and no larger than all of them.           *)
LEMMA RequestsFinite ==
    ASSUME NEW S \in SUBSET Requests
    PROVE  IsFiniteSet(S) /\ Cardinality(S) \in Nat /\ Cardinality(Requests) \in Nat
           /\ Cardinality(S) <= Cardinality(Requests)
BY FS_Subset, FS_CardinalityType, AccountsAssumption

(* An empty installation satisfies the invariant.                          *)
LEMMA AccountsInitIInv == AccountsInit => AccountsIInv
<1> SUFFICES ASSUME AccountsInit PROVE AccountsIInv
  OBVIOUS
<1>1. Checking = {} /\ Cardinality(Checking) = 0
  BY FS_EmptySet DEF AccountsInit, Checking, At, NoRequest
<1>2. GuessesBounded
  BY <1>1, RequestsFinite, AccountsAssumption DEF AccountsInit, GuessesBounded, Checking
<1>3. AccountsTypeOK
  <2>. DEFINE Rows0 == {[role |-> "admin", disabled |-> FALSE], Anyone}
  <2>1. users \in [Users -> SUBSET Rows0] /\ drawn \subseteq Users
        /\ \A u \in Users : Cardinality(users[u]) = IF u \in drawn THEN 1 ELSE 0
    BY DEF AccountsInit
  <2>2. Rows0 \subseteq User /\ IsFiniteSet(Rows0)
    <3>1. IsFiniteSet({Anyone})
      BY FS_Singleton
    <3>2. Rows0 = {Anyone} \cup {[role |-> "admin", disabled |-> FALSE]}
      OBVIOUS
    <3>3. IsFiniteSet(Rows0)
      BY <3>1, <3>2, FS_AddElement
    <3>. QED
      BY <3>3 DEF User, Roles, Anyone
  <2>. HIDE DEF Rows0
  <2>4. users \in [Users -> SUBSET User]
    BY <2>1, <2>2
  <2>5. \A u \in Users : Cardinality(users[u]) <= 1 /\ (u \notin drawn => Cardinality(users[u]) = 0)
    BY <2>1
  <2>6. \A u \in Users : IsFiniteSet(users[u])
    BY <2>1, <2>2, FS_Subset
  <2>7. \A u \in Users \ drawn : users[u] = {}
    BY <2>5, <2>6, FS_EmptySet
  <2>3. req \in [Requests -> [at : Stages, me : Users \cup {NoUser}, id : Users \cup {NoUser}, row : User]]
    BY DEF AccountsInit, NoRequest, Stages, Anyone, User, Roles
  <2>. QED
    BY <2>1, <2>3, <2>4, <2>5, <2>7, RequestsFinite, AccountsAssumption DEF AccountsInit, AccountsTypeOK
<1>4. LoginInv /\ DeleterInv
  BY DEF AccountsInit, LoginInv, DeleterInv, Deciding, At, NoRequest
<1>5. SetupInv
  BY DEF AccountsInit, SetupInv, At, NoRequest
<1>. QED
  BY <1>2, <1>3, <1>4, <1>5 DEF AccountsIInv

(* A request that leaves "lookup" or enters it changes the number of those *)
(* being checked by one.                                                   *)
LEMMA CheckingSteps ==
    ASSUME NEW q \in Requests, req \in [Requests -> [at : Stages, me : Users \cup {NoUser},
                                        id : Users \cup {NoUser}, row : User]],
           \A p \in Requests \ {q} : req'[p].at = req[p].at
    PROVE  /\ Cardinality(Checking) \in Nat /\ Cardinality(Checking') \in Nat
           /\ Cardinality(Checking') <= Cardinality(Requests)
           /\ (At(q, "lookup")' <=> At(q, "lookup")) => Cardinality(Checking') = Cardinality(Checking)
           /\ At(q, "lookup") /\ ~At(q, "lookup")' => Cardinality(Checking') = Cardinality(Checking) - 1
           /\ ~At(q, "lookup") /\ At(q, "lookup")' => Cardinality(Checking') = Cardinality(Checking) + 1
<1>1. IsFiniteSet(Checking) /\ IsFiniteSet(Checking')
  BY RequestsFinite DEF Checking
<1>2. /\ Cardinality(Checking) \in Nat /\ Cardinality(Checking') \in Nat
      /\ Cardinality(Checking') <= Cardinality(Requests)
  BY RequestsFinite DEF Checking
<1>3. (At(q, "lookup")' <=> At(q, "lookup")) => Checking' = Checking
  BY DEF Checking, At
<1>4. At(q, "lookup") /\ ~At(q, "lookup")' => Checking' = Checking \ {q} /\ q \in Checking
  BY DEF Checking, At
<1>5. ~At(q, "lookup") /\ At(q, "lookup")' => Checking' = Checking \cup {q} /\ q \notin Checking
  BY DEF Checking, At
<1>. QED
  BY <1>1, <1>2, <1>3, <1>4, <1>5, FS_AddElement, FS_RemoveElement

ReqType == [Requests -> [at : Stages, me : Users \cup {NoUser}, id : Users \cup {NoUser}, row : User]]

\* What the steps of a request q do.
Acts(q) ==
    \/ LoginStarts(q) \/ LoginChecks(q) \/ CreateSession(q)
    \/ SetupCounts(q) \/ CreateFirstUser(q) \/ FirstUserInserted(q)
    \/ Refused(q) \/ Authorized(q) \/ CreateUser(q) \/ UpdateUser(q) \/ DropSessions(q) \/ DropUser(q)
    \/ \E u \in Users : GetSession(q, u) \/ UpdateUserReads(q, u) \/ DeleteUser(q, u)

(* The steps of the specification.                                         *)
LEMMA AccountsSteps ==
    ASSUME [AccountsNext]_accountsVars
    PROVE  \/ \E q \in Requests : Acts(q)
           \/ \E u \in Users : SessionEnds(u)
           \/ WindowElapses \/ Restart \/ UNCHANGED accountsVars
<1>1. CASE UNCHANGED accountsVars
  BY <1>1
<1>2. CASE AccountsNext
  BY <1>2 DEF AccountsNext, AccountsMove, Acts
<1>. QED
  BY <1>1, <1>2

(* A request keeps the types of all of them and changes only its own.      *)
LEMMA OwnRequest ==
    ASSUME AccountsTypeOK, NEW q \in Requests, Acts(q)
    PROVE  req' \in ReqType /\ \A p \in Requests \ {q} : req'[p] = req[p]
<1> USE DEF AccountsTypeOK, ReqType
<1>0. NoRequest \in [at : Stages, me : Users \cup {NoUser}, id : Users \cup {NoUser}, row : User]
  BY DEF NoRequest, Stages, Anyone, User, Roles
<1>1. CASE Done(q)
  BY <1>0, <1>1 DEF Done
<1>2. ASSUME NEW s \in Stages, Go(q, s) PROVE req' \in ReqType /\ \A p \in Requests \ {q} : req'[p] = req[p]
  BY <1>2 DEF Go
<1>3. CASE LoginStarts(q) \/ SetupCounts(q) \/ DropSessions(q) \/ Authorized(q)
  BY <1>1, <1>2, <1>3 DEF LoginStarts, SetupCounts, DropSessions, Authorized, Stages
<1>4. CASE LoginChecks(q)
  BY <1>1, <1>4 DEF LoginChecks, Stages
<1>5. CASE CreateSession(q) \/ CreateFirstUser(q) \/ FirstUserInserted(q) \/ Refused(q) \/ CreateUser(q)
           \/ UpdateUser(q) \/ DropUser(q)
  BY <1>1, <1>2, <1>5 DEF CreateSession, CreateFirstUser, FirstUserInserted, FirstAdmin, NotCreated, Refused,
     CreateUser, UpdateUser, DropUser, Stages
<1>6. ASSUME NEW u \in Users, GetSession(q, u) \/ UpdateUserReads(q, u) \/ DeleteUser(q, u)
      PROVE  req' \in ReqType /\ \A p \in Requests \ {q} : req'[p] = req[p]
  BY <1>6 DEF GetSession, UpdateUserReads, DeleteUser, Stages
<1>. QED
  BY <1>3, <1>4, <1>5, <1>6 DEF Acts

(* ratelimit.go: the check and the count are two critical sections, and    *)
(* between them a request is being checked.                                *)
LEMMA GuessStep ==
    ASSUME AccountsTypeOK, GuessesBounded, [AccountsNext]_accountsVars
    PROVE  GuessesBounded' /\ attempts' \in 0..(MaxFails + Cardinality(Requests))
<1> USE AccountsAssumption
<1>0. Cardinality(Requests) \in Nat /\ Cardinality(Checking) \in Nat /\ Cardinality(Checking') \in Nat
      /\ Cardinality(Checking') <= Cardinality(Requests)
  BY RequestsFinite DEF Checking
<1>00. (GuessesBounded <=> attempts + Cardinality(Checking) < MaxFails + Cardinality(Requests))
       /\ (GuessesBounded' <=> attempts' + Cardinality(Checking') < MaxFails + Cardinality(Requests))
  BY DEF GuessesBounded, Checking
<1>. HIDE DEF GuessesBounded
<1>000. attempts \in Nat
  BY <1>0 DEF AccountsTypeOK
<1>1. ASSUME NEW q \in Requests, Acts(q) PROVE GuessesBounded' /\ attempts' \in Nat
  <2>1. req \in ReqType /\ req' \in ReqType /\ \A p \in Requests \ {q} : req'[p].at = req[p].at
    BY <1>1, OwnRequest DEF AccountsTypeOK, ReqType
  <2>2. /\ (At(q, "lookup")' <=> At(q, "lookup")) => Cardinality(Checking') = Cardinality(Checking)
        /\ At(q, "lookup") /\ ~At(q, "lookup")' => Cardinality(Checking') = Cardinality(Checking) - 1
    BY <2>1, CheckingSteps DEF ReqType
  <2>3. CASE LoginStarts(q)
    BY <1>0, <1>00, <1>000, <2>3 DEF LoginStarts, Allowed
  <2>4. CASE LoginChecks(q)
    <3>1. At(q, "lookup") /\ ~At(q, "lookup")'
      BY <2>1, <2>4 DEF LoginChecks, At, Done, NoRequest, ReqType
    <3>2. attempts' = 0 \/ attempts' = attempts + 1
      BY <2>4 DEF LoginChecks
    <3>. QED
      BY <1>0, <1>00, <1>000, <2>2, <3>1, <3>2
  <2>5. CASE ~At(q, "lookup") /\ ~At(q, "lookup")' /\ attempts' = attempts
    BY <1>0, <1>00, <1>000, <2>2, <2>5
  <2>6. CASE CreateSession(q) \/ SetupCounts(q) \/ CreateFirstUser(q) \/ FirstUserInserted(q) \/ Refused(q)
             \/ Authorized(q) \/ CreateUser(q) \/ UpdateUser(q) \/ DropSessions(q) \/ DropUser(q)
    BY <2>1, <2>5, <2>6 DEF CreateSession, SetupCounts, CreateFirstUser, FirstUserInserted, FirstAdmin,
       NotCreated, Refused, Authorized, CreateUser, UpdateUser, DropSessions, DropUser, Done, Go, At,
       NoRequest, ReqType
  <2>7. ASSUME NEW u \in Users, GetSession(q, u) \/ UpdateUserReads(q, u) \/ DeleteUser(q, u)
        PROVE  GuessesBounded' /\ attempts' \in Nat
    BY <2>1, <2>5, <2>7 DEF GetSession, UpdateUserReads, DeleteUser, At, ReqType
  <2>. QED
    BY <1>1, <2>3, <2>4, <2>6, <2>7 DEF Acts
<1>2. CASE attempts' = 0
  BY <1>0, <1>00, <1>2
<1>3. CASE attempts' = attempts /\ req' = req
  BY <1>0, <1>00, <1>000, <1>3 DEF Checking, At
<1>4. GuessesBounded' /\ attempts' \in Nat
  BY <1>1, <1>2, <1>3, AccountsSteps DEF SessionEnds, WindowElapses, Restart, accountsVars
<1>. QED
  BY <1>0, <1>00, <1>4

(* What is inserted is drawn, and an update leaves an absent row absent    *)
(* (users.go: UpdateUser affects no row then).                             *)
LEMMA AccountsTypeStep ==
    ASSUME AccountsTypeOK, LoginInv, GuessesBounded, [AccountsNext]_accountsVars
    PROVE  AccountsTypeOK'
<1>. DEFINE Table == /\ users' \in [Users -> SUBSET User] /\ drawn' \subseteq Users
                     /\ \A u \in Users : Cardinality(users'[u]) <= 1
                     /\ \A u \in Users \ drawn' : users'[u] = {}
            Rest == sessions' \subseteq drawn' /\ setups' \in Nat /\ meddled' \subseteq Requests
<1>1. ASSUME NEW u \in Users, NEW r \in User,
             users' = [users EXCEPT ![u] = {r}], u \in drawn', drawn \subseteq drawn', drawn' \subseteq Users
      PROVE  Table
  <2>1. Cardinality({r}) = 1
    BY FS_Singleton
  <2>. QED
    BY <1>1, <2>1 DEF AccountsTypeOK
<1>0. /\ users \in [Users -> SUBSET User] /\ drawn \subseteq Users
      /\ \A u \in Users : Cardinality(users[u]) <= 1
      /\ \A u \in Users \ drawn : users[u] = {}
  BY DEF AccountsTypeOK
<1>2. ASSUME users' = users, drawn' = drawn PROVE Table
  BY <1>0, <1>2
<1>3. ASSUME NEW q \in Requests, Acts(q) PROVE Table /\ Rest /\ req' \in ReqType
  <2>1. req' \in ReqType
    BY <1>3, OwnRequest
  <2>2. CASE LoginStarts(q) \/ LoginChecks(q) \/ SetupCounts(q) \/ Refused(q) \/ Authorized(q)
    BY <1>2, <2>1, <2>2 DEF LoginStarts, LoginChecks, SetupCounts, Refused, Authorized, Spared, AccountsTypeOK
  <2>3. CASE CreateSession(q)
    BY <1>2, <2>1, <2>3 DEF CreateSession, Spared, AccountsTypeOK, LoginInv
  <2>4. CASE CreateFirstUser(q) \/ FirstUserInserted(q) \/ CreateUser(q)
    <3>1. ASSUME NEW u \in Users \ drawn, NEW role \in Roles, Insert(u, [role |-> role, disabled |-> FALSE])
          PROVE  Table
      <4>1. [role |-> role, disabled |-> FALSE] \in User
        BY DEF User
      <4>. QED
        BY <1>1, <3>1, <4>1 DEF Insert, AccountsTypeOK
    <3>2. "admin" \in Roles
      BY DEF Roles
    <3>3. Table
      <4>1. CASE \E u \in Users \ drawn, role \in Roles : Insert(u, [role |-> role, disabled |-> FALSE])
        BY <3>1, <4>1
      <4>2. CASE users' = users /\ drawn' = drawn
        BY <1>2, <4>2
      <4>. QED
        BY <2>4, <3>2, <4>1, <4>2 DEF CreateFirstUser, FirstUserInserted, FirstAdmin, NotCreated, CreateUser
    <3>4. drawn \subseteq drawn'
      BY <2>4 DEF CreateFirstUser, FirstUserInserted, FirstAdmin, NotCreated, CreateUser, Insert
    <3>5. setups' \in Nat /\ sessions' = sessions
      BY <2>4 DEF CreateFirstUser, FirstUserInserted, FirstAdmin, NotCreated, CreateUser,
         AccountsTypeOK
    <3>6. meddled' \subseteq Requests
      BY <2>4 DEF CreateFirstUser, FirstUserInserted, FirstAdmin, NotCreated, CreateUser, Meddles,
         Spared, AccountsTypeOK
    <3>. QED
      BY <2>1, <3>3, <3>4, <3>5, <3>6 DEF AccountsTypeOK
  <2>5. CASE UpdateUser(q)
    <3>1. CASE req[q].id \in Users /\ users[req[q].id] # {}
      <4>1. users' = [users EXCEPT ![req[q].id] = {req[q].row}] /\ drawn' = drawn /\ req[q].row \in User
        BY <2>5, <3>1 DEF UpdateUser, AccountsTypeOK
      <4>. QED
        BY <1>1, <2>1, <2>5, <3>1, <4>1 DEF UpdateUser, Meddles, AccountsTypeOK
    <3>2. CASE ~(req[q].id \in Users /\ users[req[q].id] # {})
      <4>0. users' = [users EXCEPT ![req[q].id] = IF @ = {} THEN {} ELSE {req[q].row}]
        BY <2>5 DEF UpdateUser
      <4>1. users' = users
        BY <1>0, <3>2, <4>0
      <4>. QED
        BY <1>2, <2>1, <2>5, <4>1 DEF UpdateUser, Meddles, AccountsTypeOK
    <3>. QED
      BY <3>1, <3>2
  <2>6. CASE DropSessions(q)
    BY <1>2, <2>1, <2>6 DEF DropSessions, Spared, AccountsTypeOK
  <2>7. CASE DropUser(q)
    <3>1. Table
      <4>1. users' = [users EXCEPT ![req[q].id] = {}] /\ drawn' = drawn
        BY <2>7 DEF DropUser
      <4>. QED
        <5>1. \A u \in Users : users'[u] = {} \/ users'[u] = users[u]
          BY <1>0, <4>1
        <5>2. users' \in [Users -> SUBSET User]
          BY <1>0, <4>1
        <5>3. Cardinality({}) = 0
          BY FS_EmptySet
        <5>. QED
          BY <1>0, <4>1, <5>1, <5>2, <5>3
    <3>. QED
      BY <2>1, <2>7, <3>1 DEF DropUser, Meddles, AccountsTypeOK
  <2>8. ASSUME NEW u \in Users, GetSession(q, u) \/ UpdateUserReads(q, u) \/ DeleteUser(q, u)
        PROVE  Table /\ Rest /\ req' \in ReqType
    BY <1>2, <2>1, <2>8 DEF GetSession, UpdateUserReads, DeleteUser, Spared, AccountsTypeOK
  <2>. QED
    BY <1>3, <2>2, <2>3, <2>4, <2>5, <2>6, <2>7, <2>8 DEF Acts
<1>4. ASSUME NEW u \in Users, SessionEnds(u) PROVE Table /\ Rest /\ req' \in ReqType
  BY <1>2, <1>4 DEF SessionEnds, AccountsTypeOK, ReqType
<1>5. ASSUME WindowElapses \/ UNCHANGED accountsVars PROVE Table /\ Rest /\ req' \in ReqType
  BY <1>2, <1>5 DEF WindowElapses, accountsVars, AccountsTypeOK, ReqType
<1>6. ASSUME Restart PROVE Table /\ Rest /\ req' \in ReqType
  <2>1. NoRequest \in [at : Stages, me : Users \cup {NoUser}, id : Users \cup {NoUser}, row : User]
    BY DEF NoRequest, Stages, Anyone, User, Roles
  <2>. QED
    BY <1>2, <1>6, <2>1 DEF Restart, AccountsTypeOK, ReqType
<1>7. Table /\ Rest /\ req' \in ReqType
  <2>. HIDE DEF Table, Rest
  <2>. QED
    BY <1>3, <1>4, <1>5, <1>6, AccountsSteps
<1>8. dialect' = dialect
  BY DEF AccountsNext, accountsVars
<1>. QED
  BY <1>7, <1>8, GuessStep DEF AccountsTypeOK, ReqType

(* users.go, CreateFirstUser: on SQLite the insert is conditional on an    *)
(* empty table, in one step.                                               *)
LEMMA SetupStep ==
    ASSUME AccountsTypeOK, SetupInv, [AccountsNext]_accountsVars
    PROVE  SetupInv'
<1>. SUFFICES ASSUME dialect' = "sqlite"
              PROVE  setups' <= 1 /\ (Present' = {} => setups' = 0) /\ \A q \in Requests : ~At(q, "insert")'
  BY DEF SetupInv
<1>. DEFINE Table == setups' <= 1 /\ (Present' = {} => setups' = 0)
<1>0. /\ dialect = "sqlite" /\ setups \in Nat
      /\ setups <= 1 /\ (Present = {} => setups = 0) /\ \A q \in Requests : ~At(q, "insert")
  BY DEF AccountsNext, accountsVars, SetupInv, AccountsTypeOK
<1>1. ASSUME UNCHANGED <<users, setups>> PROVE Table
  BY <1>0, <1>1 DEF Present
<1>2. ASSUME NEW q \in Requests, Acts(q)
      PROVE  Table /\ ~At(q, "insert")' /\ \A p \in Requests \ {q} : ~At(p, "insert")'
  <2>1. req \in ReqType /\ req' \in ReqType /\ \A p \in Requests \ {q} : req'[p] = req[p]
    BY <1>2, OwnRequest DEF AccountsTypeOK, ReqType
  <2>2. \A p \in Requests \ {q} : ~At(p, "insert")'
    BY <1>0, <2>1 DEF At
  <2>3. ASSUME Done(q) PROVE ~At(q, "insert")'
    BY <2>1, <2>3 DEF Done, NoRequest, At, ReqType
  <2>4. CASE LoginStarts(q) \/ LoginChecks(q) \/ CreateSession(q) \/ SetupCounts(q) \/ Refused(q)
             \/ Authorized(q) \/ DropSessions(q)
    <3>1. ~At(q, "insert")'
      BY <2>1, <2>3, <2>4 DEF LoginStarts, LoginChecks, CreateSession, SetupCounts, Refused, Authorized,
         DropSessions, Go, At, ReqType
    <3>2. UNCHANGED <<users, setups>>
      BY <2>4 DEF LoginStarts, LoginChecks, CreateSession, SetupCounts, Refused, Authorized, DropSessions
    <3>. QED
      BY <1>1, <2>2, <3>1, <3>2
  <2>5. CASE CreateFirstUser(q)
    <3>1. CASE FirstAdmin(q) /\ Present = {}
      <4>1. PICK u \in Users \ drawn : Insert(u, [role |-> "admin", disabled |-> FALSE])
        BY <3>1 DEF FirstAdmin
      <4>2. u \in Present' /\ setups' = setups + 1 /\ Done(q)
        BY <3>1, <4>1 DEF FirstAdmin, Insert, Present, AccountsTypeOK
      <4>. QED
        BY <1>0, <2>2, <2>3, <3>1, <4>2
    <3>2. CASE NotCreated(q)
      BY <1>1, <2>2, <2>3, <3>2 DEF NotCreated
    <3>. QED
      BY <1>0, <2>5, <3>1, <3>2 DEF CreateFirstUser
  <2>6. CASE FirstUserInserted(q)
    BY <1>0, <2>6 DEF FirstUserInserted
  <2>7. CASE CreateUser(q)
    <3>1. Done(q) /\ setups' = setups
      BY <2>7 DEF CreateUser
    <3>2. Present' = {} => Present = {}
      BY <2>7 DEF CreateUser, Insert, Present, AccountsTypeOK
    <3>. QED
      BY <1>0, <2>2, <2>3, <3>1, <3>2
  <2>8. CASE UpdateUser(q)
    <3>1. Present' = Present /\ setups' = setups /\ Done(q)
      BY <2>8 DEF UpdateUser, Present, AccountsTypeOK
    <3>. QED
      BY <1>0, <2>2, <2>3, <3>1
  <2>9. CASE DropUser(q)
    <3>1. Done(q)
      BY <2>9 DEF DropUser
    <3>2. Table
      BY <1>0, <2>9 DEF DropUser, Present
    <3>. QED
      BY <2>2, <2>3, <3>1, <3>2
  <2>10. ASSUME NEW u \in Users, GetSession(q, u) \/ UpdateUserReads(q, u) \/ DeleteUser(q, u)
         PROVE  Table /\ ~At(q, "insert")'
    <3>1. ~At(q, "insert")'
      BY <2>1, <2>10 DEF GetSession, UpdateUserReads, DeleteUser, At, ReqType
    <3>. QED
      BY <1>1, <2>10, <3>1 DEF GetSession, UpdateUserReads, DeleteUser
  <2>. QED
    BY <1>2, <2>2, <2>4, <2>5, <2>6, <2>7, <2>8, <2>9, <2>10 DEF Acts
<1>3. CASE Restart
  BY <1>1, <1>3 DEF Restart, At, NoRequest
<1>4. CASE UNCHANGED <<users, setups, req>>
  BY <1>0, <1>1, <1>4 DEF At
<1>. QED
  BY <1>2, <1>3, <1>4, AccountsSteps DEF SessionEnds, WindowElapses, accountsVars

(* A login holds a ticket of the limiter from its check to its record      *)
(* (Login).                                                                *)
LEMMA LoginStep ==
    ASSUME AccountsTypeOK, LoginInv, [AccountsNext]_accountsVars
    PROVE  LoginInv'
<1>1. drawn \subseteq drawn'
  <2>1. ASSUME NEW q \in Requests, CreateFirstUser(q) \/ FirstUserInserted(q) \/ CreateUser(q)
        PROVE  drawn \subseteq drawn'
    BY <2>1 DEF CreateFirstUser, FirstUserInserted, FirstAdmin, NotCreated, CreateUser, Insert
  <2>2. ASSUME NEW q \in Requests, Acts(q) PROVE drawn \subseteq drawn'
    <3>1. CASE LoginStarts(q) \/ LoginChecks(q) \/ CreateSession(q) \/ SetupCounts(q) \/ Refused(q)
               \/ Authorized(q)
      BY <3>1 DEF LoginStarts, LoginChecks, CreateSession, SetupCounts, Refused, Authorized
    <3>2. CASE UpdateUser(q) \/ DropSessions(q) \/ DropUser(q)
      BY <3>2 DEF UpdateUser, DropSessions, DropUser
    <3>3. ASSUME NEW u \in Users, GetSession(q, u) \/ UpdateUserReads(q, u) \/ DeleteUser(q, u)
          PROVE  drawn' = drawn
      BY <3>3 DEF GetSession, UpdateUserReads, DeleteUser
    <3>. QED
      BY <2>1, <2>2, <3>1, <3>2, <3>3 DEF Acts
  <2>. QED
    BY <2>2, AccountsSteps DEF SessionEnds, WindowElapses, Restart, accountsVars
<1>2. ASSUME NEW q \in Requests, Acts(q) PROVE LoginInv'
  <2>1. req \in ReqType /\ req' \in ReqType /\ \A p \in Requests \ {q} : req'[p] = req[p]
    BY <1>2, OwnRequest DEF AccountsTypeOK, ReqType
  <2>2. req'[q].at = "session" => req'[q].id \in drawn
    <3>1. CASE LoginChecks(q)
      BY <2>1, <3>1 DEF LoginChecks, Done, NoRequest, AccountsTypeOK, ReqType
    <3>2. CASE ~LoginChecks(q)
      <4>1. CASE Done(q)
        BY <2>1, <4>1 DEF Done, NoRequest, ReqType
      <4>2. CASE LoginStarts(q) \/ SetupCounts(q) \/ DropSessions(q) \/ Authorized(q) \/ CreateFirstUser(q)
                 \/ FirstUserInserted(q)
        BY <2>1, <4>1, <4>2 DEF LoginStarts, SetupCounts, DropSessions, Authorized, CreateFirstUser,
           FirstUserInserted, FirstAdmin, NotCreated, Go, ReqType
      <4>3. ASSUME NEW u \in Users, GetSession(q, u) \/ UpdateUserReads(q, u) \/ DeleteUser(q, u)
            PROVE  req'[q].at # "session"
        BY <2>1, <4>3 DEF GetSession, UpdateUserReads, DeleteUser, ReqType
      <4>. QED
        BY <1>2, <3>2, <4>1, <4>2, <4>3 DEF Acts, CreateSession, Refused, CreateUser, UpdateUser, DropUser
    <3>. QED
      BY <3>1, <3>2
  <2>. QED
    BY <1>1, <2>1, <2>2 DEF LoginInv, At
<1>3. CASE UNCHANGED req
  BY <1>1, <1>3 DEF LoginInv, At
<1>4. CASE Restart
  BY <1>4 DEF Restart, LoginInv, At, NoRequest
<1>. QED
  BY <1>2, <1>3, <1>4, AccountsSteps DEF SessionEnds, WindowElapses, accountsVars

(* handlers_users.go: from the moment the caller was read as an            *)
(* administrator, whoever changes an account meddles with the deletion.    *)
LEMMA DeleterStep ==
    ASSUME AccountsTypeOK, DeleterInv, [AccountsNext]_accountsVars
    PROVE  DeleterInv'
<1>1. ASSUME NEW q \in Requests, Acts(q) PROVE DeleterInv'
  <2>1. req \in ReqType /\ req' \in ReqType /\ \A p \in Requests \ {q} : req'[p] = req[p]
    BY <1>1, OwnRequest DEF AccountsTypeOK, ReqType
  <2>2. CASE Meddles(q) /\ Done(q)
    <3>1. \A p \in Requests : Deciding(p)' => p \in meddled'
      BY <2>1, <2>2 DEF Meddles, Done, Deciding, At, NoRequest, ReqType
    <3>. QED
      BY <3>1 DEF DeleterInv
  <2>3. ASSUME users' = users, meddled' = meddled \/ Spared(q),
               Deciding(q)' /\ q \notin meddled' =>
                    req'[q].me \in Admins /\ (Deleting(q)' => req'[q].me # req'[q].id)
        PROVE  DeleterInv'
    <3>1. Admins' = Admins
      BY <2>3 DEF Admins
    <3>2. ASSUME NEW p \in Requests, Deciding(p)', p \notin meddled'
          PROVE  req'[p].me \in Admins /\ (Deleting(p)' => req'[p].me # req'[p].id)
      <4>1. CASE p = q
        BY <2>3, <3>2, <4>1
      <4>2. CASE p # q
        <5>1. req'[p] = req[p] /\ p \notin meddled
          BY <2>1, <2>3, <3>2, <4>2 DEF Spared
        <5>. QED
          BY <3>2, <5>1 DEF DeleterInv, Deciding, Deleting, At
      <4>. QED
        BY <4>1, <4>2
    <3>. QED
      BY <3>1, <3>2 DEF DeleterInv
  <2>. DEFINE Idles == ~Deciding(q)' /\ users' = users /\ (meddled' = meddled \/ Spared(q))
  <2>30. CASE Idles
    BY <2>3, <2>30
  <2>31. ASSUME Done(q) PROVE ~Deciding(q)'
    BY <2>1, <2>31 DEF Done, NoRequest, Deciding, At, ReqType
  <2>4. CASE LoginStarts(q) \/ SetupCounts(q)
    <3>1. Idles
      BY <2>1, <2>4 DEF LoginStarts, SetupCounts, Go, Deciding, At, ReqType
    <3>. QED
      BY <2>30, <3>1
  <2>5. CASE LoginChecks(q)
    <3>1. ~Deciding(q)'
      BY <2>1, <2>31, <2>5 DEF LoginChecks, Deciding, At, ReqType
    <3>2. users' = users /\ (meddled' = meddled \/ Spared(q))
      BY <2>5 DEF LoginChecks
    <3>. QED
      BY <2>30, <3>1, <3>2
  <2>6. CASE CreateSession(q) \/ Refused(q)
    BY <2>30, <2>31, <2>6 DEF CreateSession, Refused
  <2>7. CASE CreateFirstUser(q) \/ FirstUserInserted(q)
    <3>1. CASE FirstAdmin(q)
      BY <2>2, <3>1 DEF FirstAdmin
    <3>2. CASE NotCreated(q)
      BY <2>30, <2>31, <3>2 DEF NotCreated
    <3>3. CASE Go(q, "insert") /\ UNCHANGED <<users, meddled>>
      <4>1. ~Deciding(q)'
        BY <2>1, <3>3 DEF Go, Deciding, At, ReqType
      <4>. QED
        BY <2>30, <3>3, <4>1
    <3>. QED
      BY <2>7, <3>1, <3>2, <3>3 DEF CreateFirstUser, FirstUserInserted
  <2>8. CASE CreateUser(q) \/ UpdateUser(q) \/ DropUser(q)
    <3>1. CASE Meddles(q)
      BY <2>2, <2>8, <3>1 DEF CreateUser, UpdateUser, DropUser
    <3>2. CASE ~Meddles(q)
      BY <2>8, <2>30, <2>31, <3>2 DEF CreateUser, UpdateUser, DropUser
    <3>. QED
      BY <3>1, <3>2
  <2>9. CASE DropSessions(q)
    <3>1. Deciding(q) /\ Deleting(q)
      BY <2>9 DEF DropSessions, Deciding, Deleting
    <3>2. CASE Go(q, "dropUser") /\ meddled' = meddled
      <4>1. req'[q].me = req[q].me /\ req'[q].id = req[q].id
        BY <2>1, <3>2 DEF Go, ReqType
      <4>. QED
        BY <2>3, <2>9, <3>1, <3>2, <4>1 DEF DropSessions, DeleterInv
    <3>3. CASE Done(q) /\ Spared(q)
      BY <2>9, <2>30, <2>31, <3>3 DEF DropSessions
    <3>. QED
      BY <2>9, <3>2, <3>3 DEF DropSessions
  <2>10. ASSUME NEW u \in Users, GetSession(q, u) \/ UpdateUserReads(q, u) PROVE DeleterInv'
    <3>1. Idles
      BY <2>1, <2>10 DEF GetSession, UpdateUserReads, Deciding, At, ReqType
    <3>. QED
      BY <2>30, <3>1
  <2>11. ASSUME NEW u \in Users, DeleteUser(q, u) PROVE DeleterInv'
    <3>1. /\ u # req[q].me /\ users' = users /\ meddled' = meddled
          /\ req' = [req EXCEPT ![q].at = "dropSessions", ![q].id = u]
          /\ Deciding(q)
      BY <2>11 DEF DeleteUser, Deciding, At
    <3>2. req'[q].me = req[q].me /\ req'[q].id = u
      BY <2>1, <3>1 DEF ReqType
    <3>. QED
      BY <2>3, <3>1, <3>2 DEF DeleterInv
  <2>12. CASE Authorized(q)
    <3>1. req[q].me \in Admins /\ users' = users /\ meddled' = meddled
      BY <2>12 DEF Authorized
    <3>2. req'[q].me = req[q].me /\ ~Deleting(q)'
      BY <2>1, <2>12 DEF Authorized, Go, Deleting, At, ReqType
    <3>. QED
      BY <2>3, <3>1, <3>2
  <2>. QED
    BY <1>1, <2>4, <2>5, <2>6, <2>7, <2>8, <2>9, <2>10, <2>11, <2>12 DEF Acts
<1>2. CASE UNCHANGED <<users, req, meddled>>
  BY <1>2 DEF DeleterInv, Deciding, Deleting, At, Admins
<1>3. CASE Restart
  BY <1>3 DEF Restart, DeleterInv, Deciding, At, NoRequest
<1>. QED
  BY <1>1, <1>2, <1>3, AccountsSteps DEF SessionEnds, WindowElapses, accountsVars

(* The parts together are inductive.                                       *)
LEMMA AccountsStep == AccountsIInv /\ [AccountsNext]_accountsVars => AccountsIInv'
BY AccountsTypeStep, GuessStep, SetupStep, LoginStep, DeleterStep DEF AccountsIInv

(* However many requests set up, log in, create and delete accounts at     *)
(* once: the inductive invariant of the accounts holds (AccountsNext).     *)
THEOREM AccountsInductive == AccountsSpec => []AccountsIInv
BY AccountsInitIInv, AccountsStep, PTL DEF AccountsSpec

(* The tables and the requests of the accounts keep their types            *)
(* (store/users.go, api/auth.go): one row per id, none for an id that was  *)
(* never drawn, no session for one either.                                 *)
THEOREM AccountsTyping == AccountsSpec => []AccountsTypeOK
BY AccountsInductive, PTL DEF AccountsIInv

(* Parallel attempts exceed the limit by no more than the requests in      *)
(* progress, however many there are (ratelimit.go, allowed and fail).      *)
THEOREM GuessesStayBounded == AccountsSpec => []GuessesBounded
BY AccountsInductive, PTL DEF AccountsIInv

(* On SQLite handleSetup makes one administrator, whatever races with it:  *)
(* the database runs one statement at a time (store.go, SetMaxOpenConns),  *)
(* and CreateFirstUser is one.                                             *)
THEOREM SetupHappensOnce == AccountsSpec => []OneSetup
<1>1. AccountsIInv => OneSetup
  BY DEF AccountsIInv, SetupInv, OneSetup
<1>. QED
  BY <1>1, AccountsInductive, PTL

(* A deletion that no other request disturbed leaves an administrator      *)
(* (handleDeleteUser: the caller is one, and is not the one deleted).      *)
THEOREM AnAdminRemains == AccountsSpec => DeletionKeepsAdmin
<1>1. ASSUME AccountsIInv, NEW q \in Requests, DropUser(q), q \notin meddled
      PROVE  Admins' # {}
  <2>1. Deleting(q) /\ Deciding(q)
    BY <1>1 DEF DropUser, Deleting, Deciding
  <2>2. req[q].me \in Admins /\ req[q].me # req[q].id
    BY <1>1, <2>1 DEF AccountsIInv, DeleterInv
  <2>3. users' = [users EXCEPT ![req[q].id] = {}]
    BY <1>1 DEF DropUser
  <2>4. req[q].me \in Admins'
    BY <1>1, <2>2, <2>3 DEF Admins, AccountsIInv, AccountsTypeOK
  <2>. QED
    BY <2>4
<1>2. AccountsIInv /\ [AccountsNext]_accountsVars
        => [\A q \in Requests : DropUser(q) /\ q \notin meddled => Admins' # {}]_accountsVars
  BY <1>1
<1>. QED
  BY <1>2, AccountsInductive, PTL DEF AccountsSpec, DeletionKeepsAdmin
-----------------------------------------------------------------------------
(* Rendering: every document of a database that parses holds together.     *)

(* The middlewares that belong to no host.                                 *)
Reusable(d) == {<<"mw", m>> : m \in Rows(d.mws)}
Listed(d) == UNION {AclDefines(a, Row(d.acls, a)) : a \in Rows(d.acls)}
Locked(d) == {AuthMw(a) : a \in Unusable(d)}
Gate(d) == IF EdgeToken /\ (d.waf \/ d.cache) THEN {Token} ELSE {}
Shared(d) == Reusable(d) \cup Listed(d) \cup Locked(d) \cup Gate(d)

(* The middlewares of host i whose text is an operator's, and the others.  *)
Asked(i, h) == {<<"mw", m>> : m \in h.mws} \cup {RawMw(i)}
OwnNames == {"hsts", "cors", "errors", "cache", "strip", "redirect"}
Plain(i) == {<<"host", i, x>> : x \in OwnNames} \cup {Token}
            \cup (UNION {{AuthMw(a), IpMw(a)} : a \in Acls})

(* What the routers of host i promise, with the part p that defines them.  *)
Named(r, i) ==
    /\ r.name[1] \in {"host", "stream"} /\ r.name[2] = i /\ r.by = "xgress"
    /\ r.rank < ReservedRouterPriority

Refers(r, p, d) == r.service \in p.services /\ r.mws \subseteq p.mws \cup Shared(d)

Carries(r, i, h) == r.mws \subseteq Asked(i, h) \cup Plain(i)

GuardedBy(r, h, d) ==
    r.forwards => \A a \in h.acls \cap Rows(d.acls) :
                     AclParts(a, Row(d.acls, a)) \subseteq r.mws \/ a \in r.clients

InspectedBy(r, h, p, d) ==
    h.waf /\ d.waf /\ r.forwards => r.service \in p.edge /\ (EdgeToken => Token \in r.mws)

RoutesWell(r, i, h, p, d) ==
    /\ Named(r, i) /\ Refers(r, p, d) /\ Carries(r, i, h)
    /\ GuardedBy(r, h, d) /\ InspectedBy(r, h, p, d)

(* What a list refers to is defined, or is the password part of a list     *)
(* that nobody can log in to (AclParts, AclDefines).                       *)
LEMMA ListsAreShared ==
    ASSUME NEW d, NEW a \in Rows(d.acls)
    PROVE  AclParts(a, Row(d.acls, a)) \subseteq Shared(d)
<1>. DEFINE acl == Row(d.acls, a)
<1>1. AclParts(a, acl) \subseteq AclDefines(a, acl) \cup (IF acl.users /\ ~acl.usable THEN {AuthMw(a)} ELSE {})
  BY DEF AclParts, AclDefines
<1>2. AclDefines(a, acl) \subseteq Listed(d)
  BY DEF Listed
<1>3. acl.users /\ ~acl.usable => AuthMw(a) \in Locked(d)
  BY DEF Locked, Unusable
<1>. HIDE DEF acl
<1>4. AclParts(a, acl) \subseteq Listed(d) \cup Locked(d)
  BY <1>1, <1>2, <1>3
<1>. QED
  BY <1>4 DEF Shared, acl

(* The chains of a host hold what the host asks for, and names whose text  *)
(* is xgress's own (Chain, EdgeChain).                                     *)
LEMMA ChainIsOwn ==
    ASSUME NEW i, NEW h, NEW d, h.acls \subseteq Acls
    PROVE  /\ Generated(i, h) \subseteq Asked(i, h) \cup Plain(i)
           /\ CollectMiddlewareNames(h, d) \subseteq Asked(i, h)
           /\ Chain(i, h, d) \subseteq Asked(i, h) \cup Plain(i)
           /\ EdgeChain(i, h, d) \subseteq Asked(i, h) \cup Plain(i)
<1>1. AccessListMiddlewares(h, d) \subseteq Plain(i)
  <2>1. \A a \in h.acls : AclParts(a, Row(d.acls, a)) \subseteq {AuthMw(a), IpMw(a)}
    BY DEF AclParts
  <2>2. AccessListMiddlewares(h, d) \subseteq UNION {{AuthMw(a), IpMw(a)} : a \in Acls}
    BY <2>1 DEF AccessListMiddlewares
  <2>. QED
    BY <2>2 DEF Plain
<1>2. CollectMiddlewareNames(h, d) \subseteq Asked(i, h)
  BY DEF CollectMiddlewareNames, Asked
<1>3. Generated(i, h) \subseteq Asked(i, h) \cup Plain(i)
  BY DEF Generated, Asked, Plain, OwnNames, RawMw
<1>4. Token \in Plain(i)
  BY DEF Plain
<1>5. Chain(i, h, d) \subseteq Asked(i, h) \cup Plain(i)
  BY <1>1, <1>2, <1>3 DEF Chain
<1>. QED
  BY <1>2, <1>3, <1>4, <1>5 DEF EdgeChain

(* A proxy host refers to middlewares it defines or shares (Chain,         *)
(* EdgeChain).                                                             *)
LEMMA ChainIsDefined ==
    ASSUME NEW i, NEW h, NEW d, h.kind = "proxy"
    PROVE  /\ Chain(i, h, d) \subseteq RenderProxyHost(i, h, d).mws \cup Shared(d)
           /\ EdgeChain(i, h, d) \subseteq RenderProxyHost(i, h, d).mws \cup Shared(d)
<1>1. AccessListMiddlewares(h, d) \subseteq Shared(d)
  BY ListsAreShared DEF AccessListMiddlewares
<1>2. CollectMiddlewareNames(h, d) \subseteq Shared(d)
  BY DEF CollectMiddlewareNames, Reusable, Shared
<1>3. Generated(i, h) \subseteq RenderProxyHost(i, h, d).mws
  BY DEF RenderProxyHost
<1>4. RoutesToEdge(h, d) /\ EdgeToken => Token \in Shared(d)
  <2>1. RoutesToEdge(h, d) => d.waf \/ d.cache
    BY DEF RoutesToEdge
  <2>2. EdgeToken /\ (d.waf \/ d.cache) => Token \in Gate(d)
    BY DEF Gate
  <2>. QED
    BY <2>1, <2>2 DEF Shared
<1>5. Chain(i, h, d) \subseteq RenderProxyHost(i, h, d).mws \cup Shared(d)
  BY <1>1, <1>2, <1>3 DEF Chain
<1>. QED
  BY <1>4, <1>5 DEF EdgeChain

(* Every access list of a host that exists is in both of its chains.       *)
LEMMA ListsAreInChain ==
    ASSUME NEW i, NEW h, NEW d, NEW a \in h.acls \cap Rows(d.acls)
    PROVE  /\ AclParts(a, Row(d.acls, a)) \subseteq Chain(i, h, d)
           /\ AclParts(a, Row(d.acls, a)) \subseteq EdgeChain(i, h, d)
BY DEF AccessListMiddlewares, Chain, EdgeChain

(* A host under the WAF is sent to the edge, with its token.               *)
LEMMA EdgeIsBehind ==
    ASSUME NEW i, NEW h, NEW d, h.waf, d.waf
    PROVE  /\ Svc(i) \in RenderProxyHost(i, h, d).edge
           /\ EdgeToken => Token \in EdgeChain(i, h, d)
BY DEF RoutesToEdge, RenderProxyHost, EdgeChain

(* The router of the host itself.                                          *)
LEMMA MainRoutesWell ==
    ASSUME NEW i, NEW h, NEW d, h.kind = "proxy", h.acls \subseteq Acls,
           NEW r, r = Router(<<"host", i>>, Svc(i), EdgeChain(i, h, d), 0, {}, {}, TRUE)
    PROVE  RoutesWell(r, i, h, RenderProxyHost(i, h, d), d)
<1>. DEFINE p == RenderProxyHost(i, h, d)
<1>1. Named(r, i)
  BY DEF Router, Named, ReservedRouterPriority
<1>2. Svc(i) \in p.services
  BY DEF RenderProxyHost
<1>3. EdgeChain(i, h, d) \subseteq p.mws \cup Shared(d)
  BY ChainIsDefined
<1>. HIDE DEF p
<1>4. Refers(r, p, d)
  BY <1>2, <1>3 DEF Router, Refers
<1>5. GuardedBy(r, h, d)
  BY ListsAreInChain DEF Router, GuardedBy
<1>6. InspectedBy(r, h, p, d)
  BY EdgeIsBehind DEF Router, InspectedBy, p
<1>7. Carries(r, i, h)
  BY ChainIsOwn DEF Router, Carries
<1>. QED
  BY <1>1, <1>4, <1>5, <1>6, <1>7 DEF RoutesWell, p

(* The bypass drops the parts of the lists that name its clients, and only *)
(* those: a password asked for by another list stays, and so does the      *)
(* token.                                                                  *)
LEMMA TrustedRoutesWell ==
    ASSUME NEW i, NEW h, NEW d, h.kind = "proxy", h.acls \subseteq Acls, NEW r \in TrustedRouters(i, h, d)
    PROVE  RoutesWell(r, i, h, RenderProxyHost(i, h, d), d)
<1>. DEFINE p == RenderProxyHost(i, h, d)
            dropped == UNION {{AuthMw(a), IpMw(a)} : a \in Bypassed(h, d)}
            chain == EdgeChain(i, h, d)
<1>0. r = Router(<<"host", i, "trusted">>, Svc(i), chain \ dropped, 2000, Bypassed(h, d), {}, TRUE)
  <2>. DEFINE t == Router(<<"host", i, "trusted">>, Svc(i), chain \ dropped, 2000,
                          Bypassed(h, d), {}, TRUE)
  <2>1. TrustedRouters(i, h, d) = {t : x \in {y \in {1} : Bypassed(h, d) # {}}}
    BY DEF TrustedRouters
  <2>. HIDE DEF t
  <2>2. r = t
    BY <2>1
  <2>. QED
    BY <2>2 DEF t
<1>1. Named(r, i)
  BY <1>0 DEF Router, Named, ReservedRouterPriority
<1>2. Svc(i) \in p.services
  BY DEF RenderProxyHost
<1>3. chain \subseteq p.mws \cup Shared(d)
  BY ChainIsDefined
<1>4. Refers(r, p, d)
  <2>. HIDE DEF p, chain, dropped
  <2>. QED
    BY <1>0, <1>2, <1>3 DEF Router, Refers
<1>5. GuardedBy(r, h, d)
  <2>. SUFFICES ASSUME NEW a \in h.acls \cap Rows(d.acls), a \notin Bypassed(h, d)
                PROVE  AclParts(a, Row(d.acls, a)) \subseteq chain \ dropped
    BY <1>0 DEF Router, GuardedBy
  <2>1. AclParts(a, Row(d.acls, a)) \subseteq chain
    BY ListsAreInChain
  <2>2. AclParts(a, Row(d.acls, a)) \subseteq {AuthMw(a), IpMw(a)}
    BY DEF AclParts
  <2>3. AuthMw(a) \notin dropped /\ IpMw(a) \notin dropped
    BY DEF AuthMw, IpMw
  <2>. HIDE DEF chain, dropped
  <2>. QED
    BY <2>1, <2>2, <2>3
<1>6. InspectedBy(r, h, p, d)
  <2>1. Token \notin dropped
    BY DEF Token, AuthMw, IpMw
  <2>2. h.waf /\ d.waf => Svc(i) \in p.edge /\ (EdgeToken => Token \in chain)
    BY EdgeIsBehind
  <2>. HIDE DEF p, chain, dropped
  <2>. QED
    BY <1>0, <2>1, <2>2 DEF Router, InspectedBy
<1>7. Carries(r, i, h)
  <2>1. chain \subseteq Asked(i, h) \cup Plain(i)
    BY ChainIsOwn
  <2>. HIDE DEF chain, dropped
  <2>. QED
    BY <1>0, <2>1 DEF Router, Carries
<1>. QED
  BY <1>1, <1>4, <1>5, <1>6, <1>7 DEF RoutesWell

(* The routers that let static assets pass without a password.             *)
LEMMA AssetsRouteWell ==
    ASSUME NEW i, NEW h, NEW d, h.kind = "proxy", h.acls \subseteq Acls, NEW r \in AssetRouters(i, h, d)
    PROVE  RoutesWell(r, i, h, RenderProxyHost(i, h, d), d)
<1>. DEFINE p == RenderProxyHost(i, h, d)
            chain == EdgeChain(i, h, d)
<1>0. /\ r = Router(<<"host", i, "static">>, Svc(i), chain \cup {<<"host", i, "cache">>},
                    900, {}, {"assets"}, TRUE)
      /\ h.assets
  BY DEF AssetRouters
<1>1. Named(r, i)
  BY <1>0 DEF Router, Named, ReservedRouterPriority
<1>2. Svc(i) \in p.services /\ <<"host", i, "cache">> \in p.mws
  BY <1>0 DEF RenderProxyHost
<1>3. chain \subseteq p.mws \cup Shared(d)
  BY ChainIsDefined
<1>4. \A a \in h.acls \cap Rows(d.acls) : AclParts(a, Row(d.acls, a)) \subseteq chain
  BY ListsAreInChain
<1>5. h.waf /\ d.waf => Svc(i) \in p.edge /\ (EdgeToken => Token \in chain)
  BY EdgeIsBehind
<1>a. chain \cup {<<"host", i, "cache">>} \subseteq Asked(i, h) \cup Plain(i)
  BY ChainIsOwn DEF Plain, OwnNames
<1>. HIDE DEF p, chain
<1>6. Refers(r, p, d) /\ GuardedBy(r, h, d) /\ InspectedBy(r, h, p, d) /\ Carries(r, i, h)
  BY <1>0, <1>2, <1>3, <1>4, <1>5, <1>a DEF Router, Refers, GuardedBy, InspectedBy, Carries
<1>. QED
  BY <1>1, <1>6 DEF RoutesWell, p

(* A location with a backend of its own leaves the edge out, so a host     *)
(* that the WAF inspects has none.                                         *)
LEMMA LocationsRouteWell ==
    ASSUME NEW i, NEW h, NEW d, h.kind = "proxy", h.acls \subseteq Acls, NEW r \in LocationRouters(i, h, d)
    PROVE  RoutesWell(r, i, h, RenderProxyHost(i, h, d), d)
<1>. DEFINE p == RenderProxyHost(i, h, d)
            chain == Chain(i, h, d)
<1>0. /\ r = Router(<<"host", i, "location">>, <<"svc", i, "location">>,
                    chain \cup Strips(i, h), 1001, {}, {"location"}, TRUE)
      /\ HasLocation(h, d)
  <2>. DEFINE t == Router(<<"host", i, "location">>, <<"svc", i, "location">>,
                          chain \cup Strips(i, h), 1001, {}, {"location"}, TRUE)
  <2>1. LocationRouters(i, h, d) = {t : x \in {y \in {1} : HasLocation(h, d)}}
    BY DEF LocationRouters
  <2>. HIDE DEF t
  <2>2. r = t /\ HasLocation(h, d)
    BY <2>1
  <2>. QED
    BY <2>2 DEF t
<1>1. Named(r, i)
  BY <1>0 DEF Router, Named, ReservedRouterPriority
<1>2. <<"svc", i, "location">> \in p.services /\ Strips(i, h) \subseteq p.mws
  BY <1>0 DEF RenderProxyHost
<1>3. chain \subseteq p.mws \cup Shared(d)
  BY ChainIsDefined
<1>4. \A a \in h.acls \cap Rows(d.acls) : AclParts(a, Row(d.acls, a)) \subseteq chain
  BY ListsAreInChain
<1>5. ~(h.waf /\ d.waf)
  BY <1>0 DEF HasLocation
<1>a. chain \cup Strips(i, h) \subseteq Asked(i, h) \cup Plain(i)
  <2>1. Strips(i, h) \subseteq Plain(i)
    BY DEF Plain, OwnNames, Strips
  <2>2. chain \subseteq Asked(i, h) \cup Plain(i)
    BY ChainIsOwn
  <2>. QED
    BY <2>1, <2>2
<1>. HIDE DEF p, chain
<1>6. Refers(r, p, d) /\ GuardedBy(r, h, d) /\ InspectedBy(r, h, p, d) /\ Carries(r, i, h)
  BY <1>0, <1>2, <1>3, <1>4, <1>5, <1>a DEF Router, Refers, GuardedBy, InspectedBy, Carries
<1>. QED
  BY <1>1, <1>6 DEF RoutesWell, p

(* The routers that only redirect.                                         *)
LEMMA RedirectsRouteWell ==
    ASSUME NEW i, NEW h, NEW d, h.kind = "proxy", NEW r \in RedirectRouters(i, h)
    PROVE  RoutesWell(r, i, h, RenderProxyHost(i, h, d), d)
<1>. DEFINE p == RenderProxyHost(i, h, d)
<1>0. /\ r = Router(<<"host", i, "http">>, Svc(i), {<<"host", i, "redirect">>}, 0, {}, {}, FALSE)
      /\ h.tls /\ h.force
  BY DEF RedirectRouters
<1>1. Named(r, i)
  BY <1>0 DEF Router, Named, ReservedRouterPriority
<1>2. Svc(i) \in p.services /\ <<"host", i, "redirect">> \in p.mws
  BY <1>0 DEF RenderProxyHost
<1>a. <<"host", i, "redirect">> \in Plain(i)
  BY DEF Plain, OwnNames
<1>. HIDE DEF p
<1>3. Refers(r, p, d) /\ GuardedBy(r, h, d) /\ InspectedBy(r, h, p, d) /\ Carries(r, i, h)
  BY <1>0, <1>2, <1>a DEF Router, Refers, GuardedBy, InspectedBy, Carries
<1>. QED
  BY <1>1, <1>3 DEF RoutesWell, p

(* Every router of a proxy host.                                           *)
LEMMA ProxyRoutesWell ==
    ASSUME NEW i, NEW h, NEW d, h.kind = "proxy", h.acls \subseteq Acls,
           NEW r \in RenderProxyHost(i, h, d).routers
    PROVE  RoutesWell(r, i, h, RenderProxyHost(i, h, d), d)
<1>1. \/ r = Router(<<"host", i>>, Svc(i), EdgeChain(i, h, d), 0, {}, {}, TRUE)
      \/ r \in TrustedRouters(i, h, d) \/ r \in AssetRouters(i, h, d)
      \/ r \in LocationRouters(i, h, d) \/ r \in RedirectRouters(i, h)
  BY DEF RenderProxyHost
<1>. QED
  BY <1>1, MainRoutesWell, TrustedRoutesWell, AssetsRouteWell, LocationsRouteWell,
     RedirectsRouteWell

(* The services of a proxy host refer to services of the same host.        *)
LEMMA ProxyRefersWell ==
    ASSUME NEW i, NEW h, NEW d, h.kind = "proxy"
    PROVE  RenderProxyHost(i, h, d).refs \subseteq RenderProxyHost(i, h, d).services \cup {Content}
<1>1. ServiceRefs(i, h, d) \subseteq GroupServices(i, h, d)
  BY DEF ServiceRefs, GroupServices
<1>. QED
  BY <1>1 DEF RenderProxyHost

(* Whatever its kind, a host's routers refer to what its part defines or   *)
(* to what belongs to no host.                                             *)
LEMMA PartHoldsTogether ==
    ASSUME NEW d \in Database, NEW i \in Rows(d.hosts)
    PROVE  LET h == Row(d.hosts, i)
               p == RenderHost(i, d)
           IN /\ \A r \in p.routers : Named(r, i) /\ Refers(r, p, d) /\ Carries(r, i, h)
              /\ p.refs \subseteq p.services \cup {Content}
              /\ \A t \in p.texts : t[1] = RawMw(i)
              /\ h.kind = "proxy" =>
                   \A r \in p.routers : GuardedBy(r, h, d) /\ InspectedBy(r, h, p, d)
<1>. DEFINE h == Row(d.hosts, i)
            p == RenderHost(i, d)
<1>1. h \in Host
  <2>1. d.hosts \in [Hosts -> Optional(Host)]
    BY DEF Database, HostTable
  <2>2. i \in Hosts /\ d.hosts[i] # {}
    BY <2>1 DEF Rows
  <2>3. d.hosts[i] \subseteq Host
    BY <2>1, <2>2 DEF Optional
  <2>. QED
    BY <2>2, <2>3 DEF Row
<1>2. h.kind \in {"proxy", "redirection", "dead", "stream"} /\ h.acls \subseteq Acls
  BY <1>1 DEF Host
<1>. HIDE DEF h
<1>3. CASE h.kind = "proxy"
  <2>1. p = RenderProxyHost(i, h, d)
    BY <1>3 DEF RenderHost, h
  <2>. HIDE DEF p
  <2>2. \A r \in p.routers : RoutesWell(r, i, h, p, d)
    BY <1>2, <1>3, <2>1, ProxyRoutesWell
  <2>3. p.refs \subseteq p.services \cup {Content}
    BY <1>3, <2>1, ProxyRefersWell
  <2>4. \A t \in p.texts : t[1] = RawMw(i)
    BY <2>1 DEF RenderProxyHost, RawTexts
  <2>. QED
    BY <2>2, <2>3, <2>4 DEF RoutesWell, h, p
<1>4. CASE h.kind = "redirection"
  <2>1. p = RenderRedirectionHost(i, h, d)
    BY <1>4 DEF RenderHost, h
  <2>. DEFINE mws == {<<"host", i, "redirect">>} \cup CollectMiddlewareNames(h, d) \cup Generated(i, h)
  <2>2. /\ p.routers = {Router(<<"host", i>>, <<"noop">>, mws, 0, {}, {}, FALSE)}
        /\ p.services = {<<"noop">>} /\ p.refs = {} /\ p.texts = {}
        /\ p.mws = {<<"host", i, "redirect">>} \cup Generated(i, h)
    BY <2>1 DEF RenderRedirectionHost, NoPart
  <2>3. mws \subseteq p.mws \cup Shared(d)
    BY <2>2 DEF CollectMiddlewareNames, Reusable, Shared
  <2>a. mws \subseteq Asked(i, h) \cup Plain(i)
    BY <1>2, ChainIsOwn DEF Plain, OwnNames
  <2>. HIDE DEF p, mws
  <2>4. \A r \in p.routers : Named(r, i) /\ Refers(r, p, d) /\ Carries(r, i, h)
    BY <2>2, <2>3, <2>a DEF Router, Named, Refers, Carries, ReservedRouterPriority
  <2>. QED
    BY <1>4, <2>2, <2>4 DEF h, p
<1>5. CASE h.kind = "dead"
  <2>1. p = RenderDeadHost(i)
    BY <1>5 DEF RenderHost, h
  <2>2. /\ p.routers = {Router(<<"host", i>>, <<"noop">>, {}, 1, {}, {}, TRUE)}
        /\ p.services = {<<"noop">>} /\ p.refs = {} /\ p.texts = {}
    BY <2>1 DEF RenderDeadHost, NoPart
  <2>. HIDE DEF p
  <2>3. \A r \in p.routers : Named(r, i) /\ Refers(r, p, d) /\ Carries(r, i, h)
    BY <2>2 DEF Router, Named, Refers, Carries, ReservedRouterPriority
  <2>. QED
    BY <1>5, <2>2, <2>3 DEF h, p
<1>6. CASE h.kind = "stream"
  <2>1. p = RenderStreamHost(i)
    BY <1>6 DEF RenderHost, h
  <2>2. /\ p.routers = {Router(<<"stream", i>>, <<"stream", i>>, {}, 0, {}, {}, TRUE)}
        /\ p.services = {<<"stream", i>>} /\ p.refs = {} /\ p.texts = {}
    BY <2>1 DEF RenderStreamHost, NoPart
  <2>. HIDE DEF p
  <2>3. \A r \in p.routers : Named(r, i) /\ Refers(r, p, d) /\ Carries(r, i, h)
    BY <2>2 DEF Router, Named, Refers, Carries, ReservedRouterPriority
  <2>. QED
    BY <1>6, <2>2, <2>3 DEF h, p
<1>. QED
  BY <1>2, <1>3, <1>4, <1>5, <1>6

-----------------------------------------------------------------------------
(* The document is the union of its parts.                                 *)
On(d) == {i \in Rows(d.hosts) : Row(d.hosts, i).enabled}

FromHosts(d, field) == UNION {[j \in On(d) |-> RenderHost(j, d)][i][field] : i \in On(d)}

(* The routers before the snippet is merged, and what the merge adds.      *)
Before(d) == SystemRouters(d) \cup FromHosts(d, "routers")

SnippetRouter(t) ==
    [Router(t.name, t.service, {}, t.rank, {}, {}, TRUE) EXCEPT !.by = "snippet"]

Merged(d) == {SnippetRouter(t) : t \in {u \in d.raw : \A r \in Before(d) : r.name # u.name}}

(* The document, part by part: the system, the hosts, the snippet          *)
(* (Render).                                                               *)
LEMMA RenderIs ==
    ASSUME NEW d
    PROVE  /\ Render(d).routers = Before(d) \cup Merged(d)
           /\ {<<"acme-http-challenge">>, Content} \cup FromHosts(d, "services")
                 \subseteq Render(d).services
           /\ Render(d).mws = {<<"default-path">>, <<"banned-path">>} \cup Reusable(d) \cup Listed(d)
                              \cup Gate(d) \cup FromHosts(d, "mws")
           /\ Render(d).refs = FromHosts(d, "refs")
           /\ Render(d).edge = FromHosts(d, "edge")
           /\ Render(d).texts = (UNION {MwTexts(m, Row(d.mws, m)) : m \in Rows(d.mws)})
                                \cup FromHosts(d, "texts")
<1>1. Render(d).routers = Before(d) \cup Merged(d)
  BY DEF Render, MergeMap, On, FromHosts, Before, Merged, SnippetRouter
<1>2. {<<"acme-http-challenge">>, Content} \cup FromHosts(d, "services") \subseteq Render(d).services
  BY DEF Render, On, FromHosts
<1>3. Render(d).mws = {<<"default-path">>, <<"banned-path">>} \cup Reusable(d) \cup Listed(d)
                     \cup Gate(d) \cup FromHosts(d, "mws")
  BY DEF Render, On, FromHosts, Reusable, Listed, Gate
<1>4. Render(d).refs = FromHosts(d, "refs") /\ Render(d).edge = FromHosts(d, "edge")
  BY DEF Render, On, FromHosts
<1>5. Render(d).texts = (UNION {MwTexts(m, Row(d.mws, m)) : m \in Rows(d.mws)})
                        \cup FromHosts(d, "texts")
  BY DEF Render, On, FromHosts
<1>. QED
  BY <1>1, <1>2, <1>3, <1>4, <1>5

(* What the document takes from the hosts, and back.                       *)
LEMMA FromHost ==
    ASSUME NEW d, NEW field
    PROVE  /\ \A i \in On(d) : RenderHost(i, d)[field] \subseteq FromHosts(d, field)
           /\ \A x \in FromHosts(d, field) : \E i \in On(d) : x \in RenderHost(i, d)[field]
<1>. DEFINE part == [i \in On(d) |-> RenderHost(i, d)]
<1>1. \A i \in On(d) : part[i] = RenderHost(i, d)
  OBVIOUS
<1>2. FromHosts(d, field) = UNION {part[i][field] : i \in On(d)}
  BY DEF FromHosts
<1>. HIDE DEF part
<1>. QED
  BY <1>1, <1>2

(* A router of the document is a system router, a host's or the snippet's. *)
LEMMA RouterComesFrom ==
    ASSUME NEW d, NEW r \in Render(d).routers
    PROVE  \/ r \in SystemRouters(d)
           \/ \E i \in On(d) : r \in RenderHost(i, d).routers
           \/ \E t \in d.raw : r = SnippetRouter(t)
<1>1. r \in SystemRouters(d) \/ r \in FromHosts(d, "routers") \/ r \in Merged(d)
  BY RenderIs DEF Before
<1>2. r \in Merged(d) => \E t \in d.raw : r = SnippetRouter(t)
  BY DEF Merged
<1>3. r \in FromHosts(d, "routers") => \E i \in On(d) : r \in RenderHost(i, d).routers
  BY FromHost
<1>. QED
  BY <1>1, <1>2, <1>3

(* What a host defines is in the document.                                 *)
LEMMA PartsAreMerged ==
    ASSUME NEW d
    PROVE  /\ \A i \in On(d) : /\ RenderHost(i, d).services \subseteq Render(d).services
                              /\ RenderHost(i, d).mws \subseteq Render(d).mws
                              /\ RenderHost(i, d).edge \subseteq Render(d).edge
           /\ \A x \in Render(d).refs : \E i \in On(d) : x \in RenderHost(i, d).refs
<1>1. /\ \A i \in On(d) : /\ RenderHost(i, d).services \subseteq FromHosts(d, "services")
                         /\ RenderHost(i, d).mws \subseteq FromHosts(d, "mws")
                         /\ RenderHost(i, d).edge \subseteq FromHosts(d, "edge")
      /\ \A x \in FromHosts(d, "refs") : \E i \in On(d) : x \in RenderHost(i, d).refs
  BY FromHost
<1>. QED
  BY <1>1, RenderIs

(* What the hosts share is in the document, but for the passwords nobody   *)
(* has.                                                                    *)
LEMMA SharedIsDefined ==
    ASSUME NEW d
    PROVE  /\ Shared(d) \subseteq Render(d).mws \cup Locked(d)
           /\ <<"default-path">> \in Render(d).mws /\ <<"banned-path">> \in Render(d).mws
           /\ Content \in Render(d).services
           /\ <<"acme-http-challenge">> \in Render(d).services
BY RenderIs DEF Shared

(* The texts of a document belong to reusable middlewares and to fragments *)
(* of hosts (MwTexts, RawTexts).                                           *)
LEMMA TextsHaveOwners ==
    ASSUME NEW d \in Database, NEW t \in Render(d).texts
    PROVE  (\E m : t[1] = <<"mw", m>>) \/ (\E i : t[1] = RawMw(i))
<1>1. CASE \E m \in Rows(d.mws) : t \in MwTexts(m, Row(d.mws, m))
  <2>1. PICK m \in Rows(d.mws) : t \in MwTexts(m, Row(d.mws, m))
    BY <1>1
  <2>2. t[1] = <<"mw", m>>
    BY <2>1 DEF MwTexts
  <2>. QED
    BY <2>2
<1>2. CASE t \in FromHosts(d, "texts")
  <2>1. PICK i \in On(d) : t \in RenderHost(i, d).texts
    BY <1>2, FromHost
  <2>2. i \in Rows(d.hosts)
    BY <2>1 DEF On
  <2>3. t[1] = RawMw(i)
    BY <2>1, <2>2, PartHoldsTogether
  <2>. QED
    BY <2>3
<1>. QED
  BY <1>1, <1>2, RenderIs

(* No text belongs to a name whose parameters are xgress's own.            *)
LEMMA PlainIsNotText ==
    ASSUME NEW d \in Database, NEW i, NEW x \in Plain(i)
    PROVE  x \notin Broken(Render(d))
<1>1. \A t \in Render(d).texts : t[1] # x
  <2>. SUFFICES ASSUME NEW t \in Render(d).texts, t[1] = x PROVE FALSE
    OBVIOUS
  <2>1. (\E m : x = <<"mw", m>>) \/ (\E j : x = <<"host", j, "raw">>)
    BY TextsHaveOwners DEF RawMw
  <2>2. CASE \E y \in OwnNames : x = <<"host", i, y>>
    BY <2>1, <2>2 DEF OwnNames
  <2>3. CASE x = Token
    BY <2>1, <2>3 DEF Token
  <2>4. CASE \E a \in Acls : x = AuthMw(a) \/ x = IpMw(a)
    BY <2>1, <2>4 DEF AuthMw, IpMw
  <2>5. (\E y \in OwnNames : x = <<"host", i, y>>) \/ x = Token
          \/ (\E a \in Acls : x = AuthMw(a) \/ x = IpMw(a))
    BY DEF Plain
  <2>. QED
    BY <2>2, <2>3, <2>4, <2>5
<1>. QED
  BY <1>1 DEF Broken

(* The system's own routers.                                               *)
LEMMA SystemRoutersAre ==
    ASSUME NEW d, NEW r \in SystemRouters(d)
    PROVE  /\ r.name[1] \in {"acme-http-challenge", "default-site", "banned"} /\ r.by = "xgress"
           /\ r.service \in {Content, <<"acme-http-challenge">>}
           /\ r.mws \subseteq {<<"default-path">>, <<"banned-path">>}
           /\ r.name = <<"banned">> => r.rank > ReservedRouterPriority
<1>. DEFINE challenge == Router(<<"acme-http-challenge">>, <<"acme-http-challenge">>, {}, 1000000, {},
                                {"challenge"}, TRUE)
            site == Router(<<"default-site">>, Content, {<<"default-path">>}, 1, {}, {}, TRUE)
            ban == Router(<<"banned">>, Content, {<<"banned-path">>}, 2000000, {"banned"}, {}, TRUE)
<1>1. SystemRouters(d) = {challenge, site} \cup {ban : x \in {y \in {1} : d.banned}}
  BY DEF SystemRouters
<1>. HIDE DEF challenge, site, ban
<1>2. r = challenge \/ r = site \/ r = ban
  BY <1>1
<1>3. <<"banned">> # <<"acme-http-challenge">> /\ <<"default-site">> # <<"banned">>
  OBVIOUS
<1>. QED
  BY <1>2, <1>3, SMT DEF Router, ReservedRouterPriority, challenge, site, ban

(* Whatever the tables hold, the document Render makes of them holds       *)
(* together, provided that the snippet parses.                             *)
LEMMA RenderIsSound ==
    ASSUME NEW d \in Database, Parses(d.raw)
    PROVE  Sound(d)
<1>. DEFINE doc == Render(d)
<1>0. /\ Shared(d) \subseteq doc.mws \cup Locked(d)
      /\ <<"default-path">> \in doc.mws /\ <<"banned-path">> \in doc.mws
      /\ Content \in doc.services /\ <<"acme-http-challenge">> \in doc.services
  BY SharedIsDefined
<1>1. /\ \A i \in On(d) : /\ RenderHost(i, d).services \subseteq doc.services
                         /\ RenderHost(i, d).mws \subseteq doc.mws
                         /\ RenderHost(i, d).edge \subseteq doc.edge
      /\ \A x \in doc.refs : \E i \in On(d) : x \in RenderHost(i, d).refs
  BY PartsAreMerged
<1>2. \A r \in doc.routers :
        \/ r \in SystemRouters(d)
        \/ \E i \in On(d) : r \in RenderHost(i, d).routers
        \/ \E t \in d.raw : r = SnippetRouter(t)
  BY RouterComesFrom
<1>s. SystemRouters(d) \subseteq doc.routers
  BY RenderIs DEF Before
<1>p. \A i : Plain(i) \cap Broken(doc) = {}
  BY PlainIsNotText
<1>. HIDE DEF doc
<1>3. \A i \in On(d) : i \in Rows(d.hosts)
  BY DEF On
<1>5. ASSUME NEW t \in d.raw
      PROVE  /\ SnippetRouter(t).by = "snippet"
             /\ SnippetRouter(t).rank < ReservedRouterPriority
  BY DEF SnippetRouter, Router, Parses, ParseRawConfig
<1>6. ASSUME NEW i \in On(d), NEW r \in RenderHost(i, d).routers
      PROVE  /\ Named(r, i) /\ r.service \in doc.services
             /\ r.mws \subseteq doc.mws \cup Locked(d) /\ Carries(r, i, Row(d.hosts, i))
             /\ Row(d.hosts, i).kind = "proxy" =>
                  /\ GuardedBy(r, Row(d.hosts, i), d)
                  /\ InspectedBy(r, Row(d.hosts, i), RenderHost(i, d), d)
  <2>1. /\ Named(r, i) /\ Refers(r, RenderHost(i, d), d)
        /\ Carries(r, i, Row(d.hosts, i))
    BY <1>3, PartHoldsTogether
  <2>2. Row(d.hosts, i).kind = "proxy" =>
          /\ GuardedBy(r, Row(d.hosts, i), d)
          /\ InspectedBy(r, Row(d.hosts, i), RenderHost(i, d), d)
    BY <1>3, PartHoldsTogether
  <2>. QED
    BY <1>0, <1>1, <2>1, <2>2 DEF Refers
<1>7. Closed(doc, d)
  <2>1. \A i \in On(d) : RenderHost(i, d).refs \subseteq RenderHost(i, d).services \cup {Content}
    BY <1>3, PartHoldsTogether
  <2>2. doc.refs \subseteq doc.services
    BY <1>0, <1>1, <2>1
  <2>3. ASSUME NEW r \in doc.routers, r.by = "xgress"
        PROVE  r.service \in doc.services /\ r.mws \subseteq doc.mws \cup Locked(d)
    <3>1. CASE r \in SystemRouters(d)
      BY <1>0, <3>1, SystemRoutersAre
    <3>2. CASE \E i \in On(d) : r \in RenderHost(i, d).routers
      BY <1>6, <3>2
    <3>3. CASE \E t \in d.raw : r = SnippetRouter(t)
      BY <1>5, <2>3, <3>3
    <3>. QED
      BY <1>2, <3>1, <3>2, <3>3
  <2>. QED
    BY <2>2, <2>3 DEF Closed, Locked
<1>8. ASSUME NEW i, NEW r \in RoutersOf(i, doc)
      PROVE  i \in On(d) /\ r \in RenderHost(i, d).routers
  <2>0. r \in doc.routers /\ r.by = "xgress" /\ r.name[1] \in {"host", "stream"} /\ r.name[2] = i
    BY <1>8 DEF RoutersOf
  <2>a. r \notin SystemRouters(d)
    BY <2>0, SystemRoutersAre
  <2>b. ~ \E t \in d.raw : r = SnippetRouter(t)
    BY <1>5, <2>0
  <2>1. PICK j \in On(d) : r \in RenderHost(j, d).routers
    BY <1>2, <2>0, <2>a, <2>b
  <2>2. j = i
    BY <1>6, <2>0, <2>1 DEF Named
  <2>. QED
    BY <2>1, <2>2
<1>9. Guarded(doc, d)
  BY <1>6, <1>8 DEF Guarded, GuardedBy
<1>10. Inspected(doc, d)
  BY <1>1, <1>6, <1>8 DEF Inspected, InspectedBy
<1>11. SystemFirst(doc, d)
  <2>. SUFFICES ASSUME NEW r \in doc.routers
                PROVE  /\ r \notin SystemRouters(d) => r.rank < ReservedRouterPriority
                       /\ r.by = "xgress" /\ r.name = <<"banned">>
                            => r.rank > ReservedRouterPriority
    BY <1>s DEF SystemFirst
  <2>1. ASSUME r.name[1] \in {"host", "stream"} PROVE r.name # <<"banned">>
    BY <2>1
  <2>2. CASE r \in SystemRouters(d)
    BY <2>2, SystemRoutersAre
  <2>3. CASE \E i \in On(d) : r \in RenderHost(i, d).routers
    BY <1>6, <2>1, <2>3 DEF Named
  <2>4. CASE \E t \in d.raw : r = SnippetRouter(t)
    BY <1>5, <2>4
  <2>. QED
    BY <1>2, <2>2, <2>3, <2>4
<1>12. Isolated(doc, d)
  <2>. SUFFICES ASSUME NEW i \in Rows(d.hosts), NEW r \in RoutersOf(i, doc)
                PROVE  r.mws \cap Broken(doc) \subseteq Asked(i, Row(d.hosts, i))
    BY DEF Isolated, Asked
  <2>1. Carries(r, i, Row(d.hosts, i))
    BY <1>6, <1>8
  <2>. QED
    BY <1>p, <2>1 DEF Carries
<1>. QED
  BY <1>7, <1>9, <1>10, <1>11, <1>12 DEF Sound, doc

-----------------------------------------------------------------------------
(* The tables, the backup and the jobs keep their types.                   *)
JobStages ==
    {"idle", "update", "reload", "cache", "rebuild", "plans", "flip"} \cup Restoring \cup Exporting

JobRec == [at : JobStages, id : SUBSET Hosts, row : Host, admin : BOOLEAN,
           todo : SUBSET (Hosts \X BOOLEAN), flag : BOOLEAN, sound : BOOLEAN,
           doc : BackupDoc, then : BackupDoc]

Backups == [doc : BackupDoc, then : BackupDoc, whole : BOOLEAN]

HostsTypeOK ==
    /\ db \in Database /\ served \in Database
    /\ keys \in SUBSET SettingKeys /\ plans \in SUBSET (Hosts \X BOOLEAN)
    /\ file \in SUBSET Backups /\ job \in [Workers -> JobRec]
    /\ edits \in Nat /\ broken \in Nat

(* What a job that will write a whole row back knows of the row: the       *)
(* scheduler all but the enabled flag, an operator the raw snippet.        *)
Faithful(r, d) ==
    /\ r.at = "flip" =>
        \A i \in r.id : \A old \in d.hosts[i] : [r.row EXCEPT !.enabled = old.enabled] = old
    /\ r.at = "update" /\ ~r.admin =>
        \A i \in r.id : \A old \in d.hosts[i] : r.row.raw = old.raw

(* What the tables d hold at each step of a restore of doc that nobody and *)
(* nothing has disturbed.                                                  *)
Progress(at, d, doc) ==
    /\ at \in {"wipeMws", "wipeAcls", "addHosts"} => \A i \in Hosts : d.hosts[i] = {}
    /\ at \in {"wipeAcls", "addHosts", "addMws"} => \A m \in Mws : d.mws[m] = {}
    /\ at \in {"addHosts", "addMws", "addAcls"} => \A a \in Acls : d.acls[a] = {}
    /\ at \in {"addMws", "addAcls", "settings"} => d.hosts = doc.hosts
    /\ at \in {"addAcls", "settings"} => d.mws = doc.mws
    /\ at = "settings" => d.acls = doc.acls

Restored(r, d) == r.at \in Restoring /\ r.sound => Progress(r.at, d, r.doc)

(* What an export that nobody and nothing has disturbed has of the tables  *)
(* t: the ones it has read, and the whole of them set aside.               *)
Copied(at, doc, then, t) ==
    /\ then = t /\ doc.hosts = t.hosts
    /\ at \in {"exportAcls", "exportSettings"} => doc.mws = t.mws
    /\ at = "exportSettings" => doc.acls = t.acls

Exported(r, t) == r.at \in Exporting /\ r.sound => Copied(r.at, r.doc, r.then, t)

WholeFiles == \A f \in file : f.whole => f.doc = f.then

Known(ids, d) == \A i \in Hosts : d.hosts[i] # {} => i \in ids

(* What the jobs know: an id that is in use was drawn, so no new row can   *)
(* take the place of an old one behind the back of a job that holds a      *)
(* copy; a restore and an export know how far they are.                    *)
JobsKnow ==
    /\ Known(known, db) /\ \A w \in Workers : job[w].id \subseteq known
    /\ \A w \in Workers : w \notin stale => Faithful(job[w], db)
    /\ \A w \in Workers : Restored(job[w], db) /\ Exported(job[w], Tables)

(* What is served did parse; a whole export is what the tables were.       *)
HostsIInv == HostsTypeOK /\ Parses(served.raw) /\ WholeFiles /\ JobsKnow

(* The records of a job at rest and of an imported host.                   *)
LEMMA NoJobTyped == NoJob \in JobRec /\ NoRow \in Host /\ NoDoc \in BackupDoc
<1>1. NoRow \in Host
  BY DEF NoRow, Host, Fragments
<1>2. NoDoc \in BackupDoc
  BY DEF NoDoc, BackupDoc, HostTable, AclTable, MwTable, Optional
<1>. HIDE DEF NoRow, NoDoc
<1>3. NoJob \in JobRec
  BY <1>1, <1>2 DEF NoJob, JobRec, JobStages
<1>. QED
  BY <1>1, <1>2, <1>3

(* One job goes on; a restore of another may be marked as disturbed.       *)
OthersStay(w) ==
    \A v \in Workers \ {w} : job'[v] = job[v] \/ job'[v] = [job[v] EXCEPT !.sound = FALSE]

Turns(w, r) == job' \in [Workers -> JobRec] /\ job'[w] = r /\ OthersStay(w)

Disturbs(w) ==
    \A v \in Workers \ {w} : job'[v].at \in Restoring \cup Exporting => ~job'[v].sound

(* A write moves one job and marks the restores and exports of the others. *)
LEMMA DisturbTurns ==
    ASSUME job \in [Workers -> JobRec], NEW w \in Workers, NEW r \in JobRec,
           job' = Disturb(w, [job EXCEPT ![w] = r])
    PROVE  Turns(w, r) /\ Disturbs(w)
<1>. DEFINE j == [job EXCEPT ![w] = r]
<1>1. /\ j \in [Workers -> JobRec] /\ j[w] = r
      /\ \A v \in Workers \ {w} : j[v] = job[v]
  OBVIOUS
<1>. HIDE DEF j
<1>2. \A v \in Workers : [j[v] EXCEPT !.sound = FALSE] \in JobRec
  BY <1>1 DEF JobRec
<1>3. job' = [v \in Workers |-> IF v # w /\ j[v].at \in Restoring \cup Exporting
                                THEN [j[v] EXCEPT !.sound = FALSE] ELSE j[v]]
  BY DEF Disturb, j
<1>4. Disturbs(w)
  <2>. DEFINE busy == Restoring \cup Exporting
  <2>. SUFFICES ASSUME NEW v \in Workers \ {w}, job'[v].at \in busy PROVE ~job'[v].sound
    BY DEF Disturbs
  <2>. HIDE DEF busy
  <2>1. CASE j[v].at \in busy
    BY <1>1, <1>3, <2>1 DEF JobRec, busy
  <2>2. CASE j[v].at \notin busy
    BY <1>3, <2>2 DEF busy
  <2>. QED
    BY <2>1, <2>2
<1>. QED
  BY <1>1, <1>2, <1>3, <1>4 DEF Turns, OthersStay

(* Where a job goes on to (GoesOn).                                        *)
LEMMA GoesOnTyped ==
    ASSUME NEW w, job[w] \in JobRec, NEW at \in JobStages, NEW sound \in BOOLEAN
    PROVE  LET r == GoesOn(w, at, sound)
           IN /\ r \in JobRec /\ r.at = at /\ r.id = {}
              /\ at \in Restoring => r.doc = job[w].doc /\ r.sound = sound
<1>1. job[w].doc \in BackupDoc
  BY DEF JobRec
<1>2. [NoJob EXCEPT !.at = at] \in JobRec /\ [NoJob EXCEPT !.at = at].at = at /\ NoJob.id = {}
      /\ [NoJob EXCEPT !.at = at].id = {}
  BY NoJobTyped DEF JobRec, NoJob
<1>3. LET q == [NoJob EXCEPT !.at = at, !.doc = job[w].doc, !.sound = sound]
      IN q \in JobRec /\ q.at = at /\ q.id = {} /\ q.doc = job[w].doc /\ q.sound = sound
  BY <1>1, <1>2, NoJobTyped DEF JobRec
<1>. QED
  BY <1>2, <1>3 DEF GoesOn

(* The same for a statement after which the job goes on (Writes).          *)
LEMMA WritesTurns ==
    ASSUME job \in [Workers -> JobRec], NEW w \in Workers, NEW at \in JobStages, Writes(w, at)
    PROVE  Turns(w, GoesOn(w, at, job[w].sound)) /\ Disturbs(w)
<1>1. job[w] \in JobRec /\ job[w].sound \in BOOLEAN
  BY DEF JobRec
<1>2. GoesOn(w, at, job[w].sound) \in JobRec
  BY <1>1, GoesOnTyped
<1>. QED
  BY <1>2, DisturbTurns DEF Writes

(* A step that writes nothing moves one job and marks nobody.              *)
LEMMA PlainTurns ==
    ASSUME job \in [Workers -> JobRec], NEW w \in Workers, NEW r \in JobRec,
           job' = [job EXCEPT ![w] = r]
    PROVE  Turns(w, r)
BY DEF Turns, OthersStay

(* An installation, or a database that is only rendered, satisfies the     *)
(* invariant.                                                              *)
LEMMA HostsInitTyped == HostsInit => HostsIInv
<1>. SUFFICES ASSUME HostsInit PROVE HostsIInv
  OBVIOUS
<1>1. db \in Database /\ Parses(db.raw) /\ served = db
  BY HostsAssumption DEF HostsInit
<1>2. edits \in Nat /\ broken \in Nat
  BY HostsAssumption DEF HostsInit
<1>3. job = [w \in Workers |-> NoJob] /\ keys = {} /\ plans = {} /\ file = {}
  BY DEF HostsInit
<1>4. \A w \in Workers : job[w].at = "idle" /\ job[w].id = {}
  BY <1>3 DEF NoJob
<1>5. \A w \in Workers : job[w].at \notin Restoring \cup Exporting /\ Faithful(job[w], db)
  BY <1>4 DEF Restoring, Exporting, Faithful
<1>6. \A w \in Workers : Restored(job[w], db) /\ Exported(job[w], Tables)
  BY <1>5 DEF Restored, Exported
<1>7. Known(known, db)
  BY <1>1 DEF HostsInit, Known, Rows, Database, HostTable
<1>8. job \in [Workers -> JobRec] /\ WholeFiles
  BY <1>3, NoJobTyped DEF WholeFiles
<1>. QED
  BY <1>1, <1>2, <1>3, <1>4, <1>5, <1>6, <1>7, <1>8 DEF HostsIInv, JobsKnow, HostsTypeOK

(* What an administrator or an operator may write is a row (Permitted).    *)
LEMMA PermittedIsHost ==
    ASSUME NEW admin \in BOOLEAN, NEW f \in Host, NEW prev \in Fragments,
           NEW r \in Permitted(admin, f, prev)
    PROVE  r \in Host
BY DEF Permitted, Host

(* A row that is read is the only one of its id.                           *)
LEMMA RowIsHost ==
    ASSUME db \in Database, NEW i \in Hosts, NEW old \in db.hosts[i]
    PROVE  old \in Host /\ Row(db.hosts, i) = old /\ old.raw \in Fragments
<1>1. old \in Host /\ \A r \in db.hosts[i] : r = old
  <2>1. db.hosts[i] \in Optional(Host)
    BY DEF Database, HostTable
  <2>. QED
    BY <2>1 DEF Optional
<1>. QED
  BY <1>1 DEF Row, Host

(* What is left of the tables when a column of one is replaced.            *)
LEMMA HostsReplaced ==
    ASSUME db \in Database, NEW f, \A i \in Hosts : f[i] \in Optional(Host), f = [i \in Hosts |-> f[i]]
    PROVE  [db EXCEPT !.hosts = f] \in Database
BY DEF Database, HostTable

(* The same for the access lists.                                          *)
LEMMA AclsReplaced ==
    ASSUME db \in Database, NEW f, \A i \in Acls : f[i] \in Optional(Acl), f = [i \in Acls |-> f[i]]
    PROVE  [db EXCEPT !.acls = f] \in Database
BY DEF Database, AclTable

(* And for the middlewares.                                                *)
LEMMA MwsReplaced ==
    ASSUME db \in Database, NEW f, \A i \in Mws : f[i] \in Optional(Middleware), f = [i \in Mws |-> f[i]]
    PROVE  [db EXCEPT !.mws = f] \in Database
BY DEF Database, MwTable

(* No row, or one.                                                         *)
LEMMA OptionalRows ==
    /\ \A S : {} \in Optional(S)
    /\ \A S : \A r \in S : {r} \in Optional(S)
BY DEF Optional

(* The columns of the tables have their types.                             *)
LEMMA DatabaseFields ==
    ASSUME NEW d \in Database
    PROVE  /\ d.hosts \in [Hosts -> Optional(Host)] /\ d.acls \in [Acls -> Optional(Acl)]
           /\ d.mws \in [Mws -> Optional(Middleware)] /\ d.waf \in BOOLEAN /\ d.cache \in BOOLEAN
           /\ d.raw \in SUBSET RawRouter
BY DEF Database, HostTable, AclTable, MwTable

(* So have the parts of a backup.                                          *)
LEMMA BackupFields ==
    ASSUME NEW d \in BackupDoc
    PROVE  /\ d.hosts \in [Hosts -> Optional(Host)] /\ d.acls \in [Acls -> Optional(Acl)]
           /\ d.mws \in [Mws -> Optional(Middleware)] /\ d.keys \in SUBSET SettingKeys
           /\ d.settings \in [waf : BOOLEAN, cache : BOOLEAN, raw : SUBSET RawRouter]
BY DEF BackupDoc, HostTable, AclTable, MwTable

(* The statements that write one row.                                      *)
EditsRow(w) ==
    \/ \E i \in Hosts : CreateHost(w, i) \/ DeleteHost(w, i)
    \/ UpdateHost(w) \/ \E ids \in SUBSET (Hosts \ known) : DockerImport(w, ids)
    \/ \E a \in Acls : CreateAccessList(w, a) \/ UpdateAccessList(w, a) \/ DeleteAccessList(w, a)
    \/ \E m \in Mws : CreateMiddleware(w, m) \/ UpdateMiddleware(w, m) \/ DeleteMiddleware(w, m)

(* The statements that write one row keep the types of the tables.         *)
LEMMA RowsTyped ==
    ASSUME HostsTypeOK, NEW w \in Jobs, EditsRow(w)
    PROVE  db' \in Database
<1>0. db \in Database /\ job[w] \in JobRec
  BY DEF HostsTypeOK, Workers
<1>1. /\ db.hosts \in [Hosts -> Optional(Host)] /\ db.acls \in [Acls -> Optional(Acl)]
      /\ db.mws \in [Mws -> Optional(Middleware)] /\ job[w].row \in Host
  BY <1>0, DatabaseFields DEF JobRec
<1>2. ASSUME NEW i \in Hosts, NEW S \in Optional(Host), db' = [db EXCEPT !.hosts[i] = S]
      PROVE  db' \in Database
  <2>. DEFINE f == [db.hosts EXCEPT ![i] = S]
  <2>1. \A k \in Hosts : f[k] \in Optional(Host)
    BY <1>1
  <2>2. f = [k \in Hosts |-> f[k]]
    BY <1>1
  <2>3. db' = [db EXCEPT !.hosts = f]
    BY <1>2
  <2>. HIDE DEF f
  <2>. QED
    BY <1>0, <2>1, <2>2, <2>3, HostsReplaced
<1>3. ASSUME NEW i \in Acls, NEW S \in Optional(Acl), db' = [db EXCEPT !.acls[i] = S]
      PROVE  db' \in Database
  <2>. DEFINE f == [db.acls EXCEPT ![i] = S]
  <2>1. \A k \in Acls : f[k] \in Optional(Acl)
    BY <1>1
  <2>2. f = [k \in Acls |-> f[k]]
    BY <1>1
  <2>3. db' = [db EXCEPT !.acls = f]
    BY <1>3
  <2>. HIDE DEF f
  <2>. QED
    BY <1>0, <2>1, <2>2, <2>3, AclsReplaced
<1>4. ASSUME NEW i \in Hosts, CreateHost(w, i) PROVE db' \in Database
  <2>0. PICK admin \in BOOLEAN, f \in HostForms : \E r \in Permitted(admin, f, "none") :
          db' = [db EXCEPT !.hosts[i] = {r}]
    BY <1>4 DEF CreateHost
  <2>1. PICK r \in Permitted(admin, f, "none") : db' = [db EXCEPT !.hosts[i] = {r}]
    BY <2>0
  <2>2. r \in Host
    BY HostsAssumption, PermittedIsHost DEF Fragments
  <2>3. {r} \in Optional(Host)
    BY <2>2, OptionalRows
  <2>. QED
    BY <1>2, <2>1, <2>3
<1>5. ASSUME NEW i \in Hosts, DeleteHost(w, i) PROVE db' \in Database
  BY <1>2, <1>5, OptionalRows DEF DeleteHost
<1>a. ASSUME NEW ids, DockerImport(w, ids) PROVE db' \in Database
  <2>. DEFINE f == [i \in Hosts |-> IF i \in ids THEN {NoRow} ELSE db.hosts[i]]
  <2>1. db' = [db EXCEPT !.hosts = f]
    BY <1>a DEF DockerImport
  <2>2. {NoRow} \in Optional(Host)
    BY OptionalRows, NoJobTyped
  <2>3. \A i \in Hosts : f[i] \in Optional(Host)
    BY <1>1, <2>2
  <2>4. f = [i \in Hosts |-> f[i]]
    OBVIOUS
  <2>. HIDE DEF f
  <2>. QED
    BY <1>0, <2>1, <2>3, <2>4, HostsReplaced
<1>6. ASSUME UpdateHost(w) PROVE db' \in Database
  <2>. DEFINE f == [i \in Hosts |-> IF i \in job[w].id /\ db.hosts[i] # {} THEN {job[w].row}
                                    ELSE db.hosts[i]]
  <2>1. db' = [db EXCEPT !.hosts = f]
    BY <1>6 DEF UpdateHost
  <2>2. {job[w].row} \in Optional(Host)
    BY <1>1, OptionalRows
  <2>3. \A i \in Hosts : f[i] \in Optional(Host)
    BY <1>1, <2>2
  <2>4. f = [i \in Hosts |-> f[i]]
    OBVIOUS
  <2>. HIDE DEF f
  <2>. QED
    BY <1>0, <2>1, <2>3, <2>4, HostsReplaced
<1>7. ASSUME NEW a \in Acls, CreateAccessList(w, a) \/ UpdateAccessList(w, a) PROVE db' \in Database
  <2>1. PICK f \in AclForms : db' = [db EXCEPT !.acls[a] = {f}]
    BY <1>7 DEF CreateAccessList, UpdateAccessList
  <2>2. {f} \in Optional(Acl)
    BY HostsAssumption, OptionalRows
  <2>. QED
    BY <1>3, <2>1, <2>2
<1>8. ASSUME NEW a \in Acls, DeleteAccessList(w, a) PROVE db' \in Database
  BY <1>3, <1>8, OptionalRows DEF DeleteAccessList
<1>9. ASSUME NEW m \in Mws, CreateMiddleware(w, m) \/ UpdateMiddleware(w, m) \/ DeleteMiddleware(w, m)
      PROVE  db' \in Database
  <2>1. PICK S \in Optional(Middleware) : db' = [db EXCEPT !.mws[m] = S]
    BY <1>9, HostsAssumption, OptionalRows DEF CreateMiddleware, UpdateMiddleware, DeleteMiddleware
  <2>. DEFINE f == [db.mws EXCEPT ![m] = S]
  <2>2. \A k \in Mws : f[k] \in Optional(Middleware)
    BY <1>1
  <2>3. f = [k \in Mws |-> f[k]]
    BY <1>1
  <2>4. db' = [db EXCEPT !.mws = f]
    BY <2>1
  <2>. HIDE DEF f
  <2>. QED
    BY <1>0, <2>2, <2>3, <2>4, MwsReplaced
<1>. QED
  BY <1>4, <1>5, <1>6, <1>7, <1>8, <1>9, <1>a DEF EditsRow

(* The settings, the scheduler's rows and the steps of a restore.          *)
EditsTable(w) ==
    \/ SetRawConfig(w) \/ SetPlugins(w) \/ SetCache(w)
    \/ WipeHosts(w) \/ WipeMws(w) \/ WipeAcls(w)
    \/ AddHosts(w) \/ AddMws(w) \/ AddAcls(w) \/ RestoreSettings(w)

(* So do the settings and the steps of a restore.                          *)
LEMMA TablesTyped ==
    ASSUME HostsTypeOK, NEW w \in Jobs, EditsTable(w)
    PROVE  db' \in Database
<1>. DEFINE doc == job[w].doc
<1>0. db \in Database /\ w \in Workers /\ doc \in BackupDoc
  BY DEF HostsTypeOK, Workers, JobRec
<1>1. /\ db.hosts \in [Hosts -> Optional(Host)] /\ db.acls \in [Acls -> Optional(Acl)]
      /\ db.mws \in [Mws -> Optional(Middleware)]
  BY <1>0, DatabaseFields
<1>d. /\ doc.hosts \in [Hosts -> Optional(Host)] /\ doc.acls \in [Acls -> Optional(Acl)]
      /\ doc.mws \in [Mws -> Optional(Middleware)] /\ doc.keys \in SUBSET SettingKeys
      /\ doc.settings \in [waf : BOOLEAN, cache : BOOLEAN, raw : SUBSET RawRouter]
  BY <1>0, BackupFields
<1>. HIDE DEF doc
<1>2. ASSUME SetRawConfig(w) PROVE db' \in Database
  <2>1. PICK s \in SnippetForms : db' = [db EXCEPT !.raw = s]
    BY <1>2 DEF SetRawConfig
  <2>2. s \in SUBSET RawRouter
    BY HostsAssumption
  <2>. QED
    BY <1>0, <2>1, <2>2 DEF Database
<1>3. ASSUME SetPlugins(w) PROVE db' \in Database
  BY <1>0, <1>3 DEF SetPlugins, Database
<1>4. ASSUME SetCache(w) PROVE db' \in Database
  <2>1. job[w].flag \in BOOLEAN /\ db' = [db EXCEPT !.cache = job[w].flag]
    BY <1>0, <1>4 DEF HostsTypeOK, JobRec, SetCache
  <2>. QED
    BY <1>0, <2>1 DEF Database
<1>5. ASSUME WipeHosts(w) PROVE db' \in Database
  <2>1. PICK done \in SUBSET Rows(db.hosts) :
          db' = [db EXCEPT !.hosts = [i \in Hosts |-> IF i \in done THEN {} ELSE @[i]]]
    BY <1>5 DEF WipeHosts
  <2>. DEFINE f == [i \in Hosts |-> IF i \in done THEN {} ELSE db.hosts[i]]
  <2>2. db' = [db EXCEPT !.hosts = f]
    BY <2>1
  <2>3. \A i \in Hosts : f[i] \in Optional(Host)
    BY <1>1, OptionalRows
  <2>4. f = [i \in Hosts |-> f[i]]
    OBVIOUS
  <2>. HIDE DEF f
  <2>. QED
    BY <1>0, <2>2, <2>3, <2>4, HostsReplaced
<1>6. ASSUME WipeMws(w) PROVE db' \in Database
  <2>1. PICK done \in SUBSET Rows(db.mws) :
          db' = [db EXCEPT !.mws = [m \in Mws |-> IF m \in done THEN {} ELSE @[m]]]
    BY <1>6 DEF WipeMws
  <2>. DEFINE f == [m \in Mws |-> IF m \in done THEN {} ELSE db.mws[m]]
  <2>2. db' = [db EXCEPT !.mws = f]
    BY <2>1
  <2>3. \A i \in Mws : f[i] \in Optional(Middleware)
    BY <1>1, OptionalRows
  <2>4. f = [i \in Mws |-> f[i]]
    OBVIOUS
  <2>. HIDE DEF f
  <2>. QED
    BY <1>0, <2>2, <2>3, <2>4, MwsReplaced
<1>7. ASSUME WipeAcls(w) PROVE db' \in Database
  <2>1. PICK done \in SUBSET Rows(db.acls) :
          db' = [db EXCEPT !.acls = [a \in Acls |-> IF a \in done THEN {} ELSE @[a]]]
    BY <1>7 DEF WipeAcls
  <2>. DEFINE f == [a \in Acls |-> IF a \in done THEN {} ELSE db.acls[a]]
  <2>2. db' = [db EXCEPT !.acls = f]
    BY <2>1
  <2>3. \A i \in Acls : f[i] \in Optional(Acl)
    BY <1>1, OptionalRows
  <2>4. f = [i \in Acls |-> f[i]]
    OBVIOUS
  <2>. HIDE DEF f
  <2>. QED
    BY <1>0, <2>2, <2>3, <2>4, AclsReplaced
<1>8. ASSUME AddHosts(w) PROVE db' \in Database
  <2>1. PICK done \in SUBSET Rows(doc.hosts) :
          db' = [db EXCEPT !.hosts = [i \in Hosts |-> IF i \in done /\ @[i] = {} THEN doc.hosts[i]
                                                     ELSE @[i]]]
    BY <1>8 DEF AddHosts, doc
  <2>. DEFINE f == [i \in Hosts |-> IF i \in done /\ db.hosts[i] = {} THEN doc.hosts[i]
                                    ELSE db.hosts[i]]
  <2>2. db' = [db EXCEPT !.hosts = f]
    BY <2>1
  <2>3. \A i \in Hosts : f[i] \in Optional(Host)
    BY <1>1, <1>d
  <2>4. f = [i \in Hosts |-> f[i]]
    OBVIOUS
  <2>. HIDE DEF f
  <2>. QED
    BY <1>0, <2>2, <2>3, <2>4, HostsReplaced
<1>9. ASSUME AddMws(w) PROVE db' \in Database
  <2>1. PICK done \in SUBSET Rows(doc.mws) :
          db' = [db EXCEPT !.mws = [m \in Mws |-> IF m \in done /\ @[m] = {} THEN doc.mws[m]
                                                  ELSE @[m]]]
    BY <1>9 DEF AddMws, doc
  <2>. DEFINE f == [m \in Mws |-> IF m \in done /\ db.mws[m] = {} THEN doc.mws[m]
                                  ELSE db.mws[m]]
  <2>2. db' = [db EXCEPT !.mws = f]
    BY <2>1
  <2>3. \A i \in Mws : f[i] \in Optional(Middleware)
    BY <1>1, <1>d
  <2>4. f = [i \in Mws |-> f[i]]
    OBVIOUS
  <2>. HIDE DEF f
  <2>. QED
    BY <1>0, <2>2, <2>3, <2>4, MwsReplaced
<1>10. ASSUME AddAcls(w) PROVE db' \in Database
  <2>1. PICK done \in SUBSET Rows(doc.acls) :
          db' = [db EXCEPT !.acls = [a \in Acls |-> IF a \in done /\ @[a] = {} THEN doc.acls[a]
                                                   ELSE @[a]]]
    BY <1>10 DEF AddAcls, doc
  <2>. DEFINE f == [a \in Acls |-> IF a \in done /\ db.acls[a] = {} THEN doc.acls[a]
                                   ELSE db.acls[a]]
  <2>2. db' = [db EXCEPT !.acls = f]
    BY <2>1
  <2>3. \A i \in Acls : f[i] \in Optional(Acl)
    BY <1>1, <1>d
  <2>4. f = [i \in Acls |-> f[i]]
    OBVIOUS
  <2>. HIDE DEF f
  <2>. QED
    BY <1>0, <2>2, <2>3, <2>4, AclsReplaced
<1>11. ASSUME RestoreSettings(w) PROVE db' \in Database
  <2>1. PICK done \in SUBSET job[w].doc.keys :
          db' = [db EXCEPT !.waf = IF "waf" \in done THEN job[w].doc.settings.waf ELSE @,
                           !.cache = IF "cache" \in done THEN job[w].doc.settings.cache ELSE @,
                           !.raw = IF "raw" \in done THEN job[w].doc.settings.raw ELSE @]
    BY <1>11, Zenon DEF RestoreSettings
  <2>. DEFINE x == IF "waf" \in done THEN doc.settings.waf ELSE db.waf
              y == IF "cache" \in done THEN doc.settings.cache ELSE db.cache
              z == IF "raw" \in done THEN doc.settings.raw ELSE db.raw
  <2>2. db' = [db EXCEPT !.waf = x, !.cache = y, !.raw = z]
    BY <2>1 DEF doc
  <2>3. x \in BOOLEAN /\ y \in BOOLEAN /\ z \in SUBSET RawRouter
    BY <1>0, <1>d, DatabaseFields
  <2>. HIDE DEF x, y, z
  <2>. QED
    BY <1>0, <2>2, <2>3 DEF Database
<1>. QED
  BY <1>2, <1>3, <1>4, <1>5, <1>6, <1>7, <1>8, <1>9, <1>10, <1>11 DEF EditsTable

(* So does the scheduler (FlipHost).                                       *)
LEMMA FlipTyped ==
    ASSUME HostsTypeOK, FlipHost
    PROVE  db' \in Database
<1>0. db \in Database /\ job[Scheduler].row \in Host
  BY DEF HostsTypeOK, JobRec, Workers
<1>. DEFINE r == job[Scheduler].row
            f == [i \in Hosts |-> IF i \in job[Scheduler].id /\ db.hosts[i] # {} THEN {r}
                                  ELSE db.hosts[i]]
<1>1. db' = db \/ db' = [db EXCEPT !.hosts = f]
  BY DEF FlipHost
<1>2. {r} \in Optional(Host) /\ db.hosts \in [Hosts -> Optional(Host)]
  BY <1>0, OptionalRows, DatabaseFields
<1>3. \A i \in Hosts : f[i] \in Optional(Host)
  BY <1>2
<1>4. f = [i \in Hosts |-> f[i]]
  OBVIOUS
<1>. HIDE DEF f
<1>. QED
  BY <1>0, <1>1, <1>3, <1>4, HostsReplaced

(* Every step but a restart moves one job, to a record that knows what it  *)
(* has to know; one that changes the tables disturbs the restores and the  *)
(* exports.                                                                *)
Honest(w, r) ==
    /\ r.at \in Restoring /\ r.sound => Progress(r.at, db', r.doc)
    /\ r.at \in Exporting /\ r.sound => UNCHANGED <<db, keys>> /\ Copied(r.at, r.doc, r.then, Tables)
    /\ r.at \in {"flip", "update"} => db' = db /\ (Faithful(r, db) \/ (r = job[w] /\ stale' = stale))
    /\ r.id \subseteq job[w].id \cup Rows(db.hosts)
    /\ UNCHANGED <<db, keys>> \/ Disturbs(w)

Moved(w) == \E r \in JobRec : Turns(w, r) /\ Honest(w, r)

Quiet == {"idle", "reload", "cache", "rebuild", "plans"}

(* A job that holds nothing has nothing to know.                           *)
LEMMA QuietIsHonest ==
    ASSUME NEW w, NEW r, r.at \in Quiet, r.id \subseteq job[w].id,
           UNCHANGED <<db, keys>> \/ Disturbs(w)
    PROVE  Honest(w, r)
BY DEF Honest, Quiet, Restoring, Exporting

(* A job between two requests, or about to reload, restores nothing.       *)
LEMMA QuietStages == Quiet \subseteq JobStages /\ Quiet \cap Restoring = {}
BY DEF Quiet, JobStages, Restoring

(* A statement after which the job holds nothing.                          *)
LEMMA WritesMoves ==
    ASSUME HostsTypeOK, NEW w \in Workers, NEW at \in Quiet, Writes(w, at)
    PROVE  Moved(w)
<1>. DEFINE r == GoesOn(w, at, job[w].sound)
<1>0. job \in [Workers -> JobRec] /\ job[w] \in JobRec /\ job[w].sound \in BOOLEAN /\ at \in JobStages
  BY QuietStages DEF HostsTypeOK, JobRec
<1>1. Turns(w, r) /\ Disturbs(w)
  BY <1>0, WritesTurns
<1>2. r \in JobRec /\ r.at = at /\ r.id = {}
  BY <1>0, GoesOnTyped
<1>. HIDE DEF r
<1>. QED
  BY <1>1, <1>2, QuietIsHonest DEF Moved

(* A step that writes nothing.                                             *)
LEMMA PlainMoves ==
    ASSUME HostsTypeOK, NEW w \in Workers, NEW r \in JobRec, job' = [job EXCEPT ![w] = r],
           Honest(w, r)
    PROVE  Moved(w)
BY PlainTurns DEF Moved, HostsTypeOK

(* A step in which no job moves.                                           *)
LEMMA NothingMoves ==
    ASSUME HostsIInv, NEW w \in Workers, UNCHANGED <<job, db, keys, stale>>
    PROVE  Moved(w)
<1>1. job[w] \in JobRec /\ job' = [job EXCEPT ![w] = job[w]] /\ HostsTypeOK
  BY DEF HostsIInv, HostsTypeOK
<1>2. /\ job[w].at \in Restoring /\ job[w].sound => Progress(job[w].at, db, job[w].doc)
      /\ job[w].at \in Exporting /\ job[w].sound => Copied(job[w].at, job[w].doc, job[w].then, Tables)
  BY DEF HostsIInv, JobsKnow, Restored, Exported
<1>3. Honest(w, job[w])
  BY <1>2 DEF Honest
<1>. QED
  BY <1>1, <1>3, PlainMoves

(* The job of a restore goes on, and remembers whether a statement failed. *)
LEMMA StepMoves ==
    ASSUME HostsTypeOK, NEW w \in Workers, NEW to \in Restoring \cup {"reload"}, NEW ids, NEW done,
           RestoreStep(w, to, ids, done),
           to \in Restoring /\ done = ids /\ job[w].sound => Progress(to, db', job[w].doc)
    PROVE  Moved(w)
<1>0. /\ to \in JobStages /\ to \notin {"flip", "update"} /\ to \notin Exporting
      /\ job \in [Workers -> JobRec] /\ job[w] \in JobRec /\ job[w].sound \in BOOLEAN
  BY DEF JobStages, Restoring, Exporting, HostsTypeOK, JobRec
<1>1. CASE done = ids /\ Writes(w, to)
  <2>. DEFINE r == GoesOn(w, to, job[w].sound)
  <2>1. Turns(w, r) /\ Disturbs(w)
    BY <1>0, <1>1, WritesTurns
  <2>2. /\ r \in JobRec /\ r.at = to /\ r.id = {}
        /\ to \in Restoring => r.doc = job[w].doc /\ r.sound = job[w].sound
    BY <1>0, GoesOnTyped
  <2>. HIDE DEF r
  <2>3. Honest(w, r)
    BY <1>0, <1>1, <2>1, <2>2 DEF Honest
  <2>. QED
    BY <2>1, <2>2, <2>3 DEF Moved
<1>2. CASE job' = Disturb(w, [job EXCEPT ![w] = GoesOn(w, to, FALSE)])
  <2>. DEFINE r == GoesOn(w, to, FALSE)
  <2>1. r \in JobRec /\ r.at = to /\ r.id = {} /\ (to \in Restoring => r.sound = FALSE)
    BY <1>0, GoesOnTyped
  <2>2. Turns(w, r) /\ Disturbs(w)
    BY <1>0, <1>2, <2>1, DisturbTurns
  <2>. HIDE DEF r
  <2>3. Honest(w, r)
    BY <1>0, <2>1, <2>2 DEF Honest
  <2>. QED
    BY <2>1, <2>2, <2>3 DEF Moved
<1>. QED
  BY <1>1, <1>2 DEF RestoreStep

(* The steps of a restore, in their order.                                 *)
Restores(w) ==
    \/ WipeHosts(w) \/ WipeMws(w) \/ WipeAcls(w)
    \/ AddHosts(w) \/ AddMws(w) \/ AddAcls(w) \/ RestoreSettings(w)

(* Each step of a restore leaves the tables as the next one expects them.  *)
LEMMA RestoreMoves ==
    ASSUME HostsIInv, NEW w \in Jobs, Restores(w)
    PROVE  Moved(w)
<1>. DEFINE r == job[w]
            doc == job[w].doc
<1>0. HostsTypeOK /\ w \in Workers /\ r \in JobRec /\ db \in Database /\ Restored(r, db)
  BY DEF HostsIInv, JobsKnow, HostsTypeOK, Workers
<1>1. r.at \in Restoring
  <2>1. \/ Stage(w, "wipeHosts") \/ Stage(w, "wipeMws") \/ Stage(w, "wipeAcls")
        \/ Stage(w, "addHosts") \/ Stage(w, "addMws") \/ Stage(w, "addAcls") \/ Stage(w, "settings")
    BY Zenon DEF Restores, WipeHosts, WipeMws, WipeAcls, AddHosts, AddMws, AddAcls, RestoreSettings
  <2>. QED
    BY <2>1 DEF Stage, Restoring
<1>2. /\ doc.hosts \in [Hosts -> Optional(Host)] /\ doc.acls \in [Acls -> Optional(Acl)]
      /\ doc.mws \in [Mws -> Optional(Middleware)]
  <2>1. doc \in BackupDoc
    BY <1>0 DEF JobRec
  <2>. QED
    BY <2>1, BackupFields
<1>3. r.sound => Progress(r.at, db, doc)
  BY <1>0, <1>1 DEF Restored
<1>4. db.hosts \in [Hosts -> Optional(Host)] /\ db.acls \in [Acls -> Optional(Acl)] 
      /\ db.mws \in [Mws -> Optional(Middleware)]
  BY <1>0, DatabaseFields
<1>. HIDE DEF r, doc
<1>5. CASE WipeHosts(w)
  <2>1. PICK done \in SUBSET Rows(db.hosts) :
          /\ RestoreStep(w, "wipeMws", Rows(db.hosts), done)
          /\ db' = [db EXCEPT !.hosts = [i \in Hosts |-> IF i \in done THEN {} ELSE @[i]]]
    BY <1>5 DEF WipeHosts
  <2>2. done = Rows(db.hosts) => \A i \in Hosts : db'.hosts[i] = {}
    BY <1>0, <1>4, <2>1 DEF Rows, Database
  <2>3. done = Rows(db.hosts) => Progress("wipeMws", db', doc)
    BY <2>2 DEF Progress
  <2>. QED
    BY <1>0, <2>1, <2>3, StepMoves DEF Restoring, r, doc
<1>6. CASE WipeMws(w)
  <2>1. PICK done \in SUBSET Rows(db.mws) :
          /\ RestoreStep(w, "wipeAcls", Rows(db.mws), done)
          /\ db' = [db EXCEPT !.mws = [m \in Mws |-> IF m \in done THEN {} ELSE @[m]]]
    BY <1>6 DEF WipeMws
  <2>2. r.at = "wipeMws"
    BY <1>6 DEF WipeMws, Stage, r
  <2>3. /\ db'.hosts = db.hosts /\ db'.acls = db.acls
        /\ (done = Rows(db.mws) => \A m \in Mws : db'.mws[m] = {})
    BY <1>0, <1>4, <2>1 DEF Rows, Database
  <2>4. done = Rows(db.mws) /\ r.sound => Progress("wipeAcls", db', doc)
    BY <1>3, <2>2, <2>3 DEF Progress
  <2>. QED
    BY <1>0, <2>1, <2>4, StepMoves DEF Restoring, r, doc
<1>7. CASE WipeAcls(w)
  <2>1. PICK done \in SUBSET Rows(db.acls) :
          /\ RestoreStep(w, "addHosts", Rows(db.acls), done)
          /\ db' = [db EXCEPT !.acls = [a \in Acls |-> IF a \in done THEN {} ELSE @[a]]]
    BY <1>7 DEF WipeAcls
  <2>2. r.at = "wipeAcls"
    BY <1>7 DEF WipeAcls, Stage, r
  <2>3. /\ db'.hosts = db.hosts /\ db'.mws = db.mws
        /\ (done = Rows(db.acls) => \A a \in Acls : db'.acls[a] = {})
    BY <1>0, <1>4, <2>1 DEF Rows, Database
  <2>4. done = Rows(db.acls) /\ r.sound => Progress("addHosts", db', doc)
    BY <1>3, <2>2, <2>3 DEF Progress
  <2>. QED
    BY <1>0, <2>1, <2>4, StepMoves DEF Restoring, r, doc
<1>8. CASE AddHosts(w)
  <2>1. PICK done \in SUBSET Rows(doc.hosts) :
          /\ RestoreStep(w, "addMws", Rows(doc.hosts), done)
          /\ db' = [db EXCEPT !.hosts = [i \in Hosts |-> IF i \in done /\ @[i] = {} THEN doc.hosts[i]
                                                       ELSE @[i]]]
    BY <1>8 DEF AddHosts, doc
  <2>2. r.at = "addHosts"
    BY <1>8 DEF AddHosts, Stage, r
  <2>3. /\ db'.acls = db.acls /\ db'.mws = db.mws
        /\ db'.hosts = [i \in Hosts |-> IF i \in done /\ db.hosts[i] = {} THEN doc.hosts[i]
                                        ELSE db.hosts[i]]
    BY <1>0, <2>1 DEF Database
  <2>4. done = Rows(doc.hosts) /\ r.sound => db'.hosts = doc.hosts
    <3>. SUFFICES ASSUME done = Rows(doc.hosts), r.sound PROVE db'.hosts = doc.hosts
      OBVIOUS
    <3>1. \A i \in Hosts : db.hosts[i] = {}
      BY <1>3, <2>2 DEF Progress
    <3>2. \A i \in Hosts : i \notin done => doc.hosts[i] = {}
      BY <1>2 DEF Rows
    <3>. QED
      BY <1>2, <2>3, <3>1, <3>2
  <2>5. done = Rows(doc.hosts) /\ r.sound => Progress("addMws", db', doc)
    BY <1>3, <2>2, <2>3, <2>4 DEF Progress
  <2>. QED
    BY <1>0, <2>1, <2>5, StepMoves DEF Restoring, r, doc
<1>9. CASE AddMws(w)
  <2>1. PICK done \in SUBSET Rows(doc.mws) :
          /\ RestoreStep(w, "addAcls", Rows(doc.mws), done)
          /\ db' = [db EXCEPT !.mws = [m \in Mws |-> IF m \in done /\ @[m] = {} THEN doc.mws[m]
                                                    ELSE @[m]]]
    BY <1>9 DEF AddMws, doc
  <2>2. r.at = "addMws"
    BY <1>9 DEF AddMws, Stage, r
  <2>3. /\ db'.hosts = db.hosts /\ db'.acls = db.acls
        /\ db'.mws = [m \in Mws |-> IF m \in done /\ db.mws[m] = {} THEN doc.mws[m] ELSE db.mws[m]]
    BY <1>0, <2>1 DEF Database
  <2>4. done = Rows(doc.mws) /\ r.sound => db'.mws = doc.mws
    <3>. SUFFICES ASSUME done = Rows(doc.mws), r.sound PROVE db'.mws = doc.mws
      OBVIOUS
    <3>1. \A m \in Mws : db.mws[m] = {}
      BY <1>3, <2>2 DEF Progress
    <3>2. \A m \in Mws : m \notin done => doc.mws[m] = {}
      BY <1>2 DEF Rows
    <3>3. db'.mws = [m \in Mws |-> doc.mws[m]]
      BY <2>3, <3>1, <3>2
    <3>. QED
      BY <1>2, <3>3
  <2>5. done = Rows(doc.mws) /\ r.sound => Progress("addAcls", db', doc)
    BY <1>3, <2>2, <2>3, <2>4 DEF Progress
  <2>. QED
    BY <1>0, <2>1, <2>5, StepMoves DEF Restoring, r, doc
<1>10. CASE AddAcls(w)
  <2>1. PICK done \in SUBSET Rows(doc.acls) :
          /\ RestoreStep(w, "settings", Rows(doc.acls), done)
          /\ db' = [db EXCEPT !.acls = [a \in Acls |-> IF a \in done /\ @[a] = {} THEN doc.acls[a]
                                                     ELSE @[a]]]
    BY <1>10 DEF AddAcls, doc
  <2>2. r.at = "addAcls"
    BY <1>10 DEF AddAcls, Stage, r
  <2>3. /\ db'.hosts = db.hosts /\ db'.mws = db.mws
        /\ db'.acls = [a \in Acls |-> IF a \in done /\ db.acls[a] = {} THEN doc.acls[a]
                                      ELSE db.acls[a]]
    BY <1>0, <2>1 DEF Database
  <2>4. done = Rows(doc.acls) /\ r.sound => db'.acls = doc.acls
    <3>. SUFFICES ASSUME done = Rows(doc.acls), r.sound PROVE db'.acls = doc.acls
      OBVIOUS
    <3>1. \A a \in Acls : db.acls[a] = {}
      BY <1>3, <2>2 DEF Progress
    <3>2. \A a \in Acls : a \notin done => doc.acls[a] = {}
      BY <1>2 DEF Rows
    <3>. QED
      BY <1>2, <2>3, <3>1, <3>2
  <2>5. done = Rows(doc.acls) /\ r.sound => Progress("settings", db', doc)
    BY <1>3, <2>2, <2>3, <2>4 DEF Progress
  <2>. QED
    BY <1>0, <2>1, <2>5, StepMoves DEF Restoring, r, doc
<1>11. CASE RestoreSettings(w)
  <2>1. PICK done \in SUBSET doc.keys : RestoreStep(w, "reload", doc.keys, done)
    BY <1>11 DEF RestoreSettings, doc
  <2>2. "reload" \notin Restoring
    BY DEF Restoring
  <2>. QED
    BY <1>0, <2>1, <2>2, StepMoves
<1>. QED
  BY <1>5, <1>6, <1>7, <1>8, <1>9, <1>10, <1>11 DEF Restores

(* The steps of an export.                                                 *)
Exports(w) == BackupExport(w) \/ ExportMws(w) \/ ExportAcls(w) \/ ExportSettings(w)

(* The tables, as a backup holds them.                                     *)
LEMMA TablesAreBackup ==
    ASSUME HostsTypeOK
    PROVE  Tables \in BackupDoc
BY DatabaseFields DEF Tables, BackupDoc, HostTable, AclTable, MwTable, HostsTypeOK

(* A step of an export adds a table, or remembers that a read failed.      *)
LEMMA ReadsMoves ==
    ASSUME HostsTypeOK, NEW w \in Workers, NEW r \in JobRec, NEW to \in Exporting, NEW doc \in BackupDoc,
           r.id \subseteq job[w].id, Reads(w, r, to, doc),
           r.sound => Copied(to, doc, r.then, Tables)
    PROVE  Moved(w)
<1>0. to \in JobStages /\ to \notin {"flip", "update"} /\ to \notin Restoring
  BY DEF JobStages, Restoring, Exporting
<1>1. UNCHANGED <<db, keys>>
  BY DEF Reads
<1>. DEFINE q == [r EXCEPT !.at = to, !.doc = doc]
            f == [r EXCEPT !.at = to, !.sound = FALSE]
<1>2. q \in JobRec /\ q.at = to /\ q.id = r.id /\ q.sound = r.sound /\ q.doc = doc /\ q.then = r.then
  BY <1>0 DEF JobRec
<1>3. f \in JobRec /\ f.at = to /\ f.id = r.id /\ f.sound = FALSE
  BY <1>0 DEF JobRec
<1>4. r.sound => Copied(q.at, q.doc, q.then, Tables)
  BY <1>2
<1>5. job' = [job EXCEPT ![w] = q] \/ job' = [job EXCEPT ![w] = f]
  BY DEF Reads
<1>. HIDE DEF q, f
<1>6. Honest(w, q) /\ Honest(w, f)
  BY <1>0, <1>1, <1>2, <1>3, <1>4 DEF Honest
<1>. QED
  BY <1>2, <1>3, <1>5, <1>6, PlainMoves

(* An export reads the hosts first, then the middlewares, the access lists *)
(* and the settings (BackupExport ... ExportSettings).                     *)
LEMMA ExportMoves ==
    ASSUME HostsIInv, NEW w \in Jobs, Exports(w)
    PROVE  Moved(w)
<1>. DEFINE r == job[w]
<1>0. /\ HostsTypeOK /\ w \in Workers /\ r \in JobRec /\ r.doc \in BackupDoc
      /\ Exported(r, Tables) /\ Tables \in BackupDoc
  BY TablesAreBackup DEF HostsIInv, JobsKnow, HostsTypeOK, Workers, JobRec
<1>t. /\ Tables.hosts = db.hosts /\ Tables.mws = db.mws /\ Tables.acls = db.acls
  BY DEF Tables
<1>1. CASE BackupExport(w)
  <2>. DEFINE q == [NoJob EXCEPT !.then = Tables]
              doc == [NoDoc EXCEPT !.hosts = ListHosts]
  <2>1. Reads(w, q, "exportMws", doc)
    BY <1>1 DEF BackupExport
  <2>2. doc \in BackupDoc /\ doc.hosts = Tables.hosts
    <3>1. ListHosts = db.hosts /\ db.hosts \in HostTable
      BY <1>0 DEF ListHosts, HostsTypeOK, Database
    <3>. QED
      BY <1>t, <3>1, NoJobTyped DEF BackupDoc
  <2>3. q \in JobRec /\ q.id = {} /\ q.then = Tables
    BY <1>0, NoJobTyped DEF JobRec, NoJob
  <2>. HIDE DEF q, doc
  <2>5. Copied("exportMws", doc, q.then, Tables)
    BY <2>2, <2>3 DEF Copied
  <2>6. "exportMws" \in Exporting /\ q.id \subseteq job[w].id
    BY <2>3 DEF Exporting
  <2>. QED
    BY <1>0, <2>1, <2>2, <2>3, <2>5, <2>6, ReadsMoves
<1>2. CASE ExportMws(w)
  <2>. DEFINE doc == [r.doc EXCEPT !.mws = db.mws]
  <2>1. Reads(w, r, "exportAcls", doc) /\ r.at = "exportMws"
    BY <1>2 DEF ExportMws, Stage
  <2>2. doc \in BackupDoc /\ doc.hosts = r.doc.hosts /\ doc.mws = Tables.mws
    BY <1>0, <1>t DEF BackupDoc, HostsTypeOK, Database
  <2>3. r.sound => Copied("exportMws", r.doc, r.then, Tables)
    BY <1>0, <2>1 DEF Exported, Exporting
  <2>. HIDE DEF doc, r
  <2>5. r.sound => Copied("exportAcls", doc, r.then, Tables)
    BY <2>2, <2>3 DEF Copied
  <2>6. "exportAcls" \in Exporting /\ r.id \subseteq job[w].id
    BY DEF Exporting, r
  <2>. QED
    BY <1>0, <2>1, <2>2, <2>5, <2>6, ReadsMoves
<1>3. CASE ExportAcls(w)
  <2>. DEFINE doc == [r.doc EXCEPT !.acls = db.acls]
  <2>1. Reads(w, r, "exportSettings", doc) /\ r.at = "exportAcls"
    BY <1>3 DEF ExportAcls, Stage
  <2>2. doc \in BackupDoc /\ doc.hosts = r.doc.hosts /\ doc.mws = r.doc.mws /\ doc.acls = Tables.acls
    BY <1>0, <1>t DEF BackupDoc, HostsTypeOK, Database
  <2>3. r.sound => Copied("exportAcls", r.doc, r.then, Tables)
    BY <1>0, <2>1 DEF Exported, Exporting
  <2>. HIDE DEF doc, r
  <2>5. r.sound => Copied("exportSettings", doc, r.then, Tables)
    BY <2>2, <2>3 DEF Copied
  <2>6. "exportSettings" \in Exporting /\ r.id \subseteq job[w].id
    BY DEF Exporting, r
  <2>. QED
    BY <1>0, <2>1, <2>2, <2>5, <2>6, ReadsMoves
<1>4. CASE ExportSettings(w)
  <2>1. job' = [job EXCEPT ![w] = NoJob] /\ UNCHANGED <<db, keys>>
    BY <1>4 DEF ExportSettings
  <2>2. NoJob.at \in Quiet /\ NoJob.id = {}
    BY DEF NoJob, Quiet
  <2>3. Honest(w, NoJob)
    BY <2>1, <2>2, QuietIsHonest
  <2>. QED
    BY <1>0, <2>1, <2>3, NoJobTyped, PlainMoves
<1>. QED
  BY <1>1, <1>2, <1>3, <1>4 DEF Exports

(* The requests.                                                           *)
LEMMA JobMoves ==
    ASSUME HostsIInv, NEW w \in Jobs,
           \/ EditsRow(w) \/ EditsTable(w) \/ RebuildWAF(w) \/ RestoreStarts(w) \/ Exports(w)
           \/ \E i \in Hosts : UpdateHostReads(w, i) \/ CreateSchedule(w, i)
           \/ \E p \in plans : DeleteSchedule(w, p)
    PROVE  Moved(w)
<1>0. /\ HostsTypeOK /\ w \in Workers /\ job[w] \in JobRec /\ job \in [Workers -> JobRec]
      /\ db \in Database
  BY DEF HostsIInv, HostsTypeOK, Workers
<1>1. ASSUME EditsRow(w) \/ SetRawConfig(w) PROVE Moved(w)
  <2>1. Writes(w, "reload")
    BY <1>1 DEF EditsRow, CreateHost, DeleteHost, DockerImport, UpdateHost, CreateAccessList,
       UpdateAccessList, DeleteAccessList, CreateMiddleware, UpdateMiddleware, DeleteMiddleware,
       SetRawConfig
  <2>. QED
    BY <1>0, <2>1, WritesMoves DEF Quiet
<1>2. ASSUME SetPlugins(w) PROVE Moved(w)
  <2>1. PICK cache \in BOOLEAN :
          job' = Disturb(w, [job EXCEPT ![w].at = "cache", ![w].flag = cache])
    BY <1>2 DEF SetPlugins
  <2>. DEFINE r == [job[w] EXCEPT !.at = "cache", !.flag = cache]
  <2>2. r \in JobRec /\ r.at \in Quiet /\ r.id = job[w].id
    BY <1>0 DEF JobRec, JobStages, Quiet
  <2>3. [job EXCEPT ![w].at = "cache", ![w].flag = cache] = [job EXCEPT ![w] = r]
    BY <1>0
  <2>. HIDE DEF r
  <2>4. job' = Disturb(w, [job EXCEPT ![w] = r])
    BY <2>1, <2>3
  <2>5. Turns(w, r) /\ Disturbs(w)
    BY <1>0, <2>2, <2>4, DisturbTurns
  <2>. QED
    BY <2>2, <2>5, QuietIsHonest DEF Moved
<1>3. ASSUME SetCache(w) PROVE Moved(w)
  <2>1. Writes(w, "rebuild") /\ "rebuild" \in Quiet
    BY <1>3 DEF SetCache, Quiet
  <2>. QED
    BY <1>0, <2>1, WritesMoves
<1>4. ASSUME RebuildWAF(w) PROVE Moved(w)
  <2>1. PICK r \in {NoJob, [job[w] EXCEPT !.at = "reload"]} : job' = [job EXCEPT ![w] = r]
    BY <1>0, <1>4 DEF RebuildWAF, GoTo
  <2>2. r \in JobRec /\ r.at \in Quiet /\ r.id \subseteq job[w].id /\ UNCHANGED <<db, keys>>
    <3>1. UNCHANGED <<db, keys>>
      BY <1>4 DEF RebuildWAF
    <3>2. CASE r = NoJob
      BY <3>1, <3>2, NoJobTyped DEF Quiet, NoJob
    <3>3. CASE r = [job[w] EXCEPT !.at = "reload"]
      BY <1>0, <3>1, <3>3 DEF JobRec, JobStages, Quiet
    <3>. QED
      BY <2>1, <3>2, <3>3
  <2>. QED
    BY <1>0, <2>1, <2>2, PlainMoves, QuietIsHonest
<1>5. ASSUME RestoreStarts(w) PROVE Moved(w)
  <2>1. PICK doc \in {f.doc : f \in file} \cup Foreign :
          job' = [job EXCEPT ![w] = [NoJob EXCEPT !.at = "wipeHosts", !.doc = doc]]
    BY <1>5, Zenon DEF RestoreStarts
  <2>2. doc \in BackupDoc
    BY <1>0, HostsAssumption DEF HostsTypeOK, Backups
  <2>. DEFINE r == [NoJob EXCEPT !.at = "wipeHosts", !.doc = doc]
  <2>3. r \in JobRec /\ r.at = "wipeHosts" /\ r.id = {}
    BY <2>2, NoJobTyped DEF JobRec, JobStages, Restoring, NoJob
  <2>a. UNCHANGED <<db, keys>>
    BY <1>5, Zenon DEF RestoreStarts
  <2>4. UNCHANGED <<db, keys>> /\ "wipeHosts" \notin Exporting
    BY <2>a DEF Exporting
  <2>. HIDE DEF r
  <2>5. Honest(w, r)
    BY <2>3, <2>4 DEF Honest, Progress
  <2>. QED
    BY <1>0, <2>1, <2>3, <2>5, PlainMoves DEF r
<1>6. ASSUME NEW i \in Hosts, UpdateHostReads(w, i) PROVE Moved(w)
  <2>1. PICK old \in db.hosts[i], admin \in BOOLEAN, f \in HostForms :
          \E r \in Permitted(admin, f, old.raw) :
            job' = [job EXCEPT ![w] = [@ EXCEPT !.at = "update", !.id = {i}, !.row = r, !.admin = admin]]
    BY <1>6, Zenon DEF UpdateHostReads
  <2>2. PICK r \in Permitted(admin, f, old.raw) :
          job' = [job EXCEPT ![w] = [@ EXCEPT !.at = "update", !.id = {i}, !.row = r, !.admin = admin]]
    BY <2>1, Zenon
  <2>3. /\ r \in Host /\ f \in Host /\ old.raw \in Fragments
        /\ \A x \in db.hosts[i] : x = old
    <3>1. old.raw \in Fragments /\ f \in Host /\ \A x \in db.hosts[i] : x = old
      BY <1>0, RowIsHost, HostsAssumption
    <3>. QED
      BY <3>1, PermittedIsHost
  <2>4. ~admin => r.raw = old.raw
    BY <2>3 DEF Permitted, Host
  <2>. DEFINE q == [job[w] EXCEPT !.at = "update", !.id = {i}, !.row = r, !.admin = admin]
  <2>5. q \in JobRec /\ q.at = "update" /\ q.id = {i} /\ q.row = r /\ q.admin = admin
    BY <1>0, <2>3 DEF JobRec, JobStages
  <2>6. job' = [job EXCEPT ![w] = q] /\ UNCHANGED <<db, keys>>
    <3>1. UNCHANGED <<db, keys>>
      BY <1>6, Zenon DEF UpdateHostReads
    <3>. QED
      BY <1>0, <2>2, <3>1
  <2>. HIDE DEF q
  <2>7. Faithful(q, db)
    BY <2>3, <2>4, <2>5 DEF Faithful
  <2>8. i \in Rows(db.hosts) /\ "update" \notin Restoring \cup Exporting
    BY <1>0, DatabaseFields DEF Rows, Restoring, Exporting
  <2>9. Honest(w, q)
    BY <2>5, <2>6, <2>7, <2>8 DEF Honest
  <2>. QED
    BY <1>0, <2>5, <2>6, <2>9, PlainMoves
<1>7. ASSUME \/ \E i \in Hosts : CreateSchedule(w, i)
             \/ \E p \in plans : DeleteSchedule(w, p)
      PROVE  Moved(w)
  <2>1. UNCHANGED <<job, db, keys, stale>>
    BY <1>7 DEF CreateSchedule, DeleteSchedule
  <2>. QED
    BY <1>0, <2>1, NothingMoves
<1>8. ASSUME Restores(w) PROVE Moved(w)
  BY <1>8, RestoreMoves
<1>9. ASSUME Exports(w) PROVE Moved(w)
  BY <1>9, ExportMoves
<1>. QED
  BY <1>1, <1>2, <1>3, <1>4, <1>5, <1>6, <1>7, <1>8, <1>9 DEF EditsTable, Restores

(* A reload ends the job.                                                  *)
LEMMA ReloadMoves ==
    ASSUME HostsTypeOK, NEW w \in Workers, Reload(w)
    PROVE  Moved(w)
<1>1. job' = [job EXCEPT ![w] = NoJob] /\ NoJob.at \in Quiet /\ NoJob.id = {} /\ UNCHANGED <<db, keys>>
  BY DEF Reload, NoJob, Quiet
<1>2. Honest(w, NoJob)
  BY <1>1, QuietIsHonest
<1>. QED
  BY <1>1, <1>2, NoJobTyped, PlainMoves

Schedules == ListSchedules \/ FlipHost \/ TickEnds \/ \E p \in job[Scheduler].todo : ReadHost(p)

(* The scheduler: what it holds is the row it has just read (ReadHost).    *)
LEMMA SchedulerMoves ==
    ASSUME HostsIInv, Schedules
    PROVE  Moved(Scheduler)
<1>. DEFINE old == job[Scheduler]
<1>0. /\ HostsTypeOK /\ Scheduler \in Workers /\ old \in JobRec /\ job \in [Workers -> JobRec]
      /\ db \in Database /\ plans \in SUBSET (Hosts \X BOOLEAN)
  BY DEF HostsIInv, HostsTypeOK, Workers
<1>1. ASSUME ListSchedules PROVE Moved(Scheduler)
  <2>1. PICK due \in SUBSET plans :
          job' = [job EXCEPT ![Scheduler].at = "plans", ![Scheduler].todo = due]
    BY <1>1 DEF ListSchedules
  <2>. DEFINE r == [old EXCEPT !.at = "plans", !.todo = due]
  <2>2. r \in JobRec /\ r.at \in Quiet /\ r.id = old.id /\ UNCHANGED <<db, keys>>
    BY <1>0, <1>1 DEF JobRec, JobStages, Quiet, ListSchedules
  <2>3. job' = [job EXCEPT ![Scheduler] = r]
    BY <1>0, <2>1
  <2>. HIDE DEF r
  <2>. QED
    BY <1>0, <2>2, <2>3, PlainMoves, QuietIsHonest
<1>2. ASSUME NEW p \in old.todo, ReadHost(p) PROVE Moved(Scheduler)
  <2>. DEFINE rest == [old EXCEPT !.todo = @ \ {p}]
              row == [Row(db.hosts, p[1]) EXCEPT !.enabled = p[2]]
              due == \E x \in db.hosts[p[1]] : x.enabled # p[2]
              r == IF due THEN [rest EXCEPT !.at = "flip", !.id = {p[1]}, !.row = row] ELSE rest
  <2>1. job' = [job EXCEPT ![Scheduler] = r] /\ old.at = "plans" /\ UNCHANGED <<db, keys>>
    BY <1>2 DEF ReadHost, Stage
  <2>2. p[1] \in Hosts /\ p[2] \in BOOLEAN
    BY <1>0 DEF JobRec
  <2>3. rest \in JobRec /\ rest.at = "plans" /\ rest.id = old.id
    BY <1>0, <2>1 DEF JobRec
  <2>4. ASSUME due
        PROVE  /\ row \in Host /\ p[1] \in Rows(db.hosts)
               /\ \A x \in db.hosts[p[1]] : [row EXCEPT !.enabled = x.enabled] = x
    <3>1. PICK x \in db.hosts[p[1]] : x.enabled # p[2]
      BY <2>4
    <3>2. Row(db.hosts, p[1]) = x /\ x \in Host
      BY <1>0, <2>2, RowIsHost
    <3>3. \A y \in db.hosts[p[1]] : y = x
      BY <1>0, <2>2, RowIsHost
    <3>4. [[x EXCEPT !.enabled = p[2]] EXCEPT !.enabled = x.enabled] = x
      BY <3>2 DEF Host
    <3>5. [x EXCEPT !.enabled = p[2]] \in Host
      BY <2>2, <3>2 DEF Host
    <3>6. p[1] \in Rows(db.hosts)
      BY <1>0, <2>2, DatabaseFields DEF Rows
    <3>7. row = [x EXCEPT !.enabled = p[2]]
      BY <3>2
    <3>. HIDE DEF row
    <3>. QED
      BY <3>3, <3>4, <3>5, <3>6, <3>7, Zenon
  <2>. HIDE DEF rest, row
  <2>5. CASE due
    <3>. DEFINE q == [rest EXCEPT !.at = "flip", !.id = {p[1]}, !.row = row]
    <3>1. q \in JobRec /\ q.at = "flip" /\ q.id = {p[1]} /\ q.row = row
      BY <2>2, <2>3, <2>4, <2>5 DEF JobRec, JobStages
    <3>2. job' = [job EXCEPT ![Scheduler] = q]
      BY <2>1, <2>5
    <3>. HIDE DEF q
    <3>3. Faithful(q, db)
      BY <2>4, <2>5, <3>1 DEF Faithful
    <3>4. "flip" \notin Restoring \cup Exporting
      BY DEF Restoring, Exporting
    <3>5. Honest(Scheduler, q)
      BY <2>1, <2>4, <2>5, <3>1, <3>3, <3>4 DEF Honest
    <3>. QED
      BY <1>0, <3>1, <3>2, <3>5, PlainMoves
  <2>6. CASE ~due
    <3>1. job' = [job EXCEPT ![Scheduler] = rest]
      BY <2>1, <2>6
    <3>2. Honest(Scheduler, rest)
      BY <2>1, <2>3, QuietIsHonest DEF Quiet
    <3>. QED
      BY <1>0, <2>3, <3>1, <3>2, PlainMoves
  <2>. QED
    BY <2>5, <2>6
<1>3. ASSUME FlipHost PROVE Moved(Scheduler)
  <2>0. keys' = keys
    BY <1>3 DEF FlipHost
  <2>1. CASE job' = [job EXCEPT ![Scheduler].at = "plans"] /\ db' = db
    <3>. DEFINE r == [old EXCEPT !.at = "plans"]
    <3>1. r \in JobRec /\ r.at \in Quiet /\ r.id = old.id
      BY <1>0 DEF JobRec, JobStages, Quiet
    <3>2. job' = [job EXCEPT ![Scheduler] = r]
      BY <1>0, <2>1
    <3>. HIDE DEF r
    <3>3. Honest(Scheduler, r)
      BY <2>0, <2>1, <3>1, QuietIsHonest
    <3>. QED
      BY <1>0, <3>1, <3>2, <3>3, PlainMoves
  <2>2. CASE job' = Disturb(Scheduler, [job EXCEPT ![Scheduler] =
                       [NoJob EXCEPT !.at = "plans", !.todo = old.todo, !.flag = TRUE]])
    <3>. DEFINE r == [NoJob EXCEPT !.at = "plans", !.todo = old.todo, !.flag = TRUE]
    <3>1. r \in JobRec /\ r.at \in Quiet /\ r.id = {}
      BY <1>0, NoJobTyped DEF JobRec, JobStages, Quiet, NoJob
    <3>. HIDE DEF r
    <3>2. Turns(Scheduler, r) /\ Disturbs(Scheduler)
      BY <1>0, <2>2, <3>1, DisturbTurns DEF r
    <3>3. Honest(Scheduler, r)
      BY <3>1, <3>2, QuietIsHonest
    <3>. QED
      BY <3>1, <3>2, <3>3 DEF Moved
  <2>. QED
    BY <1>3, <2>1, <2>2 DEF FlipHost, GoTo
<1>4. ASSUME TickEnds PROVE Moved(Scheduler)
  <2>1. PICK r \in {NoJob, [NoJob EXCEPT !.at = "reload"]} : job' = [job EXCEPT ![Scheduler] = r]
    BY <1>0, <1>4 DEF TickEnds
  <2>2. r \in JobRec /\ r.at \in Quiet /\ r.id = {} /\ UNCHANGED <<db, keys>>
    <3>1. UNCHANGED <<db, keys>>
      BY <1>4 DEF TickEnds
    <3>2. CASE r = NoJob
      BY <3>1, <3>2, NoJobTyped DEF Quiet, NoJob
    <3>3. CASE r = [NoJob EXCEPT !.at = "reload"]
      BY <3>1, <3>3, NoJobTyped DEF JobRec, JobStages, Quiet, NoJob
    <3>. QED
      BY <2>1, <3>2, <3>3
  <2>3. Honest(Scheduler, r)
    BY <2>2, QuietIsHonest
  <2>. QED
    BY <1>0, <2>1, <2>2, <2>3, PlainMoves
<1>. QED
  BY <1>1, <1>2, <1>3, <1>4 DEF Schedules

(* Who moves in a step.                                                    *)
LEMMA HostsSteps ==
    ASSUME HostsNext
    PROVE  \/ \E w \in Workers : Reload(w)
           \/ \E w \in Jobs :
                \/ EditsRow(w) \/ EditsTable(w) \/ RebuildWAF(w) \/ RestoreStarts(w) \/ Exports(w)
                \/ \E i \in Hosts : UpdateHostReads(w, i) \/ CreateSchedule(w, i)
                \/ \E p \in plans : DeleteSchedule(w, p)
           \/ Schedules
           \/ Reboot
BY Zenon DEF HostsNext, EditsRow, EditsTable, Exports, Schedules

(* The tables keep their types.                                            *)
LEMMA TablesStep ==
    ASSUME HostsIInv, HostsNext
    PROVE  db' \in Database
<1>0. HostsTypeOK /\ db \in Database
  BY DEF HostsIInv, HostsTypeOK
<1>1. ASSUME NEW w \in Jobs,
             \/ RebuildWAF(w) \/ RestoreStarts(w) \/ Exports(w)
             \/ \E i \in Hosts : UpdateHostReads(w, i) \/ CreateSchedule(w, i)
             \/ \E p \in plans : DeleteSchedule(w, p)
      PROVE  db' = db
  BY <1>1, Zenon DEF RebuildWAF, RestoreStarts, Exports, BackupExport, ExportMws, ExportAcls,
     ExportSettings, Reads, UpdateHostReads, CreateSchedule, DeleteSchedule
<1>2. ASSUME NEW w \in Workers, Reload(w) PROVE db' = db
  BY <1>2 DEF Reload
<1>3. ASSUME Schedules, ~FlipHost PROVE db' = db
  BY <1>3, Zenon DEF Schedules, ListSchedules, TickEnds, ReadHost
<1>4. ASSUME Reboot PROVE db' = db
  BY <1>4 DEF Reboot
<1>. QED
  BY <1>0, <1>1, <1>2, <1>3, <1>4, HostsSteps, RowsTyped, TablesTyped, FlipTyped

(* A reload serves the tables only when the snippet parses.                *)
LEMMA ServedStep ==
    ASSUME HostsIInv, HostsNext
    PROVE  served' \in Database /\ Parses(served'.raw)
<1>0. db \in Database /\ served \in Database /\ Parses(served.raw)
  BY DEF HostsIInv, HostsTypeOK
<1>1. served' = served \/ (served' = db /\ Parses(db.raw))
  <2>1. ASSUME NEW w \in Jobs, EditsRow(w) PROVE served' = served
    BY <2>1, Zenon DEF EditsRow, CreateHost, DeleteHost, DockerImport, UpdateHost, CreateAccessList,
       UpdateAccessList, DeleteAccessList, CreateMiddleware, UpdateMiddleware, DeleteMiddleware
  <2>2. ASSUME NEW w \in Jobs, EditsTable(w) PROVE served' = served
    BY <2>2, Zenon DEF EditsTable, SetRawConfig, SetPlugins, SetCache, WipeHosts, WipeMws, WipeAcls,
       AddHosts, AddMws, AddAcls, RestoreSettings, RestoreStep
  <2>3. ASSUME NEW w \in Jobs,
               \/ RebuildWAF(w) \/ RestoreStarts(w) \/ Exports(w)
               \/ \E i \in Hosts : UpdateHostReads(w, i) \/ CreateSchedule(w, i)
               \/ \E p \in plans : DeleteSchedule(w, p)
        PROVE  served' = served
    BY <2>3, Zenon DEF RebuildWAF, RestoreStarts, Exports, BackupExport, ExportMws, ExportAcls,
     ExportSettings, Reads, UpdateHostReads, CreateSchedule, DeleteSchedule
  <2>4. ASSUME NEW w \in Workers, Reload(w) PROVE served' = served \/ (served' = db /\ Parses(db.raw))
    BY <2>4 DEF Reload
  <2>5. ASSUME Schedules PROVE served' = served
    BY <2>5, Zenon DEF Schedules, ListSchedules, FlipHost, TickEnds, ReadHost
  <2>6. ASSUME Reboot PROVE served' = served \/ (served' = db /\ Parses(db.raw))
    BY <2>6 DEF Reboot
  <2>. QED
    BY <2>1, <2>2, <2>3, <2>4, <2>5, <2>6, HostsSteps
<1>. QED
  BY <1>0, <1>1

(* An export in which nothing failed and during which nobody wrote answers *)
(* with the tables as they were when it began (ExportSettings).            *)
LEMMA ExportTyped ==
    ASSUME HostsIInv, NEW w \in Jobs, ExportSettings(w)
    PROVE  file' \in SUBSET Backups /\ WholeFiles'
<1>. DEFINE r == job[w]
            doc == [r.doc EXCEPT !.settings = Tables.settings, !.keys = keys]
<1>0. /\ r \in JobRec /\ r.doc \in BackupDoc /\ r.then \in BackupDoc /\ r.sound \in BOOLEAN
      /\ Tables \in BackupDoc /\ Exported(r, Tables) /\ Tables.keys = keys
  BY TablesAreBackup DEF HostsIInv, JobsKnow, HostsTypeOK, Workers, JobRec, Tables
<1>1. r.at = "exportSettings" /\ "exportSettings" \in Exporting
  BY DEF ExportSettings, Stage, Exporting
<1>2. \/ file' = {[doc |-> doc, then |-> r.then, whole |-> r.sound]}
      \/ file' = {[doc |-> r.doc, then |-> r.then, whole |-> FALSE]}
  BY DEF ExportSettings
<1>3. doc \in BackupDoc
  BY <1>0 DEF BackupDoc
<1>4. r.sound => doc = r.then
  <2>1. r.sound => /\ r.then = Tables /\ r.doc.hosts = Tables.hosts
                   /\ r.doc.mws = Tables.mws /\ r.doc.acls = Tables.acls
    BY <1>0, <1>1 DEF Exported, Copied
  <2>. HIDE DEF r
  <2>2. r.sound => doc = Tables
    BY <1>0, <2>1 DEF BackupDoc
  <2>. QED
    BY <2>1, <2>2
<1>. HIDE DEF r, doc
<1>5. file' \in SUBSET Backups
  <2>1. /\ [doc |-> doc, then |-> r.then, whole |-> r.sound] \in Backups
        /\ [doc |-> r.doc, then |-> r.then, whole |-> FALSE] \in Backups
    BY <1>0, <1>3 DEF Backups
  <2>. QED
    BY <1>2, <2>1
<1>6. WholeFiles'
  BY <1>0, <1>2, <1>4 DEF WholeFiles
<1>. QED
  BY <1>5, <1>6

(* keys, plans, the file and the two bounds.                               *)
Others ==
    /\ keys' \in SUBSET SettingKeys /\ plans' \in SUBSET (Hosts \X BOOLEAN)
    /\ file' \in SUBSET Backups /\ WholeFiles'
    /\ edits' \in Nat /\ broken' \in Nat

(* The remaining variables.                                                *)
LEMMA OthersStep ==
    ASSUME HostsIInv, HostsNext
    PROVE  Others
<1>0. /\ keys \in SUBSET SettingKeys /\ plans \in SUBSET (Hosts \X BOOLEAN)
      /\ file \in SUBSET Backups /\ edits \in Nat /\ broken \in Nat
      /\ HostsTypeOK
      /\ (file' = file => WholeFiles')
  BY DEF HostsIInv, HostsTypeOK, WholeFiles
<1>. DEFINE counts == edits' \in {edits, edits + 1} /\ broken' \in {broken, broken + 1}
<1>a. UNCHANGED <<keys, plans, file>> /\ counts => Others
  BY <1>0 DEF Others
<1>1. ASSUME NEW w \in Jobs, EditsRow(w) PROVE Others
  <2>1. UNCHANGED <<keys, plans, file>> /\ counts
    BY <1>1 DEF EditsRow, CreateHost, DeleteHost, DockerImport, UpdateHost, CreateAccessList,
       UpdateAccessList, DeleteAccessList, CreateMiddleware, UpdateMiddleware, DeleteMiddleware, Edit
  <2>. QED
    BY <1>a, <2>1
<1>2. ASSUME NEW w \in Jobs, SetRawConfig(w) \/ SetPlugins(w) \/ SetCache(w) PROVE Others
  BY <1>0, <1>2 DEF SetRawConfig, SetPlugins, SetCache, Edit, Others, SettingKeys
<1>3. ASSUME NEW w \in Jobs, WipeHosts(w) \/ WipeMws(w) \/ WipeAcls(w) \/ AddHosts(w)
                             \/ AddMws(w) \/ AddAcls(w)
      PROVE  Others
  <2>1. keys' = keys
    BY <1>3 DEF WipeHosts, WipeMws, WipeAcls, AddHosts, AddMws, AddAcls
  <2>2. PICK to, ids, done : RestoreStep(w, to, ids, done)
    BY <1>3 DEF WipeHosts, WipeMws, WipeAcls, AddHosts, AddMws, AddAcls
  <2>. QED
    BY <1>0, <2>1, <2>2 DEF RestoreStep, Others
<1>4. ASSUME NEW w \in Jobs, RestoreSettings(w) PROVE Others
  <2>1. job[w].doc \in BackupDoc
    BY <1>0 DEF HostsTypeOK, Workers, JobRec
  <2>2. job[w].doc.keys \in SUBSET SettingKeys
    BY <2>1, BackupFields
  <2>3. PICK done \in SUBSET job[w].doc.keys :
          keys' = keys \cup done /\ RestoreStep(w, "reload", job[w].doc.keys, done)
    BY <1>4, Zenon DEF RestoreSettings
  <2>. QED
    BY <1>0, <2>2, <2>3 DEF RestoreStep, Others
<1>5. ASSUME NEW w \in Jobs,
             \/ RebuildWAF(w) \/ RestoreStarts(w)
             \/ \E i \in Hosts : UpdateHostReads(w, i) \/ CreateSchedule(w, i)
             \/ \E p \in plans : DeleteSchedule(w, p)
      PROVE  Others
  <2>1. UNCHANGED <<keys, file>> /\ counts
    BY <1>5, Zenon DEF RebuildWAF, RestoreStarts, UpdateHostReads, CreateSchedule, DeleteSchedule, Edit
  <2>2. plans' \in SUBSET (Hosts \X BOOLEAN)
    <3>1. \/ plans' \subseteq plans
          \/ \E i \in Hosts, on \in BOOLEAN : plans' = plans \cup {<<i, on>>}
      BY <1>5, Zenon DEF RebuildWAF, RestoreStarts, UpdateHostReads, CreateSchedule, DeleteSchedule
    <3>. QED
      BY <1>0, <3>1
  <2>. QED
    BY <1>0, <2>1, <2>2 DEF Others
<1>6. ASSUME NEW w \in Jobs, Exports(w) PROVE Others
  <2>1. CASE ExportSettings(w)
    <3>1. UNCHANGED <<keys, plans>> /\ counts
      BY <2>1, Zenon DEF ExportSettings
    <3>. QED
      BY <1>0, <2>1, <3>1, ExportTyped DEF Others
  <2>2. CASE BackupExport(w) \/ ExportMws(w) \/ ExportAcls(w)
    <3>1. UNCHANGED <<keys, plans, file>> /\ counts
      BY <2>2 DEF BackupExport, ExportMws, ExportAcls, Reads
    <3>. QED
      BY <1>a, <3>1
  <2>. QED
    BY <1>6, <2>1, <2>2 DEF Exports
<1>7. ASSUME NEW w \in Workers, Reload(w) PROVE Others
  BY <1>0, <1>7 DEF Reload, Others
<1>8. ASSUME Schedules PROVE Others
  <2>1. UNCHANGED <<keys, plans, file>> /\ counts
    BY <1>8, Zenon DEF Schedules, ListSchedules, FlipHost, TickEnds, ReadHost
  <2>. QED
    BY <1>a, <2>1
<1>9. ASSUME Reboot PROVE Others
  BY <1>0, <1>9 DEF Reboot, Others
<1>. QED
  BY <1>1, <1>2, <1>3, <1>4, <1>5, <1>6, <1>7, <1>8, <1>9, HostsSteps DEF EditsTable

(* An id in use stays known, and a row that a job holds a copy of, and that  *)
(* is not known to be old, is as it was or gone.                           *)
Keeps(w) ==
    /\ known \subseteq known' /\ Known(known', db')
    /\ \A v \in Workers \ {w} : v \notin stale' =>
            v \notin stale /\ \A i \in job[v].id : db'.hosts[i] = {} \/ db'.hosts[i] = db.hosts[i]

(* A step that writes no host.                                             *)
LEMMA SameKeeps ==
    ASSUME HostsIInv, NEW w, db'.hosts = db.hosts, known \subseteq known',
           stale' = stale \/ stale' = stale \ {w}
    PROVE  Keeps(w)
BY DEF Keeps, HostsIInv, JobsKnow, Known

(* A step that tells the jobs which hosts it wrote (Touches).              *)
LEMMA TouchesKeeps ==
    ASSUME HostsIInv, NEW w, NEW ids, Touches(w, ids), known \subseteq known',
           \A i \in Hosts : i \notin ids => db'.hosts[i] = db.hosts[i],
           \A i \in Hosts : i \in ids /\ db'.hosts[i] # {} => i \in known'
    PROVE  Keeps(w)
<1>1. \A v \in Workers : job[v].id \subseteq Hosts
  BY DEF HostsIInv, JobsKnow, HostsTypeOK, JobRec
<1>2. Known(known', db')
  BY DEF HostsIInv, JobsKnow, Known
<1>3. ASSUME NEW v \in Workers \ {w}, v \notin stale'
      PROVE  v \notin stale /\ \A i \in job[v].id : db'.hosts[i] = db.hosts[i]
  <2>1. v \notin stale /\ job[v].id \cap ids = {}
    BY <1>3 DEF Touches
  <2>. QED
    BY <1>1, <2>1
<1>. QED
  BY <1>2, <1>3 DEF Keeps

(* New rows have ids that no job can hold.                                 *)
LEMMA NewRowKeeps ==
    ASSUME HostsIInv, NEW w, NEW ids, ids \cap known = {}, known' = known \cup ids, stale' = stale,
           \A k \in Hosts : k \notin ids => db'.hosts[k] = db.hosts[k]
    PROVE  Keeps(w)
<1>1. \A v \in Workers : job[v].id \subseteq Hosts /\ job[v].id \subseteq known
  BY DEF HostsIInv, JobsKnow, HostsTypeOK, JobRec
<1>2. Known(known', db')
  BY DEF HostsIInv, JobsKnow, Known
<1>. QED
  BY <1>1, <1>2 DEF Keeps

(* The requests that write one row.                                        *)
LEMMA RowKeeps ==
    ASSUME HostsIInv, NEW w \in Jobs, EditsRow(w)
    PROVE  Keeps(w)
<1>0. db \in Database /\ db.hosts \in [Hosts -> Optional(Host)] /\ Known(known, db)
  BY DatabaseFields DEF HostsIInv, JobsKnow, HostsTypeOK
<1>1. ASSUME NEW i \in Hosts, CreateHost(w, i) PROVE Keeps(w)
  <2>1. /\ i \notin known /\ known' = known \cup {i} /\ stale' = stale
        /\ \E S : db' = [db EXCEPT !.hosts[i] = S]
    BY <1>1 DEF CreateHost
  <2>2. \A k \in Hosts : k \notin {i} => db'.hosts[k] = db.hosts[k]
    BY <1>0, <2>1 DEF Database
  <2>. QED
    BY <2>1, <2>2, NewRowKeeps
<1>a. ASSUME NEW ids, DockerImport(w, ids) PROVE Keeps(w)
  <2>1. /\ ids \cap known = {} /\ known' = known \cup ids /\ stale' = stale
        /\ db' = [db EXCEPT !.hosts = [i \in Hosts |-> IF i \in ids THEN {NoRow} ELSE @[i]]]
    BY <1>a DEF DockerImport
  <2>2. \A k \in Hosts : k \notin ids => db'.hosts[k] = db.hosts[k]
    BY <1>0, <2>1 DEF Database
  <2>. QED
    BY <2>1, <2>2, NewRowKeeps
<1>2. ASSUME NEW i \in Hosts, DeleteHost(w, i) PROVE Keeps(w)
  <2>1. db' = [db EXCEPT !.hosts[i] = {}] /\ Touches(w, {i}) /\ known' = known
    BY <1>2 DEF DeleteHost
  <2>2. db'.hosts[i] = {} /\ \A k \in Hosts : k # i => db'.hosts[k] = db.hosts[k]
    BY <1>0, <2>1 DEF Database
  <2>. QED
    BY <2>1, <2>2, TouchesKeeps
<1>3. ASSUME UpdateHost(w) PROVE Keeps(w)
  <2>. DEFINE ids == job[w].id
              f == [i \in Hosts |-> IF i \in ids /\ db.hosts[i] # {} THEN {job[w].row} ELSE db.hosts[i]]
  <2>1. db' = [db EXCEPT !.hosts = f] /\ Touches(w, ids) /\ known' = known
    BY <1>3 DEF UpdateHost
  <2>2. db'.hosts = f
    BY <1>0, <2>1 DEF Database
  <2>3. \A i \in Hosts : i \notin ids => db'.hosts[i] = db.hosts[i]
    BY <2>2
  <2>4. \A i \in Hosts : i \in ids /\ db'.hosts[i] # {} => i \in known'
    BY <1>0, <2>1, <2>2 DEF Known
  <2>. HIDE DEF ids
  <2>. QED
    BY <2>1, <2>3, <2>4, TouchesKeeps
<1>4. ASSUME NEW a \in Acls, CreateAccessList(w, a) \/ UpdateAccessList(w, a) \/ DeleteAccessList(w, a)
      PROVE  Keeps(w)
  <2>1. (\E S : db' = [db EXCEPT !.acls[a] = S]) /\ stale' = stale /\ known \subseteq known'
    BY <1>4 DEF CreateAccessList, UpdateAccessList, DeleteAccessList
  <2>2. db'.hosts = db.hosts
    BY <1>0, <2>1 DEF Database
  <2>. QED
    BY <2>1, <2>2, SameKeeps
<1>5. ASSUME NEW m \in Mws, CreateMiddleware(w, m) \/ UpdateMiddleware(w, m) \/ DeleteMiddleware(w, m)
      PROVE  Keeps(w)
  <2>1. (\E S : db' = [db EXCEPT !.mws[m] = S]) /\ stale' = stale /\ known \subseteq known'
    BY <1>5 DEF CreateMiddleware, UpdateMiddleware, DeleteMiddleware
  <2>2. db'.hosts = db.hosts
    BY <1>0, <2>1 DEF Database
  <2>. QED
    BY <2>1, <2>2, SameKeeps
<1>. QED
  BY <1>1, <1>2, <1>3, <1>4, <1>5, <1>a DEF EditsRow

(* The settings and the steps of a restore.                                *)
LEMMA TableKeeps ==
    ASSUME HostsIInv, NEW w \in Jobs, EditsTable(w)
    PROVE  Keeps(w)
<1>0. db \in Database /\ db.hosts \in [Hosts -> Optional(Host)] /\ Known(known, db)
  BY DatabaseFields DEF HostsIInv, JobsKnow, HostsTypeOK
<1>1. ASSUME SetRawConfig(w) \/ SetPlugins(w) \/ SetCache(w) PROVE Keeps(w)
  <2>1. stale' = stale /\ known' = known
    BY <1>1 DEF SetRawConfig, SetPlugins, SetCache
  <2>2. db'.hosts = db.hosts
    BY <1>0, <1>1 DEF SetRawConfig, SetPlugins, SetCache, Database
  <2>. QED
    BY <2>1, <2>2, SameKeeps
<1>2. ASSUME WipeMws(w) \/ WipeAcls(w) \/ AddMws(w) \/ AddAcls(w) \/ RestoreSettings(w) PROVE Keeps(w)
  <2>1. stale' = stale /\ known \subseteq known'
    BY <1>2, Zenon DEF WipeMws, WipeAcls, AddMws, AddAcls, RestoreSettings
  <2>2. db'.hosts = db.hosts
    <3>1. ASSUME WipeMws(w) \/ AddMws(w) PROVE db'.hosts = db.hosts
      BY <1>0, <3>1 DEF WipeMws, AddMws, Database
    <3>2. ASSUME WipeAcls(w) \/ AddAcls(w) PROVE db'.hosts = db.hosts
      BY <1>0, <3>2 DEF WipeAcls, AddAcls, Database
    <3>3. ASSUME RestoreSettings(w) PROVE db'.hosts = db.hosts
      BY <1>0, <3>3 DEF RestoreSettings, Database
    <3>. QED
      BY <1>2, <3>1, <3>2, <3>3
  <2>. QED
    BY <2>1, <2>2, SameKeeps
<1>3. ASSUME WipeHosts(w) PROVE Keeps(w)
  <2>1. PICK done \in SUBSET Rows(db.hosts) :
          /\ db' = [db EXCEPT !.hosts = [i \in Hosts |-> IF i \in done THEN {} ELSE @[i]]]
          /\ Touches(w, done) /\ known' = known
    BY <1>3 DEF WipeHosts
  <2>2. db'.hosts = [i \in Hosts |-> IF i \in done THEN {} ELSE db.hosts[i]]
    BY <1>0, <2>1 DEF Database
  <2>3. \A i \in Hosts : (i \in done => db'.hosts[i] = {}) /\ (i \notin done => db'.hosts[i] = db.hosts[i])
    BY <2>2
  <2>. QED
    BY <2>1, <2>3, TouchesKeeps
<1>4. ASSUME AddHosts(w) PROVE Keeps(w)
  <2>. DEFINE docHosts == job[w].doc.hosts
  <2>. HIDE DEF docHosts
  <2>1. PICK done \in SUBSET Rows(docHosts) :
          /\ db' = [db EXCEPT !.hosts = [i \in Hosts |-> IF i \in done /\ @[i] = {} THEN docHosts[i]
                                                       ELSE @[i]]]
          /\ Touches(w, done) /\ known' = known \cup done
    BY <1>4 DEF AddHosts, docHosts
  <2>2. db'.hosts = [i \in Hosts |-> IF i \in done /\ db.hosts[i] = {} THEN docHosts[i] ELSE db.hosts[i]]
    BY <1>0, <2>1 DEF Database
  <2>3. \A i \in Hosts : i \notin done => db'.hosts[i] = db.hosts[i]
    BY <2>2
  <2>. QED
    BY <2>1, <2>3, TouchesKeeps
<1>. QED
  BY <1>1, <1>2, <1>3, <1>4 DEF EditsTable

(* The scheduler.                                                          *)
LEMMA FlipKeeps ==
    ASSUME HostsIInv, FlipHost
    PROVE  Keeps(Scheduler)
<1>0. db \in Database /\ Known(known, db)
  BY DEF HostsIInv, JobsKnow, HostsTypeOK
<1>. DEFINE ids == job[Scheduler].id
            f == [i \in Hosts |-> IF i \in ids /\ db.hosts[i] # {} THEN {job[Scheduler].row}
                                  ELSE db.hosts[i]]
<1>1. known' = known
  BY DEF FlipHost
<1>2. CASE db' = [db EXCEPT !.hosts = f] /\ Touches(Scheduler, ids)
  <2>1. db'.hosts = f
    BY <1>0, <1>2 DEF Database
  <2>2. \A i \in Hosts : i \notin ids => db'.hosts[i] = db.hosts[i]
    BY <2>1
  <2>3. \A i \in Hosts : i \in ids /\ db'.hosts[i] # {} => i \in known'
    BY <1>0, <1>1, <2>1 DEF Known
  <2>. HIDE DEF ids
  <2>. QED
    BY <1>1, <1>2, <2>2, <2>3, TouchesKeeps
<1>3. CASE UNCHANGED <<db, stale>>
  BY <1>1, <1>3, SameKeeps
<1>. QED
  BY <1>2, <1>3 DEF FlipHost

(* One job moves and keeps what the others rely on, or all are gone.       *)
LEMMA SomeoneMoves ==
    ASSUME HostsIInv, HostsNext
    PROVE  (\E w \in Workers : Moved(w) /\ Keeps(w)) \/ Reboot
<1>0. Scheduler \in Workers /\ Jobs \subseteq Workers
  BY DEF Workers
<1>1. ASSUME NEW w \in Workers, Reload(w) PROVE Moved(w) /\ Keeps(w)
  <2>1. UNCHANGED <<db, known>> /\ stale' = stale \ {w}
    BY <1>1 DEF Reload
  <2>. QED
    BY <1>1, <2>1, ReloadMoves, SameKeeps DEF HostsIInv
<1>2. ASSUME NEW w \in Jobs, EditsRow(w) \/ EditsTable(w) PROVE Moved(w) /\ Keeps(w)
  BY <1>2, JobMoves, RowKeeps, TableKeeps
<1>3. ASSUME NEW w \in Jobs,
             \/ RebuildWAF(w) \/ RestoreStarts(w) \/ Exports(w)
             \/ \E i \in Hosts : UpdateHostReads(w, i) \/ CreateSchedule(w, i)
             \/ \E p \in plans : DeleteSchedule(w, p)
      PROVE  Moved(w) /\ Keeps(w)
  <2>1. db' = db /\ known' = known /\ (stale' = stale \/ stale' = stale \ {w})
    BY <1>3, Zenon DEF RebuildWAF, RestoreStarts, Exports, BackupExport, ExportMws, ExportAcls,
     ExportSettings, Reads, UpdateHostReads, CreateSchedule, DeleteSchedule
  <2>. QED
    BY <1>3, <2>1, JobMoves, SameKeeps
<1>4. ASSUME Schedules PROVE Moved(Scheduler) /\ Keeps(Scheduler)
  <2>1. ASSUME ~FlipHost
        PROVE  /\ db' = db /\ known' = known
               /\ stale' = stale \/ stale' = stale \ {Scheduler}
    BY <1>4, <2>1, Zenon DEF Schedules, ListSchedules, TickEnds, ReadHost
  <2>. QED
    BY <1>4, <2>1, SchedulerMoves, SameKeeps, FlipKeeps
<1>. QED
  BY <1>0, <1>1, <1>2, <1>3, <1>4, HostsSteps

(* What a job that does not move knows stays true of the tables.           *)
LEMMA OthersKnow ==
    ASSUME HostsIInv, NEW w \in Workers, NEW v \in Workers, v # w, job' \in [Workers -> JobRec],
           OthersStay(w), Keeps(w), UNCHANGED <<db, keys>> \/ Disturbs(w)
    PROVE  /\ job'[v].id \subseteq known'
           /\ v \notin stale' => Faithful(job'[v], db')
           /\ Restored(job'[v], db') /\ Exported(job'[v], Tables')
<1>0. /\ job[v] \in JobRec /\ job[v].id \subseteq known /\ (v \notin stale => Faithful(job[v], db))
      /\ Restored(job[v], db) /\ Exported(job[v], Tables)
  BY DEF HostsIInv, JobsKnow, HostsTypeOK
<1>1. /\ job'[v].at = job[v].at /\ job'[v].id = job[v].id /\ job'[v].row = job[v].row
      /\ job'[v].admin = job[v].admin /\ job'[v].doc = job[v].doc /\ job'[v].then = job[v].then
      /\ (job'[v].sound => job[v].sound)
  BY <1>0 DEF OthersStay, JobRec
<1>2. /\ known \subseteq known'
      /\ v \notin stale' =>
            v \notin stale /\ \A i \in job[v].id : db'.hosts[i] = {} \/ db'.hosts[i] = db.hosts[i]
  BY DEF Keeps
<1>3. v \notin stale' => Faithful(job'[v], db')
  BY <1>0, <1>1, <1>2 DEF Faithful
<1>4. Restored(job'[v], db') /\ Exported(job'[v], Tables')
  <2>1. CASE UNCHANGED <<db, keys>>
    <3>1. Tables' = Tables
      BY <2>1 DEF Tables
    <3>. QED
      BY <1>0, <1>1, <2>1, <3>1 DEF Restored, Exported
  <2>2. CASE Disturbs(w)
    BY <2>2 DEF Disturbs, Restored, Exported
  <2>. QED
    BY <2>1, <2>2
<1>. QED
  BY <1>0, <1>1, <1>2, <1>3, <1>4

(* What the jobs know is still true after a step of anyone.                *)
LEMMA JobsStep ==
    ASSUME HostsIInv, HostsNext
    PROVE  job' \in [Workers -> JobRec] /\ JobsKnow'
<1>2. ASSUME NEW w \in Workers, Moved(w), Keeps(w)
      PROVE  job' \in [Workers -> JobRec] /\ JobsKnow'
  <2>1. PICK r \in JobRec : Turns(w, r) /\ Honest(w, r)
    BY <1>2 DEF Moved
  <2>2. job' \in [Workers -> JobRec] /\ job'[w] = r /\ OthersStay(w)
    BY <2>1 DEF Turns
  <2>3. /\ r.at \in Restoring /\ r.sound => Progress(r.at, db', r.doc)
        /\ r.at \in Exporting /\ r.sound => UNCHANGED <<db, keys>> /\ Copied(r.at, r.doc, r.then, Tables)
        /\ r.at \in {"flip", "update"} => db' = db /\ (Faithful(r, db) \/ (r = job[w] /\ stale' = stale))
        /\ r.id \subseteq job[w].id \cup Rows(db.hosts)
        /\ UNCHANGED <<db, keys>> \/ Disturbs(w)
    BY <2>1 DEF Honest
  <2>4. job[w].id \subseteq known /\ Rows(db.hosts) \subseteq known
    BY DatabaseFields DEF HostsIInv, JobsKnow, HostsTypeOK, Known, Rows
  <2>5. known \subseteq known' /\ Known(known', db')
    BY <1>2 DEF Keeps
  <2>6. w \notin stale' => Faithful(r, db')
    <3>1. CASE r.at \in {"flip", "update"}
      BY <2>3, <3>1 DEF HostsIInv, JobsKnow
    <3>2. CASE r.at \notin {"flip", "update"}
      BY <3>2 DEF Faithful
    <3>. QED
      BY <3>1, <3>2
  <2>7. Restored(r, db') /\ Exported(r, Tables')
    <3>1. UNCHANGED <<db, keys>> => Tables' = Tables
      BY DEF Tables
    <3>. QED
      BY <2>3, <3>1 DEF Restored, Exported
  <2>8. \A v \in Workers : v # w =>
          /\ job'[v].id \subseteq known'
          /\ v \notin stale' => Faithful(job'[v], db')
          /\ Restored(job'[v], db') /\ Exported(job'[v], Tables')
    BY <1>2, <2>2, <2>3, OthersKnow
  <2>9. \A v \in Workers :
          /\ job'[v].id \subseteq known'
          /\ v \notin stale' => Faithful(job'[v], db')
          /\ Restored(job'[v], db') /\ Exported(job'[v], Tables')
    BY <2>2, <2>3, <2>4, <2>5, <2>6, <2>7, <2>8
  <2>. QED
    BY <2>2, <2>5, <2>9 DEF JobsKnow, Known, Faithful, Restored, Progress, Exported, Copied
<1>3. ASSUME Reboot PROVE job' \in [Workers -> JobRec] /\ JobsKnow'
  <2>1. job' = [w \in Workers |-> NoJob] /\ UNCHANGED <<db, known>>
    BY <1>3 DEF Reboot
  <2>2. NoJob.at = "idle" /\ NoJob.id = {} /\ NoJob.at \notin Restoring \cup Exporting
    BY DEF NoJob, Restoring, Exporting
  <2>3. Faithful(NoJob, db') /\ Restored(NoJob, db') /\ Exported(NoJob, Tables')
    BY <2>2 DEF Faithful, Restored, Exported
  <2>4. Known(known', db')
    BY <2>1 DEF HostsIInv, JobsKnow, Known
  <2>5. \A w \in Workers : job'[w] = NoJob
    BY <2>1
  <2>. HIDE DEF NoJob
  <2>6. \A v \in Workers :
          /\ job'[v].id \subseteq known'
          /\ v \notin stale' => Faithful(job'[v], db')
          /\ Restored(job'[v], db') /\ Exported(job'[v], Tables')
    BY <2>2, <2>3, <2>5
  <2>. QED
    BY <2>1, <2>4, <2>6, NoJobTyped DEF JobsKnow, Known, Faithful, Restored, Progress, Exported, Copied
<1>. QED
  BY <1>2, <1>3, SomeoneMoves

(* The jobs and the tables, for every number of each (HostsNext).          *)
LEMMA HostsStep == HostsIInv /\ [HostsNext]_hostsVars => HostsIInv'
<1>. SUFFICES ASSUME HostsIInv, [HostsNext]_hostsVars PROVE HostsIInv'
  OBVIOUS
<1>1. CASE HostsNext
  <2>1. db' \in Database /\ served' \in Database /\ Parses(served'.raw)
    BY <1>1, TablesStep, ServedStep
  <2>2. Others
    BY <1>1, OthersStep
  <2>3. job' \in [Workers -> JobRec] /\ JobsKnow'
    BY <1>1, JobsStep
  <2>4. HostsTypeOK' /\ WholeFiles'
    BY <2>1, <2>2, <2>3 DEF HostsTypeOK, Others
  <2>5. Parses(served.raw)'
    BY <2>1 DEF Parses
  <2>. QED
    BY <2>3, <2>4, <2>5 DEF HostsIInv
<1>2. CASE UNCHANGED hostsVars
  <2>1. HostsTypeOK' /\ WholeFiles' /\ Parses(served.raw)'
    BY <1>2 DEF HostsIInv, HostsTypeOK, Parses, WholeFiles, hostsVars
  <2>2. JobsKnow'
    BY <1>2 DEF HostsIInv, JobsKnow, Known, Faithful, Restored, Progress, Exported, Copied, Tables,
       hostsVars
  <2>. QED
    BY <2>1, <2>2 DEF HostsIInv
<1>. QED
  BY <1>1, <1>2

(* The tables, the backups and the jobs of the admin API stay well typed;  *)
(* the tables behind the document being served have a snippet that parsed; *)
(* a copy of a row that nobody has written since is the row; a restore and *)
(* an export that nothing disturbed know what the tables hold.             *)
THEOREM HostsInductive == HostsSpec => []HostsIInv
BY HostsInitTyped, HostsStep, PTL DEF HostsSpec

(* Whatever was edited, deleted, restored or left half restored, by        *)
(* however many requests and the scheduler, for every set of hosts, access *)
(* lists and middlewares, every database and every backup of another       *)
(* installation: what Render refers to exists, but for the passwords of a  *)
(* list without a usable user; a text that refers to nothing costs only    *)
(* the hosts that carry it; every way to a backend passes the lists and    *)
(* the WAF of its host; nothing outranks or replaces the system's routers. *)
THEOREM ServedHoldsTogether == HostsSpec => []ServedIsSound
<1>1. HostsIInv => ServedIsSound
  BY RenderIsSound DEF HostsIInv, HostsTypeOK, ServedIsSound
<1>. QED
  BY <1>1, HostsInductive, PTL

(* Only one request or the scheduler writes a row back: what it did not    *)
(* mean to change is as it was.                                            *)
LEMMA WritesBack ==
    ASSUME HostsIInv, NEW w \in Workers, NEW i \in Hosts, NEW old \in db.hosts[i], NEW new \in db'.hosts[i],
           w \notin stale,
           db' = [db EXCEPT !.hosts = [k \in Hosts |-> IF k \in job[w].id /\ @[k] # {} THEN {job[w].row}
                                                       ELSE @[k]]]
    PROVE  /\ Stage(w, "flip") => [new EXCEPT !.enabled = old.enabled] = old
           /\ Stage(w, "update") /\ ~job[w].admin => new.raw = old.raw
<1>0. db \in Database /\ Faithful(job[w], db)
  BY DEF HostsIInv, JobsKnow, HostsTypeOK
<1>1. old \in Host /\ \A r \in db.hosts[i] : r = old
  BY <1>0, RowIsHost
<1>2. db'.hosts = [k \in Hosts |-> IF k \in job[w].id /\ db.hosts[k] # {} THEN {job[w].row} ELSE db.hosts[k]]
  BY <1>0 DEF Database
<1>3. CASE i \in job[w].id
  <2>1. new = job[w].row
    BY <1>2, <1>3
  <2>. QED
    BY <1>0, <1>3, <2>1 DEF Faithful, Stage
<1>4. CASE i \notin job[w].id
  <2>1. new = old
    BY <1>1, <1>2, <1>4
  <2>. QED
    BY <1>1, <2>1 DEF Host
<1>. QED
  BY <1>3, <1>4

(* Whatever the other requests and the scheduler do between the read and   *)
(* the write: a job that writes a whole row back only changes what it was  *)
(* asked to, unless the row was written since the job read it (FlipHost,   *)
(* UpdateHost).                                                            *)
THEOREM CopiesLoseNothing == HostsSpec => NothingLost
<1>1. ASSUME HostsIInv, HostsNext, NEW i \in Hosts, NEW old \in db.hosts[i], NEW new \in db'.hosts[i]
      PROVE  /\ FlipHost /\ Scheduler \notin stale => [new EXCEPT !.enabled = old.enabled] = old
             /\ \A w \in Jobs : UpdateHost(w) /\ w \notin stale /\ ~job[w].admin /\ i \in job[w].id
                     => new.raw = old.raw
  <2>0. db \in Database /\ Scheduler \in Workers /\ Jobs \subseteq Workers
    BY <1>1 DEF HostsIInv, HostsTypeOK, Workers
  <2>1. ASSUME FlipHost, Scheduler \notin stale PROVE [new EXCEPT !.enabled = old.enabled] = old
    <3>1. CASE db' = db
      <4>1. old \in Host /\ new = old
        BY <1>1, <2>0, <3>1, RowIsHost
      <4>. QED
        BY <4>1 DEF Host
    <3>2. CASE db' # db
      <4>1. /\ Stage(Scheduler, "flip")
            /\ db' = [db EXCEPT !.hosts =
                        [k \in Hosts |-> IF k \in job[Scheduler].id /\ @[k] # {} THEN {job[Scheduler].row}
                                         ELSE @[k]]]
        BY <2>1, <3>2 DEF FlipHost
      <4>. QED
        BY <1>1, <2>0, <2>1, <4>1, WritesBack
    <3>. QED
      BY <3>1, <3>2
  <2>2. ASSUME NEW w \in Jobs, UpdateHost(w), w \notin stale, ~job[w].admin PROVE new.raw = old.raw
    <3>1. /\ Stage(w, "update")
          /\ db' = [db EXCEPT !.hosts =
                      [k \in Hosts |-> IF k \in job[w].id /\ @[k] # {} THEN {job[w].row} ELSE @[k]]]
      BY <2>2 DEF UpdateHost
    <3>. QED
      BY <1>1, <2>0, <2>2, <3>1, WritesBack
  <2>. QED
    BY <2>1, <2>2
<1>. DEFINE lossless ==
        \A i \in Hosts : \A old \in db.hosts[i], new \in db'.hosts[i] :
            /\ FlipHost /\ Scheduler \notin stale => [new EXCEPT !.enabled = old.enabled] = old
            /\ \A w \in Jobs : UpdateHost(w) /\ w \notin stale /\ ~job[w].admin /\ i \in job[w].id
                    => new.raw = old.raw
<1>2. HostsIInv /\ [HostsNext]_hostsVars => [lossless]_hostsVars
  BY <1>1
<1>. HIDE DEF lossless
<1>3. HostsSpec => [][lossless]_hostsVars
  BY <1>2, HostsInductive, PTL DEF HostsSpec
<1>. QED
  BY <1>3 DEF NothingLost, lossless

(* A restore in which every statement works and nobody else writes leaves  *)
(* exactly what its document holds, whatever document it was and whatever  *)
(* was there before; and when the document is that of an export in which   *)
(* every read worked and nobody wrote, the tables as they were when the    *)
(* export began (RestoreStarts ... RestoreSettings, ExportSettings).       *)
THEOREM RestoresAreFaithful == HostsSpec => RestoreFaithful
<1>1. ASSUME HostsIInv, NEW w \in Jobs, RestoreSettings(w), job[w].sound, broken' = broken
      PROVE  Holds(db', job[w].doc)
  <2>. DEFINE doc == job[w].doc
  <2>0. db \in Database /\ broken \in Nat /\ w \in Workers
    BY <1>1 DEF HostsIInv, HostsTypeOK, Workers
  <2>2. job[w].at = "settings" /\ "settings" \in Restoring
    BY <1>1 DEF RestoreSettings, Stage, Restoring
  <2>3. Progress("settings", db, doc)
    BY <1>1, <2>0, <2>2 DEF HostsIInv, JobsKnow, Restored
  <2>4. db.hosts = doc.hosts /\ db.acls = doc.acls /\ db.mws = doc.mws
    BY <2>3 DEF Progress
  <2>6. PICK done \in SUBSET job[w].doc.keys :
          /\ RestoreStep(w, "reload", job[w].doc.keys, done)
          /\ db' = [db EXCEPT !.waf = IF "waf" \in done THEN job[w].doc.settings.waf ELSE @,
                              !.cache = IF "cache" \in done THEN job[w].doc.settings.cache ELSE @,
                              !.raw = IF "raw" \in done THEN job[w].doc.settings.raw ELSE @]
    BY <1>1, Zenon DEF RestoreSettings
  <2>7. done = doc.keys
    BY <1>1, <2>0, <2>6 DEF RestoreStep
  <2>8. db'.hosts = db.hosts /\ db'.acls = db.acls /\ db'.mws = db.mws
    BY <2>0, <2>6 DEF Database
  <2>9. /\ "waf" \in doc.keys => db'.waf = doc.settings.waf
        /\ "cache" \in doc.keys => db'.cache = doc.settings.cache
        /\ "raw" \in doc.keys => db'.raw = doc.settings.raw
    BY <2>0, <2>6, <2>7 DEF Database
  <2>. HIDE DEF doc
  <2>10. Holds(db', doc)
    BY <2>4, <2>8, <2>9 DEF Holds
  <2>. QED
    BY <2>10 DEF doc
<1>. DEFINE faithful ==
        \A w \in Jobs : RestoreSettings(w) /\ job[w].sound /\ broken' = broken =>
            /\ Holds(db', job[w].doc)
            /\ \A f \in file : f.whole /\ f.doc = job[w].doc => Holds(db', f.then)
<1>2. ASSUME HostsIInv, [HostsNext]_hostsVars PROVE [faithful]_hostsVars
  <2>1. \A f \in file : f.whole => f.doc = f.then
    BY <1>2 DEF HostsIInv, WholeFiles
  <2>. QED
    BY <1>1, <1>2, <2>1
<1>. HIDE DEF faithful
<1>3. HostsSpec => [][faithful]_hostsVars
  BY <1>2, HostsInductive, PTL DEF HostsSpec
<1>. QED
  BY <1>3 DEF RestoreFaithful, faithful
=============================================================================
