------------------------------ MODULE Accounts ------------------------------
(***************************************************************************)
(* Accounts, sessions and the login limiter: internal/api/auth.go,         *)
(* ratelimit.go and handlers_users.go over internal/store/users.go.        *)
(*                                                                         *)
(* A request is a goroutine of net/http; each statement on the database    *)
(* and each critical section of the limiter is a step.  Names, mail        *)
(* addresses, password hashes and cookies are left out: a password is      *)
(* right or wrong, and an account has its sessions on one browser.  All    *)
(* attempts come from one address, the key of the limiter.                 *)
(*                                                                         *)
(* Open gives SQLite one connection, so a statement excludes all others.   *)
(* Postgres runs each on a connection of a pool, at READ COMMITTED: it     *)
(* sees what was committed when it began, not what others insert meanwhile.*)
(***************************************************************************)
EXTENDS Naturals, FiniteSets

CONSTANTS
    Users,      \* ids NewID may draw; none is drawn twice
    Requests,   \* bound: requests served at one time
    MaxFails,   \* maxFails of the limiter
    NoUser      \* no id

ASSUME AccountsAssumption ==
    MaxFails \in Nat \ {0} /\ NoUser \notin Users /\ IsFiniteSet(Requests)

VARIABLES
    dialect,    \* the database the configuration names
    users,      \* the table: a set of rows per id, empty or one
    drawn,      \* ids drawn so far
    sessions,   \* ids with an unexpired session
    attempts,   \* failures counted against the address, 0 without an entry
    req,        \* each request: at, me (the caller), id (the account), row (its copy)
    setups,     \* accounts made by handleSetup since the table was last empty
    meddled     \* deletions during which another request changed an account

accountsVars == <<dialect, users, drawn, sessions, attempts, req, setups, meddled>>

Roles == {"admin", "viewer"}
User == [role : Roles, disabled : BOOLEAN]
Anyone == [role |-> "viewer", disabled |-> FALSE]
Dialects == {"sqlite", "postgres"}
Stages == {"idle", "lookup", "session", "first", "insert", "user", "admin", "write",
           "dropSessions", "dropUser"}
NoRequest == [at |-> "idle", me |-> NoUser, id |-> NoUser, row |-> Anyone]

AccountsTypeOK ==
    /\ dialect \in Dialects
    /\ users \in [Users -> SUBSET User] /\ \A u \in Users : Cardinality(users[u]) <= 1
    /\ drawn \subseteq Users /\ \A u \in Users \ drawn : users[u] = {}
    /\ sessions \subseteq drawn
    /\ attempts \in 0..(MaxFails + Cardinality(Requests))
    /\ req \in [Requests -> [at : Stages, me : Users \cup {NoUser},
                             id : Users \cup {NoUser}, row : User]]
    /\ setups \in Nat /\ meddled \subseteq Requests

Present == {u \in Users : users[u] # {}}

Admins == {u \in Users : \E r \in users[u] : r.role = "admin" /\ ~r.disabled}

(* Either nobody has set it up, or there are two accounts.  Role "viewer"  *)
(* stands for both roles below admin.                                      *)
AccountsInit ==
    /\ dialect \in Dialects
    /\ drawn \in {{}} \cup {d \in SUBSET Users : Cardinality(d) = 2}
    /\ users \in [Users -> SUBSET {[role |-> "admin", disabled |-> FALSE], Anyone}]
    /\ \A u \in Users : Cardinality(users[u]) = IF u \in drawn THEN 1 ELSE 0
    /\ drawn # {} => Admins # {}
    /\ sessions = {} /\ attempts = 0 /\ setups = 0 /\ meddled = {}
    /\ req = [q \in Requests |-> NoRequest]

At(q, stage) == req[q].at = stage

Go(q, stage) == req' = [req EXCEPT ![q].at = stage]

(* The answer is written; q is a fresh request from here on.               *)
Done(q) == req' = [req EXCEPT ![q] = NoRequest]

Spared(q) == meddled' = meddled \ {q}

Deciding(q) == At(q, "admin") \/ At(q, "dropSessions") \/ At(q, "dropUser")

(* q changed an account while a deletion was, or could be, under way.      *)
Meddles(q) == meddled' = (meddled \cup {p \in Requests : Deciding(p)}) \ {q}

-----------------------------------------------------------------------------
(* handleLogin.                                                            *)

(* Mutant of Allowed: one failure too many.                                *)
AllowedOneMore == attempts <= MaxFails

Allowed == attempts < MaxFails

LoginStarts(q) ==
    /\ At(q, "idle") /\ Allowed
    /\ Go(q, "lookup")
    /\ UNCHANGED <<users, drawn, sessions, attempts, setups, meddled>>

(* The account is read and the password compared, then the limiter counts  *)
(* a failure, for an unknown or disabled account too, or forgets them.     *)
LoginChecks(q) ==
    /\ At(q, "lookup")
    /\ \/ \E u \in Users : \E r \in users[u] :
            /\ ~r.disabled
            /\ req' = [req EXCEPT ![q].at = "session", ![q].id = u]
            /\ attempts' = 0 /\ UNCHANGED meddled
       \/ attempts' = attempts + 1 /\ Done(q) /\ Spared(q)
    /\ UNCHANGED <<users, drawn, sessions, setups>>

CreateSession(q) ==
    /\ At(q, "session")
    /\ sessions' \in {sessions \cup {req[q].id}, sessions}
    /\ Done(q) /\ Spared(q)
    /\ UNCHANGED <<users, drawn, attempts, setups>>

(* Logging out, or an expired session that GetSession or the purge drops.  *)
SessionEnds(u) ==
    /\ u \in sessions /\ sessions' = sessions \ {u}
    /\ UNCHANGED <<users, drawn, attempts, req, setups, meddled>>

(* Five minutes pass without a failure: the entry is as good as gone.      *)
WindowElapses ==
    /\ attempts > 0 /\ attempts' = 0
    /\ UNCHANGED <<users, drawn, sessions, req, setups, meddled>>

-----------------------------------------------------------------------------
(* handleSetup: the count is the fast path, the insert decides.            *)
SetupCounts(q) ==
    /\ At(q, "idle") /\ Present = {}
    /\ Go(q, "first")
    /\ UNCHANGED <<users, drawn, sessions, attempts, setups, meddled>>

Insert(u, r) == users' = [users EXCEPT ![u] = {r}] /\ drawn' = drawn \cup {u}

FirstAdmin(q) ==
    /\ \E u \in Users \ drawn : Insert(u, [role |-> "admin", disabled |-> FALSE])
    /\ setups' = setups + 1
    /\ Meddles(q) /\ Done(q)

(* Mutant of CreateFirstUser: it relies on the count before it.            *)
CreateFirstUnchecked(q) ==
    /\ At(q, "first") /\ FirstAdmin(q)
    /\ UNCHANGED <<sessions, attempts>>

(* NotCreated: an account exists already, or the statement failed.         *)
NotCreated(q) == Done(q) /\ Spared(q) /\ UNCHANGED <<users, drawn, setups>>

(* INSERT ... SELECT ... WHERE NOT EXISTS.  On Postgres the subquery reads *)
(* the snapshot of the statement; the row goes in later, whatever others   *)
(* have committed by then, unless it has the same mail address.            *)
CreateFirstUser(q) ==
    /\ At(q, "first")
    /\ \/ Present = {} /\ dialect = "sqlite" /\ FirstAdmin(q)
       \/ /\ Present = {} /\ dialect = "postgres"
          /\ Go(q, "insert") /\ UNCHANGED <<users, drawn, setups, meddled>>
       \/ NotCreated(q)
    /\ UNCHANGED <<sessions, attempts>>

FirstUserInserted(q) ==
    /\ At(q, "insert")
    /\ FirstAdmin(q) \/ NotCreated(q)
    /\ UNCHANGED <<sessions, attempts>>

-----------------------------------------------------------------------------
(* authenticate and requireRole(admin), which guard the account handlers.  *)
GetSession(q, u) ==
    /\ At(q, "idle") /\ u \in sessions
    /\ req' = [req EXCEPT ![q].at = "user", ![q].me = u]
    /\ UNCHANGED <<users, drawn, sessions, attempts, setups, meddled>>

(* The caller's row is read; a stranger, a disabled account or a viewer is *)
(* refused.  An admin's request goes on, according to its route.           *)
Refused(q) ==
    /\ At(q, "user") /\ req[q].me \notin Admins
    /\ Done(q) /\ Spared(q)
    /\ UNCHANGED <<users, drawn, sessions, attempts, setups>>

Authorized(q) ==
    /\ At(q, "user") /\ req[q].me \in Admins
    /\ Go(q, "admin")
    /\ UNCHANGED <<users, drawn, sessions, attempts, setups, meddled>>

(* handleCreateUser; the address may be taken.                             *)
CreateUser(q) ==
    /\ At(q, "admin")
    /\ \/ /\ \E u \in Users \ drawn, role \in Roles : Insert(u, [role |-> role, disabled |-> FALSE])
          /\ Meddles(q)
       \/ Spared(q) /\ UNCHANGED <<users, drawn>>
    /\ Done(q)
    /\ UNCHANGED <<sessions, attempts, setups>>

(* handleUpdateUser reads the row, one's own too, applies what the body    *)
(* asks for, and writes every column back.                                 *)
UpdateUserReads(q, u) ==
    /\ At(q, "admin") /\ users[u] # {}
    /\ \E n \in User : req' = [req EXCEPT ![q].at = "write", ![q].id = u, ![q].row = n]
    /\ Spared(q)
    /\ UNCHANGED <<users, drawn, sessions, attempts, setups>>

UpdateUser(q) ==
    /\ At(q, "write")
    /\ users' = [users EXCEPT ![req[q].id] = IF @ = {} THEN {} ELSE {req[q].row}]
    /\ Meddles(q) /\ Done(q)
    /\ UNCHANGED <<drawn, sessions, attempts, setups>>

(* Mutant of DeleteUser: nothing stops callers from deleting themselves.   *)
DeleteAnyone(q, u) ==
    /\ At(q, "admin")
    /\ req' = [req EXCEPT ![q].at = "dropSessions", ![q].id = u]
    /\ UNCHANGED <<users, drawn, sessions, attempts, setups, meddled>>

(* handleDeleteUser: not one's own account; sessions first, then the row.  *)
DeleteUser(q, u) ==
    /\ At(q, "admin") /\ u # req[q].me
    /\ req' = [req EXCEPT ![q].at = "dropSessions", ![q].id = u]
    /\ UNCHANGED <<users, drawn, sessions, attempts, setups, meddled>>

DropSessions(q) ==
    /\ At(q, "dropSessions")
    /\ \/ sessions' = sessions \ {req[q].id} /\ Go(q, "dropUser") /\ UNCHANGED meddled
       \/ Done(q) /\ Spared(q) /\ UNCHANGED sessions
    /\ UNCHANGED <<users, drawn, attempts, setups>>

DropUser(q) ==
    LET left == [users EXCEPT ![req[q].id] = {}] IN
    /\ At(q, "dropUser")
    /\ users' = left
    /\ setups' = IF \A u \in Users : left[u] = {} THEN 0 ELSE setups
    /\ Meddles(q) /\ Done(q)
    /\ UNCHANGED <<drawn, sessions, attempts>>

-----------------------------------------------------------------------------
(* The process stops: the limiter and the requests are gone.               *)
Restart ==
    /\ attempts' = 0 /\ meddled' = {}
    /\ req' = [q \in Requests |-> NoRequest]
    /\ UNCHANGED <<users, drawn, sessions, setups>>

AccountsMove ==
    \/ \E q \in Requests :
        \/ LoginStarts(q) \/ LoginChecks(q) \/ CreateSession(q)
        \/ SetupCounts(q) \/ CreateFirstUser(q) \/ FirstUserInserted(q)
        \/ Refused(q) \/ Authorized(q) \/ CreateUser(q) \/ UpdateUser(q) \/ DropSessions(q) \/ DropUser(q)
        \/ \E u \in Users : GetSession(q, u) \/ UpdateUserReads(q, u) \/ DeleteUser(q, u)
    \/ \E u \in Users : SessionEnds(u)
    \/ WindowElapses \/ Restart

AccountsNext == AccountsMove /\ UNCHANGED dialect

AccountsSpec == AccountsInit /\ [][AccountsNext]_accountsVars

-----------------------------------------------------------------------------
(* The limiter is asked before a slow check and told after it, so requests *)
(* in parallel pass it together: the failures of a window never exceed the *)
(* limit by more than the requests that were already being checked.        *)
GuessesBounded ==
    attempts + Cardinality({q \in Requests : At(q, "lookup")})
        < MaxFails + Cardinality(Requests)

(* First-run setup makes one administrator, however many requests race: a  *)
(* second one only after every account has been deleted.  CreateFirstUser  *)
(* gives that on SQLite, where statements exclude each other; on Postgres  *)
(* two setups with different addresses both insert, whatever the comment   *)
(* on CreateFirstUser says.                                                *)
OneSetup == dialect = "sqlite" => setups <= 1

(* A deletion leaves an administrator behind, unless another request       *)
(* changed an account while it was under way: two administrators who       *)
(* delete each other at once leave none.                                   *)
DeletionKeepsAdmin ==
    [][\A q \in Requests : DropUser(q) /\ q \notin meddled => Admins' # {}]_accountsVars
=============================================================================
