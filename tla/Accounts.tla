------------------------------ MODULE Accounts ------------------------------
(***************************************************************************)
(* The accounts of the control plane: registration and the first admin     *)
(* (internal/api/auth.go), the admin panel's account handlers (admin.go)   *)
(* and the users table (internal/store), run concurrently.  The servers    *)
(* table is reduced to who owns what, because its rows go with their       *)
(* owner's.                                                                *)
(*                                                                         *)
(* As in Lifecycle a handler is a sequence of single statements, nothing   *)
(* spans two of them, and what an earlier one read (the caller, the target *)
(* account, a count) is used by the later ones as it was read.             *)
(***************************************************************************)
EXTENDS Integers, FiniteSets, Functions

CONSTANTS
  Requests,          \* the requests the process serves at a time
  UserIds,           \* the ids CreateUser can draw; never drawn twice
  ServerIds,         \* likewise for CreateServer
  Names,             \* usernames
  AllowRegistration, \* OWO_ALLOW_REGISTRATION
  SeedNames,         \* what OWO_ADMIN_USERNAME may name, when it is set
  None

ASSUME AccountsAssumption ==
  /\ IsFiniteSet(UserIds) /\ AllowRegistration \in BOOLEAN
  /\ SeedNames \subseteq Names
  /\ None \notin UserIds \cup ServerIds \cup Names

User == [name : Names, admin : BOOLEAN]

\* A handler's copy of an account, and what it was asked: a username, the role
\* to give, whether to take the servers over, and the server it is about.
Copy == [id : UserIds \cup {None}, admin : BOOLEAN]
Ask  == [name : Names \cup {None}, admin : BOOLEAN,
         reassign : BOOLEAN, server : ServerIds \cup {None}]

NoUser == [id |-> None, admin |-> FALSE]
NoAsk  == [name |-> None, admin |-> FALSE,
           reassign |-> FALSE, server |-> None]

Op == {"none", "register", "adduser", "setuser", "deluser", "addserver",
       "delserver"}

\* The statement a handler makes next.
Step == {"idle", "any", "insert", "lookup", "admins", "role", "password",
         "counts", "reassign", "remove", "addserver", "delserver"}

VARIABLES
  up,       \* the process serves requests
  users,    \* the users table
  owner,    \* the servers table: the owner of each record
  drawn,    \* the user and server ids drawn so far
  pc, op,   \* each request's next statement and its handler
  actor,    \* the caller, as requireAuth read it
  target,   \* the account the handler is about, as lookupUser read it
  ask,      \* its input
  met,      \* the accounts there were when a registration began (a history)
  came      \* the servers that came to an account whose deletion is the
            \* request's next statement (a history)

tables == <<users, owner, drawn>>
copies == <<op, actor, target, ask>>
vars   == <<up, users, owner, drawn, pc, op, actor, target, ask, met, came>>

Admins == {u \in DOMAIN users : users[u].admin}

Owned(u) == {s \in DOMAIN owner : owner[s] = u}

Init ==
  /\ up = FALSE /\ users = << >> /\ owner = << >> /\ drawn = {}
  /\ pc = [r \in Requests |-> "idle"] /\ op = [r \in Requests |-> "none"]
  /\ actor = [r \in Requests |-> NoUser] /\ target = [r \in Requests |-> NoUser]
  /\ ask = [r \in Requests |-> NoAsk]
  /\ met = [r \in Requests |-> {}] /\ came = [r \in Requests |-> {}]
-----------------------------------------------------------------------------
(***************************************************************************)
(* The store's statements.                                                 *)
(***************************************************************************)
\* Mutant of UsernameTaken: the constraint is missing from the schema.
UsernameFree(name) == FALSE

\* The UNIQUE constraint on users.username.
UsernameTaken(name) == \E u \in DOMAIN users : users[u].name = name

CreateUser(name, admin) ==
  /\ ~UsernameTaken(name)
  /\ \E u \in UserIds \ drawn :
       /\ users' = [v \in DOMAIN users \cup {u} |->
                      IF v = u THEN [name |-> name, admin |-> admin] ELSE users[v]]
       /\ drawn' = drawn \cup {u}
  /\ UNCHANGED owner

SetUserAdmin(u, admin) ==
  /\ users' = [v \in DOMAIN users |->
                 IF v = u THEN [users[v] EXCEPT !.admin = admin] ELSE users[v]]
  /\ UNCHANGED <<owner, drawn>>

\* Mutant of DeleteUser: foreign_keys is off, SQLite's default.
DeleteUserAlone(u) ==
  /\ users' = Restrict(users, DOMAIN users \ {u})
  /\ UNCHANGED <<owner, drawn>>

\* servers.owner_id is declared ON DELETE CASCADE.
DeleteUser(u) ==
  /\ users' = Restrict(users, DOMAIN users \ {u})
  /\ owner' = Restrict(owner, DOMAIN owner \ Owned(u))
  /\ UNCHANGED drawn

\* Refused by the foreign key when there is something to move and nobody to
\* move it to.
ReassignServers(from, to) ==
  /\ Owned(from) # {} => to \in DOMAIN users
  /\ owner' = [s \in DOMAIN owner |-> IF owner[s] = from THEN to ELSE owner[s]]
  /\ UNCHANGED <<users, drawn>>
-----------------------------------------------------------------------------
(***************************************************************************)
(* A history of what others give to an account between the last look at    *)
(* what it owns and its deletion.  No handler decides it: every step reads *)
(* it off the tables in the same way.                                      *)
(***************************************************************************)
Arrivals(u) == {s \in DOMAIN owner' : owner'[s] = u /\ s \notin Owned(u)}

Watch ==
  came' = [r \in Requests |->
             IF pc[r] = "remove" /\ pc'[r] = "remove"
               THEN came[r] \cup Arrivals(target[r].id) ELSE {}]
-----------------------------------------------------------------------------
(***************************************************************************)
(* Control.  A handler that refuses, or whose statement fails, returns at  *)
(* once and undoes nothing.                                                *)
(***************************************************************************)
Goto(r, step) ==
  pc' = [pc EXCEPT ![r] = step] /\ UNCHANGED <<up, copies, met>> /\ Watch

Finish(r) ==
  /\ pc' = [pc EXCEPT ![r] = "idle"] /\ op' = [op EXCEPT ![r] = "none"]
  /\ actor' = [actor EXCEPT ![r] = NoUser]
  /\ target' = [target EXCEPT ![r] = NoUser]
  /\ ask' = [ask EXCEPT ![r] = NoAsk]
  /\ met' = [met EXCEPT ![r] = {}]
  /\ UNCHANGED up /\ Watch

Refuse(r) == UNCHANGED tables /\ Finish(r)

\* A request begins: requireAuth reads the caller's account (register has
\* none), and the handler has its input.
Start(r, handler, caller, input, about, step) ==
  /\ up /\ pc[r] = "idle"
  /\ pc' = [pc EXCEPT ![r] = step] /\ op' = [op EXCEPT ![r] = handler]
  /\ actor' = [actor EXCEPT ![r] = caller]
  /\ target' = [target EXCEPT ![r] = about]
  /\ ask' = [ask EXCEPT ![r] = input]
  /\ met' = [met EXCEPT ![r] = IF handler = "register" THEN DOMAIN users ELSE {}]
  /\ UNCHANGED <<up, tables>> /\ Watch

CopyOf(u) == [id |-> u, admin |-> users[u].admin]

\* A target that lookupUser has not read yet: its id is the path's.
Unread(u) == [id |-> u, admin |-> FALSE]
-----------------------------------------------------------------------------
(***************************************************************************)
(* Creating accounts: handleRegister and handleCreateUser.  Bound: they    *)
(* begin only while ids are left, and an insert that finds none fails.     *)
(***************************************************************************)
IdsLeft == UserIds \ drawn # {}

BeginRegister(r, name) ==
  /\ AllowRegistration /\ IdsLeft
  /\ Start(r, "register", NoUser, [NoAsk EXCEPT !.name = name], NoUser, "any")

\* Mutant of LookForUsers: the answer is taken the wrong way round.
LookForNoUsers(r) ==
  /\ pc[r] = "any"
  /\ ask' = [ask EXCEPT ![r].admin = DOMAIN users # {}]
  /\ pc' = [pc EXCEPT ![r] = "insert"]
  /\ UNCHANGED <<up, tables, op, actor, target, met>> /\ Watch

\* AnyUserExists: the account is to be an admin if there is none.
LookForUsers(r) ==
  /\ pc[r] = "any"
  /\ ask' = [ask EXCEPT ![r].admin = DOMAIN users = {}]
  /\ pc' = [pc EXCEPT ![r] = "insert"]
  /\ UNCHANGED <<up, tables, op, actor, target, met>> /\ Watch

BeginAddUser(r, caller, name, admin) ==
  /\ users[caller].admin /\ IdsLeft
  /\ Start(r, "adduser", CopyOf(caller),
           [NoAsk EXCEPT !.name = name, !.admin = admin], NoUser, "insert")

InsertUser(r) ==
  /\ pc[r] = "insert"
  /\ \/ CreateUser(ask[r].name, ask[r].admin) /\ Finish(r)
     \/ UsernameTaken(ask[r].name) /\ Refuse(r)
-----------------------------------------------------------------------------
(***************************************************************************)
(* handleUpdateUser and handleDeleteUser, over lookupUser and              *)
(* ensureAnotherAdmin.  Passwords decide nothing here and are not kept; a  *)
(* PATCH without a role is one that names the role the account has.        *)
(***************************************************************************)
BeginSetUser(r, caller, u, admin) ==
  /\ users[caller].admin
  /\ Start(r, "setuser", CopyOf(caller), [NoAsk EXCEPT !.admin = admin],
           Unread(u), "lookup")

BeginDelUser(r, caller, u, reassign) ==
  /\ users[caller].admin
  /\ Start(r, "deluser", CopyOf(caller), [NoAsk EXCEPT !.reassign = reassign],
           Unread(u), "lookup")

\* Mutant of Self: an account may demote and delete itself.
NeverSelf(r) == FALSE

Self(r) == target[r].id = actor[r].id

\* The step of a PATCH once its target is read.
AfterLookup(r, read) ==
  IF op[r] = "deluser" THEN IF read.admin THEN "admins" ELSE "counts"
  ELSE IF ask[r].admin # read.admin
    THEN IF ask[r].admin THEN "role" ELSE "admins"
    ELSE "password"

\* Nobody deletes its own account, or takes its own admin role away.
OnSelf(r, read) ==
  Self(r) /\ (op[r] = "setuser" => read.admin /\ ~ask[r].admin)

LookupUser(r) ==
  /\ pc[r] = "lookup"
  /\ \/ target[r].id \notin DOMAIN users /\ Refuse(r)
     \/ /\ target[r].id \in DOMAIN users
        /\ LET read == CopyOf(target[r].id)
           IN  \/ OnSelf(r, read) /\ Refuse(r)
               \/ /\ ~OnSelf(r, read)
                  /\ target' = [target EXCEPT ![r] = read]
                  /\ pc' = [pc EXCEPT ![r] = AfterLookup(r, read)]
                  /\ UNCHANGED <<up, tables, op, actor, ask, met>> /\ Watch

\* ensureAnotherAdmin, with target's role as it was read.
CountAdmins(r) ==
  /\ pc[r] = "admins"
  /\ \/ target[r].admin /\ Cardinality(Admins) <= 1 /\ Refuse(r)
     \/ /\ ~(target[r].admin /\ Cardinality(Admins) <= 1)
        /\ UNCHANGED tables
        /\ Goto(r, IF op[r] = "deluser" THEN "counts" ELSE "role")

SetRole(r) ==
  /\ pc[r] = "role"
  /\ SetUserAdmin(target[r].id, ask[r].admin)
  /\ IF target[r].id \in DOMAIN users
       THEN Goto(r, "password")
       ELSE Finish(r)

\* SetUserPassword, when one was given and it is long enough; the role that
\* was changed before stays changed either way.
SetPassword(r) == pc[r] = "password" /\ Refuse(r)

\* ServerCountsByOwner: servers are taken over only when asked.
CountServers(r) ==
  /\ pc[r] = "counts"
  /\ LET owned == Owned(target[r].id)
     IN  \/ owned # {} /\ ~ask[r].reassign /\ Refuse(r)
         \/ /\ owned # {} => ask[r].reassign
            /\ UNCHANGED tables
            /\ Goto(r, IF owned = {} THEN "remove" ELSE "reassign")

\* Mutant of Reassign: the two ids are the wrong way round.
ReassignBack(r) ==
  /\ pc[r] = "reassign"
  /\ \/ ReassignServers(actor[r].id, target[r].id) /\ Goto(r, "remove")
     \/ /\ Owned(target[r].id) # {} /\ actor[r].id \notin DOMAIN users
        /\ Refuse(r)

Reassign(r) ==
  /\ pc[r] = "reassign"
  /\ \/ ReassignServers(target[r].id, actor[r].id) /\ Goto(r, "remove")
     \/ /\ Owned(target[r].id) # {} /\ actor[r].id \notin DOMAIN users
        /\ Refuse(r)

RemoveUser(r) == pc[r] = "remove" /\ DeleteUser(target[r].id) /\ Finish(r)
-----------------------------------------------------------------------------
(***************************************************************************)
(* What the server handlers do to ownership: a create inserts a record     *)
(* owned by its caller, as requireAuth read it, and a delete by the owner  *)
(* or an admin removes one.  The rest of them is Lifecycle's.              *)
(***************************************************************************)
BeginAddServer(r, caller) ==
  Start(r, "addserver", CopyOf(caller), NoAsk, NoUser, "addserver")

\* Refused when the foreign key has nobody to point to.
InsertServer(r) ==
  /\ pc[r] = "addserver"
  /\ \/ /\ actor[r].id \in DOMAIN users
        /\ \E s \in ServerIds \ drawn :
             /\ owner' = [t \in DOMAIN owner \cup {s} |->
                            IF t = s THEN actor[r].id ELSE owner[t]]
             /\ drawn' = drawn \cup {s}
        /\ UNCHANGED users /\ Finish(r)
     \/ actor[r].id \notin DOMAIN users /\ Refuse(r)

\* lookup has passed the caller and found the record.
BeginDelServer(r, caller, s) ==
  /\ ~users[caller].admin => owner[s] = caller
  /\ Start(r, "delserver", CopyOf(caller), [NoAsk EXCEPT !.server = s],
           NoUser, "delserver")

RemoveServer(r) ==
  /\ pc[r] = "delserver"
  /\ owner' = Restrict(owner, DOMAIN owner \ {ask[r].server})
  /\ UNCHANGED <<users, drawn>> /\ Finish(r)
-----------------------------------------------------------------------------
\* SeedAdmin, before the process listens, with what this start was given.
Boot ==
  /\ ~up /\ up' = TRUE
  /\ \/ UNCHANGED tables
     \/ /\ DOMAIN users = {} /\ IdsLeft
        /\ \E name \in SeedNames : CreateUser(name, TRUE)
  /\ UNCHANGED <<pc, copies, met>> /\ Watch

\* A statement fails, or the client has gone.
Abandon(r) == pc[r] # "idle" /\ Refuse(r)

Crash ==
  /\ up /\ up' = FALSE
  /\ pc' = [r \in Requests |-> "idle"] /\ op' = [r \in Requests |-> "none"]
  /\ actor' = [r \in Requests |-> NoUser]
  /\ target' = [r \in Requests |-> NoUser]
  /\ ask' = [r \in Requests |-> NoAsk]
  /\ met' = [r \in Requests |-> {}]
  /\ UNCHANGED tables /\ Watch

Begin(r) ==
  \/ \E name \in Names : BeginRegister(r, name)
  \/ \E caller \in DOMAIN users :
       \/ \E name \in Names, admin \in BOOLEAN :
            BeginAddUser(r, caller, name, admin)
       \/ \E u \in DOMAIN users :
            \/ \E admin \in BOOLEAN : BeginSetUser(r, caller, u, admin)
            \/ \E reassign \in BOOLEAN : BeginDelUser(r, caller, u, reassign)
       \/ BeginAddServer(r, caller)
       \/ \E s \in DOMAIN owner : BeginDelServer(r, caller, s)

Advance(r) ==
  \/ LookForUsers(r) \/ InsertUser(r) \/ LookupUser(r) \/ CountAdmins(r)
  \/ SetRole(r) \/ SetPassword(r) \/ CountServers(r) \/ Reassign(r)
  \/ RemoveUser(r) \/ InsertServer(r) \/ RemoveServer(r) \/ Abandon(r)

Next == (\E r \in Requests : Begin(r) \/ Advance(r)) \/ Boot \/ Crash

Spec == Init /\ [][Next]_vars
-----------------------------------------------------------------------------
(***************************************************************************)
(* Correctness.                                                            *)
(***************************************************************************)
Acts(r) == pc[r] # "idle" /\ pc'[r] # pc[r]

\* Every variable has its type, and no two accounts share a username.
TypeOK ==
  /\ up \in BOOLEAN
  /\ drawn \subseteq UserIds \cup ServerIds
  /\ DOMAIN users \subseteq UserIds \cap drawn
  /\ users \in [DOMAIN users -> User]
  /\ \A u, v \in DOMAIN users : users[u].name = users[v].name => u = v
  /\ DOMAIN owner \subseteq ServerIds \cap drawn
  /\ owner \in [DOMAIN owner -> UserIds]
  /\ pc \in [Requests -> Step] /\ op \in [Requests -> Op]
  /\ actor \in [Requests -> Copy] /\ target \in [Requests -> Copy]
  /\ ask \in [Requests -> Ask]
  /\ met \in [Requests -> SUBSET UserIds]
  /\ came \in [Requests -> SUBSET ServerIds]

\* A server record always has an owner that can log in, although creates and
\* reassignments in flight write the id of a caller that may be deleted
\* meanwhile.
OwnersExist == \A s \in DOMAIN owner : owner[s] \in DOMAIN users

\* The last admin falls only to a request whose own caller has lost the role
\* or the account since requireAuth read it: no admin that is still one can
\* leave the platform without an admin, whatever interleaves.
LastAdminFallsToStaleCaller ==
  [][Admins # {} /\ Admins' = {} =>
       \E r \in Requests : Acts(r) /\ actor[r].id \notin Admins]_vars

\* The cascade of an account's deletion takes no record but those that came to
\* the account while its deletion was the handler's next statement: what it had
\* at the count is moved, or the request refused (admin.go:206-231), and the
\* account that takes the servers over is not the one that goes.
CascadeTakesOnlyUnseen ==
  [][\A r \in Requests : Acts(r) /\ pc[r] = "remove" =>
       DOMAIN owner \ DOMAIN owner' \subseteq came[r]]_vars

\* Two registrations that race on an empty table may both become admins
\* (auth.go:196), but one that began when there were accounts never does while
\* any of these is left.
AdminsOnlyFromEmpty ==
  [][\A r \in Requests :
       Acts(r) /\ op[r] = "register" /\ Admins' # Admins
         => met[r] \cap DOMAIN users = {}]_vars
-----------------------------------------------------------------------------
(***************************************************************************)
(* A claim that the concurrent handlers do not keep.                       *)
(***************************************************************************)
\* admin.go:130-131: "the platform always keeps someone who can administer it".
AlwaysAnAdmin == [][Admins # {} => Admins' # {}]_vars
=============================================================================
