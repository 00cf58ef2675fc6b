--------------------------- MODULE AccountsProofs ---------------------------
(***************************************************************************)
(* Proofs about Accounts, for every value of its constants.                *)
(***************************************************************************)
EXTENDS Accounts, TLAPS

\* What a handler knows at each of its steps.  It is the path it has taken
\* since its lookup that keeps an account from deleting itself or giving its
\* own role away: nothing is looked up again at the statement that writes.
Knows(r) ==
  /\ pc[r] \in {"any", "insert"} => ask[r].name \in Names
  /\ pc[r] = "lookup" => op[r] \in {"setuser", "deluser"}
  /\ pc[r] = "admins" =>
       /\ op[r] \in {"setuser", "deluser"} /\ target[r].id # actor[r].id
       /\ op[r] = "setuser" => ~ask[r].admin
  /\ pc[r] = "role" =>
       op[r] = "setuser" /\ (target[r].id # actor[r].id \/ ask[r].admin)
  /\ pc[r] \in {"counts", "reassign", "remove"} =>
       op[r] = "deluser" /\ target[r].id # actor[r].id

\* A registration that is to make an admin met no account that is still there:
\* it found none, and no id is drawn twice.
MetNone(r) ==
  /\ met[r] \subseteq drawn
  /\ pc[r] = "any" => ~ask[r].admin
  /\ op[r] = "register" /\ ask[r].admin => met[r] \cap DOMAIN users = {}

\* TypeOK and OwnersExist, taken apart: the statements keep the first part
\* whatever the handlers are up to.
TablesOK ==
  /\ drawn \subseteq UserIds \cup ServerIds
  /\ DOMAIN users \subseteq UserIds \cap drawn
  /\ users \in [DOMAIN users -> User]
  /\ \A u, v \in DOMAIN users : users[u].name = users[v].name => u = v
  /\ DOMAIN owner \subseteq ServerIds \cap drawn
  /\ owner \in [DOMAIN owner -> UserIds]
  /\ OwnersExist

LocalsOK ==
  /\ pc \in [Requests -> Step] /\ op \in [Requests -> Op]
  /\ actor \in [Requests -> Copy] /\ target \in [Requests -> Copy]
  /\ ask \in [Requests -> Ask]
  /\ met \in [Requests -> SUBSET UserIds]

Inv ==
  /\ up \in BOOLEAN /\ TablesOK /\ LocalsOK
  /\ \A r \in Requests : Knows(r) /\ MetNone(r)
-----------------------------------------------------------------------------
LEMMA EmptyFunction == ASSUME NEW S PROVE DOMAIN << >> = {} /\ << >> \in [{} -> S]
OBVIOUS

LEMMA ZeroTypes == NoUser \in Copy /\ NoAsk \in Ask
BY DEF NoUser, NoAsk, Copy, Ask

LEMMA InitInv == Init => Inv
<1> SUFFICES ASSUME Init PROVE Inv
  OBVIOUS
<1>1. /\ DOMAIN users = {} /\ users \in [DOMAIN users -> User]
      /\ DOMAIN owner = {} /\ owner \in [DOMAIN owner -> UserIds]
  BY EmptyFunction DEF Init
<1>2. up \in BOOLEAN /\ TablesOK /\ LocalsOK
  BY <1>1, ZeroTypes DEF Init, TablesOK, LocalsOK, OwnersExist, Step, Op
<1>3. \A r \in Requests : Knows(r) /\ MetNone(r)
  BY DEF Init, Knows, MetNone, NoAsk
<1> QED
  BY <1>2, <1>3 DEF Inv
-----------------------------------------------------------------------------
(* The tables: what each statement makes of them. *)

\* An account that appears has an id that was not drawn before.
Onward ==
  /\ drawn \subseteq drawn'
  /\ \A u \in DOMAIN users' : u \in DOMAIN users \/ u \notin drawn

LEMMA CreateUserTables ==
  ASSUME TablesOK, NEW name \in Names, NEW admin \in BOOLEAN,
         CreateUser(name, admin)
  PROVE  TablesOK' /\ Onward /\ (~admin => Admins' = Admins) /\ Admins \subseteq Admins'
<1>1. PICK u \in UserIds \ drawn :
        /\ users' = [v \in DOMAIN users \cup {u} |->
                       IF v = u THEN [name |-> name, admin |-> admin] ELSE users[v]]
        /\ drawn' = drawn \cup {u} /\ owner' = owner
  BY DEF CreateUser
<1>2. /\ DOMAIN users' = DOMAIN users \cup {u} /\ u \notin DOMAIN users
      /\ users'[u].name = name /\ users'[u].admin = admin
      /\ users'[u] \in User
      /\ \A v \in DOMAIN users : users'[v] = users[v]
  BY <1>1 DEF TablesOK, User
<1>3. \A v \in DOMAIN users : users[v].name # name
  BY DEF CreateUser, UsernameTaken
<1>4. users' \in [DOMAIN users' -> User]
  BY <1>1, <1>2 DEF TablesOK
<1>5. \A v, w \in DOMAIN users' : users'[v].name = users'[w].name => v = w
  BY <1>2, <1>3 DEF TablesOK
<1>6. TablesOK'
  BY <1>1, <1>2, <1>4, <1>5 DEF TablesOK, OwnersExist
<1> QED
  BY <1>1, <1>2, <1>6 DEF Onward, Admins

LEMMA SetUserAdminTables ==
  ASSUME TablesOK, NEW u, NEW admin \in BOOLEAN, SetUserAdmin(u, admin)
  PROVE  TablesOK' /\ Onward /\ Admins \ {u} \subseteq Admins' /\ (admin => Admins \subseteq Admins')
<1>1. /\ DOMAIN users' = DOMAIN users /\ owner' = owner /\ drawn' = drawn
      /\ \A v \in DOMAIN users : /\ users'[v] \in User
                                 /\ users'[v].name = users[v].name
                                 /\ v # u => users'[v] = users[v]
                                 /\ v = u => users'[v].admin = admin
  BY DEF SetUserAdmin, TablesOK, User
<1>2. users' \in [DOMAIN users -> User]
  BY <1>1 DEF SetUserAdmin
<1>3. TablesOK'
  BY <1>1, <1>2 DEF TablesOK, OwnersExist
<1> QED
  BY <1>1, <1>3 DEF Onward, Admins

LEMMA DeleteUserTables ==
  ASSUME TablesOK, NEW u, DeleteUser(u)
  PROVE  TablesOK' /\ Onward /\ Admins' = Admins \ {u}
<1>1. /\ DOMAIN users' = DOMAIN users \ {u} /\ drawn' = drawn
      /\ \A v \in DOMAIN users' : users'[v] = users[v]
      /\ users' \in [DOMAIN users' -> User]
  BY DEF DeleteUser, Restrict, TablesOK
<1>2. /\ DOMAIN owner' = DOMAIN owner \ Owned(u)
      /\ \A s \in DOMAIN owner' : owner'[s] = owner[s]
      /\ owner' \in [DOMAIN owner' -> UserIds]
  BY DEF DeleteUser, Restrict, TablesOK
<1>3. OwnersExist'
  BY <1>1, <1>2 DEF TablesOK, OwnersExist, Owned
<1>4. TablesOK'
  BY <1>1, <1>2, <1>3 DEF TablesOK
<1> QED
  BY <1>1, <1>4 DEF Onward, Admins

LEMMA ReassignTables ==
  ASSUME TablesOK, NEW from, NEW to, ReassignServers(from, to)
  PROVE  TablesOK' /\ UNCHANGED <<users, drawn>> /\ DOMAIN owner' = DOMAIN owner
<1>1. /\ DOMAIN owner' = DOMAIN owner /\ UNCHANGED <<users, drawn>>
      /\ \A s \in DOMAIN owner :
           owner'[s] = owner[s] \/ (owner'[s] = to /\ s \in Owned(from))
  BY DEF ReassignServers, Owned
<1>2. \A s \in DOMAIN owner : owner'[s] \in DOMAIN users
  BY <1>1 DEF ReassignServers, TablesOK, OwnersExist
<1>3. owner' \in [DOMAIN owner -> UserIds]
  BY <1>1, <1>2 DEF ReassignServers, TablesOK
<1> QED
  BY <1>1, <1>2, <1>3 DEF TablesOK, OwnersExist
-----------------------------------------------------------------------------
(* The handlers' own variables. *)

\* The requests other than r are where they were.
OthersWait(r) ==
  \A q \in Requests \ {r} :
    /\ pc'[q] = pc[q] /\ op'[q] = op[q] /\ actor'[q] = actor[q]
    /\ target'[q] = target[q] /\ ask'[q] = ask[q]
    /\ met'[q] = met[q]

\* A step of r keeps the invariant if it is onward and r knows what it should.
LEMMA StepKeepsInv ==
  ASSUME Inv, NEW r \in Requests, up' = up, TablesOK', Onward, LocalsOK',
         OthersWait(r), Knows(r)', MetNone(r)'
  PROVE  Inv'
<1>1. ASSUME NEW q \in Requests \ {r} PROVE Knows(q)' /\ MetNone(q)'
  BY <1>1 DEF Inv, OthersWait, Knows, MetNone, Onward
<1> QED
  BY <1>1 DEF Inv

LEMMA FinishKeepsInv ==
  ASSUME Inv, NEW r \in Requests, Finish(r), TablesOK', Onward
  PROVE  Inv'
<1>1. LocalsOK'
  BY ZeroTypes DEF Inv, Finish, LocalsOK, Step, Op
<1>2. OthersWait(r) /\ Knows(r)' /\ MetNone(r)'
  BY DEF Inv, Finish, OthersWait, Knows, MetNone, LocalsOK, NoUser, NoAsk
<1> QED
  BY <1>1, <1>2, StepKeepsInv DEF Finish

LEMMA RefuseKeepsInv ==
  ASSUME Inv, NEW r \in Requests, Refuse(r)
  PROVE  Inv' /\ Admins' = Admins /\ owner' = owner
<1>1. TablesOK' /\ Onward
  BY DEF Inv, Refuse, tables, TablesOK, OwnersExist, Onward
<1> QED
  BY <1>1, FinishKeepsInv DEF Refuse, tables, Admins

LEMMA StartKeepsInv ==
  ASSUME Inv, NEW r \in Requests, NEW handler \in Op, NEW caller \in Copy,
         NEW input \in Ask, NEW about \in Copy, NEW step \in Step,
         Start(r, handler, caller, input, about, step),
         step \notin {"admins", "role", "counts", "reassign", "remove"},
         step \in {"any", "insert"} => input.name \in Names,
         step = "lookup" => handler \in {"setuser", "deluser"},
         handler = "register" => ~input.admin, step = "any" => ~input.admin
  PROVE  Inv'
<1>1. TablesOK' /\ Onward /\ LocalsOK'
  BY DEF Inv, Start, tables, TablesOK, OwnersExist, Onward, LocalsOK
<1>2. OthersWait(r) /\ Knows(r)' /\ MetNone(r)'
  BY DEF Inv, Start, tables, TablesOK, OthersWait, Knows, MetNone, LocalsOK
<1> QED
  BY <1>1, <1>2, StepKeepsInv DEF Start
-----------------------------------------------------------------------------
(* One step of a handler. *)

\* It takes its own caller's role or account from nobody who has it, and a
\* registration makes an admin only if it met no account.
KeepsCaller(r) == actor[r].id \in Admins => actor[r].id \in Admins'
AdminMetNone(r) ==
  op[r] = "register" /\ Admins' # Admins => met[r] \cap DOMAIN users = {}

Kept(r) == Inv' /\ KeepsCaller(r) /\ AdminMetNone(r)

LEMMA BeginKept ==
  ASSUME Inv, NEW r \in Requests, Begin(r)
  PROVE  Inv' /\ Admins' = Admins
<1>1. \A u \in DOMAIN users : CopyOf(u) \in Copy /\ Unread(u) \in Copy
  BY DEF Inv, TablesOK, CopyOf, Unread, Copy, User
<1>2. ASSUME NEW name \in Names, NEW admin \in BOOLEAN
      PROVE  LET in == [NoAsk EXCEPT !.name = name, !.admin = admin]
             IN  in \in Ask /\ in.name = name
  BY DEF NoAsk, Ask
<1>3. ASSUME NEW admin \in BOOLEAN, NEW reassign \in BOOLEAN
      PROVE  /\ [NoAsk EXCEPT !.admin = admin] \in Ask
             /\ [NoAsk EXCEPT !.reassign = reassign] \in Ask
  BY DEF NoAsk, Ask
<1>4. ASSUME NEW s \in ServerIds PROVE [NoAsk EXCEPT !.server = s] \in Ask
  BY DEF NoAsk, Ask
<1>5. ASSUME NEW name \in Names, BeginRegister(r, name) PROVE Inv'
  <2>1. LET in == [NoAsk EXCEPT !.name = name]
        IN  in \in Ask /\ in.name = name /\ ~in.admin
    BY DEF NoAsk, Ask
  <2> QED
    BY <1>5, <2>1, ZeroTypes, StartKeepsInv DEF BeginRegister, Op, Step
<1>6. ASSUME NEW caller \in DOMAIN users, NEW name \in Names, NEW admin \in BOOLEAN,
             BeginAddUser(r, caller, name, admin)
      PROVE  Inv'
  BY <1>1, <1>2, <1>6, ZeroTypes, StartKeepsInv DEF BeginAddUser, Op, Step
<1>7. ASSUME NEW caller \in DOMAIN users, NEW u \in DOMAIN users,
             \/ \E admin \in BOOLEAN : BeginSetUser(r, caller, u, admin)
             \/ \E reassign \in BOOLEAN : BeginDelUser(r, caller, u, reassign)
      PROVE  Inv'
  BY <1>1, <1>3, <1>7, StartKeepsInv DEF BeginSetUser, BeginDelUser, Op, Step
<1>8. ASSUME NEW caller \in DOMAIN users, BeginAddServer(r, caller) PROVE Inv'
  BY <1>1, <1>8, ZeroTypes, StartKeepsInv DEF BeginAddServer, Op, Step
<1>9. ASSUME NEW caller \in DOMAIN users, NEW s \in DOMAIN owner,
             BeginDelServer(r, caller, s)
      PROVE  Inv'
  <2>1. s \in ServerIds
    BY DEF Inv, TablesOK
  <2> QED
    BY <1>1, <1>4, <1>9, <2>1, ZeroTypes, StartKeepsInv DEF BeginDelServer, Op, Step
<1>10. users' = users
  BY DEF Begin, BeginRegister, BeginAddUser, BeginSetUser, BeginDelUser,
         BeginAddServer, BeginDelServer, Start, tables
<1> QED
  BY <1>5, <1>6, <1>7, <1>8, <1>9, <1>10 DEF Begin, Admins

\* A handler that goes on without writing to the tables.
LEMMA GoOnKept ==
  ASSUME Inv, NEW r \in Requests, NEW step \in Step, UNCHANGED <<up, tables>>,
         pc' = [pc EXCEPT ![r] = step], LocalsOK', OthersWait(r),
         Knows(r)', MetNone(r)'
  PROVE  Kept(r)
<1>1. TablesOK' /\ Onward /\ Admins' = Admins
  BY DEF Inv, tables, TablesOK, OwnersExist, Onward, Admins
<1> QED
  BY <1>1, StepKeepsInv DEF Kept, KeepsCaller, AdminMetNone, tables

LEMMA RefuseKept ==
  ASSUME Inv, NEW r \in Requests, Refuse(r)
  PROVE  Kept(r)
BY RefuseKeepsInv DEF Kept, KeepsCaller, AdminMetNone

LEMMA LookForUsersKept ==
  ASSUME Inv, NEW r \in Requests, LookForUsers(r)
  PROVE  Kept(r)
<1> DEFINE new == [ask[r] EXCEPT !.admin = DOMAIN users = {}]
<1>1. new \in Ask /\ new.name = ask[r].name /\ new.admin = (DOMAIN users = {})
  BY DEF Inv, LocalsOK, Ask
<1>2. ask' = [ask EXCEPT ![r] = new]
  BY DEF LookForUsers
<1> HIDE DEF new
<1>3. /\ pc[r] = "any" /\ pc' = [pc EXCEPT ![r] = "insert"]
      /\ UNCHANGED <<up, users, owner, drawn, op, actor, target, met>>
  BY DEF LookForUsers, tables
<1>4. LocalsOK' /\ pc'[r] = "insert" /\ ask'[r] = new
  BY <1>1, <1>2, <1>3 DEF Inv, LocalsOK, Step
<1>5. OthersWait(r)
  BY <1>2, <1>3 DEF Inv, LocalsOK, OthersWait
<1>6. Knows(r)'
  BY <1>1, <1>3, <1>4 DEF Inv, Knows
<1>7. MetNone(r)'
  BY <1>1, <1>3, <1>4 DEF Inv, MetNone
<1> QED
  BY <1>3, <1>4, <1>5, <1>6, <1>7, GoOnKept DEF Step, tables

LEMMA InsertUserKept ==
  ASSUME Inv, NEW r \in Requests, InsertUser(r)
  PROVE  Kept(r)
<1>1. CASE CreateUser(ask[r].name, ask[r].admin) /\ Finish(r)
  <2>1. ask[r].name \in Names /\ ask[r].admin \in BOOLEAN
    BY DEF InsertUser, Inv, LocalsOK, Knows, Ask
  <2>2. /\ TablesOK' /\ Onward /\ Admins \subseteq Admins'
        /\ ~ask[r].admin => Admins' = Admins
    BY <1>1, <2>1, CreateUserTables DEF Inv
  <2> QED
    BY <1>1, <2>2, FinishKeepsInv DEF Kept, KeepsCaller, AdminMetNone, Inv, MetNone
<1> QED
  BY <1>1, RefuseKept DEF InsertUser

LEMMA LookupUserKept ==
  ASSUME Inv, NEW r \in Requests, LookupUser(r)
  PROVE  Kept(r)
<1>1. CASE ~Refuse(r)
  <2> DEFINE read == CopyOf(target[r].id)
  <2>1. /\ pc[r] = "lookup" /\ target[r].id \in DOMAIN users /\ ~OnSelf(r, read)
        /\ target' = [target EXCEPT ![r] = read]
        /\ pc' = [pc EXCEPT ![r] = AfterLookup(r, read)]
        /\ UNCHANGED <<up, tables, op, actor, ask, met>>
    BY <1>1 DEF LookupUser
  <2>2. read \in Copy /\ read.id = target[r].id
    BY <2>1 DEF CopyOf, Copy, Inv, TablesOK, User
  <2>3. op[r] \in {"setuser", "deluser"}
    BY <2>1 DEF Inv, Knows
  <2>4. AfterLookup(r, read) \in {"admins", "counts", "role", "password"}
    BY DEF AfterLookup
  <2>5. LocalsOK' /\ OthersWait(r)
    BY <2>1, <2>2, <2>4 DEF Inv, LocalsOK, OthersWait, Step
  <2>6. Knows(r)'
    BY <2>1, <2>2, <2>3 DEF Inv, LocalsOK, Knows, AfterLookup, OnSelf, Self, Copy, Ask
  <2>7. MetNone(r)'
    BY <2>1, <2>4 DEF Inv, LocalsOK, MetNone, tables
  <2> QED
    BY <2>1, <2>4, <2>5, <2>6, <2>7, GoOnKept DEF Step
<1> QED
  BY <1>1, RefuseKept

LEMMA CountAdminsKept ==
  ASSUME Inv, NEW r \in Requests, CountAdmins(r)
  PROVE  Kept(r)
<1>1. CASE ~Refuse(r)
  <2> DEFINE step == IF op[r] = "deluser" THEN "counts" ELSE "role"
  <2>1. pc[r] = "admins" /\ Goto(r, step) /\ UNCHANGED tables
    BY <1>1 DEF CountAdmins
  <2>2. LocalsOK' /\ OthersWait(r) /\ Knows(r)' /\ MetNone(r)'
    BY <2>1 DEF Inv, Goto, copies, tables, LocalsOK, OthersWait, Knows, MetNone, Step
  <2> QED
    BY <2>1, <2>2, GoOnKept DEF Goto, Step
<1> QED
  BY <1>1, RefuseKept

LEMMA SetRoleKept ==
  ASSUME Inv, NEW r \in Requests, SetRole(r)
  PROVE  Kept(r)
<1>1. /\ TablesOK' /\ Onward /\ Admins \ {target[r].id} \subseteq Admins'
      /\ ask[r].admin => Admins \subseteq Admins'
  <2>1. ask[r].admin \in BOOLEAN
    BY DEF Inv, LocalsOK, Ask
  <2> QED
    BY <2>1, SetUserAdminTables DEF SetRole, Inv
<1>2. KeepsCaller(r) /\ AdminMetNone(r)
  BY <1>1 DEF SetRole, Inv, Knows, KeepsCaller, AdminMetNone
<1>3. CASE Goto(r, "password")
  <2>1. LocalsOK' /\ OthersWait(r) /\ Knows(r)'
    BY <1>3 DEF Inv, Goto, copies, LocalsOK, OthersWait, Knows, Step
  <2>2. MetNone(r)'
    BY <1>1, <1>3 DEF SetRole, Inv, Goto, copies, LocalsOK, MetNone, Onward
  <2> QED
    BY <1>1, <1>2, <1>3, <2>1, <2>2, StepKeepsInv DEF Kept, Goto
<1>4. CASE Finish(r)
  BY <1>1, <1>2, <1>4, FinishKeepsInv DEF Kept
<1> QED
  BY <1>3, <1>4 DEF SetRole

LEMMA CountServersKept ==
  ASSUME Inv, NEW r \in Requests, CountServers(r)
  PROVE  Kept(r)
<1>1. CASE ~Refuse(r)
  <2> DEFINE owned == Owned(target[r].id)
             step  == IF owned = {} THEN "remove" ELSE "reassign"
  <2>1. pc[r] = "counts" /\ Goto(r, step) /\ UNCHANGED tables
    BY <1>1 DEF CountServers
  <2> HIDE DEF owned
  <2>2. LocalsOK' /\ OthersWait(r) /\ Knows(r)' /\ MetNone(r)'
    BY <2>1 DEF Inv, Goto, copies, tables, LocalsOK, OthersWait, Knows,
       MetNone, Step
  <2> QED
    BY <2>1, <2>2, GoOnKept DEF Goto, Step
<1> QED
  BY <1>1, RefuseKept

LEMMA ReassignKept ==
  ASSUME Inv, NEW r \in Requests, Reassign(r)
  PROVE  Kept(r)
<1>1. CASE ReassignServers(target[r].id, actor[r].id) /\ Goto(r, "remove")
  <2>1. TablesOK' /\ UNCHANGED <<users, drawn>>
    BY <1>1, ReassignTables DEF Inv
  <2>2. Onward /\ Admins' = Admins
    BY <2>1 DEF Onward, Admins
  <2>3. LocalsOK' /\ OthersWait(r) /\ Knows(r)' /\ MetNone(r)'
    BY <1>1, <2>1 DEF Reassign, Inv, Goto, copies, LocalsOK, OthersWait, Knows,
       MetNone, Step
  <2> QED
    BY <1>1, <2>1, <2>2, <2>3, StepKeepsInv DEF Kept, KeepsCaller, AdminMetNone, Goto
<1> QED
  BY <1>1, RefuseKept DEF Reassign

LEMMA RemoveUserKept ==
  ASSUME Inv, NEW r \in Requests, RemoveUser(r)
  PROVE  Kept(r)
<1>1. TablesOK' /\ Onward /\ Admins' = Admins \ {target[r].id}
  BY DeleteUserTables DEF RemoveUser, Inv
<1>2. KeepsCaller(r) /\ AdminMetNone(r)
  BY <1>1 DEF RemoveUser, Inv, Knows, KeepsCaller, AdminMetNone
<1> QED
  BY <1>1, <1>2, FinishKeepsInv DEF RemoveUser, Kept

LEMMA InsertServerKept ==
  ASSUME Inv, NEW r \in Requests, InsertServer(r)
  PROVE  Kept(r)
<1>1. ASSUME NEW s \in ServerIds \ drawn, actor[r].id \in DOMAIN users,
             owner' = [t \in DOMAIN owner \cup {s} |->
                         IF t = s THEN actor[r].id ELSE owner[t]],
             drawn' = drawn \cup {s}, UNCHANGED users, Finish(r)
      PROVE  Kept(r)
  <2>1. TablesOK'
    BY <1>1 DEF Inv, TablesOK, OwnersExist
  <2>2. Onward /\ Admins' = Admins
    BY <1>1 DEF Onward, Admins
  <2> QED
    BY <1>1, <2>1, <2>2, FinishKeepsInv DEF Kept, KeepsCaller, AdminMetNone
<1> QED
  BY <1>1, RefuseKept DEF InsertServer

LEMMA RemoveServerKept ==
  ASSUME Inv, NEW r \in Requests, RemoveServer(r)
  PROVE  Kept(r)
<1>1. TablesOK'
  BY DEF RemoveServer, Restrict, Inv, TablesOK, OwnersExist
<1>2. Onward /\ Admins' = Admins
  BY DEF RemoveServer, Onward, Admins
<1> QED
  BY <1>1, <1>2, FinishKeepsInv DEF RemoveServer, Kept, KeepsCaller, AdminMetNone

LEMMA AdvanceKept ==
  ASSUME Inv, NEW r \in Requests, Advance(r)
  PROVE  Kept(r)
<1>1. CASE SetPassword(r) \/ Abandon(r)
  BY <1>1, RefuseKept DEF SetPassword, Abandon
<1> QED
  BY <1>1, LookForUsersKept, InsertUserKept, LookupUserKept, CountAdminsKept,
     SetRoleKept, CountServersKept, ReassignKept, RemoveUserKept,
     InsertServerKept, RemoveServerKept DEF Advance

LEMMA EnvironmentKept ==
  ASSUME Inv, Boot \/ Crash
  PROVE  Inv' /\ Admins \subseteq Admins' /\ (Crash => Admins' = Admins)
<1>1. CASE Boot
  <2>1. TablesOK' /\ Onward /\ Admins \subseteq Admins'
    <3>1. CASE UNCHANGED tables
      BY <3>1 DEF Inv, tables, TablesOK, OwnersExist, Onward, Admins
    <3>2. CASE \E name \in SeedNames : CreateUser(name, TRUE)
      BY <3>2, CreateUserTables, AccountsAssumption DEF Inv, AccountsAssumption
    <3> QED
      BY <1>1, <3>1, <3>2 DEF Boot
  <2>2. LocalsOK' /\ \A r \in Requests : Knows(r)' /\ MetNone(r)'
    BY <1>1, <2>1 DEF Boot, copies, Inv, LocalsOK, Knows, MetNone, Onward
  <2> QED
    BY <1>1, <2>1, <2>2 DEF Boot, Crash, Inv
<1>2. CASE Crash
  <2>1. TablesOK' /\ Admins' = Admins
    BY <1>2 DEF Crash, tables, Inv, TablesOK, OwnersExist, Admins
  <2>2. LocalsOK'
    BY <1>2, ZeroTypes DEF Crash, LocalsOK, Step, Op
  <2>3. \A r \in Requests : Knows(r)' /\ MetNone(r)'
    BY <1>2 DEF Crash, Knows, MetNone, NoAsk
  <2> QED
    BY <1>2, <2>1, <2>2, <2>3 DEF Crash, Inv
<1> QED
  BY <1>1, <1>2

LEMMA InvInductive == Inv /\ [Next]_vars => Inv'
<1> SUFFICES ASSUME Inv, [Next]_vars PROVE Inv'
  OBVIOUS
<1>1. CASE UNCHANGED vars
  BY <1>1 DEF vars, Inv, TablesOK, OwnersExist, LocalsOK, Knows, MetNone
<1> QED
  BY <1>1, BeginKept, AdvanceKept, EnvironmentKept DEF Next, Kept

LEMMA AlwaysInv == Spec => []Inv
BY InitInv, InvInductive, PTL DEF Spec
-----------------------------------------------------------------------------
(* What comes to an account between the last look at it and its deletion. *)

\* While a deletion is the next statement, all that the account owns came to it
\* since the handler has left it without a server.
Watching(r) == pc[r] = "remove" => Owned(target[r].id) \subseteq came[r]

Watched ==
  came \in [Requests -> SUBSET ServerIds] /\ \A r \in Requests : Watching(r)

LEMMA InitWatched == Init => Watched
BY DEF Init, Watched, Watching

\* A handler that arrives at the deletion has left the account without servers,
\* and stays there for one step of its own.
Arrives(r) ==
  pc'[r] = "remove" => pc[r] # "remove" /\ Owned(target[r].id)' = {}

Shape(r) ==
  /\ Watch /\ Arrives(r)
  /\ \A q \in Requests \ {r} : pc'[q] = pc[q] /\ target'[q] = target[q]

LEMMA StartShape ==
  ASSUME Inv, NEW r \in Requests, NEW handler, NEW caller, NEW input, NEW about,
         NEW step, step # "remove", Start(r, handler, caller, input, about, step)
  PROVE  Shape(r)
BY DEF Inv, LocalsOK, Start, Shape, Arrives

LEMMA BeginShape ==
  ASSUME Inv, NEW r \in Requests, Begin(r)
  PROVE  Shape(r)
BY StartShape DEF Begin, BeginRegister, BeginAddUser, BeginSetUser,
   BeginDelUser, BeginAddServer, BeginDelServer

LEMMA FinishShape ==
  ASSUME Inv, NEW r \in Requests, Finish(r)
  PROVE  Shape(r)
BY DEF Inv, LocalsOK, Finish, Shape, Arrives

LEMMA GotoShape ==
  ASSUME Inv, NEW r \in Requests, NEW step, Goto(r, step),
         step = "remove" => pc[r] # "remove" /\ Owned(target[r].id)' = {}
  PROVE  Shape(r)
BY DEF Inv, LocalsOK, Goto, copies, Shape, Arrives

LEMMA AdvanceShape ==
  ASSUME Inv, NEW r \in Requests, Advance(r)
  PROVE  Shape(r)
<1>1. CASE LookForUsers(r)
  BY <1>1 DEF LookForUsers, Inv, LocalsOK, Shape, Arrives
<1>2. CASE LookupUser(r)
  <2>1. AfterLookup(r, CopyOf(target[r].id)) # "remove"
    BY DEF AfterLookup
  <2>2. CASE ~Refuse(r)
    BY <1>2, <2>1, <2>2 DEF LookupUser, Inv, LocalsOK, Shape, Arrives
  <2> QED
    BY <2>2, FinishShape DEF Refuse
<1>3. CASE CountAdmins(r)
  BY <1>3, FinishShape, GotoShape DEF CountAdmins, Refuse
<1>4. CASE SetRole(r)
  BY <1>4, FinishShape, GotoShape DEF SetRole
<1>5. CASE CountServers(r)
  <2>1. ASSUME UNCHANGED tables,
               Goto(r, IF Owned(target[r].id) = {} THEN "remove" ELSE "reassign")
        PROVE  Shape(r)
    <3>1. Owned(target[r].id)' = Owned(target[r].id)
      BY <2>1 DEF Goto, copies, tables, Owned
    <3> QED
      BY <1>5, <2>1, <3>1, GotoShape DEF CountServers
  <2> QED
    BY <1>5, <2>1, FinishShape DEF CountServers, Refuse
<1>6. CASE Reassign(r)
  <2>1. ASSUME ReassignServers(target[r].id, actor[r].id), Goto(r, "remove")
        PROVE  Shape(r)
    <3>1. target[r].id # actor[r].id /\ target' = target
      BY <1>6, <2>1 DEF Inv, Knows, Reassign, Goto, copies
    <3>2. Owned(target[r].id)' = {}
      BY <2>1, <3>1 DEF ReassignServers, Owned
    <3> QED
      BY <1>6, <2>1, <3>2, GotoShape DEF Reassign
  <2> QED
    BY <1>6, <2>1, FinishShape DEF Reassign, Refuse
<1> QED
  BY <1>1, <1>2, <1>3, <1>4, <1>5, <1>6, FinishShape
  DEF Advance, InsertUser, SetPassword, RemoveUser, InsertServer, RemoveServer,
      Abandon, Refuse

LEMMA WatchedInductive == Inv /\ Inv' /\ Watched /\ [Next]_vars => Watched'
<1> SUFFICES ASSUME Inv, Inv', Watched, [Next]_vars PROVE Watched'
  OBVIOUS
<1>1. CASE UNCHANGED vars
  BY <1>1 DEF vars, Watched, Watching, Owned
<1>2. ASSUME Watch PROVE came' \in [Requests -> SUBSET ServerIds]
  BY <1>2 DEF Watch, Arrivals, Watched, Inv, TablesOK
<1>3. ASSUME Watch, NEW q \in Requests, pc'[q] = pc[q], target'[q] = target[q]
      PROVE  Watching(q)'
  BY <1>3 DEF Watch, Arrivals, Watched, Watching, Owned
<1>4. ASSUME NEW r \in Requests, Shape(r) PROVE Watched'
  <2>1. Watching(r)'
    BY <1>4 DEF Shape, Arrives, Watching
  <2> QED
    BY <1>2, <1>3, <1>4, <2>1 DEF Shape, Watched
<1>5. CASE Boot \/ Crash
  <2>1. Watch /\ \A q \in Requests :
          pc'[q] = "idle" \/ (pc'[q] = pc[q] /\ target'[q] = target[q])
    BY <1>5 DEF Boot, Crash, copies
  <2>2. \A q \in Requests : Watching(q)'
    BY <1>3, <2>1 DEF Watching
  <2> QED
    BY <1>2, <2>1, <2>2 DEF Watched
<1> QED
  BY <1>1, <1>4, <1>5, BeginShape, AdvanceShape DEF Next

LEMMA AlwaysWatched == Spec => []Watched
BY InitWatched, WatchedInductive, AlwaysInv, PTL DEF Spec
-----------------------------------------------------------------------------
(* The theorems. *)

\* Every variable has its type and no two accounts share a name, for any number
\* of requests, accounts and servers.
THEOREM TypeCorrect == Spec => []TypeOK
<1>1. Inv /\ Watched => TypeOK
  BY DEF Inv, TablesOK, LocalsOK, Watched, TypeOK
<1> QED
  BY <1>1, AlwaysInv, AlwaysWatched, PTL

\* Every server record has an owner that exists, although the handlers write the
\* ids of callers that they have read long before (sqlite.go:37-40).
THEOREM OwnersAlwaysExist == Spec => []OwnersExist
<1>1. Inv => OwnersExist
  BY DEF Inv, TablesOK
<1> QED
  BY <1>1, AlwaysInv, PTL

\* A handler that acts has advanced, or the process has died.
LEMMA ActsAdvance ==
  ASSUME Inv, Next, NEW r \in Requests, Acts(r)
  PROVE  Advance(r) \/ Crash
<1>1. ASSUME NEW q \in Requests, Begin(q) PROVE FALSE
  <2>1. pc[q] = "idle" /\ \E step : pc' = [pc EXCEPT ![q] = step]
    BY <1>1 DEF Begin, BeginRegister, BeginAddUser, BeginSetUser, BeginDelUser,
       BeginAddServer, BeginDelServer, Start
  <2> QED
    BY <2>1 DEF Acts, Inv, LocalsOK
<1>2. ASSUME NEW q \in Requests \ {r}, Advance(q) PROVE FALSE
  <2>1. \E step : pc' = [pc EXCEPT ![q] = step]
    BY <1>2 DEF Advance, LookForUsers, InsertUser, LookupUser, CountAdmins,
       SetRole, SetPassword, CountServers, Reassign, RemoveUser, InsertServer,
       RemoveServer, Abandon, Refuse, Finish, Goto
  <2> QED
    BY <2>1 DEF Acts, Inv, LocalsOK
<1>3. ~Boot
  BY DEF Boot, Acts
<1> QED
  BY <1>1, <1>2, <1>3 DEF Next

\* The platform loses its last admin only to a request whose caller was demoted
\* or deleted after requireAuth had read it (admin.go:128-138, :198-219).
THEOREM LastAdminFallsOnlyToStaleCaller == Spec => LastAdminFallsToStaleCaller
<1>1. ASSUME Inv, [Next]_vars, Admins # {}, Admins' = {}
      PROVE  \E r \in Requests : Acts(r) /\ actor[r].id \notin Admins
  <2>1. ~UNCHANGED vars
    BY <1>1 DEF vars, Admins
  <2>2. PICK r \in Requests : Advance(r)
    BY <1>1, <2>1, BeginKept, EnvironmentKept DEF Next
  <2>3. actor[r].id \notin Admins
    BY <1>1, <2>2, AdvanceKept DEF Kept, KeepsCaller
  <2>4. pc[r] # "idle" /\ pc'[r] # pc[r]
    <3>1. pc[r] \in {"insert", "role", "remove"}
      BY <1>1, <2>2
      DEF Advance, LookForUsers, LookupUser, CountAdmins, SetPassword,
          CountServers, Reassign, InsertUser, SetRole, RemoveUser, InsertServer,
          RemoveServer, Abandon, Refuse, ReassignServers, tables, Admins
    <3>2. pc' = [pc EXCEPT ![r] = "idle"] \/ pc' = [pc EXCEPT ![r] = "password"]
      BY <1>1, <2>2, <3>1
      DEF Advance, LookForUsers, LookupUser, CountAdmins, SetPassword,
          CountServers, Reassign, InsertUser, SetRole, RemoveUser, InsertServer,
          RemoveServer, Abandon, Refuse, Finish, Goto
    <3> QED
      BY <1>1, <3>1, <3>2 DEF Inv, LocalsOK
  <2> QED
    BY <2>3, <2>4 DEF Acts
<1>2. Inv /\ [Next]_vars =>
        (Admins # {} /\ Admins' = {} =>
           \E r \in Requests : Acts(r) /\ actor[r].id \notin Admins)
  BY <1>1
<1> QED
  BY <1>2, AlwaysInv, PTL DEF Spec, LastAdminFallsToStaleCaller

\* What an account's deletion cascades to came to the account while the deletion
\* was the handler's next statement (admin.go:206-231).
THEOREM CascadesTakeOnlyUnseen == Spec => CascadeTakesOnlyUnseen
<1>1. ASSUME Inv, Watched, [Next]_vars, NEW r \in Requests, Acts(r),
             pc[r] = "remove"
      PROVE  DOMAIN owner \ DOMAIN owner' \subseteq came[r]
  <2>1. Next
    BY <1>1 DEF vars, Acts
  <2>2. Advance(r) \/ Crash
    BY <1>1, <2>1, ActsAdvance
  <2>3. owner' = owner \/ DeleteUser(target[r].id)
    BY <1>1, <2>2
    DEF Advance, LookForUsers, InsertUser, LookupUser, CountAdmins, SetRole,
        SetPassword, CountServers, Reassign, RemoveUser, InsertServer,
        RemoveServer, Abandon, Refuse, tables, Crash
  <2>4. DOMAIN owner \ DOMAIN owner' \subseteq Owned(target[r].id)
    BY <2>3 DEF DeleteUser, Restrict
  <2> QED
    BY <1>1, <2>4 DEF Watched, Watching
<1>2. Inv /\ Watched /\ [Next]_vars =>
        \A r \in Requests : Acts(r) /\ pc[r] = "remove" =>
          DOMAIN owner \ DOMAIN owner' \subseteq came[r]
  BY <1>1
<1> QED
  BY <1>2, AlwaysInv, AlwaysWatched, PTL DEF Spec, CascadeTakesOnlyUnseen

\* A registration makes an admin only if no account it met is left: the check
\* that there is none and the insert are two statements (auth.go:196-203), but
\* what races between them is registrations of a table that was empty.
THEOREM OnlyEmptyMakesAdmins == Spec => AdminsOnlyFromEmpty
<1>1. ASSUME Inv, [Next]_vars, NEW r \in Requests, Acts(r), op[r] = "register",
             Admins' # Admins
      PROVE  met[r] \cap DOMAIN users = {}
  <2>1. Next
    BY <1>1 DEF vars, Admins
  <2>2. Advance(r)
    BY <1>1, <2>1, ActsAdvance, EnvironmentKept
  <2> QED
    BY <1>1, <2>2, AdvanceKept DEF Kept, AdminMetNone
<1>2. Inv /\ [Next]_vars =>
        \A r \in Requests : Acts(r) /\ op[r] = "register" /\ Admins' # Admins
          => met[r] \cap DOMAIN users = {}
  BY <1>1
<1> QED
  BY <1>2, AlwaysInv, PTL DEF Spec, AdminsOnlyFromEmpty
=============================================================================
