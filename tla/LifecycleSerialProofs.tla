----------------------- MODULE LifecycleSerialProofs ------------------------
(***************************************************************************)
(* Proofs about Lifecycle with one request at a time.                      *)
(***************************************************************************)
EXTENDS LifecycleProofs

\* One request at a time, whose client waits, and an Engine that may refuse any
\* call: what SerialAgreement is about.
Alone(r) == Requests = {r} /\ Faults \subseteq {"docker"}

\* The two sides of SerialAgreement.
Paired(c) ==
  LET s == containers[c].server
  IN  s \in DOMAIN servers /\ servers[s].cid = c

Settled(s) ==
  \/ servers[s].status = "error"
  \/ servers[s].status = "starting" /\ Running(servers[s].cid)
  \/ servers[s].status = "stopped" /\ ~Running(servers[s].cid)

\* All servers but s agree with their containers.
Elsewhere(s) ==
  /\ \A c \in DOMAIN containers : containers[c].server # s => Paired(c)
  /\ \A t \in DOMAIN servers \ {s} : Settled(t)

\* No container of s but c.
AtMost(s, c) == \A d \in DOMAIN containers : containers[d].server = s => d = c

\* What holds of the server a handler works on.  Between the record and the
\* containers they agree nowhere on the way, but the handler knows what is
\* there: no container, the one it has just made, or the one the record names.
Working(r) ==
  LET s == sid[r]
  IN  /\ s \in DOMAIN servers /\ Elsewhere(s)
      /\ pc[r] \in {"volume", "container", "remove", "rmvolume", "rmrecord"} =>
           ~NameTaken(containers, s)
      /\ pc[r] \in {"save", "setcid"} => AtMost(s, srv[r].cid)
      /\ pc[r] = "save" => srv[r].status = "stopped" /\ ~Running(srv[r].cid)
      /\ pc[r] \in {"start", "started", "touch", "mark", "stop", "stopped",
                    "rmcontainer", "update", "fail"} => AtMost(s, servers[s].cid)
      /\ pc[r] \in {"start", "started", "mark", "stop", "stopped",
                    "rmcontainer", "update"} => srv[r].cid = servers[s].cid
      /\ pc[r] = "started" => Running(srv[r].cid)
      /\ pc[r] = "touch" => Settled(s)
      /\ pc[r] = "stopped" => ~Running(srv[r].cid)
      /\ pc[r] = "update" => srv[r].status = servers[s].status /\ Settled(s)

Everywhere ==
  (\A c \in DOMAIN containers : Paired(c)) /\ (\A s \in DOMAIN servers : Settled(s))

Serial(r) ==
  /\ cancelled = {}
  /\ pc[r] \in Early => Everywhere
  /\ pc[r] \notin Early => Working(r)
-----------------------------------------------------------------------------
(* What a step leaves alone. *)

\* Only the server s is touched, and a container that appears is a new one.
OnlyTouches(s) ==
  /\ DOMAIN servers' \ {s} = DOMAIN servers \ {s}
  /\ \A t \in DOMAIN servers \ {s} : servers'[t] = servers[t]
  /\ \A c \in DOMAIN containers : containers[c].server # s =>
       c \in DOMAIN containers' /\ containers'[c] = containers[c]
  /\ \A c \in DOMAIN containers' :
       /\ c \in DOMAIN containers => containers'[c].server = containers[c].server
       /\ c \notin DOMAIN containers =>
            containers'[c].server = s /\ c \notin UsedContainerIds

LEMMA ElsewhereKept ==
  ASSUME RecordsPointHome, NEW s, Elsewhere(s), OnlyTouches(s)
  PROVE  Elsewhere(s)'
<1>1. ASSUME NEW c \in DOMAIN containers', containers'[c].server # s
      PROVE  Paired(c)'
  <2>1. c \in DOMAIN containers /\ containers'[c].server = containers[c].server
    BY <1>1 DEF OnlyTouches
  <2>2. Paired(c)
    BY <1>1, <2>1 DEF Elsewhere
  <2> QED
    BY <1>1, <2>1, <2>2 DEF Paired, OnlyTouches
<1>2. ASSUME NEW t \in DOMAIN servers' \ {s}
      PROVE  Settled(t)'
  <2>1. t \in DOMAIN servers \ {s} /\ servers'[t] = servers[t] /\ Settled(t)
    BY <1>2 DEF OnlyTouches, Elsewhere
  <2>2. Running(servers[t].cid)' <=> Running(servers[t].cid)
    <3>1. CASE servers[t].cid \in DOMAIN containers
      BY <2>1, <3>1 DEF OnlyTouches, RecordsPointHome, Running
    <3>2. CASE servers[t].cid \notin DOMAIN containers
      <4>1. servers[t].cid \in UsedContainerIds
        BY <2>1 DEF UsedContainerIds
      <4> QED
        BY <2>1, <3>2, <4>1 DEF OnlyTouches, Running
    <3> QED
      BY <3>1, <3>2
  <2> QED
    BY <2>1, <2>2 DEF Settled
<1> QED
  BY <1>1, <1>2 DEF Elsewhere

\* A handler that ends leaves agreement if its own server agrees.
LEMMA EndsInAgreement ==
  ASSUME NEW s, Elsewhere(s)',
         s \in DOMAIN servers' => Settled(s)' /\ AtMost(s, servers[s].cid)',
         s \notin DOMAIN servers' => ~NameTaken(containers, s)'
  PROVE  Everywhere'
<1>1. ASSUME NEW c \in DOMAIN containers', containers'[c].server = s
      PROVE  Paired(c)'
  BY <1>1 DEF Paired, AtMost, NameTaken
<1> QED
  BY <1>1 DEF Elsewhere, Everywhere

LEMMA AloneCall ==
  ASSUME NEW r, Alone(r), Serial(r), NEW cs, NEW vs, NEW step,
         Call(r, cs, vs, step)
  PROVE  /\ UNCHANGED <<servers, minted, op, sid, srv, cancelled>>
         /\ \/ /\ containers' = cs /\ volumes' = vs
               /\ pc' = [pc EXCEPT ![r] = step]
            \/ /\ containers' = containers /\ volumes' = volumes
               /\ pc' = [pc EXCEPT ![r] = "fail"]
BY DEF Alone, Serial, Call, Answered, Refused, Unheard, Goto, table, engine

LEMMA AloneWrite ==
  ASSUME NEW r, Alone(r), Serial(r), NEW rows, Write(r, rows)
  PROVE  servers' = rows /\ containers' = containers /\ volumes' = volumes
BY DEF Alone, Serial, Write, StoreFails, engine

\* A call on the containers of its own server.
LEMMA CallTouches ==
  ASSUME Typed, NEW s, servers' = servers,
         \A c \in DOMAIN containers : containers[c].server # s =>
           c \in DOMAIN containers' /\ containers'[c] = containers[c],
         \A c \in DOMAIN containers' : c \in DOMAIN containers
           /\ containers'[c].server = containers[c].server
  PROVE  OnlyTouches(s)
BY DEF OnlyTouches

LEMMA RowTouches ==
  ASSUME NEW s, containers' = containers, DOMAIN servers' \ {s} = DOMAIN servers \ {s},
         \A t \in DOMAIN servers \ {s} : servers'[t] = servers[t]
  PROVE  OnlyTouches(s)
BY DEF OnlyTouches
-----------------------------------------------------------------------------
(* One step of the handler. *)

LEMMA BeginSerial ==
  ASSUME Typed, NEW r, Alone(r), Serial(r), Begin(r)
  PROVE  Serial(r)'
<1>1. r \in Requests /\ Requests = {r}
  BY DEF Alone
<1>2. /\ UNCHANGED <<servers, containers, cancelled>> /\ pc[r] = "idle"
  BY DEF Begin, BeginCreate, BeginStart, BeginStop, BeginDelete, BeginRename,
     Lookup, table, engine
<1>3. Everywhere /\ Everywhere' /\ cancelled' = {}
  BY <1>2 DEF Serial, Early, Everywhere, Paired, Settled, Running
<1>4. ASSUME NEW u \in Users, NEW name \in Names, BeginCreate(r, u, name)
      PROVE  Serial(r)'
  <2>1. pc'[r] = "allocate"
    BY <1>1, <1>4 DEF BeginCreate, Typed, TypeOK
  <2> QED
    BY <1>3, <2>1 DEF Serial, Early
<1>5. ASSUME NEW s \in DOMAIN servers, NEW step, pc'[r] = step, sid'[r] = s,
             srv'[r].cid = servers[s].cid, srv'[r].status = servers[s].status,
             \/ step \in {"volume", "rmrecord"} /\ servers[s].cid = None
             \/ step \in {"start", "mark", "rmcontainer", "update"}
      PROVE  Serial(r)'
  <2>1. Elsewhere(s)' /\ AtMost(s, servers[s].cid)'
    BY <1>3 DEF Everywhere, Elsewhere, Paired, AtMost
  <2>2. servers[s].cid = None => ~NameTaken(containers, s)'
    BY <1>2, <1>3, NoneAssumption DEF Everywhere, Paired, NameTaken, Typed, TypeOK
  <2> QED
    BY <1>2, <1>3, <1>5, <2>1, <2>2 DEF Serial, Working, Everywhere, Early
<1>6. ASSUME NEW s \in DOMAIN servers, BeginStart(r, s) PROVE Serial(r)'
  BY <1>1, <1>5, <1>6 DEF BeginStart, Lookup, Typed, TypeOK
<1>7. ASSUME NEW s \in DOMAIN servers, BeginStop(r, s) PROVE Serial(r)'
  BY <1>1, <1>5, <1>7 DEF BeginStop, Lookup, Typed, TypeOK
<1>8. ASSUME NEW s \in DOMAIN servers, NEW handler, BeginDelete(r, s, handler)
      PROVE  Serial(r)'
  BY <1>1, <1>5, <1>8 DEF BeginDelete, Lookup, Typed, TypeOK
<1>9. ASSUME NEW s \in DOMAIN servers, NEW name \in Names, BeginRename(r, s, name)
      PROVE  Serial(r)'
  <2>1. srv'[r] = [servers[s] EXCEPT !.name = name] /\ servers[s] \in Row
    BY <1>1, <1>9 DEF BeginRename, Typed, TypeOK
  <2>2. srv'[r].cid = servers[s].cid /\ srv'[r].status = servers[s].status
    BY <2>1 DEF Row
  <2> QED
    BY <1>1, <1>5, <1>9, <2>2 DEF BeginRename, Lookup, Typed, TypeOK
<1> QED
  BY <1>4, <1>6, <1>7, <1>8, <1>9 DEF Begin

LEMMA EarlySerial ==
  ASSUME Typed, Home, NEW r, Alone(r), Serial(r),
         ReadPorts(r) \/ PickPort(r) \/ InsertRecord(r)
  PROVE  Serial(r)'
<1>1. r \in Requests /\ cancelled = {} /\ Everywhere
  BY DEF Alone, Serial, ReadPorts, PickPort, InsertRecord, Early
<1>2. CASE UNCHANGED <<servers, containers>> /\ pc'[r] \in Early /\ cancelled' = {}
  BY <1>1, <1>2 DEF Serial, Everywhere, Paired, Settled, Running
<1>3. CASE ReadPorts(r) \/ PickPort(r)
  <2>1. UNCHANGED <<servers, containers>> /\ cancelled' = {}
    BY <1>1, <1>3 DEF ReadPorts, PickPort, Goto, Finish, table, engine
  <2>2. pc'[r] \in Early
    BY <1>1, <1>3 DEF ReadPorts, PickPort, Goto, Finish, Early, Typed, TypeOK
  <2> QED
    BY <1>2, <2>1, <2>2
<1>4. CASE InsertRecord(r)
  <2>1. CASE Finish(r) /\ UNCHANGED table
    <3>1. UNCHANGED <<servers, containers>> /\ pc'[r] \in Early /\ cancelled' = {}
      BY <1>1, <1>4, <2>1 DEF InsertRecord, Finish, table, engine, Early, Typed, TypeOK
    <3> QED
      BY <1>2, <3>1
  <2>2. CASE ~(Finish(r) /\ UNCHANGED table)
    <3>1. PICK s \in ServerIds \ minted :
            /\ servers' = NewRow(servers, s, srv[r]) /\ sid' = [sid EXCEPT ![r] = s]
            /\ pc' = [pc EXCEPT ![r] = "volume"] /\ UNCHANGED <<containers, cancelled>>
      BY <1>4, <2>2 DEF InsertRecord, engine
    <3>2. ~NameTaken(containers, s)'
      BY <3>1 DEF NameTaken, Home, ContainersAreMinted
    <3>3. DOMAIN servers' = DOMAIN servers \cup {s} /\ OnlyTouches(s)
      BY <3>1 DEF NewRow, OnlyTouches
    <3>4. Elsewhere(s)'
      BY <1>1, <3>3, ElsewhereKept DEF Home, Everywhere, Elsewhere
    <3>5. sid'[r] = s /\ pc'[r] = "volume"
      BY <1>1, <3>1 DEF Typed, TypeOK
    <3> QED
      BY <1>1, <3>1, <3>2, <3>3, <3>4, <3>5 DEF Serial, Working, Early
  <2> QED
    BY <2>1, <2>2
<1> QED
  BY <1>3, <1>4

\* A call that is refused leads to "fail", where only the record's own container
\* may exist.
LEMMA RefusedSerial ==
  ASSUME Typed, NEW r \in Requests, Serial(r), pc[r] \notin Early,
         UNCHANGED <<servers, containers, sid, srv, cancelled>>,
         pc' = [pc EXCEPT ![r] = "fail"], pc[r] \notin {"save", "setcid"}
  PROVE  Serial(r)'
<1>1. pc'[r] = "fail" /\ pc[r] \in Step
  BY DEF Typed, TypeOK
<1>2. Working(r) /\ AtMost(sid[r], servers[sid[r]].cid)
  BY <1>1 DEF Serial, Working, Step, Early, AtMost, NameTaken
<1>3. Elsewhere(sid[r])'
  BY <1>2 DEF Working, Elsewhere, Paired, Settled, Running
<1> QED
  BY <1>1, <1>2, <1>3 DEF Serial, Working, Early, AtMost

\* What the statements make of the handler's row; they touch no other.
LEMMA StatusRow ==
  ASSUME Typed, NEW s \in DOMAIN servers, NEW status,
         servers' = SetStatus(servers, s, status), containers' = containers
  PROVE  /\ OnlyTouches(s) /\ DOMAIN servers' = DOMAIN servers
         /\ servers'[s].status = status /\ servers'[s].cid = servers[s].cid
<1>1. servers[s] \in Row
  BY DEF Typed, TypeOK
<1> QED
  BY <1>1 DEF SetStatus, OnlyTouches, Row

LEMMA ContainerIDRow ==
  ASSUME Typed, NEW s \in DOMAIN servers, NEW c,
         servers' = SetContainerID(servers, s, c), containers' = containers
  PROVE  /\ OnlyTouches(s) /\ DOMAIN servers' = DOMAIN servers
         /\ servers'[s].cid = c
<1>1. servers[s] \in Row
  BY DEF Typed, TypeOK
<1> QED
  BY <1>1 DEF SetContainerID, OnlyTouches, Row

LEMMA UpdateRow ==
  ASSUME Typed, NEW s \in DOMAIN servers, NEW row,
         servers' = UpdateServer(servers, s, row), containers' = containers
  PROVE  /\ OnlyTouches(s) /\ DOMAIN servers' = DOMAIN servers
         /\ servers'[s].status = row.status /\ servers'[s].cid = row.cid
<1>1. servers[s] \in Row
  BY DEF Typed, TypeOK
<1> QED
  BY <1>1 DEF UpdateServer, OnlyTouches, Row

\* A handler that ends after a statement on its own row.
LEMMA FinishSerial ==
  ASSUME Typed, Home, NEW r \in Requests, NEW s, Elsewhere(s), OnlyTouches(s),
         cancelled = {}, Finish(r),
         s \in DOMAIN servers' => Settled(s)' /\ AtMost(s, servers[s].cid)',
         s \notin DOMAIN servers' => ~NameTaken(containers, s)'
  PROVE  Serial(r)'
<1>1. Elsewhere(s)'
  BY ElsewhereKept DEF Home
<1>2. Everywhere'
  BY <1>1, EndsInAgreement
<1>3. pc'[r] = "idle" /\ cancelled' = {}
  BY DEF Finish, Typed, TypeOK
<1> QED
  BY <1>2, <1>3 DEF Serial, Early

\* What the handler knows when it reaches its later steps.
LEMMA LateKnows ==
  ASSUME Typed, Home, NEW r, Alone(r), Serial(r), pc[r] \notin Early, NEW s, s = sid[r]
  PROVE  /\ r \in Requests /\ cancelled = {} /\ Working(r)
         /\ s \in DOMAIN servers /\ servers[s] \in Row /\ Elsewhere(s)
         /\ srv[r] \in Row
         /\ srv[r].cid \in DOMAIN containers =>
              containers[srv[r].cid].server = s
BY DEF Alone, Serial, Working, Typed, TypeOK, LocalsOK, Home, CopiesPointHome

LEMMA CreateContainerSerial ==
  ASSUME Typed, Home, NEW r, Alone(r), Serial(r), CreateContainer(r)
  PROVE  Serial(r)'
<1> PICK s : s = sid[r]
  OBVIOUS
<1>1. /\ r \in Requests /\ pc[r] = "container" /\ cancelled = {}
      /\ Working(r) /\ ~NameTaken(containers, s) /\ "cancel" \notin Faults
  BY DEF Alone, Serial, Working, CreateContainer, Early
<1>2. CASE Refused(r) /\ Goto(r, "fail")
  BY <1>1, <1>2, RefusedSerial DEF Refused, Goto, table, engine, Early
<1>3. CASE ~(Refused(r) /\ Goto(r, "fail"))
  <2>1. PICK c \in ContainerIds \ UsedContainerIds :
          /\ containers' = CreatedContainer(containers, c, s, srv[r].port)
          /\ srv' = [srv EXCEPT ![r].cid = c,
               ![r].status = IF op[r] = "create" THEN "stopped" ELSE @]
          /\ pc' = [pc EXCEPT
               ![r] = IF op[r] = "create" THEN "save" ELSE "setcid"]
          /\ UNCHANGED <<servers, sid, cancelled>>
    BY <1>1, <1>3 DEF CreateContainer, Answered, Unheard, table
  <2>2. /\ srv'[r].cid = c
        /\ op[r] = "create" => srv'[r].status = "stopped"
        /\ pc'[r] = IF op[r] = "create" THEN "save" ELSE "setcid"
    BY <1>1, <2>1 DEF Typed, TypeOK, Struct
  <2>3. /\ DOMAIN containers' = DOMAIN containers \cup {c} /\ c \notin DOMAIN containers
        /\ containers'[c].server = s /\ containers'[c].state = "created"
        /\ \A d \in DOMAIN containers : containers'[d] = containers[d]
    BY <2>1 DEF CreatedContainer, UsedContainerIds
  <2>4. OnlyTouches(s)
    BY <2>1, <2>3 DEF OnlyTouches
  <2>5. s \in DOMAIN servers' /\ Elsewhere(s)'
    BY <1>1, <2>1, <2>4, ElsewhereKept DEF Home, Working
  <2>6. AtMost(s, c)'
    BY <1>1, <2>3 DEF AtMost, NameTaken
  <2>7. ~Running(c)'
    BY <2>3 DEF Running
  <2>8. sid'[r] = s /\ cancelled' = {}
    BY <1>1, <2>1
  <2> QED
    BY <2>2, <2>5, <2>6, <2>7, <2>8 DEF Serial, Working, Early, AtMost, Running
<1> QED
  BY <1>2, <1>3

\* Statements that end the handler.
LEMMA LastStatementSerial ==
  ASSUME Typed, Home, NEW r, Alone(r), Serial(r),
         \/ SaveServer(r) \/ RecordFailure(r) \/ TouchActivity(r)
         \/ RecordStopped(r) \/ RemoveRecord(r) \/ UpdateRecord(r)
  PROVE  Serial(r)'
<1> PICK s : s = sid[r]
  OBVIOUS
<1>1. /\ r \in Requests /\ cancelled = {} /\ Working(r)
      /\ s \in DOMAIN servers /\ servers[s] \in Row /\ Elsewhere(s) /\ Finish(r)
  BY LateKnows DEF SaveServer, RecordFailure, TouchActivity, RecordStopped,
     RemoveRecord, UpdateRecord, Early
<1>2. ASSUME NEW status, Write(r, SetStatus(servers, s, status)),
             AtMost(s, servers[s].cid),
             status \in {"error", "stopped"},
             status = "stopped" => ~Running(servers[s].cid)
      PROVE  Serial(r)'
  <2>1. servers' = SetStatus(servers, s, status) /\ containers' = containers
    BY <1>2, AloneWrite
  <2>2. /\ OnlyTouches(s) /\ DOMAIN servers' = DOMAIN servers
        /\ servers'[s].status = status /\ servers'[s].cid = servers[s].cid
    BY <1>1, <2>1, StatusRow
  <2>3. Settled(s)' /\ AtMost(s, servers[s].cid)'
    BY <1>2, <2>1, <2>2 DEF Settled, AtMost, Running
  <2> QED
    BY <1>1, <2>2, <2>3, FinishSerial
<1>3. ASSUME Write(r, UpdateServer(servers, s, srv[r])), AtMost(s, srv[r].cid),
             \/ srv[r].status = "stopped" /\ ~Running(srv[r].cid)
             \/ /\ srv[r].status = servers[s].status
                /\ srv[r].cid = servers[s].cid /\ Settled(s)
      PROVE  Serial(r)'
  <2>1. servers' = UpdateServer(servers, s, srv[r]) /\ containers' = containers
    BY <1>3, AloneWrite
  <2>2. /\ OnlyTouches(s) /\ DOMAIN servers' = DOMAIN servers
        /\ servers'[s].status = srv[r].status /\ servers'[s].cid = srv[r].cid
    BY <1>1, <2>1, UpdateRow
  <2>3. Settled(s)' /\ AtMost(s, servers[s].cid)'
    BY <1>3, <2>1, <2>2 DEF Settled, AtMost, Running
  <2> QED
    BY <1>1, <2>2, <2>3, FinishSerial
<1>4. CASE SaveServer(r)
  BY <1>1, <1>3, <1>4 DEF SaveServer, Working
<1>5. CASE RecordFailure(r)
  <2>1. pc[r] = "fail" /\ AtMost(s, servers[s].cid)
    BY <1>1, <1>5 DEF RecordFailure, Working
  <2>2. Write(r, SetStatus(servers, s, "error"))
    BY <1>5 DEF RecordFailure
  <2> QED
    BY <1>2, <2>1, <2>2
<1>6. CASE TouchActivity(r)
  <2>1. UNCHANGED <<servers, containers>> /\ Settled(s) /\ AtMost(s, servers[s].cid)
    BY <1>1, <1>6 DEF TouchActivity, Working, table, engine
  <2>2. Settled(s)' /\ AtMost(s, servers[s].cid)'
    BY <2>1 DEF Settled, AtMost, Running
  <2>3. OnlyTouches(s)
    BY <2>1, RowTouches
  <2> QED
    BY <1>1, <2>1, <2>2, <2>3, FinishSerial
<1>7. CASE RecordStopped(r)
  BY <1>1, <1>2, <1>7 DEF RecordStopped, Working
<1>8. CASE RemoveRecord(r)
  <2>1. /\ servers' = DeleteServer(servers, s) /\ containers' = containers
        /\ ~NameTaken(containers, s)
    BY <1>1, <1>8, AloneWrite DEF RemoveRecord, Working
  <2>2. s \notin DOMAIN servers' /\ OnlyTouches(s)
    BY <2>1 DEF DeleteServer, Restrict, OnlyTouches
  <2>3. ~NameTaken(containers, s)'
    BY <2>1 DEF NameTaken
  <2> QED
    BY <1>1, <2>2, <2>3, FinishSerial
<1>9. CASE UpdateRecord(r)
  BY <1>1, <1>3, <1>9 DEF UpdateRecord, Working
<1> QED
  BY <1>4, <1>5, <1>6, <1>7, <1>8, <1>9

\* Statements in the middle of a start and of a stop.
LEMMA MiddleStatementSerial ==
  ASSUME Typed, Home, NEW r, Alone(r), Serial(r),
         SaveContainerID(r) \/ RecordStarted(r) \/ MarkStopping(r)
  PROVE  Serial(r)'
<1> PICK s : s = sid[r]
  OBVIOUS
<1>1. /\ r \in Requests /\ cancelled = {} /\ Working(r)
      /\ s \in DOMAIN servers /\ servers[s] \in Row /\ Elsewhere(s)
  BY LateKnows DEF SaveContainerID, RecordStarted, MarkStopping, Early
<1>2. /\ sid'[r] = s /\ srv'[r] = srv[r] /\ cancelled' = {}
      /\ pc'[r] \in {"start", "touch", "stop"}
      /\ pc'[r] = "touch" => RecordStarted(r)
  BY <1>1 DEF SaveContainerID, RecordStarted, MarkStopping, Goto, Typed, TypeOK
<1>3. ASSUME OnlyTouches(s), DOMAIN servers' = DOMAIN servers,
             containers' = containers, servers'[s].cid = srv[r].cid,
             AtMost(s, srv[r].cid), pc'[r] = "touch" => Settled(s)'
      PROVE  Serial(r)'
  <2>1. Elsewhere(s)' /\ AtMost(s, servers[s].cid)'
    BY <1>1, <1>3, ElsewhereKept DEF Home, AtMost
  <2> QED
    BY <1>1, <1>2, <1>3, <2>1 DEF Serial, Working, Early
<1>4. CASE SaveContainerID(r)
  <2>1. servers' = SetContainerID(servers, s, srv[r].cid) /\ containers' = containers
    BY <1>4, AloneWrite DEF SaveContainerID
  <2> QED
    BY <1>1, <1>2, <1>3, <1>4, <2>1, ContainerIDRow
       DEF SaveContainerID, RecordStarted, Working
<1>5. CASE MarkStopping(r)
  <2>1. servers' = SetStatus(servers, s, "stopping") /\ containers' = containers
    BY <1>5, AloneWrite DEF MarkStopping
  <2> QED
    BY <1>1, <1>2, <1>3, <1>5, <2>1, StatusRow DEF MarkStopping, RecordStarted, Working
<1>6. CASE RecordStarted(r)
  <2>1. servers' = SetStatus(servers, s, "starting") /\ containers' = containers
    BY <1>6, AloneWrite DEF RecordStarted
  <2>2. /\ OnlyTouches(s) /\ DOMAIN servers' = DOMAIN servers
        /\ servers'[s].status = "starting" /\ servers'[s].cid = servers[s].cid
    BY <1>1, <2>1, StatusRow
  <2>3. /\ Running(srv[r].cid) /\ srv[r].cid = servers[s].cid
        /\ AtMost(s, srv[r].cid)
    BY <1>1, <1>6 DEF RecordStarted, Working
  <2>4. Settled(s)'
    BY <2>1, <2>2, <2>3 DEF Settled, Running
  <2> QED
    BY <1>3, <2>1, <2>2, <2>3, <2>4
<1> QED
  BY <1>4, <1>5, <1>6

\* What the Engine makes of the containers.
LEMMA StartedTouches ==
  ASSUME Typed, NEW s, NEW c \in DOMAIN containers, containers[c].server = s,
         servers' = servers, containers' = StartedContainer(containers, c)
  PROVE  /\ OnlyTouches(s) /\ DOMAIN containers' = DOMAIN containers
         /\ \A d \in DOMAIN containers : containers'[d].server = containers[d].server
         /\ Running(c)'
<1>1. containers[c] \in Container
  BY DEF Typed, TypeOK
<1> QED
  BY <1>1 DEF StartedContainer, OnlyTouches, Running, Container

LEMMA StoppedTouches ==
  ASSUME Typed, NEW s, NEW c, c \in DOMAIN containers => containers[c].server = s,
         servers' = servers, containers' = StoppedContainer(containers, c)
  PROVE  /\ OnlyTouches(s) /\ DOMAIN containers' = DOMAIN containers
         /\ \A d \in DOMAIN containers : containers'[d].server = containers[d].server
         /\ ~Running(c)'
<1>1. \A d \in DOMAIN containers : containers[d] \in Container
  BY DEF Typed, TypeOK
<1> QED
  BY <1>1 DEF StoppedContainer, OnlyTouches, Running, Container

LEMMA RemovedTouches ==
  ASSUME Typed, NEW s, NEW c, c \in DOMAIN containers => containers[c].server = s,
         AtMost(s, c),
         servers' = servers, containers' = RemovedContainer(containers, c)
  PROVE  OnlyTouches(s) /\ ~NameTaken(containers, s)'
BY DEF RemovedContainer, Restrict, OnlyTouches, AtMost, NameTaken

\* A call that the Engine carries out, whatever the handler goes on to.
LEMMA CarriedOutSerial ==
  ASSUME Typed, Home, NEW r, Alone(r), Serial(r), pc[r] \notin Early,
         NEW s, s = sid[r], OnlyTouches(s),
         UNCHANGED <<servers, sid, srv, cancelled>>,
         NEW step \in {"volume", "container", "start", "started", "stop", "stopped",
                       "rmvolume", "rmrecord", "remove"},
         pc' = [pc EXCEPT ![r] = step],
         step \in {"volume", "container", "remove", "rmvolume", "rmrecord"} =>
           ~NameTaken(containers, s)',
         step \in {"start", "started", "stop", "stopped"} =>
           AtMost(s, servers[s].cid)' /\ srv[r].cid = servers[s].cid,
         step = "started" => Running(srv[r].cid)',
         step = "stopped" => ~Running(srv[r].cid)'
  PROVE  Serial(r)'
<1>1. /\ r \in Requests /\ s \in DOMAIN servers' /\ Elsewhere(s)'
      /\ sid'[r] = s /\ srv'[r] = srv[r] /\ cancelled' = {}
  BY LateKnows, ElsewhereKept DEF Home
<1>2. pc'[r] = step
  BY <1>1 DEF Typed, TypeOK
<1> QED
  BY <1>1, <1>2 DEF Serial, Working, Early, AtMost, Running

LEMMA StartContainerSerial ==
  ASSUME Typed, Home, NEW r, Alone(r), Serial(r), StartContainer(r)
  PROVE  Serial(r)'
<1> PICK s : s = sid[r]
  OBVIOUS
<1> PICK c : c = srv[r].cid
  OBVIOUS
<1>1. /\ r \in Requests /\ cancelled = {} /\ pc[r] = "start" /\ pc[r] \notin Early
      /\ s \in DOMAIN servers /\ AtMost(s, c) /\ c = servers[s].cid
      /\ c \in DOMAIN containers => containers[c].server = s
  BY LateKnows DEF StartContainer, Early, Working
<1>2. CASE /\ UNCHANGED <<servers, containers, sid, srv, cancelled>>
           /\ pc' = [pc EXCEPT ![r] = "fail"]
  BY <1>1, <1>2, RefusedSerial
<1>3. CASE /\ c \in DOMAIN containers
           /\ Call(r, StartedContainer(containers, c), volumes, "started")
  <2>1. CASE /\ UNCHANGED <<servers, sid, srv, cancelled>>
             /\ containers' = StartedContainer(containers, c)
             /\ pc' = [pc EXCEPT ![r] = "started"]
    <3>1. /\ OnlyTouches(s) /\ DOMAIN containers' = DOMAIN containers
          /\ \A d \in DOMAIN containers : containers'[d].server = containers[d].server
          /\ Running(c)'
      BY <1>1, <1>3, <2>1, StartedTouches
    <3>2. AtMost(s, servers[s].cid)' /\ Running(srv[r].cid)'
      BY <1>1, <2>1, <3>1 DEF AtMost, Running
    <3> QED
      BY <1>1, <2>1, <3>1, <3>2, CarriedOutSerial
  <2> QED
    BY <1>2, <1>3, <2>1, AloneCall
<1>4. CASE /\ c \notin DOMAIN containers
           /\ Answered(r, containers, volumes)
           /\ pc' = [pc EXCEPT ![r] = "remove"] /\ UNCHANGED <<sid, srv, cancelled>>
  <2>1. UNCHANGED <<servers, containers>>
    BY <1>4 DEF Answered, table
  <2>2. OnlyTouches(s) /\ ~NameTaken(containers, s)'
    BY <1>1, <1>4, <2>1 DEF OnlyTouches, AtMost, NameTaken
  <2> QED
    BY <1>1, <1>4, <2>1, <2>2, CarriedOutSerial
<1> QED
  BY <1>2, <1>3, <1>4 DEF StartContainer, Answered, Refused, Goto, table, engine

\* The other calls.
LEMMA CallSerial ==
  ASSUME Typed, Home, NEW r, Alone(r), Serial(r),
         \/ CreateVolume(r) \/ RemoveStale(r) \/ StopContainer(r)
         \/ RemoveContainer(r) \/ RemoveVolume(r)
  PROVE  Serial(r)'
<1> PICK s : s = sid[r]
  OBVIOUS
<1> PICK c : c = srv[r].cid
  OBVIOUS
<1>1. /\ r \in Requests /\ cancelled = {} /\ pc[r] \notin Early
      /\ s \in DOMAIN servers /\ Working(r)
      /\ c \in DOMAIN containers => containers[c].server = s
  BY LateKnows DEF CreateVolume, RemoveStale, StopContainer, RemoveContainer,
     RemoveVolume, Early
<1>2. CASE /\ UNCHANGED <<servers, containers, sid, srv, cancelled>>
           /\ pc' = [pc EXCEPT ![r] = "fail"]
           /\ pc[r] \notin {"save", "setcid"}
  BY <1>1, <1>2, RefusedSerial
<1>3. CASE CreateVolume(r)
  <2>1. CASE /\ UNCHANGED <<servers, containers, sid, srv, cancelled>>
             /\ pc' = [pc EXCEPT ![r] = "container"]
    <3>1. OnlyTouches(s) /\ ~NameTaken(containers, s)'
      BY <1>1, <1>3, <2>1 DEF CreateVolume, Working, OnlyTouches, NameTaken
    <3> QED
      BY <1>1, <2>1, <3>1, CarriedOutSerial
  <2> QED
    BY <1>2, <1>3, <2>1, AloneCall DEF CreateVolume
<1>4. CASE RemoveStale(r)
  <2>1. /\ containers' = RemovedContainer(containers, c) \/ containers' = containers
        /\ UNCHANGED <<servers, sid, srv, cancelled>>
        /\ pc' = [pc EXCEPT ![r] = "volume"]
    BY <1>4 DEF RemoveStale, Answered, Refused, Unheard, Goto, Alone, table, engine
  <2>2. ~NameTaken(containers, s) /\ AtMost(s, c)
    BY <1>1, <1>4 DEF RemoveStale, Working, NameTaken, AtMost
  <2>3. OnlyTouches(s) /\ ~NameTaken(containers, s)'
    <3>1. CASE containers' = RemovedContainer(containers, c)
      BY <1>1, <2>1, <2>2, <3>1, RemovedTouches
    <3>2. CASE containers' = containers
      BY <2>1, <2>2, <3>2 DEF OnlyTouches, NameTaken
    <3> QED
      BY <2>1, <3>1, <3>2
  <2> QED
    BY <1>1, <2>1, <2>3, CarriedOutSerial
<1>5. CASE StopContainer(r)
  <2>1. AtMost(s, c) /\ c = servers[s].cid
    BY <1>1, <1>5 DEF StopContainer, Working
  <2>2. CASE /\ UNCHANGED <<servers, sid, srv, cancelled>>
             /\ containers' = StoppedContainer(containers, c)
             /\ pc' = [pc EXCEPT ![r] = "stopped"]
    <3>1. /\ OnlyTouches(s) /\ DOMAIN containers' = DOMAIN containers
          /\ \A d \in DOMAIN containers : containers'[d].server = containers[d].server
          /\ ~Running(c)'
      BY <1>1, <2>2, StoppedTouches
    <3>2. AtMost(s, servers[s].cid)' /\ ~Running(srv[r].cid)'
      BY <2>1, <2>2, <3>1 DEF AtMost, Running
    <3> QED
      BY <1>1, <2>1, <2>2, <3>1, <3>2, CarriedOutSerial
  <2> QED
    BY <1>2, <1>5, <2>2, AloneCall DEF StopContainer
<1>6. CASE RemoveContainer(r)
  <2>1. AtMost(s, c)
    BY <1>1, <1>6 DEF RemoveContainer, Working
  <2>2. ASSUME UNCHANGED <<servers, sid, srv, cancelled>>,
               containers' = RemovedContainer(containers, c),
               NEW step \in {"rmvolume", "rmrecord"}, pc' = [pc EXCEPT ![r] = step]
        PROVE  Serial(r)'
    <3>1. OnlyTouches(s) /\ ~NameTaken(containers, s)'
      BY <1>1, <2>1, <2>2, RemovedTouches
    <3> QED
      BY <1>1, <2>2, <3>1, CarriedOutSerial
  <2>3. \/ /\ UNCHANGED <<servers, sid, srv, cancelled>>
           /\ containers' = RemovedContainer(containers, c)
           /\ pc' = [pc EXCEPT ![r] = IF op[r] = "wipe" THEN "rmvolume" ELSE "rmrecord"]
        \/ /\ UNCHANGED <<servers, containers, sid, srv, cancelled>>
           /\ pc' = [pc EXCEPT ![r] = "fail"]
    BY <1>6, AloneCall DEF RemoveContainer
  <2> QED
    BY <1>2, <1>6, <2>2, <2>3 DEF RemoveContainer
<1>7. CASE RemoveVolume(r)
  <2>1. ~NameTaken(containers, s)
    BY <1>1, <1>7 DEF RemoveVolume, Working
  <2>2. CASE /\ UNCHANGED <<servers, containers, sid, srv, cancelled>>
             /\ pc' = [pc EXCEPT ![r] = "rmrecord"]
    <3>1. OnlyTouches(s) /\ ~NameTaken(containers, s)'
      BY <2>1, <2>2 DEF OnlyTouches, NameTaken
    <3> QED
      BY <1>1, <2>2, <3>1, CarriedOutSerial
  <2>3. CASE Refused(r) /\ Goto(r, "fail")
    BY <1>2, <1>7, <2>3 DEF RemoveVolume, Refused, Goto, table, engine
  <2>4. CASE Call(r, containers, volumes \ {s}, "rmrecord")
    BY <1>2, <1>7, <2>2, <2>4, AloneCall DEF RemoveVolume
  <2> QED
    BY <1>7, <2>1, <2>3, <2>4 DEF RemoveVolume
<1> QED
  BY <1>3, <1>4, <1>5, <1>6, <1>7
-----------------------------------------------------------------------------
LEMMA SerialInductive ==
  ASSUME NEW r, Alone(r), Typed, Home, Serial(r), [Next]_vars
  PROVE  Serial(r)'
<1>1. CASE Begin(r)
  BY <1>1, BeginSerial
<1>2. CASE Advance(r)
  BY <1>2, EarlySerial, CreateContainerSerial, LastStatementSerial,
     MiddleStatementSerial, StartContainerSerial, CallSerial DEF Advance
<1>3. CASE UNCHANGED vars
  BY <1>3 DEF vars, Serial, Working, Everywhere, Elsewhere, Paired, Settled, AtMost,
     Running
<1>4. ~Environment
  BY DEF Alone, Environment, Cancel, Crash, ExternalRemove
<1> QED
  BY <1>1, <1>2, <1>3, <1>4 DEF Next, Alone

\* One request at a time, whose client waits, and an Engine that may refuse any
\* call: whenever the process is at rest, every container is the one its
\* server's record names, and every record is "error", "starting" with a running
\* container, or "stopped" with none (servers.go, all handlers).
THEOREM SerialRequestsAgree ==
  ASSUME NEW r, Alone(r)
  PROVE  Spec => []SerialAgreement
<1>1. Init => Serial(r)
  BY EmptyFunction DEF Init, Serial, Early, Everywhere, Alone
<1>2. Typed /\ Home /\ Serial(r) /\ [Next]_vars => Serial(r)'
  BY SerialInductive
<1>3. Serial(r) => SerialAgreement
  BY DEF Serial, Everywhere, Paired, Settled, SerialAgreement, AtRest, Alone, Early
<1> QED
  BY <1>1, <1>2, <1>3, AlwaysTyped, AlwaysHome, PTL DEF Spec
-----------------------------------------------------------------------------
(* A delete with deleteData, one request at a time and whatever may fail. *)

\* A delete with deleteData comes to the record with the volume gone, unless its
\* copy names no container.
Emptied(r) ==
  pc[r] = "rmrecord" /\ op[r] = "wipe" => srv[r].cid = None \/ sid[r] \notin volumes

LEMMA AdvanceToRecord ==
  ASSUME Typed, NEW r \in Requests, Advance(r), pc'[r] = "rmrecord"
  PROVE  RemoveContainer(r) \/ RemoveVolume(r)
<1>1. CASE \/ ReadPorts(r) \/ PickPort(r) \/ InsertRecord(r) \/ SaveServer(r)
           \/ RecordFailure(r) \/ SaveContainerID(r) \/ RecordStarted(r)
           \/ TouchActivity(r) \/ MarkStopping(r) \/ RecordStopped(r)
           \/ RemoveRecord(r) \/ UpdateRecord(r)
  BY <1>1 DEF ReadPorts, PickPort, InsertRecord, SaveServer, RecordFailure,
     SaveContainerID, RecordStarted, TouchActivity, MarkStopping, RecordStopped,
     RemoveRecord, UpdateRecord, Goto, Finish, Typed, TypeOK
<1>2. CASE CreateVolume(r) \/ StopContainer(r) \/ RemoveStale(r)
  BY <1>2 DEF CreateVolume, StopContainer, RemoveStale, Call, Unheard, Goto, Typed,
     TypeOK
<1>3. CASE CreateContainer(r) \/ StartContainer(r)
  BY <1>3 DEF CreateContainer, StartContainer, Call, Unheard, Goto, Typed, TypeOK
<1> QED
  BY <1>1, <1>2, <1>3 DEF Advance

LEMMA EmptiedInductive ==
  ASSUME NEW r, Requests = {r}, Typed, Emptied(r), [Next]_vars
  PROVE  Emptied(r)'
<1> SUFFICES ASSUME pc'[r] = "rmrecord", op'[r] = "wipe"
             PROVE  srv'[r].cid = None \/ sid'[r] \notin volumes'
  BY DEF Emptied
<1>1. CASE Begin(r)
  BY <1>1 DEF Begin, BeginCreate, BeginStart, BeginStop, BeginDelete, BeginRename,
     Lookup, Typed, TypeOK
<1>2. CASE Advance(r)
  <2>1. CASE RemoveContainer(r)
    BY <2>1 DEF RemoveContainer, Call, Goto, Unheard, Typed, TypeOK
  <2>2. CASE RemoveVolume(r)
    <3>1. pc' = [pc EXCEPT ![r] = "rmrecord"] \/ pc' = [pc EXCEPT ![r] = "fail"]
      BY <2>2 DEF RemoveVolume, Call, Goto, Unheard
    <3>2. pc' # [pc EXCEPT ![r] = "fail"]
      BY DEF Typed, TypeOK
    <3>3. volumes' = volumes \ {sid[r]} /\ sid' = sid
      BY <2>2, <3>2 DEF RemoveVolume, Call, Answered, Goto, Unheard
    <3> QED
      BY <3>3
  <2> QED
    BY <1>2, <2>1, <2>2, AdvanceToRecord
<1>3. CASE Environment
  <2>1. ~Crash
    BY DEF Crash
  <2>2. UNCHANGED <<volumes, pc, op, sid, srv>>
    BY <1>3, <2>1 DEF Environment, Cancel, ExternalRemove, engine
  <2> QED
    BY <2>2 DEF Emptied
<1>4. CASE UNCHANGED vars
  BY <1>4 DEF vars, Emptied
<1> QED
  BY <1>1, <1>2, <1>3, <1>4 DEF Next

\* One request at a time, whatever is cancelled, refused, removed or killed on
\* the way: a delete with deleteData that removes the record has removed the
\* world, unless the record named no container (handleDeleteServer,
\* servers.go:268-299).
THEOREM WipesLeaveNoWorld ==
  ASSUME NEW q, Requests = {q}
  PROVE  Spec => WipedWorldIsGone
<1> DEFINE Safe ==
      \A r \in Requests :
        Acts(r) /\ op[r] = "wipe" /\ sid[r] \in DOMAIN servers \ DOMAIN servers'
          => srv[r].cid = None \/ sid[r] \notin volumes'
<1>1. Init => Emptied(q)
  BY DEF Init, Emptied
<1>2. Typed /\ Emptied(q) /\ [Next]_vars => Emptied(q)'
  BY EmptiedInductive
<1>3. ASSUME Typed, Emptied(q), Next
      PROVE  Safe
  <2> SUFFICES ASSUME op[q] = "wipe", sid[q] \in DOMAIN servers \ DOMAIN servers'
               PROVE  srv[q].cid = None \/ sid[q] \notin volumes'
    OBVIOUS
  <2>1. Advance(q)
    <3>1. ~Begin(q)
      BY OthersKeepTable
    <3>2. ~Environment
      BY OthersKeepTable
    <3> QED
      BY <1>3, <3>1, <3>2 DEF Next
  <2>2. pc[q] = "rmrecord"
    BY <1>3, <2>1, AdvanceEffect DEF Effect, TableEffect, Rewritten, NewRow
  <2>3. RemoveRecord(q)
    BY <2>1, <2>2 DEF Advance, ReadPorts, PickPort, InsertRecord, CreateVolume,
       CreateContainer, SaveServer, RecordFailure, StartContainer, RemoveStale,
       SaveContainerID, RecordStarted, TouchActivity, MarkStopping, StopContainer,
       RecordStopped, RemoveContainer, RemoveVolume, UpdateRecord
  <2>4. volumes' = volumes
    BY <2>3 DEF RemoveRecord, Write, engine
  <2> QED
    BY <1>3, <2>2, <2>4 DEF Emptied
<1>4. Typed /\ Emptied(q) /\ [Next]_vars => [Safe]_vars
  BY <1>3
<1>5. Spec => []Emptied(q)
  BY <1>1, <1>2, AlwaysTyped, PTL DEF Spec
<1>6. Spec => [][Safe]_vars
  BY <1>4, <1>5, AlwaysTyped, PTL DEF Spec
<1> QED
  BY <1>6, PTL DEF WipedWorldIsGone
=============================================================================
