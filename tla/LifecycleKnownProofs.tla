------------------------ MODULE LifecycleKnownProofs ------------------------
(***************************************************************************)
(* Proofs about Lifecycle when clients wait for their answers, nobody      *)
(* renames and the Engine may refuse any call: however many requests race, *)
(* no container of a live server is lost sight of.                         *)
(***************************************************************************)
EXTENDS LifecycleProofs

Waited == Faults \subseteq {"docker"} /\ "rename" \notin Handlers

\* The steps of a handler that has made a container and not saved its id.
Holding == {"save", "setcid"}

\* A handler that has made a container is the only one that knows its id.
HeldAlone ==
  \A r \in Requests : pc[r] \in Holding =>
    /\ srv[r].cid \in DOMAIN containers
    /\ \A s \in DOMAIN servers : servers[s].cid # srv[r].cid
    /\ \A q \in Requests \ {r} : srv[q].cid # srv[r].cid

\* The Engine's names: a server has one container at most.
OnePerServer ==
  \A c, d \in DOMAIN containers : containers[c].server = containers[d].server => c = d

\* LiveContainersAreKnown is not inductive: an id written to a record could hide
\* another container of that server, and the removal of a container could leave
\* a handler holding the id of one that is gone.
InSight ==
  /\ cancelled = {} /\ \A r \in Requests : pc[r] # "update"
  /\ HeldAlone /\ OnePerServer /\ LiveContainersAreKnown
-----------------------------------------------------------------------------
(* What a step does to the ids. *)

LEMMA ZeroStructNamesNone == ZeroStruct.cid = None
BY DEF ZeroStruct

\* No record's container id changes; one that appears names no container.
SameIds ==
  \A s \in DOMAIN servers' :
    \/ s \in DOMAIN servers /\ servers'[s].cid = servers[s].cid
    \/ s \notin minted /\ servers'[s].cid = None

LEMMA StatusKeepsIds ==
  ASSUME Typed, NEW r, NEW status, Write(r, SetStatus(servers, sid[r], status))
  PROVE  SameIds
<1>1. servers' = servers \/ servers' = SetStatus(servers, sid[r], status)
  BY DEF Write
<1>2. \A s \in DOMAIN servers : servers[s] \in Row
  BY DEF Typed, TypeOK
<1> QED
  BY <1>1, <1>2 DEF SameIds, SetStatus, Row

LEMMA AdvanceKeepsIds ==
  ASSUME Typed, NEW r \in Requests, Advance(r), pc[r] \notin Holding \cup {"update"}
  PROVE  SameIds
<1>1. CASE \/ RecordFailure(r) \/ RecordStarted(r) \/ MarkStopping(r) \/ RecordStopped(r)
  BY <1>1, StatusKeepsIds DEF RecordFailure, RecordStarted, MarkStopping, RecordStopped
<1>2. CASE RemoveRecord(r)
  BY <1>2 DEF RemoveRecord, Write, DeleteServer, Restrict, SameIds
<1>3. CASE InsertRecord(r)
  <2>1. srv[r].cid = None
    BY <1>3 DEF InsertRecord, Typed, LocalsOK, Early
  <2> QED
    <3>1. \/ servers' = servers
          \/ \E s \in ServerIds \ minted : servers' = NewRow(servers, s, srv[r])
      BY <1>3 DEF InsertRecord, table
    <3> QED
      BY <2>1, <3>1 DEF NewRow, SameIds
<1>4. CASE \/ ReadPorts(r) \/ PickPort(r) \/ TouchActivity(r) \/ CreateContainer(r)
           \/ StartContainer(r) \/ RemoveStale(r) \/ RemoveVolume(r)
  <2>1. servers' = servers
    BY <1>4 DEF ReadPorts, PickPort, TouchActivity, CreateContainer, StartContainer,
       RemoveStale, RemoveVolume, Call, Answered, Refused, Unheard, table
  <2> QED
    BY <2>1 DEF SameIds
<1>5. CASE CreateVolume(r) \/ StopContainer(r) \/ RemoveContainer(r)
  <2>1. servers' = servers
    BY <1>5 DEF CreateVolume, StopContainer, RemoveContainer, Call, Answered, Refused,
       Unheard, table
  <2> QED
    BY <2>1 DEF SameIds
<1>6. CASE SaveServer(r) \/ SaveContainerID(r) \/ UpdateRecord(r)
  BY <1>6 DEF SaveServer, SaveContainerID, UpdateRecord, Holding
<1> QED
  BY <1>1, <1>2, <1>3, <1>4, <1>5, <1>6 DEF Advance

\* Only the making of a container leads to the saving of its id, and only a
\* rename to a rename's statement.
LEMMA AdvanceLeadsNowhere ==
  ASSUME Typed, NEW r \in Requests, Advance(r), ~CreateContainer(r)
  PROVE  pc'[r] \notin Holding \cup {"update"}
<1>1. CASE \/ ReadPorts(r) \/ PickPort(r) \/ InsertRecord(r) \/ SaveServer(r)
           \/ RecordFailure(r) \/ SaveContainerID(r) \/ RecordStarted(r)
           \/ TouchActivity(r) \/ MarkStopping(r) \/ RecordStopped(r)
           \/ RemoveRecord(r) \/ UpdateRecord(r)
  BY <1>1 DEF ReadPorts, PickPort, InsertRecord, SaveServer, RecordFailure,
     SaveContainerID, RecordStarted, TouchActivity, MarkStopping, RecordStopped,
     RemoveRecord, UpdateRecord, Goto, Finish, Typed, TypeOK, Holding
<1>2. CASE CreateVolume(r) \/ StopContainer(r) \/ RemoveStale(r)
  BY <1>2 DEF CreateVolume, StopContainer, RemoveStale, Call, Unheard, Goto, Typed,
     TypeOK, Holding
<1>3. CASE StartContainer(r) \/ RemoveContainer(r) \/ RemoveVolume(r)
  BY <1>3 DEF StartContainer, RemoveContainer, RemoveVolume, Call, Unheard, Goto,
     Typed, TypeOK, Holding
<1> QED
  BY <1>1, <1>2, <1>3 DEF Advance

LEMMA AdvanceKeepsContexts ==
  ASSUME Waited, cancelled = {}, NEW r \in Requests, Advance(r)
  PROVE  cancelled' = {}
<1>1. CASE \/ ReadPorts(r) \/ PickPort(r) \/ InsertRecord(r) \/ SaveServer(r)
           \/ RecordFailure(r) \/ SaveContainerID(r) \/ RecordStarted(r)
           \/ TouchActivity(r) \/ MarkStopping(r) \/ RecordStopped(r)
           \/ RemoveRecord(r) \/ UpdateRecord(r)
  BY <1>1 DEF ReadPorts, PickPort, InsertRecord, SaveServer, RecordFailure,
     SaveContainerID, RecordStarted, TouchActivity, MarkStopping, RecordStopped,
     RemoveRecord, UpdateRecord, Goto, Finish
<1>2. CASE \/ CreateVolume(r) \/ StopContainer(r) \/ RemoveStale(r) \/ CreateContainer(r)
           \/ StartContainer(r) \/ RemoveContainer(r) \/ RemoveVolume(r)
  BY <1>2 DEF CreateVolume, StopContainer, RemoveStale, CreateContainer,
     StartContainer, RemoveContainer, RemoveVolume, Call, Unheard, Goto, Waited
<1> QED
  BY <1>1, <1>2 DEF Advance
-----------------------------------------------------------------------------
(* One step. *)

\* A step of r that makes no container, gives no record another id, and leads r
\* to no saving of one.
LEMMA QuietInSight ==
  ASSUME Typed, Home, InSight, NEW r \in Requests, pc[r] \notin Holding, SameIds,
         DOMAIN containers' \subseteq DOMAIN containers,
         \A c \in DOMAIN containers' : containers'[c].server = containers[c].server,
         \A c \in DOMAIN containers \ DOMAIN containers' : c = srv[r].cid,
         \A q \in Requests \ {r} :
           pc'[q] = pc[q] /\ sid'[q] = sid[q] /\ srv'[q] = srv[q],
         pc'[r] \notin Holding \cup {"update"}, cancelled' = {},
         \/ srv'[r].cid \in {srv[r].cid, None}
         \/ \E s \in DOMAIN servers : srv'[r].cid = servers[s].cid
  PROVE  InSight'
<1>1. None \notin DOMAIN containers
  BY NoneAssumption DEF Typed, TypeOK
<1>2. HeldAlone'
  <2> SUFFICES ASSUME NEW q \in Requests, pc'[q] \in Holding
               PROVE  /\ srv'[q].cid \in DOMAIN containers'
                      /\ \A s \in DOMAIN servers' : servers'[s].cid # srv'[q].cid
                      /\ \A p \in Requests \ {q} : srv'[p].cid # srv'[q].cid
    BY DEF HeldAlone
  <2>1. /\ q # r /\ pc[q] \in Holding /\ srv'[q] = srv[q]
        /\ srv[q].cid \in DOMAIN containers /\ srv[q].cid # srv[r].cid
        /\ \A s \in DOMAIN servers : servers[s].cid # srv[q].cid
        /\ \A p \in Requests \ {q} : srv[p].cid # srv[q].cid
    BY DEF InSight, HeldAlone
  <2>2. srv'[q].cid \in DOMAIN containers'
    BY <2>1
  <2>3. \A s \in DOMAIN servers' : servers'[s].cid # srv'[q].cid
    BY <1>1, <2>1 DEF SameIds
  <2>4. \A p \in Requests \ {q} : srv'[p].cid # srv'[q].cid
    BY <1>1, <2>1
  <2> QED
    BY <2>2, <2>3, <2>4
<1>3. OnePerServer'
  BY DEF InSight, OnePerServer
<1>4. LiveContainersAreKnown'
  <2> SUFFICES ASSUME NEW c \in DOMAIN containers',
                      NEW s, s = containers'[c].server, s \in DOMAIN servers'
               PROVE  \/ servers'[s].cid = c
                      \/ \E q \in Requests : /\ pc'[q] \in Holding
                                             /\ sid'[q] = s /\ srv'[q].cid = c
    BY DEF LiveContainersAreKnown, Holding
  <2>1. s = containers[c].server /\ c \in DOMAIN containers /\ s \in minted
    BY DEF Home, ContainersAreMinted
  <2>2. s \in DOMAIN servers /\ servers'[s].cid = servers[s].cid
    BY <2>1 DEF SameIds
  <2>3. CASE servers[s].cid = c
    BY <2>2, <2>3
  <2>4. ASSUME NEW q \in Requests, pc[q] \in Holding, sid[q] = s, srv[q].cid = c
        PROVE  pc'[q] \in Holding /\ sid'[q] = s /\ srv'[q].cid = c
    BY <2>4
  <2> QED
    BY <2>1, <2>2, <2>3, <2>4 DEF InSight, LiveContainersAreKnown, Holding
<1>5. \A q \in Requests : pc'[q] # "update"
  BY DEF InSight
<1> QED
  BY <1>2, <1>3, <1>4, <1>5 DEF InSight

\* A container is made: nobody has its id, and its server had none.
LEMMA CreatedInSight ==
  ASSUME Typed, Home, InSight, NEW r \in Requests, pc[r] = "container",
         NEW c \in ContainerIds \ UsedContainerIds, ~NameTaken(containers, sid[r]),
         containers' = CreatedContainer(containers, c, sid[r], srv[r].port),
         servers' = servers, cancelled' = {}, sid' = sid, srv'[r].cid = c,
         pc'[r] \in Holding,
         \A q \in Requests \ {r} : pc'[q] = pc[q] /\ srv'[q] = srv[q]
  PROVE  InSight'
<1>1. /\ c \notin DOMAIN containers /\ \A q \in Requests : srv[q].cid # c
      /\ \A s \in DOMAIN servers : servers[s].cid # c
  BY DEF UsedContainerIds
<1>2. /\ DOMAIN containers' = DOMAIN containers \cup {c}
      /\ containers'[c].server = sid[r]
      /\ \A d \in DOMAIN containers : containers'[d] = containers[d]
  BY <1>1 DEF CreatedContainer
<1>3. HeldAlone'
  BY <1>1, <1>2 DEF InSight, HeldAlone
<1>4. OnePerServer'
  BY <1>1, <1>2 DEF InSight, OnePerServer, NameTaken
<1>5. ASSUME NEW d \in DOMAIN containers',
             NEW s, s = containers'[d].server, s \in DOMAIN servers'
      PROVE  \/ servers'[s].cid = d
             \/ \E q \in Requests : /\ pc'[q] \in Holding
                                    /\ sid'[q] = s /\ srv'[q].cid = d
  <2>1. CASE d = c
    BY <1>2, <1>5, <2>1
  <2>2. CASE d # c
    <3>1. d \in DOMAIN containers /\ s = containers[d].server /\ s \in DOMAIN servers
      BY <1>2, <1>5, <2>2
    <3>2. \/ servers[s].cid = d
          \/ \E q \in Requests : /\ pc[q] \in Holding
                                 /\ sid[q] = s /\ srv[q].cid = d
      BY <3>1 DEF InSight, LiveContainersAreKnown, Holding
    <3>3. pc[r] \notin Holding
      BY DEF Holding
    <3> QED
      BY <3>2, <3>3
  <2> QED
    BY <2>1, <2>2
<1>6. LiveContainersAreKnown'
  BY <1>5 DEF LiveContainersAreKnown, Holding
<1>7. \A q \in Requests : pc'[q] # "update"
  BY DEF InSight, Holding
<1> QED
  BY <1>3, <1>4, <1>6, <1>7 DEF InSight

\* The id is saved: the record names the one container of its server.
LEMMA SavedInSight ==
  ASSUME Typed, Home, InSight, NEW r \in Requests, pc[r] \in Holding,
         containers' = containers, DOMAIN servers' = DOMAIN servers,
         \A s \in DOMAIN servers :
           servers'[s].cid = IF s = sid[r] THEN srv[r].cid ELSE servers[s].cid,
         \A q \in Requests \ {r} :
           pc'[q] = pc[q] /\ sid'[q] = sid[q] /\ srv'[q] = srv[q],
         pc'[r] \notin Holding \cup {"update"}, cancelled' = {},
         srv'[r].cid \in {srv[r].cid, None}
  PROVE  InSight'
<1>0. None \notin DOMAIN containers
  BY NoneAssumption DEF Typed, TypeOK
<1>1. srv[r].cid \in DOMAIN containers /\ containers[srv[r].cid].server = sid[r]
  BY DEF InSight, HeldAlone, Home, CopiesPointHome, Holding, Early
<1>2. HeldAlone'
  BY <1>0 DEF InSight, HeldAlone
<1>3. OnePerServer'
  BY DEF InSight, OnePerServer
<1>4. ASSUME NEW c \in DOMAIN containers',
             NEW s, s = containers'[c].server, s \in DOMAIN servers'
      PROVE  \/ servers'[s].cid = c
             \/ \E q \in Requests : /\ pc'[q] \in Holding
                                    /\ sid'[q] = s /\ srv'[q].cid = c
  <2>1. CASE s = sid[r]
    <3>1. c \in DOMAIN containers /\ containers[c].server = containers[srv[r].cid].server
      BY <1>1, <1>4, <2>1
    <3>2. c = srv[r].cid
      BY <1>1, <3>1 DEF InSight, OnePerServer
    <3> QED
      BY <1>4, <2>1, <3>2
  <2>2. CASE s # sid[r]
    <3>1. \/ servers[s].cid = c
          \/ \E q \in Requests : /\ pc[q] \in Holding
                                 /\ sid[q] = s /\ srv[q].cid = c
      BY <1>4 DEF InSight, LiveContainersAreKnown, Holding
    <3> QED
      BY <1>4, <2>2, <3>1
  <2> QED
    BY <2>1, <2>2
<1>5. LiveContainersAreKnown'
  BY <1>4 DEF LiveContainersAreKnown, Holding
<1>6. \A q \in Requests : pc'[q] # "update"
  BY DEF InSight
<1> QED
  BY <1>2, <1>3, <1>5, <1>6 DEF InSight

LEMMA BeginInSight ==
  ASSUME Waited, Typed, Home, InSight, NEW r \in Requests, Begin(r)
  PROVE  InSight'
<1>1. /\ UNCHANGED <<servers, containers, cancelled>> /\ pc[r] = "idle"
      /\ \A q \in Requests \ {r} :
           pc'[q] = pc[q] /\ sid'[q] = sid[q] /\ srv'[q] = srv[q]
  BY DEF Begin, BeginCreate, BeginStart, BeginStop, BeginDelete, BeginRename, Lookup,
     table, engine, Typed, TypeOK
<1>2. SameIds /\ cancelled' = {} /\ pc[r] \notin Holding
  BY <1>1 DEF SameIds, InSight, Holding
<1>3. pc'[r] \notin Holding \cup {"update"}
  BY DEF Waited, Begin, BeginCreate, BeginStart, BeginStop, BeginDelete, BeginRename,
     Lookup, Holding, Typed, TypeOK
<1>4. \/ srv'[r].cid = None
      \/ \E s \in DOMAIN servers : srv'[r].cid = servers[s].cid
  <2>1. ASSUME NEW u \in Users, NEW name \in Names, BeginCreate(r, u, name)
        PROVE  srv'[r].cid = None
    <3>1. srv'[r] = [ZeroStruct EXCEPT !.owner = u, !.name = name,
                                       !.status = "creating"]
      BY <2>1 DEF BeginCreate, Typed, TypeOK
    <3> QED
      BY <3>1 DEF ZeroStruct
  <2>2. ASSUME NEW s \in DOMAIN servers,
               \/ BeginStart(r, s) \/ BeginStop(r, s)
               \/ \E handler \in {"delete", "wipe"} : BeginDelete(r, s, handler)
        PROVE  srv'[r].cid = servers[s].cid
    BY <2>2 DEF BeginStart, BeginStop, BeginDelete, Typed, TypeOK
  <2>3. ASSUME NEW s \in DOMAIN servers, NEW name \in Names, BeginRename(r, s, name)
        PROVE  FALSE
    BY <2>3 DEF BeginRename, Lookup, Waited
  <2> QED
    BY <2>1, <2>2, <2>3 DEF Begin
<1> QED
  BY <1>1, <1>2, <1>3, <1>4, QuietInSight

LEMMA SaveInSight ==
  ASSUME Waited, Typed, Home, InSight, NEW r \in Requests,
         SaveServer(r) \/ SaveContainerID(r)
  PROVE  InSight'
<1>1. /\ pc[r] \in Holding /\ srv[r] \in Row /\ Advance(r)
      /\ ~CreateContainer(r)
  BY DEF SaveServer, SaveContainerID, CreateContainer, Holding, Typed, LocalsOK,
     Early, Advance
<1>2. /\ containers' = containers
      /\ \/ servers' = UpdateServer(servers, sid[r], srv[r])
         \/ servers' = SetContainerID(servers, sid[r], srv[r].cid)
  BY DEF SaveServer, SaveContainerID, Write, StoreFails, InSight, Waited, engine
<1>3. /\ DOMAIN servers' = DOMAIN servers
      /\ \A s \in DOMAIN servers :
           servers'[s].cid = IF s = sid[r] THEN srv[r].cid ELSE servers[s].cid
  BY <1>2 DEF UpdateServer, SetContainerID, Typed, TypeOK, Row
<1>4. srv'[r].cid \in {srv[r].cid, None}
  BY ZeroStructNamesNone
     DEF SaveServer, SaveContainerID, Finish, Goto, Typed, TypeOK
<1>5. \A q \in Requests \ {r} :
        pc'[q] = pc[q] /\ sid'[q] = sid[q] /\ srv'[q] = srv[q]
  BY <1>1, AdvanceEffect DEF Effect, LocalEffect
<1>6. pc'[r] \notin Holding \cup {"update"} /\ cancelled' = {}
  BY <1>1, AdvanceLeadsNowhere, AdvanceKeepsContexts DEF InSight
<1> QED
  BY <1>1, <1>2, <1>3, <1>4, <1>5, <1>6, SavedInSight

LEMMA CreateInSight ==
  ASSUME Waited, Typed, Home, InSight, NEW r \in Requests, CreateContainer(r)
  PROVE  InSight'
<1>1. /\ pc[r] = "container" /\ srv[r] \in Row /\ Advance(r) /\ cancelled' = {}
      /\ pc[r] \notin Holding
  BY AdvanceKeepsContexts
     DEF CreateContainer, Typed, LocalsOK, Early, Advance, Holding, InSight
<1>2. CASE Goto(r, "fail") /\ UNCHANGED <<servers, containers>>
  BY <1>1, <1>2, QuietInSight DEF Goto, SameIds, Holding, Typed, TypeOK
<1>3. CASE ~(Goto(r, "fail") /\ UNCHANGED <<servers, containers>>)
  <2>1. /\ ~NameTaken(containers, sid[r])
        /\ \E c \in ContainerIds \ UsedContainerIds :
             /\ containers' = CreatedContainer(containers, c, sid[r], srv[r].port)
             /\ srv' = [srv EXCEPT ![r].cid = c,
                  ![r].status = IF op[r] = "create" THEN "stopped" ELSE @]
             /\ pc' = [pc EXCEPT
                  ![r] = IF op[r] = "create" THEN "save" ELSE "setcid"]
             /\ UNCHANGED <<servers, sid>>
    BY <1>3 DEF CreateContainer, Answered, Refused, Unheard, table, engine, Waited
  <2>2. PICK c \in ContainerIds \ UsedContainerIds :
             /\ containers' = CreatedContainer(containers, c, sid[r], srv[r].port)
             /\ srv' = [srv EXCEPT ![r].cid = c,
                  ![r].status = IF op[r] = "create" THEN "stopped" ELSE @]
             /\ pc' = [pc EXCEPT
                  ![r] = IF op[r] = "create" THEN "save" ELSE "setcid"]
             /\ UNCHANGED <<servers, sid>>
    BY <2>1
  <2>3. srv'[r].cid = c /\ \A q \in Requests \ {r} : srv'[q] = srv[q]
    BY <1>1, <2>2 DEF Typed, TypeOK, Struct
  <2>4. pc'[r] \in Holding /\ \A q \in Requests \ {r} : pc'[q] = pc[q]
    BY <2>2 DEF Typed, TypeOK, Holding
  <2> QED
    BY <1>1, <2>1, <2>2, <2>3, <2>4, CreatedInSight
<1> QED
  BY <1>2, <1>3

LEMMA AdvanceInSight ==
  ASSUME Waited, Typed, Home, InSight, NEW r \in Requests, Advance(r)
  PROVE  InSight'
<1>1. CASE SaveServer(r) \/ SaveContainerID(r)
  BY <1>1, SaveInSight
<1>2. CASE CreateContainer(r)
  BY <1>2, CreateInSight
<1>3. CASE ~(SaveServer(r) \/ SaveContainerID(r) \/ CreateContainer(r))
  <2>1. pc[r] \notin Holding \cup {"update", "container"}
    BY <1>3 DEF InSight, Holding, Advance, ReadPorts, PickPort, InsertRecord,
       CreateVolume, RecordFailure, StartContainer, RemoveStale, RecordStarted,
       TouchActivity, MarkStopping, StopContainer, RecordStopped, RemoveContainer,
       RemoveVolume, RemoveRecord, UpdateRecord
  <2>2. /\ SameIds /\ cancelled' = {} /\ pc'[r] \notin Holding \cup {"update"}
        /\ EngineEffect(r) /\ LocalEffect(r)
    BY <1>3, <2>1, AdvanceKeepsIds, AdvanceKeepsContexts, AdvanceLeadsNowhere,
       AdvanceEffect DEF Effect, InSight
  <2>3. /\ DOMAIN containers' \subseteq DOMAIN containers
        /\ \A c \in DOMAIN containers' : containers'[c].server = containers[c].server
        /\ \A c \in DOMAIN containers \ DOMAIN containers' : c = srv[r].cid
    BY <2>1, <2>2 DEF EngineEffect, StartedContainer, StoppedContainer,
       RemovedContainer, Restrict, Typed, TypeOK, Container
  <2>4. srv'[r].cid \in {srv[r].cid, None}
    <3>1. Typed'
      BY AdvanceTyped
    <3>2. pc'[r] \in Early => srv'[r].cid = None
      BY <3>1, ZeroStructNamesNone DEF Typed, LocalsOK, Early
    <3>3. pc[r] = "insert" => srv'[r].cid \in {srv[r].cid, None}
      BY <1>3, <3>2, AdvanceEffect DEF Effect, TableEffect, LocalEffect, Early
    <3> QED
      BY <2>1, <2>2, <3>2, <3>3 DEF LocalEffect
  <2>5. \A q \in Requests \ {r} :
          pc'[q] = pc[q] /\ sid'[q] = sid[q] /\ srv'[q] = srv[q]
    BY <2>2 DEF LocalEffect
  <2> QED
    BY <2>1, <2>2, <2>3, <2>4, <2>5, QuietInSight
<1> QED
  BY <1>1, <1>2, <1>3

\* While clients wait for their answers and nobody renames, creates, starts,
\* stops and deletes may race in any number and the Engine may refuse any call:
\* a container of a live server is named by its record, or is in the hands of the
\* one request that made it and is about to save its id (servers.go, all handlers).
THEOREM ContainersStayKnown ==
  ASSUME Waited
  PROVE  Spec => []LiveContainersAreKnown
<1>1. Init => InSight
  BY EmptyFunction
     DEF Init, InSight, HeldAlone, OnePerServer, LiveContainersAreKnown, Holding
<1>2. ASSUME Typed, Home, InSight, [Next]_vars
      PROVE  InSight'
  <2>1. CASE UNCHANGED vars
    BY <1>2, <2>1 DEF vars, InSight, HeldAlone, OnePerServer, LiveContainersAreKnown
  <2>2. ~Environment
    BY DEF Waited, Environment, Cancel, Crash, ExternalRemove
  <2> QED
    BY <1>2, <2>1, <2>2, BeginInSight, AdvanceInSight DEF Next
<1>3. InSight => LiveContainersAreKnown
  BY DEF InSight
<1> QED
  BY <1>1, <1>2, <1>3, AlwaysTyped, AlwaysHome, PTL DEF Spec
=============================================================================
