-------------------------- MODULE LifecycleProofs --------------------------
(***************************************************************************)
(* Proofs about Lifecycle, for every value of its constants.               *)
(***************************************************************************)
EXTENDS Lifecycle, FiniteSetTheorems, TLAPS

\* The steps of a handler that has not got a record yet.
Early == {"idle", "allocate", "probe", "insert"}

\* A handler's locals: nothing while idle; the new record's columns while a
\* create looks for a port; from then on a whole row, for an id that was drawn.
LocalsOK ==
  \A r \in Requests :
    /\ pc[r] = "idle" => sid[r] = None /\ srv[r] = ZeroStruct
    /\ pc[r] \in Early \ {"idle"} =>
         /\ sid[r] = None /\ srv[r].owner \in Users /\ srv[r].name \in Names
         /\ srv[r].status = "creating" /\ srv[r].cid = None
    /\ pc[r] = "insert" => srv[r].port \in Ports
    /\ pc[r] \notin Early => sid[r] \in minted /\ srv[r] \in Row

Typed == TypeOK /\ LocalsOK
-----------------------------------------------------------------------------
(* What the statements do to a table of rows. *)

\* new is old with the row of id rewritten: its port stays and its cid is the
\* old one or c.
Rewritten(old, new, id, c) ==
  /\ DOMAIN new = DOMAIN old /\ new \in [DOMAIN old -> Row]
  /\ \A s \in DOMAIN old :
       /\ new[s].port = old[s].port
       /\ new[s].cid = old[s].cid \/ (s = id /\ new[s].cid = c)

LEMMA UpdateServerRewrites ==
  ASSUME NEW rows, rows \in [DOMAIN rows -> Row], NEW id, NEW row \in Row
  PROVE  Rewritten(rows, UpdateServer(rows, id, row), id, row.cid)
BY DEF Rewritten, UpdateServer, Row

LEMMA SetStatusRewrites ==
  ASSUME NEW rows, rows \in [DOMAIN rows -> Row], NEW id, NEW c,
         NEW status \in Status
  PROVE  Rewritten(rows, SetStatus(rows, id, status), id, c)
BY DEF Rewritten, SetStatus, Row

LEMMA SetContainerIDRewrites ==
  ASSUME NEW rows, rows \in [DOMAIN rows -> Row], NEW id,
         NEW c \in ContainerIds \cup {None}
  PROVE  Rewritten(rows, SetContainerID(rows, id, c), id, c)
BY DEF Rewritten, SetContainerID, Row

LEMMA EmptyFunction == ASSUME NEW S PROVE DOMAIN << >> = {} /\ << >> \in [{} -> S]
OBVIOUS

LEMMA InitTyped == Init => Typed
<1> SUFFICES ASSUME Init PROVE Typed
  OBVIOUS
<1>1. /\ DOMAIN servers = {} /\ servers \in [DOMAIN servers -> Row]
      /\ DOMAIN containers = {} /\ containers \in [DOMAIN containers -> Container]
  BY EmptyFunction DEF Init
<1>2. ZeroStruct \in Struct
  BY DEF ZeroStruct, Struct
<1>3. TypeOK
  BY <1>1, <1>2 DEF Init, TypeOK, Step, Op
<1>4. LocalsOK
  BY DEF Init, LocalsOK, Early
<1> QED
  BY <1>3, <1>4 DEF Typed

-----------------------------------------------------------------------------
(* Type correctness. *)

\* A statement that rewrites one row.
LEMMA WriteKeepsRows ==
  ASSUME Typed, NEW r \in Requests, NEW rows, NEW id, NEW c,
         Rewritten(servers, rows, id, c), Write(r, rows)
  PROVE  /\ Rewritten(servers, servers', id, c)
         /\ UNCHANGED <<minted, containers, volumes, mu, claimed>>
BY DEF Typed, TypeOK, Rewritten, Write, engine, lock

\* The end of a handler, or its next step, when the registry has at most one
\* row rewritten and the Engine is as it was.
LEMMA FinishTyped ==
  ASSUME Typed, NEW r \in Requests, NEW id, NEW c,
         Rewritten(servers, servers', id, c),
         UNCHANGED <<minted, containers, volumes, mu, claimed>>, Finish(r)
  PROVE  Typed'
<1>1. ZeroStruct \in Struct
  BY DEF ZeroStruct, Struct
<1>2. TypeOK'
  BY <1>1 DEF Typed, TypeOK, Rewritten, Finish, Step, Op
<1>3. LocalsOK'
  BY DEF Typed, TypeOK, LocalsOK, Finish, Early
<1> QED
  BY <1>2, <1>3 DEF Typed

LEMMA GotoTyped ==
  ASSUME Typed, NEW r \in Requests, NEW id, NEW c, NEW step \in Step \ Early,
         pc[r] \notin Early, Rewritten(servers, servers', id, c),
         UNCHANGED <<minted, containers, volumes, mu, claimed>>, Goto(r, step)
  PROVE  Typed'
<1>1. TypeOK'
  BY DEF Typed, TypeOK, Rewritten, Goto
<1>2. LocalsOK'
  BY DEF Typed, TypeOK, LocalsOK, Goto, Early
<1> QED
  BY <1>1, <1>2 DEF Typed

\* What the Engine's operators make of a set of containers.
LEMMA EngineTypes ==
  ASSUME NEW cs, cs \in [DOMAIN cs -> Container], DOMAIN cs \subseteq ContainerIds,
         NEW c \in ContainerIds, NEW s \in ServerIds, NEW p \in Ports, NEW d
  PROVE  /\ CreatedContainer(cs, c, s, p) \in [DOMAIN cs \cup {c} -> Container]
         /\ StartedContainer(cs, d) \in [DOMAIN cs -> Container]
         /\ StoppedContainer(cs, d) \in [DOMAIN cs -> Container]
         /\ RemovedContainer(cs, d) \in [DOMAIN cs \ {d} -> Container]
<1>1. CreatedContainer(cs, c, s, p) \in [DOMAIN cs \cup {c} -> Container]
  BY DEF CreatedContainer, Container
<1>2. StartedContainer(cs, d) \in [DOMAIN cs -> Container]
  BY DEF StartedContainer, Container
<1>3. StoppedContainer(cs, d) \in [DOMAIN cs -> Container]
  BY DEF StoppedContainer, Container
<1>4. RemovedContainer(cs, d) \in [DOMAIN cs \ {d} -> Container]
  BY DEF RemovedContainer, Restrict, Container
<1> QED
  BY <1>1, <1>2, <1>3, <1>4

LEMMA CallTyped ==
  ASSUME Typed, NEW r \in Requests, pc[r] \notin Early, NEW cs, NEW vs,
         NEW step \in Step \ Early, cs \in [DOMAIN cs -> Container],
         DOMAIN cs \subseteq ContainerIds, vs \subseteq ServerIds,
         Call(r, cs, vs, step)
  PROVE  Typed'
<1>1. /\ UNCHANGED <<servers, minted, mu, claimed, op, sid, srv>>
      /\ \/ containers' = cs /\ volumes' = vs
         \/ UNCHANGED <<containers, volumes>>
      /\ \E t \in {step, "fail"} : pc' = [pc EXCEPT ![r] = t]
      /\ cancelled' \subseteq cancelled \cup {r}
  BY DEF Call, Answered, Refused, Unheard, Goto, table, lock, engine
<1>2. TypeOK'
  BY <1>1 DEF Typed, TypeOK, Step
<1>3. LocalsOK'
  BY <1>1 DEF Typed, TypeOK, LocalsOK, Early, Step
<1> QED
  BY <1>2, <1>3 DEF Typed

\* lookup hands the handler a copy of a whole row.
LEMMA LookupTyped ==
  ASSUME Typed, NEW r \in Requests, NEW s, NEW handler \in Handler,
         NEW step \in Step \ Early, NEW row \in Row,
         Lookup(r, s, handler, step), srv' = [srv EXCEPT ![r] = row]
  PROVE  Typed'
<1>1. row \in Struct
  BY DEF Row, Struct
<1>2. /\ UNCHANGED <<servers, minted, containers, volumes, mu, claimed, cancelled>>
      /\ pc' = [pc EXCEPT ![r] = step] /\ op' = [op EXCEPT ![r] = handler]
      /\ sid' = [sid EXCEPT ![r] = s] /\ s \in minted /\ s \in ServerIds
  BY DEF Lookup, table, engine, lock, Typed, TypeOK
<1>3. TypeOK'
  BY <1>1, <1>2 DEF Typed, TypeOK, Op
<1>4. LocalsOK'
  BY <1>2 DEF Typed, TypeOK, LocalsOK, Early
<1> QED
  BY <1>3, <1>4 DEF Typed

\* The steps of a create up to its insert.
LEMMA EarlyTyped ==
  ASSUME Typed, NEW r \in Requests,
         \/ \E u \in Users, name \in Names : BeginCreate(r, u, name)
         \/ ReadPorts(r) \/ PickPort(r) \/ InsertRecord(r)
  PROVE  Typed'
<1>0. ZeroStruct \in Struct
  BY DEF ZeroStruct, Struct
<1>1. ASSUME NEW u \in Users, NEW name \in Names, BeginCreate(r, u, name)
      PROVE  Typed'
  <2> DEFINE new == [ZeroStruct EXCEPT !.owner = u, !.name = name,
                                       !.status = "creating"]
  <2>1. /\ UNCHANGED <<servers, minted, containers, volumes, mu, claimed, sid,
                       cancelled>>
        /\ pc[r] = "idle" /\ pc' = [pc EXCEPT ![r] = "allocate"]
        /\ op' = [op EXCEPT ![r] = "create"]
    BY <1>1 DEF BeginCreate, table, engine, lock
  <2>2. /\ new \in Struct /\ new.cid = None
        /\ new.owner = u /\ new.name = name /\ new.status = "creating"
    BY DEF Struct, Status, ZeroStruct
  <2>3. srv' = [srv EXCEPT ![r] = new]
    BY <1>1 DEF BeginCreate
  <2> HIDE DEF new
  <2>4. TypeOK'
    BY <2>1, <2>2, <2>3 DEF Typed, TypeOK, Step, Op, Handler
  <2>5. LocalsOK'
    BY <2>1, <2>2, <2>3 DEF Typed, TypeOK, LocalsOK, Early
  <2> QED
    BY <2>4, <2>5 DEF Typed
<1>2. CASE ReadPorts(r)
  <2>1. UsedPorts(servers) \subseteq Ports
    BY DEF UsedPorts, Typed, TypeOK, Row
  <2>2. TypeOK'
    BY <1>0, <1>2, <2>1 DEF ReadPorts, Goto, Finish, Typed, TypeOK, table,
         engine, lock, Step, Op
  <2>3. LocalsOK'
    BY <1>2 DEF ReadPorts, Goto, Finish, Typed, TypeOK, LocalsOK, table, Early
  <2> QED
    BY <2>2, <2>3 DEF Typed
<1>3. CASE PickPort(r)
  <2>1. FreePorts \subseteq Ports
    BY DEF FreePorts
  <2>2. CASE Finish(r)
    <3>1. TypeOK'
      BY <1>0, <1>3, <2>2 DEF PickPort, Finish, Typed, TypeOK, table, engine,
           Step, Op
    <3>2. LocalsOK'
      BY <1>3, <2>2 DEF PickPort, Finish, Typed, TypeOK, LocalsOK, table, Early
    <3> QED
      BY <3>1, <3>2 DEF Typed
  <2>3. ASSUME NEW p \in FreePorts, srv' = [srv EXCEPT ![r].port = p],
               pc' = [pc EXCEPT ![r] = "insert"], UNCHANGED <<op, sid, cancelled>>
        PROVE  Typed'
    <3> DEFINE new == [srv[r] EXCEPT !.port = p]
    <3>1. new \in Struct /\ new.port \in Ports
      BY <2>1 DEF Typed, TypeOK, Struct
    <3>2. /\ new.owner = srv[r].owner /\ new.name = srv[r].name
          /\ new.status = srv[r].status /\ new.cid = srv[r].cid
      BY DEF Typed, TypeOK, Struct
    <3>3. srv' = [srv EXCEPT ![r] = new]
      BY <2>3
    <3> HIDE DEF new
    <3>4. /\ UNCHANGED <<servers, minted, containers, volumes, op, sid, cancelled>>
          /\ mu' = None /\ claimed' = {}
          /\ pc[r] = "probe" /\ pc' = [pc EXCEPT ![r] = "insert"]
      BY <1>3, <2>3 DEF PickPort, table, engine
    <3>5. TypeOK'
      BY <3>1, <3>3, <3>4 DEF Typed, TypeOK, Step
    <3>6. LocalsOK'
      BY <3>1, <3>2, <3>3, <3>4 DEF Typed, TypeOK, LocalsOK, Early
    <3> QED
      BY <3>5, <3>6 DEF Typed
  <2> QED
    BY <1>3, <2>2, <2>3 DEF PickPort
<1>4. CASE InsertRecord(r)
  <2>1. srv[r] \in Row
    BY <1>4 DEF InsertRecord, Typed, TypeOK, LocalsOK, Struct, Row, Early,
         Status
  <2>2. CASE Finish(r) /\ UNCHANGED table
    <3>1. Rewritten(servers, servers', None, None)
      BY <2>2 DEF Rewritten, Typed, TypeOK, table
    <3> QED
      BY <1>4, <2>2, <3>1, FinishTyped DEF InsertRecord, table, engine, lock
  <2>3. CASE ~(Finish(r) /\ UNCHANGED table)
    <3>1. PICK s \in ServerIds \ minted :
            /\ servers' = NewRow(servers, s, srv[r])
            /\ minted' = minted \cup {s} /\ sid' = [sid EXCEPT ![r] = s]
            /\ pc' = [pc EXCEPT ![r] = "volume"]
            /\ UNCHANGED <<op, srv, cancelled, containers, volumes, mu, claimed>>
      BY <1>4, <2>3 DEF InsertRecord, engine, lock
    <3>2. TypeOK'
      BY <2>1, <3>1 DEF Typed, TypeOK, NewRow, Step
    <3>3. LocalsOK'
      BY <2>1, <3>1 DEF Typed, TypeOK, LocalsOK, Early
    <3> QED
      BY <3>2, <3>3 DEF Typed
  <2> QED
    BY <2>2, <2>3
<1> QED
  BY <1>1, <1>2, <1>3, <1>4

LEMMA CreateContainerTyped ==
  ASSUME Typed, NEW r \in Requests, CreateContainer(r)
  PROVE  Typed'
<1>1. pc[r] \notin Early /\ sid[r] \in ServerIds /\ srv[r] \in Row
  BY DEF CreateContainer, Typed, TypeOK, LocalsOK, Early
<1>2. CASE Call(r, containers, volumes, "fail")
  BY <1>1, <1>2, CallTyped DEF Typed, TypeOK, Step, Early
<1>3. ASSUME NEW c \in ContainerIds, c \notin UsedContainerIds,
             NEW cs, cs = CreatedContainer(containers, c, sid[r], srv[r].port),
             \/ Answered(r, cs, volumes \cup {sid[r]})
                /\ srv' = [srv EXCEPT ![r].cid = c,
                     ![r].status = IF op[r] = "create" THEN "stopped" ELSE @]
                /\ pc' = [pc EXCEPT
                     ![r] = IF op[r] = "create" THEN "save" ELSE "setcid"]
                /\ UNCHANGED <<op, sid, cancelled>>
             \/ Unheard(r, cs, volumes \cup {sid[r]}, "fail")
      PROVE  Typed'
  <2>1. cs \in [DOMAIN containers \cup {c} -> Container]
    <3>1. srv[r].port \in Ports
      BY <1>1 DEF Row
    <3> QED
      BY <1>1, <1>3, <3>1 DEF CreatedContainer, Container, Typed, TypeOK
  <2>2. CASE Unheard(r, cs, volumes \cup {sid[r]}, "fail")
    <3>1. Call(r, cs, volumes \cup {sid[r]}, "fail")
      BY <2>2 DEF Call
    <3> QED
      BY <1>1, <1>3, <2>1, <3>1, CallTyped DEF Typed, TypeOK, Step, Early
  <2>3. CASE ~Unheard(r, cs, volumes \cup {sid[r]}, "fail")
    <3>1. /\ UNCHANGED <<servers, minted, mu, claimed, op, sid, cancelled>>
          /\ containers' = cs /\ volumes' = volumes \cup {sid[r]}
          /\ \E st \in Status :
               srv' = [srv EXCEPT ![r].cid = c, ![r].status = st]
          /\ \E t \in {"save", "setcid"} : pc' = [pc EXCEPT ![r] = t]
      <4>1. srv[r].status \in Status /\ "stopped" \in Status
        BY <1>1 DEF Row, Status
      <4> QED
        BY <1>3, <2>3, <4>1 DEF Answered, table, lock
    <3>2. PICK st \in Status : srv' = [srv EXCEPT ![r].cid = c, ![r].status = st]
      BY <3>1
    <3>3. srv'[r] \in Row /\ srv'[r] \in Struct
      BY <1>1, <3>2 DEF Row, Struct, Typed, TypeOK
    <3>4. srv' \in [Requests -> Struct]
      BY <3>2, <3>3 DEF Typed, TypeOK
    <3>5. TypeOK'
      BY <1>1, <2>1, <3>1, <3>4 DEF Typed, TypeOK, Step
    <3>6. LocalsOK'
      BY <1>1, <3>1, <3>2, <3>3 DEF Typed, TypeOK, LocalsOK, Early
    <3> QED
      BY <3>5, <3>6 DEF Typed
  <2> QED
    BY <2>2, <2>3
<1> QED
  BY <1>2, <1>3 DEF CreateContainer, Call

LEMMA BeginTyped ==
  ASSUME Typed, NEW r \in Requests, Begin(r)
  PROVE  Typed'
<1>1. CASE \E u \in Users, name \in Names : BeginCreate(r, u, name)
  BY <1>1, EarlyTyped
<1>2. ASSUME NEW s \in DOMAIN servers,
             \/ BeginStart(r, s) \/ BeginStop(r, s)
             \/ \E handler \in {"delete", "wipe"} : BeginDelete(r, s, handler)
             \/ \E name \in Names : BeginRename(r, s, name)
      PROVE  Typed'
  <2>1. servers[s] \in Row
    BY DEF Typed, TypeOK
  <2>2. CASE BeginStart(r, s)
    BY <2>1, <2>2, LookupTyped DEF BeginStart, Handler, Step, Early
  <2>3. CASE BeginStop(r, s)
    BY <2>1, <2>3, LookupTyped DEF BeginStop, Handler, Step, Early
  <2>4. ASSUME NEW handler \in {"delete", "wipe"}, BeginDelete(r, s, handler)
        PROVE  Typed'
    <3>1. handler \in Handler /\ {"rmrecord", "rmcontainer"} \subseteq Step \ Early
      BY DEF Handler, Step, Early
    <3> QED
      BY <2>1, <2>4, <3>1, LookupTyped DEF BeginDelete
  <2>5. ASSUME NEW name \in Names, BeginRename(r, s, name)
        PROVE  Typed'
    <3>1. [servers[s] EXCEPT !.name = name] \in Row
      BY <2>1 DEF Row
    <3> QED
      BY <2>5, <3>1, LookupTyped DEF BeginRename, Handler, Step, Early
  <2> QED
    BY <1>2, <2>2, <2>3, <2>4, <2>5
<1> QED
  BY <1>1, <1>2 DEF Begin

LEMMA StartContainerTyped ==
  ASSUME Typed, NEW r \in Requests, StartContainer(r)
  PROVE  Typed'
<1>1. /\ pc[r] \notin Early /\ "started" \in Step \ Early
      /\ "fail" \in Step \ Early
  BY DEF StartContainer, Early, Step
<1>2. CASE Call(r, StartedContainer(containers, srv[r].cid), volumes, "started")
  <2>1. StartedContainer(containers, srv[r].cid) \in [DOMAIN containers -> Container]
    BY DEF StartedContainer, Container, Typed, TypeOK
  <2> QED
    BY <1>1, <1>2, <2>1, CallTyped DEF Typed, TypeOK
<1>3. CASE Call(r, containers, volumes, "fail")
  BY <1>1, <1>3, CallTyped DEF Typed, TypeOK
<1>4. CASE /\ Answered(r, containers, volumes)
           /\ pc' = [pc EXCEPT ![r] = "remove"]
           /\ op' = [op EXCEPT ![r] = "rebuild"]
           /\ UNCHANGED <<sid, srv, cancelled>>
  <2>1. UNCHANGED <<servers, minted, containers, volumes, mu, claimed>>
    BY <1>4 DEF Answered, table, lock
  <2>2. TypeOK'
    BY <1>4, <2>1 DEF Typed, TypeOK, Step, Op
  <2>3. LocalsOK'
    BY <1>1, <1>4, <2>1 DEF Typed, TypeOK, LocalsOK, Early
  <2> QED
    BY <2>2, <2>3 DEF Typed
<1> QED
  BY <1>2, <1>3, <1>4 DEF StartContainer, Call

\* Every other step of a handler that has its record: a statement, or a call.
LEMMA AdvanceTyped ==
  ASSUME Typed, NEW r \in Requests, Advance(r)
  PROVE  Typed'
<1> DEFINE id == sid[r]  c == srv[r].cid
<1>0. ASSUME pc[r] \notin Early
      PROVE  /\ srv[r] \in Row /\ sid[r] \in ServerIds
             /\ Rewritten(servers, UpdateServer(servers, id, srv[r]), id, c)
             /\ Rewritten(servers, SetContainerID(servers, id, c), id, c)
             /\ \A st \in Status :
                  Rewritten(servers, SetStatus(servers, id, st), id, c)
  <2>1. srv[r] \in Row /\ sid[r] \in ServerIds /\ c \in ContainerIds \cup {None}
    BY <1>0 DEF Typed, TypeOK, LocalsOK, Row
  <2>2. servers \in [DOMAIN servers -> Row]
    BY DEF Typed, TypeOK
  <2> QED
    BY <2>1, <2>2, UpdateServerRewrites, SetContainerIDRewrites,
       SetStatusRewrites
<1>1. CASE ReadPorts(r) \/ PickPort(r) \/ InsertRecord(r)
  BY <1>1, EarlyTyped
<1>2. CASE CreateContainer(r)
  BY <1>2, CreateContainerTyped
<1>3. CASE StartContainer(r)
  BY <1>3, StartContainerTyped
<1>4. CASE SaveServer(r) \/ UpdateRecord(r)
  <2>1. pc[r] \notin Early
    BY <1>4 DEF SaveServer, UpdateRecord, Early
  <2> QED
    BY <1>0, <1>4, <2>1, WriteKeepsRows, FinishTyped DEF SaveServer, UpdateRecord
<1>5. CASE RecordFailure(r) \/ RecordStopped(r)
  <2>1. pc[r] \notin Early /\ {"error", "stopped"} \subseteq Status
    BY <1>5 DEF RecordFailure, RecordStopped, Early, Status
  <2> QED
    BY <1>0, <1>5, <2>1, WriteKeepsRows, FinishTyped DEF RecordFailure, RecordStopped
<1>6. CASE MarkStopping(r)
  <2>1. pc[r] \notin Early /\ "stopping" \in Status /\ "stop" \in Step \ Early
    BY <1>6 DEF MarkStopping, Early, Status, Step
  <2> QED
    BY <1>0, <1>6, <2>1, WriteKeepsRows, GotoTyped DEF MarkStopping
<1>7. CASE SaveContainerID(r)
  <2>1. pc[r] \notin Early /\ "start" \in Step \ Early
    BY <1>7 DEF SaveContainerID, Early, Step
  <2> QED
    BY <1>0, <1>7, <2>1, WriteKeepsRows, GotoTyped DEF SaveContainerID
<1>8. CASE RemoveRecord(r)
  <2>1. /\ servers' = servers \/ servers' = DeleteServer(servers, id)
        /\ UNCHANGED <<minted, containers, volumes, mu, claimed>> /\ Finish(r)
    BY <1>8 DEF RemoveRecord, Write, engine, lock
  <2>2. servers' \in [DOMAIN servers' -> Row] /\ DOMAIN servers' \subseteq minted
    BY <2>1 DEF DeleteServer, Restrict, Typed, TypeOK
  <2>3. ZeroStruct \in Struct
    BY DEF ZeroStruct, Struct
  <2>4. TypeOK'
    BY <2>1, <2>2, <2>3 DEF Finish, Typed, TypeOK, Step, Op
  <2>5. LocalsOK'
    BY <2>1 DEF Finish, Typed, TypeOK, LocalsOK, Early
  <2> QED
    BY <2>4, <2>5 DEF Typed
<1>9. CASE CreateVolume(r)
  <2>1. pc[r] \notin Early /\ "container" \in Step \ Early
    BY <1>9 DEF CreateVolume, Early, Step
  <2> QED
    BY <1>0, <1>9, <2>1, CallTyped DEF CreateVolume, Typed, TypeOK
<1>10. CASE StopContainer(r)
  <2>1. pc[r] \notin Early /\ "stopped" \in Step \ Early
    BY <1>10 DEF StopContainer, Early, Step
  <2>2. StoppedContainer(containers, c) \in [DOMAIN containers -> Container]
    BY DEF StoppedContainer, Container, Typed, TypeOK
  <2> QED
    BY <1>10, <2>1, <2>2, CallTyped DEF StopContainer, Typed, TypeOK
<1>11. RemovedContainer(containers, c) \in [DOMAIN containers \ {c} -> Container]
  BY DEF RemovedContainer, Restrict, Typed, TypeOK
<1>12. CASE RemoveContainer(r)
  <2>1. /\ pc[r] \notin Early /\ {"rmvolume", "rmrecord"} \subseteq Step \ Early
    BY <1>12 DEF RemoveContainer, Early, Step
  <2> QED
    BY <1>11, <1>12, <2>1, CallTyped DEF RemoveContainer, Typed, TypeOK
<1>13. CASE RemoveVolume(r)
  <2>1. /\ pc[r] \notin Early /\ {"fail", "rmrecord"} \subseteq Step \ Early
    BY <1>13 DEF RemoveVolume, Early, Step
  <2>2. \/ Call(r, containers, volumes \ {sid[r]}, "rmrecord")
        \/ Call(r, containers, volumes, "fail")
    BY <1>13 DEF RemoveVolume, Call
  <2> QED
    BY <2>1, <2>2, CallTyped DEF Typed, TypeOK
<1>14. CASE RemoveStale(r)
  <2>1. /\ pc[r] = "remove" /\ pc' = [pc EXCEPT ![r] = "volume"]
        /\ UNCHANGED <<servers, minted, volumes, mu, claimed, op, sid, srv>>
        /\ containers' \in {containers, RemovedContainer(containers, c)}
        /\ cancelled' \subseteq cancelled \cup {r}
    BY <1>14 DEF RemoveStale, Answered, Refused, Unheard, Goto, table, engine, lock
  <2>2. TypeOK'
    BY <1>11, <2>1 DEF Typed, TypeOK, Step
  <2>3. LocalsOK'
    BY <2>1 DEF Typed, TypeOK, LocalsOK, Early
  <2> QED
    BY <2>2, <2>3 DEF Typed
<1>15. CASE RecordStarted(r)
  <2>1. pc[r] \notin Early /\ "starting" \in Status /\ "touch" \in Step \ Early
    BY <1>15 DEF RecordStarted, Early, Status, Step
  <2> QED
    BY <1>0, <1>15, <2>1, WriteKeepsRows, GotoTyped DEF RecordStarted
<1>16. CASE TouchActivity(r)
  <2>1. Rewritten(servers, servers', id, c)
    BY <1>16 DEF TouchActivity, table, Rewritten, Typed, TypeOK
  <2> QED
    BY <1>16, <2>1, FinishTyped DEF TouchActivity, table, engine, lock
<1> QED
  BY <1>1, <1>2, <1>3, <1>4, <1>5, <1>6, <1>7, <1>8, <1>9, <1>10, <1>12, <1>13,
     <1>14, <1>15, <1>16 DEF Advance

LEMMA EnvironmentTyped ==
  ASSUME Typed, Environment
  PROVE  Typed'
<1>1. ASSUME NEW r \in Requests, Cancel(r) PROVE Typed'
  BY <1>1 DEF Cancel, Typed, TypeOK, LocalsOK, table, engine, lock
<1>2. CASE Crash
  <2>1. ZeroStruct \in Struct
    BY DEF ZeroStruct, Struct
  <2>2. TypeOK'
    BY <1>2, <2>1 DEF Crash, Typed, TypeOK, table, engine, Step, Op
  <2>3. LocalsOK'
    BY <1>2 DEF Crash, LocalsOK, Early
  <2> QED
    BY <2>2, <2>3 DEF Typed
<1>3. ASSUME NEW c \in DOMAIN containers, ExternalRemove(c) PROVE Typed'
  <2>1. /\ UNCHANGED <<servers, minted, volumes, mu, claimed, pc, op, sid, srv,
                       cancelled>>
        /\ containers' = RemovedContainer(containers, c)
    BY <1>3 DEF ExternalRemove, table, lock
  <2>2. containers' \in [DOMAIN containers \ {c} -> Container]
    BY <2>1 DEF RemovedContainer, Restrict, Typed, TypeOK
  <2> QED
    BY <2>1, <2>2 DEF Typed, TypeOK, LocalsOK
<1> QED
  BY <1>1, <1>2, <1>3 DEF Environment

LEMMA TypedInductive == Typed /\ [Next]_vars => Typed'
<1> SUFFICES ASSUME Typed, [Next]_vars PROVE Typed'
  OBVIOUS
<1>1. CASE UNCHANGED vars
  BY <1>1 DEF vars, Typed, TypeOK, LocalsOK
<1> QED
  BY <1>1, BeginTyped, AdvanceTyped, EnvironmentTyped DEF Next

LEMMA AlwaysTyped == Spec => []Typed
BY InitTyped, TypedInductive, PTL DEF Spec

\* Every variable keeps its type, for any configuration and any number of
\* requests: whatever the interleaving, a handler that has passed its lookup or
\* its insert holds a complete copy of a record.
THEOREM TypeCorrect == Spec => []TypeOK
<1>1. Typed => TypeOK
  BY DEF Typed
<1> QED
  BY <1>1, AlwaysTyped, PTL

-----------------------------------------------------------------------------
(* What one step of a handler does to the Engine, the registry and its copy. *)

EngineEffect(r) ==
  \/ containers' = containers
  \/ /\ pc[r] = "container" /\ servers' = servers /\ minted' = minted
     /\ \E c \in ContainerIds \ UsedContainerIds :
          containers' = CreatedContainer(containers, c, sid[r], srv[r].port)
  \/ /\ pc[r] = "start" /\ srv[r].cid \in DOMAIN containers
     /\ containers' = StartedContainer(containers, srv[r].cid)
  \/ /\ pc[r] = "stop"
     /\ containers' = StoppedContainer(containers, srv[r].cid)
  \/ /\ pc[r] \in {"remove", "rmcontainer"}
     /\ containers' = RemovedContainer(containers, srv[r].cid)

VolumeEffect(r) ==
  \/ /\ volumes \subseteq volumes'
     /\ pc[r] = "container" /\ containers' # containers => sid[r] \in volumes'
  \/ /\ pc[r] = "rmvolume" /\ ~NameTaken(containers, sid[r])
     /\ volumes' = volumes \ {sid[r]} /\ containers' = containers

TableEffect(r) ==
  \/ servers' = servers /\ minted' = minted
  \/ /\ pc[r] \notin Early /\ minted' = minted
     /\ Rewritten(servers, servers', sid[r], srv[r].cid)
  \/ /\ pc[r] = "rmrecord" /\ minted' = minted
     /\ servers' = DeleteServer(servers, sid[r])
  \/ /\ pc[r] = "insert" /\ ~PortTaken(servers, srv[r].port)
     /\ \E s \in ServerIds \ minted :
          /\ servers' = NewRow(servers, s, srv[r]) /\ minted' = minted \cup {s}
          /\ sid'[r] = s /\ srv'[r] = srv[r]

\* What handler r knows afterwards; the others' locals are as they were.
LocalEffect(r) ==
  /\ \A q \in Requests \ {r} :
       pc'[q] = pc[q] /\ op'[q] = op[q] /\ sid'[q] = sid[q] /\ srv'[q] = srv[q]
  /\ \/ pc'[r] \in Early
     \/ pc[r] \notin Early /\ sid'[r] = sid[r] /\ srv'[r] = srv[r]
     \/ pc[r] = "insert" /\ minted' # minted
     \/ /\ pc[r] = "container" /\ sid'[r] = sid[r]
        /\ \E c \in ContainerIds \ UsedContainerIds, st \in Status \cup {""} :
             /\ containers' = CreatedContainer(containers, c, sid[r], srv[r].port)
             /\ srv'[r] = [srv[r] EXCEPT !.cid = c, !.status = st]

Effect(r) ==
  EngineEffect(r) /\ VolumeEffect(r) /\ TableEffect(r) /\ LocalEffect(r)

LEMMA CallEffect ==
  ASSUME Typed, NEW r \in Requests, pc[r] \notin Early, NEW cs, NEW vs, NEW step,
         Call(r, cs, vs, step)
  PROVE  /\ TableEffect(r) /\ LocalEffect(r)
         /\ servers' = servers /\ minted' = minted
         /\ \/ containers' = cs /\ volumes' = vs
            \/ containers' = containers /\ volumes' = volumes
<1>1. /\ UNCHANGED <<servers, minted, op, sid, srv>>
      /\ \/ containers' = cs /\ volumes' = vs
         \/ containers' = containers /\ volumes' = volumes
      /\ \E t \in {step, "fail"} : pc' = [pc EXCEPT ![r] = t]
  BY DEF Call, Answered, Refused, Unheard, Goto, table, engine
<1>2. TableEffect(r)
  BY <1>1 DEF TableEffect
<1>3. LocalEffect(r)
  BY <1>1 DEF LocalEffect, Typed, TypeOK
<1> QED
  BY <1>1, <1>2, <1>3

LEMMA WriteEffect ==
  ASSUME Typed, NEW r \in Requests, pc[r] \notin Early, NEW rows,
         Rewritten(servers, rows, sid[r], srv[r].cid), Write(r, rows),
         Finish(r) \/ \E step : Goto(r, step)
  PROVE  Effect(r)
<1>1. /\ UNCHANGED <<minted, containers, volumes>>
      /\ servers' = servers \/ servers' = rows
  BY DEF Write, engine
<1>2. LocalEffect(r)
  BY <1>1 DEF Finish, Goto, LocalEffect, Typed, TypeOK, Early
<1> QED
  BY <1>1, <1>2 DEF Effect, EngineEffect, VolumeEffect, TableEffect

LEMMA CreateContainerEffect ==
  ASSUME Typed, NEW r \in Requests, CreateContainer(r)
  PROVE  Effect(r)
<1>1. pc[r] = "container" /\ pc[r] \notin Early /\ sid[r] \in ServerIds /\ srv[r] \in Row
  BY DEF CreateContainer, Typed, TypeOK, LocalsOK, Early
<1>2. CASE Call(r, containers, volumes, "fail")
  BY <1>1, <1>2, CallEffect DEF Effect, EngineEffect, VolumeEffect
<1>3. ASSUME NEW c \in ContainerIds \ UsedContainerIds,
             NEW cs, cs = CreatedContainer(containers, c, sid[r], srv[r].port),
             \/ Answered(r, cs, volumes \cup {sid[r]})
                /\ srv' = [srv EXCEPT ![r].cid = c,
                     ![r].status = IF op[r] = "create" THEN "stopped" ELSE @]
                /\ pc' = [pc EXCEPT
                     ![r] = IF op[r] = "create" THEN "save" ELSE "setcid"]
                /\ UNCHANGED <<op, sid, cancelled>>
             \/ Unheard(r, cs, volumes \cup {sid[r]}, "fail")
      PROVE  Effect(r)
  <2>1. CASE Unheard(r, cs, volumes \cup {sid[r]}, "fail")
    <3>1. Call(r, cs, volumes \cup {sid[r]}, "fail")
      BY <2>1 DEF Call
    <3> QED
      BY <1>1, <1>3, <3>1, CallEffect DEF Effect, EngineEffect, VolumeEffect
  <2>2. CASE ~Unheard(r, cs, volumes \cup {sid[r]}, "fail")
    <3>1. /\ UNCHANGED <<servers, minted, op, sid>>
          /\ containers' = cs /\ volumes' = volumes \cup {sid[r]}
          /\ \E st \in Status :
               srv' = [srv EXCEPT ![r].cid = c, ![r].status = st]
          /\ \E t \in Step : pc' = [pc EXCEPT ![r] = t]
      <4>1. srv[r].status \in Status /\ "stopped" \in Status
        BY <1>1 DEF Row, Status
      <4> QED
        BY <1>3, <2>2, <4>1 DEF Answered, table, lock, Step
    <3>2. PICK st \in Status : srv' = [srv EXCEPT ![r].cid = c, ![r].status = st]
      BY <3>1
    <3>3. srv'[r] = [srv[r] EXCEPT !.cid = c, !.status = st]
      BY <1>1, <3>2 DEF Typed, TypeOK, Struct
    <3>4. \A q \in Requests \ {r} : srv'[q] = srv[q]
      BY <3>2 DEF Typed, TypeOK
    <3>5. LocalEffect(r)
      BY <1>1, <1>3, <3>1, <3>3, <3>4 DEF LocalEffect, Typed, TypeOK
    <3> QED
      BY <1>1, <1>3, <3>1, <3>5 DEF Effect, EngineEffect, VolumeEffect, TableEffect
  <2> QED
    BY <2>1, <2>2
<1> QED
  BY <1>2, <1>3 DEF CreateContainer, Call

LEMMA StartContainerEffect ==
  ASSUME Typed, NEW r \in Requests, StartContainer(r)
  PROVE  Effect(r)
<1>1. pc[r] = "start" /\ pc[r] \notin Early
  BY DEF StartContainer, Early
<1>2. CASE /\ srv[r].cid \in DOMAIN containers
           /\ Call(r, StartedContainer(containers, srv[r].cid), volumes, "started")
  BY <1>1, <1>2, CallEffect DEF Effect, EngineEffect, VolumeEffect
<1>3. CASE Call(r, containers, volumes, "fail")
  BY <1>1, <1>3, CallEffect DEF Effect, EngineEffect, VolumeEffect
<1>4. CASE /\ Answered(r, containers, volumes)
           /\ pc' = [pc EXCEPT ![r] = "remove"]
           /\ op' = [op EXCEPT ![r] = "rebuild"]
           /\ UNCHANGED <<sid, srv, cancelled>>
  <2>1. UNCHANGED <<servers, minted, containers, volumes>>
    BY <1>4 DEF Answered, table
  <2>2. LocalEffect(r)
    BY <1>1, <1>4, <2>1 DEF LocalEffect, Typed, TypeOK
  <2> QED
    BY <1>1, <2>1, <2>2 DEF Effect, EngineEffect, VolumeEffect, TableEffect
<1> QED
  BY <1>2, <1>3, <1>4 DEF StartContainer, Call

LEMMA EarlyEffect ==
  ASSUME Typed, NEW r \in Requests, ReadPorts(r) \/ PickPort(r) \/ InsertRecord(r)
  PROVE  Effect(r)
<1>1. CASE ReadPorts(r)
  <2>1. UNCHANGED <<servers, minted, containers, volumes>>
    BY <1>1 DEF ReadPorts, table, engine
  <2>2. LocalEffect(r)
    BY <1>1 DEF ReadPorts, Goto, Finish, LocalEffect, Typed, TypeOK, Early
  <2> QED
    BY <1>1, <2>1, <2>2 DEF ReadPorts, Effect, EngineEffect, VolumeEffect, TableEffect
<1>2. CASE PickPort(r)
  <2>1. UNCHANGED <<servers, minted, containers, volumes>> /\ pc[r] = "probe"
    BY <1>2 DEF PickPort, table, engine
  <2>2. LocalEffect(r)
    BY <1>2 DEF PickPort, Finish, LocalEffect, Typed, TypeOK, Early
  <2> QED
    BY <2>1, <2>2 DEF Effect, EngineEffect, VolumeEffect, TableEffect
<1>3. CASE InsertRecord(r)
  <2>1. UNCHANGED <<containers, volumes>> /\ pc[r] = "insert"
    BY <1>3 DEF InsertRecord, engine
  <2>2. CASE Finish(r) /\ UNCHANGED table
    <3>1. LocalEffect(r) /\ TableEffect(r)
      BY <2>2 DEF Finish, LocalEffect, TableEffect, table, Typed, TypeOK, Early
    <3> QED
      BY <2>1, <3>1 DEF Effect, EngineEffect, VolumeEffect
  <2>3. CASE ~(Finish(r) /\ UNCHANGED table)
    <3>1. PICK s \in ServerIds \ minted :
            /\ servers' = NewRow(servers, s, srv[r])
            /\ minted' = minted \cup {s} /\ sid' = [sid EXCEPT ![r] = s]
            /\ pc' = [pc EXCEPT ![r] = "volume"]
            /\ UNCHANGED <<op, srv, cancelled>>
      BY <1>3, <2>3 DEF InsertRecord
    <3>2. TableEffect(r)
      BY <1>3, <2>1, <2>3, <3>1 DEF InsertRecord, TableEffect, Typed, TypeOK
    <3>3. LocalEffect(r)
      BY <2>1, <3>1 DEF LocalEffect, Typed, TypeOK
    <3> QED
      BY <2>1, <3>2, <3>3 DEF Effect, EngineEffect, VolumeEffect
  <2> QED
    BY <2>2, <2>3
<1> QED
  BY <1>1, <1>2, <1>3

LEMMA AdvanceEffect ==
  ASSUME Typed, NEW r \in Requests, Advance(r)
  PROVE  Effect(r)
<1> DEFINE id == sid[r]  c == srv[r].cid
<1>0. ASSUME pc[r] \notin Early
      PROVE  /\ Rewritten(servers, UpdateServer(servers, id, srv[r]), id, c)
             /\ Rewritten(servers, SetContainerID(servers, id, c), id, c)
             /\ \A st \in Status :
                  Rewritten(servers, SetStatus(servers, id, st), id, c)
  <2>1. srv[r] \in Row /\ c \in ContainerIds \cup {None}
    BY <1>0 DEF Typed, TypeOK, LocalsOK, Row
  <2>2. servers \in [DOMAIN servers -> Row]
    BY DEF Typed, TypeOK
  <2> QED
    BY <2>1, <2>2, UpdateServerRewrites, SetContainerIDRewrites, SetStatusRewrites
<1>1. CASE ReadPorts(r) \/ PickPort(r) \/ InsertRecord(r)
  BY <1>1, EarlyEffect
<1>2. CASE CreateContainer(r)
  BY <1>2, CreateContainerEffect
<1>3. CASE StartContainer(r)
  BY <1>3, StartContainerEffect
<1>4. CASE SaveServer(r) \/ UpdateRecord(r)
  <2>1. pc[r] \notin Early
    BY <1>4 DEF SaveServer, UpdateRecord, Early
  <2> QED
    BY <1>0, <1>4, <2>1, WriteEffect DEF SaveServer, UpdateRecord
<1>5. CASE RecordFailure(r) \/ RecordStarted(r) \/ RecordStopped(r)
  <2>1. pc[r] \notin Early /\ {"error", "starting", "stopped"} \subseteq Status
    BY <1>5 DEF RecordFailure, RecordStarted, RecordStopped, Early, Status
  <2> QED
    BY <1>0, <1>5, <2>1, WriteEffect DEF RecordFailure, RecordStarted, RecordStopped
<1>6. CASE MarkStopping(r)
  <2>1. pc[r] \notin Early /\ "stopping" \in Status
    BY <1>6 DEF MarkStopping, Early, Status
  <2> QED
    BY <1>0, <1>6, <2>1, WriteEffect DEF MarkStopping
<1>7. CASE SaveContainerID(r)
  <2>1. pc[r] \notin Early
    BY <1>7 DEF SaveContainerID, Early
  <2> QED
    BY <1>0, <1>7, <2>1, WriteEffect DEF SaveContainerID
<1>8. CASE RemoveRecord(r)
  <2>1. /\ pc[r] = "rmrecord" /\ Finish(r) /\ UNCHANGED <<minted, containers, volumes>>
        /\ servers' = servers \/ servers' = DeleteServer(servers, id)
    BY <1>8 DEF RemoveRecord, Write, engine
  <2>2. LocalEffect(r)
    BY <2>1 DEF Finish, LocalEffect, Typed, TypeOK, Early
  <2> QED
    BY <2>1, <2>2 DEF Effect, EngineEffect, VolumeEffect, TableEffect
<1>9. CASE CreateVolume(r)
  <2>1. pc[r] = "volume" /\ pc[r] \notin Early
    BY <1>9 DEF CreateVolume, Early
  <2> QED
    BY <1>9, <2>1, CallEffect DEF CreateVolume, Effect, EngineEffect, VolumeEffect
<1>10. CASE StopContainer(r)
  <2>1. pc[r] = "stop" /\ pc[r] \notin Early
    BY <1>10 DEF StopContainer, Early
  <2> QED
    BY <1>10, <2>1, CallEffect DEF StopContainer, Effect, EngineEffect, VolumeEffect
<1>11. CASE RemoveContainer(r)
  <2>1. pc[r] = "rmcontainer" /\ pc[r] \notin Early
    BY <1>11 DEF RemoveContainer, Early
  <2> QED
    BY <1>11, <2>1, CallEffect DEF RemoveContainer, Effect, EngineEffect, VolumeEffect
<1>12. CASE RemoveVolume(r)
  <2>1. pc[r] = "rmvolume" /\ pc[r] \notin Early
    BY <1>12 DEF RemoveVolume, Early
  <2>2. CASE /\ ~NameTaken(containers, sid[r])
             /\ Call(r, containers, volumes \ {sid[r]}, "rmrecord")
    BY <2>1, <2>2, CallEffect DEF Effect, EngineEffect, VolumeEffect
  <2>3. CASE Call(r, containers, volumes, "fail")
    BY <2>1, <2>3, CallEffect DEF Effect, EngineEffect, VolumeEffect
  <2> QED
    BY <1>12, <2>2, <2>3 DEF RemoveVolume, Call
<1>13. CASE RemoveStale(r)
  <2>1. /\ pc[r] = "remove" /\ pc' = [pc EXCEPT ![r] = "volume"]
        /\ UNCHANGED <<servers, minted, volumes, op, sid, srv>>
        /\ containers' \in {containers, RemovedContainer(containers, c)}
    BY <1>13 DEF RemoveStale, Answered, Refused, Unheard, Goto, table, engine
  <2>2. LocalEffect(r)
    BY <2>1 DEF LocalEffect, Typed, TypeOK, Early
  <2> QED
    BY <2>1, <2>2 DEF Effect, EngineEffect, VolumeEffect, TableEffect
<1>14. CASE TouchActivity(r)
  <2>1. UNCHANGED <<servers, minted, containers, volumes>>
    BY <1>14 DEF TouchActivity, table, engine
  <2>2. LocalEffect(r)
    BY <1>14 DEF TouchActivity, Finish, LocalEffect, Typed, TypeOK, Early
  <2> QED
    BY <2>1, <2>2, <1>14 DEF TouchActivity, Effect, EngineEffect, VolumeEffect, TableEffect
<1> QED
  BY <1>1, <1>2, <1>3, <1>4, <1>5, <1>6, <1>7, <1>8, <1>9, <1>10, <1>11, <1>12,
     <1>13, <1>14 DEF Advance

-----------------------------------------------------------------------------
(* Records and handlers point home. *)

\* RecordsPointHome is not inductive: a stale copy may be written back, and a
\* record may appear.  So the copies point home as well, and no container is
\* made before its server's id is drawn.
CopiesPointHome ==
  \A r \in Requests : pc[r] \notin Early =>
    /\ srv[r].cid \in DOMAIN containers => containers[srv[r].cid].server = sid[r]
    /\ sid[r] \in DOMAIN servers => srv[r].port = servers[sid[r]].port

ContainersAreMinted ==
  \A c \in DOMAIN containers : containers[c].server \in minted

Home == RecordsPointHome /\ CopiesPointHome /\ ContainersAreMinted

\* A step that makes no record, no container and no copy.
NoneAppears ==
  /\ minted' = minted
  /\ \A q \in Requests : pc'[q] \notin Early =>
       pc[q] \notin Early /\ sid'[q] = sid[q] /\ srv'[q] = srv[q]
  /\ DOMAIN servers' \subseteq DOMAIN servers
  /\ \A s \in DOMAIN servers' :
       /\ servers'[s].port = servers[s].port
       /\ \/ servers'[s].cid = servers[s].cid
          \/ \E r \in Requests : /\ pc[r] \notin Early /\ s = sid[r]
                                /\ servers'[s].cid = srv[r].cid
  /\ DOMAIN containers' \subseteq DOMAIN containers
  /\ \A c \in DOMAIN containers' :
       /\ containers'[c].server = containers[c].server
       /\ containers'[c].port = containers[c].port

LEMMA NoneAppearsHome ==
  ASSUME Typed, Home, NoneAppears
  PROVE  Home'
<1>1. RecordsPointHome'
  BY DEF Home, RecordsPointHome, CopiesPointHome, NoneAppears
<1>2. CopiesPointHome'
  BY DEF Home, CopiesPointHome, NoneAppears
<1>3. ContainersAreMinted'
  BY DEF Home, ContainersAreMinted, NoneAppears
<1> QED
  BY <1>1, <1>2, <1>3 DEF Home

\* A container appears: its id is fresh, its port is the copy's.
LEMMA ContainerAppearsHome ==
  ASSUME Typed, Home, NEW r \in Requests, pc[r] = "container",
         NEW c \in ContainerIds \ UsedContainerIds,
         containers' = CreatedContainer(containers, c, sid[r], srv[r].port),
         servers' = servers, minted' = minted, LocalEffect(r)
  PROVE  Home'
<1>1. /\ c \notin DOMAIN containers /\ \A q \in Requests : srv[q].cid # c
      /\ \A s \in DOMAIN servers : servers[s].cid # c
  BY DEF UsedContainerIds
<1>2. /\ DOMAIN containers' = DOMAIN containers \cup {c}
      /\ containers'[c].server = sid[r] /\ containers'[c].port = srv[r].port
      /\ \A d \in DOMAIN containers : containers'[d] = containers[d]
  BY <1>1 DEF CreatedContainer
<1>3. pc[r] \notin Early /\ sid[r] \in minted /\ srv[r] \in Row
  BY DEF Early, Typed, LocalsOK
<1>4. RecordsPointHome'
  BY <1>1, <1>2, <1>3 DEF Home, RecordsPointHome, CopiesPointHome
<1>5. ContainersAreMinted'
  BY <1>2, <1>3 DEF Home, ContainersAreMinted
<1>6. ASSUME NEW q \in Requests, pc'[q] \notin Early
      PROVE  /\ srv'[q].cid \in DOMAIN containers' =>
                  containers'[srv'[q].cid].server = sid'[q]
             /\ sid'[q] \in DOMAIN servers' => srv'[q].port = servers'[sid'[q]].port
  <2>1. CASE q # r \/ srv'[r] = srv[r]
    <3>1. pc[q] \notin Early /\ sid'[q] = sid[q] /\ srv'[q] = srv[q]
      BY <1>3, <1>6, <2>1 DEF LocalEffect
    <3> QED
      BY <1>1, <1>2, <3>1 DEF Home, CopiesPointHome
  <2>2. CASE q = r /\ srv'[r] # srv[r]
    <3>1. PICK d \in ContainerIds \ UsedContainerIds, st \in Status \cup {""} :
            /\ containers' = CreatedContainer(containers, d, sid[r], srv[r].port)
            /\ srv'[r] = [srv[r] EXCEPT !.cid = d, !.status = st]
            /\ sid'[r] = sid[r]
      BY <1>3, <1>6, <2>2 DEF LocalEffect
    <3>2. srv'[r].cid = d /\ srv'[r].port = srv[r].port
      BY <1>3, <3>1 DEF Row
    <3>3. d \in DOMAIN containers' /\ d \notin DOMAIN containers
      BY <3>1 DEF CreatedContainer, UsedContainerIds
    <3>4. d = c
      BY <1>2, <3>3
    <3> QED
      BY <1>2, <1>3, <2>2, <3>1, <3>2, <3>4 DEF Home, CopiesPointHome
  <2> QED
    BY <2>1, <2>2
<1> QED
  BY <1>4, <1>5, <1>6 DEF Home, CopiesPointHome

\* A record appears: its id was never drawn, so no container and no copy is its.
LEMMA RecordAppearsHome ==
  ASSUME Typed, Home, NEW r \in Requests, pc[r] = "insert",
         NEW s \in ServerIds \ minted, servers' = NewRow(servers, s, srv[r]),
         minted' = minted \cup {s}, sid'[r] = s, srv'[r] = srv[r],
         containers' = containers, LocalEffect(r)
  PROVE  Home'
<1>1. /\ DOMAIN servers' = DOMAIN servers \cup {s} /\ servers'[s] = srv[r]
      /\ \A t \in DOMAIN servers : t # s /\ servers'[t] = servers[t]
  BY DEF NewRow, Typed, TypeOK
<1>2. srv[r].cid = None /\ pc[r] \in Early
  BY DEF Typed, LocalsOK, Early
<1>3. None \notin DOMAIN containers
  BY NoneAssumption DEF Typed, TypeOK
<1>4. RecordsPointHome'
  BY <1>1, <1>2, <1>3 DEF Home, RecordsPointHome, ContainersAreMinted
<1>5. ContainersAreMinted'
  BY DEF Home, ContainersAreMinted
<1>6. ASSUME NEW q \in Requests \ {r}, pc'[q] \notin Early
      PROVE  /\ pc[q] \notin Early /\ sid'[q] = sid[q] /\ srv'[q] = srv[q]
             /\ sid[q] \in minted
  BY <1>6 DEF LocalEffect, Typed, LocalsOK
<1>7. CopiesPointHome'
  BY <1>1, <1>2, <1>3, <1>6 DEF Home, CopiesPointHome
<1> QED
  BY <1>4, <1>5, <1>7 DEF Home

\* A lookup: the copy is a row, whose own id points home.
LEMMA BeginHome ==
  ASSUME Typed, Home, NEW r \in Requests, Begin(r)
  PROVE  Home'
<1>1. CASE \E u \in Users, name \in Names : BeginCreate(r, u, name)
  <2>1. /\ UNCHANGED <<servers, minted, containers, sid>> /\ pc'[r] \in Early
        /\ \A q \in Requests \ {r} : pc'[q] = pc[q] /\ srv'[q] = srv[q]
    BY <1>1 DEF BeginCreate, table, engine, Early, Typed, TypeOK
  <2>2. NoneAppears
    BY <2>1 DEF NoneAppears
  <2> QED
    BY <2>2, NoneAppearsHome
<1>2. ASSUME NEW s \in DOMAIN servers,
             \/ BeginStart(r, s) \/ BeginStop(r, s)
             \/ \E handler \in {"delete", "wipe"} : BeginDelete(r, s, handler)
             \/ \E name \in Names : BeginRename(r, s, name)
      PROVE  Home'
  <2>1. /\ UNCHANGED <<servers, minted, containers>> /\ sid'[r] = s
        /\ \A q \in Requests \ {r} :
             pc'[q] = pc[q] /\ srv'[q] = srv[q] /\ sid'[q] = sid[q]
    BY <1>2 DEF BeginStart, BeginStop, BeginDelete, BeginRename, Lookup, table,
         engine, Typed, TypeOK
  <2>2. srv'[r].cid = servers[s].cid /\ srv'[r].port = servers[s].port
    <3>1. servers[s] \in Row
      BY DEF Typed, TypeOK
    <3>2. srv'[r] = servers[s] \/ \E n \in Names : srv'[r] = [servers[s] EXCEPT !.name = n]
      BY <1>2 DEF BeginStart, BeginStop, BeginDelete, BeginRename, Typed, TypeOK
    <3> QED
      BY <3>1, <3>2 DEF Row
  <2>3. CopiesPointHome'
    BY <2>1, <2>2 DEF Home, RecordsPointHome, CopiesPointHome
  <2> QED
    BY <2>1, <2>3 DEF Home, RecordsPointHome, ContainersAreMinted
<1> QED
  BY <1>1, <1>2 DEF Begin

LEMMA AdvanceHome ==
  ASSUME Typed, Home, NEW r \in Requests, Advance(r)
  PROVE  Home'
<1>0. EngineEffect(r) /\ TableEffect(r) /\ LocalEffect(r)
  BY AdvanceEffect DEF Effect
<1>1. CASE pc[r] = "insert" /\ minted' # minted
  <2>1. containers' = containers
    BY <1>0, <1>1 DEF EngineEffect
  <2> QED
    BY <1>0, <1>1, <2>1, RecordAppearsHome DEF TableEffect, Early
<1>2. CASE pc[r] = "container" /\ containers' # containers
  <2>1. servers' = servers /\ minted' = minted
    BY <1>0, <1>2 DEF EngineEffect
  <2> QED
    BY <1>0, <1>2, <2>1, ContainerAppearsHome DEF EngineEffect
<1>3. CASE /\ ~(pc[r] = "insert" /\ minted' # minted)
           /\ ~(pc[r] = "container" /\ containers' # containers)
  <2>1. /\ DOMAIN containers' \subseteq DOMAIN containers
        /\ \A c \in DOMAIN containers' :
             /\ containers'[c].server = containers[c].server
             /\ containers'[c].port = containers[c].port
    BY <1>0, <1>3 DEF EngineEffect, StartedContainer, StoppedContainer,
         RemovedContainer, Restrict, Typed, TypeOK, Container
  <2>2. /\ minted' = minted /\ DOMAIN servers' \subseteq DOMAIN servers
        /\ \A s \in DOMAIN servers' :
             /\ servers'[s].port = servers[s].port
             /\ \/ servers'[s].cid = servers[s].cid
                \/ pc[r] \notin Early /\ s = sid[r] /\ servers'[s].cid = srv[r].cid
    BY <1>0, <1>3 DEF TableEffect, Rewritten, DeleteServer, Restrict, Typed, TypeOK
  <2>3. \A q \in Requests : pc'[q] \notin Early =>
          pc[q] \notin Early /\ sid'[q] = sid[q] /\ srv'[q] = srv[q]
    <3>1. CASE pc'[r] \notin Early /\ pc[r] = "container"
      BY <1>0, <1>3, <2>2, <3>1 DEF LocalEffect, CreatedContainer, UsedContainerIds
    <3> QED
      BY <1>0, <1>3, <2>2, <3>1 DEF LocalEffect
  <2>4. NoneAppears
    BY <2>1, <2>2, <2>3 DEF NoneAppears
  <2> QED
    BY <2>4, NoneAppearsHome
<1> QED
  BY <1>1, <1>2, <1>3

LEMMA EnvironmentHome ==
  ASSUME Typed, Home, Environment
  PROVE  Home'
<1>1. ASSUME NEW r \in Requests, Cancel(r) PROVE NoneAppears
  BY <1>1 DEF Cancel, NoneAppears, table, engine
<1>2. ASSUME Crash PROVE NoneAppears
  BY <1>2 DEF Crash, NoneAppears, table, engine, Early
<1>3. ASSUME NEW c \in DOMAIN containers, ExternalRemove(c) PROVE NoneAppears
  BY <1>3 DEF ExternalRemove, NoneAppears, table, RemovedContainer, Restrict
<1> QED
  BY <1>1, <1>2, <1>3, NoneAppearsHome DEF Environment

LEMMA HomeInductive ==
  ASSUME Typed, Home, [Next]_vars
  PROVE  Home'
<1>1. CASE UNCHANGED vars
  BY <1>1 DEF vars, Home, RecordsPointHome, CopiesPointHome, ContainersAreMinted
<1> QED
  BY <1>1, BeginHome, AdvanceHome, EnvironmentHome DEF Next

LEMMA AlwaysHome == Spec => []Home
<1>1. Init => Home
  BY EmptyFunction DEF Init, Home, RecordsPointHome, CopiesPointHome,
     ContainersAreMinted, Early
<1> QED
  BY <1>1, AlwaysTyped, HomeInductive, PTL DEF Spec

\* For any number of requests and servers, and whatever is written back late,
\* no record comes to name another server's container and every container of a
\* live server publishes the port its record holds.
THEOREM RecordsAlwaysPointHome == Spec => []RecordsPointHome
<1>1. Home => RecordsPointHome
  BY DEF Home
<1> QED
  BY <1>1, AlwaysHome, PTL

-----------------------------------------------------------------------------
(* What a handler may destroy. *)

\* A handler about to remove a container is a delete, or a start whose container
\* is missing and stays so, because ids are not reused; one about to remove a
\* volume is a delete with deleteData.
Removals ==
  \A r \in Requests :
    /\ pc[r] = "remove" => srv[r].cid \notin DOMAIN containers
    /\ pc[r] = "rmcontainer" => op[r] \in {"delete", "wipe"}
    /\ pc[r] = "rmvolume" => op[r] = "wipe"

\* The steps of a handler that lead to a removal, or to none.
Leads(r) ==
  /\ pc'[r] # "rmcontainer"
  /\ pc'[r] = "remove" => /\ srv[r].cid \notin DOMAIN containers
                          /\ containers' = containers /\ srv'[r] = srv[r]
  /\ pc'[r] = "rmvolume" => pc[r] = "rmcontainer" /\ op[r] = "wipe" /\ op'[r] = "wipe"

LEMMA CallLeads ==
  ASSUME Typed, NEW r \in Requests, NEW cs, NEW vs, NEW step,
         step \notin {"rmcontainer", "remove"}, Call(r, cs, vs, step),
         step = "rmvolume" => pc[r] = "rmcontainer" /\ op[r] = "wipe"
  PROVE  Leads(r)
BY DEF Leads, Call, Goto, Unheard, Typed, TypeOK

LEMMA AdvanceLeads ==
  ASSUME Typed, NEW r \in Requests, Advance(r)
  PROVE  Leads(r)
<1>1. CASE \/ ReadPorts(r) \/ PickPort(r) \/ InsertRecord(r) \/ SaveServer(r)
           \/ RecordFailure(r) \/ SaveContainerID(r) \/ RecordStarted(r)
           \/ TouchActivity(r) \/ MarkStopping(r) \/ RecordStopped(r)
           \/ RemoveRecord(r) \/ UpdateRecord(r)
  <2>1. pc'[r] \in {"idle", "probe", "insert", "volume", "start", "touch", "stop"}
    BY <1>1 DEF ReadPorts, PickPort, InsertRecord, SaveServer, RecordFailure,
       SaveContainerID, RecordStarted, TouchActivity, MarkStopping, RecordStopped,
       RemoveRecord, UpdateRecord, Goto, Finish, Typed, TypeOK
  <2> QED
    BY <2>1 DEF Leads
<1>2. CASE CreateVolume(r) \/ StopContainer(r)
  BY <1>2, CallLeads DEF CreateVolume, StopContainer
<1>3. CASE CreateContainer(r)
  <2>1. pc'[r] \in {"fail", "save", "setcid"}
    BY <1>3 DEF CreateContainer, Goto, Unheard, Typed, TypeOK
  <2> QED
    BY <2>1 DEF Leads
<1>4. CASE StartContainer(r)
  <2>1. CASE Call(r, StartedContainer(containers, srv[r].cid), volumes, "started")
    BY <2>1, CallLeads
  <2>2. CASE Goto(r, "fail")
    BY <2>2 DEF Goto, Leads, Typed, TypeOK
  <2>3. CASE /\ srv[r].cid \notin DOMAIN containers
             /\ Answered(r, containers, volumes)
             /\ pc' = [pc EXCEPT ![r] = "remove"]
             /\ UNCHANGED <<sid, srv, cancelled>>
    BY <2>3 DEF Answered, Leads, Typed, TypeOK
  <2> QED
    BY <1>4, <2>1, <2>2, <2>3 DEF StartContainer
<1>5. CASE RemoveStale(r)
  <2>1. pc'[r] = "volume"
    BY <1>5 DEF RemoveStale, Goto, Unheard, Typed, TypeOK
  <2> QED
    BY <2>1 DEF Leads
<1>6. CASE RemoveContainer(r)
  <2>1. pc[r] = "rmcontainer"
    BY <1>6 DEF RemoveContainer
  <2>2. CASE op[r] = "wipe"
    BY <1>6, <2>1, <2>2, CallLeads DEF RemoveContainer
  <2>3. CASE op[r] # "wipe"
    BY <1>6, <2>1, <2>3, CallLeads DEF RemoveContainer
  <2> QED
    BY <2>2, <2>3
<1>7. CASE RemoveVolume(r)
  <2>1. \/ Call(r, containers, volumes \ {sid[r]}, "rmrecord")
        \/ Call(r, containers, volumes, "fail")
    BY <1>7 DEF RemoveVolume, Call
  <2> QED
    BY <2>1, CallLeads
<1> QED
  BY <1>1, <1>2, <1>3, <1>4, <1>5, <1>6, <1>7 DEF Advance

\* A container that appears has an id no handler knows.
LEMMA NoKnownContainerAppears ==
  ASSUME Typed, NEW r \in Requests, EngineEffect(r), NEW q \in Requests,
         srv[q].cid \notin DOMAIN containers
  PROVE  srv[q].cid \notin DOMAIN containers'
<1>1. ASSUME NEW c \in ContainerIds \ UsedContainerIds,
             containers' = CreatedContainer(containers, c, sid[r], srv[r].port)
      PROVE  srv[q].cid \notin DOMAIN containers'
  <2>1. srv[q].cid # c
    BY DEF UsedContainerIds
  <2> QED
    BY <1>1, <2>1 DEF CreatedContainer
<1>2. CASE \A c \in ContainerIds \ UsedContainerIds :
             containers' # CreatedContainer(containers, c, sid[r], srv[r].port)
  <2>1. DOMAIN containers' \subseteq DOMAIN containers
    BY <1>2 DEF EngineEffect, StartedContainer, StoppedContainer,
       RemovedContainer, Restrict, Typed, TypeOK
  <2> QED
    BY <2>1
<1> QED
  BY <1>1, <1>2

LEMMA RemovalsInductive ==
  ASSUME Typed, Removals, [Next]_vars
  PROVE  Removals'
<1>1. CASE UNCHANGED vars
  BY <1>1 DEF vars, Removals
<1>2. ASSUME NEW r \in Requests, Begin(r) PROVE Removals'
  <2>1. /\ containers' = containers /\ pc'[r] \notin {"remove", "rmvolume"}
        /\ pc'[r] = "rmcontainer" => op'[r] \in {"delete", "wipe"}
        /\ \A q \in Requests \ {r} :
             pc'[q] = pc[q] /\ op'[q] = op[q] /\ srv'[q] = srv[q]
    <3>1. CASE \E u \in Users, name \in Names : BeginCreate(r, u, name)
      BY <3>1 DEF BeginCreate, engine, Typed, TypeOK
    <3>2. CASE \E s \in DOMAIN servers :
                 \/ BeginStart(r, s) \/ BeginStop(r, s)
                 \/ \E name \in Names : BeginRename(r, s, name)
      BY <3>2 DEF BeginStart, BeginStop, BeginRename, Lookup, engine, Typed, TypeOK
    <3>3. CASE \E s \in DOMAIN servers, handler \in {"delete", "wipe"} :
                 BeginDelete(r, s, handler)
      BY <3>3 DEF BeginDelete, Lookup, engine, Typed, TypeOK
    <3> QED
      BY <1>2, <3>1, <3>2, <3>3 DEF Begin
  <2> QED
    BY <2>1 DEF Removals
<1>3. ASSUME NEW r \in Requests, Advance(r) PROVE Removals'
  <2>1. EngineEffect(r) /\ LocalEffect(r) /\ Leads(r)
    BY <1>3, AdvanceEffect, AdvanceLeads DEF Effect
  <2>2. ASSUME NEW q \in Requests \ {r}
        PROVE  /\ pc'[q] = "remove" => srv'[q].cid \notin DOMAIN containers'
               /\ pc'[q] = "rmcontainer" => op'[q] \in {"delete", "wipe"}
               /\ pc'[q] = "rmvolume" => op'[q] = "wipe"
    BY <2>1, NoKnownContainerAppears DEF LocalEffect, Removals
  <2> QED
    BY <2>1, <2>2 DEF Leads, Removals
<1>4. CASE Environment
  <2>1. ASSUME NEW r \in Requests, Cancel(r) PROVE Removals'
    BY <2>1 DEF Cancel, Removals, engine
  <2>2. CASE Crash
    BY <2>2 DEF Crash, Removals
  <2>3. ASSUME NEW c \in DOMAIN containers, ExternalRemove(c) PROVE Removals'
    BY <2>3 DEF ExternalRemove, Removals, RemovedContainer, Restrict
  <2> QED
    BY <1>4, <2>1, <2>2, <2>3 DEF Environment
<1> QED
  BY <1>1, <1>2, <1>3, <1>4 DEF Next

LEMMA AlwaysRemovals == Spec => []Removals
<1>1. Init => Removals
  BY DEF Init, Removals
<1> QED
  BY <1>1, AlwaysTyped, RemovalsInductive, PTL DEF Spec

\* A step in which request r acts is a step of r's handler, or a crash.
LEMMA ActsAdvance ==
  ASSUME Typed, Next, NEW r \in Requests, Acts(r)
  PROVE  Advance(r) \/ (containers' = containers /\ volumes' = volumes)
<1>1. ASSUME NEW q \in Requests, Begin(q) PROVE containers' = containers /\ volumes' = volumes
  BY <1>1 DEF Begin, BeginCreate, BeginStart, BeginStop, BeginDelete, BeginRename,
     Lookup, engine
<1>2. ASSUME NEW q \in Requests \ {r}, Advance(q) PROVE FALSE
  <2>1. pc'[r] = pc[r]
    BY <1>2, AdvanceEffect DEF Effect, LocalEffect
  <2> QED
    BY <2>1 DEF Acts
<1>3. CASE Environment
  <2>1. ASSUME NEW q \in Requests, Cancel(q) PROVE FALSE
    BY <2>1 DEF Cancel, Acts
  <2>2. ASSUME NEW c \in DOMAIN containers, ExternalRemove(c) PROVE FALSE
    BY <2>2 DEF ExternalRemove, Acts
  <2> QED
    BY <1>3, <2>1, <2>2 DEF Environment, Crash, engine
<1> QED
  BY <1>1, <1>2, <1>3 DEF Next

\* However many requests race, a start destroys no container that exists.
THEOREM StartsNeverRemove == Spec => StartNeverRemoves
<1> DEFINE Safe == \A r \in Requests : Acts(r) /\ op[r] \in {"start", "rebuild"} =>
                     DOMAIN containers \subseteq DOMAIN containers'
<1>1. ASSUME Typed, Removals, Next PROVE Safe
  <2> SUFFICES ASSUME NEW r \in Requests, Acts(r), op[r] \in {"start", "rebuild"}
               PROVE  DOMAIN containers \subseteq DOMAIN containers'
    OBVIOUS
  <2>1. CASE Advance(r)
    <3>1. EngineEffect(r)
      BY <1>1, <2>1, AdvanceEffect DEF Effect
    <3>2. pc[r] # "rmcontainer"
      BY <1>1 DEF Removals
    <3>3. pc[r] = "remove" => srv[r].cid \notin DOMAIN containers
      BY <1>1 DEF Removals
    <3> QED
      BY <1>1, <3>1, <3>2, <3>3 DEF EngineEffect, CreatedContainer, StartedContainer,
         StoppedContainer, RemovedContainer, Restrict, Typed, TypeOK
  <2>2. CASE containers' = containers
    BY <2>2
  <2> QED
    BY <1>1, <2>1, <2>2, ActsAdvance
<1>2. Typed /\ Removals /\ [Next]_vars => [Safe]_vars
  BY <1>1
<1> QED
  BY <1>2, AlwaysTyped, AlwaysRemovals, PTL DEF Spec, StartNeverRemoves

\* A world disappears only in a step of a delete with deleteData of its server.
THEOREM WorldsSurvive == Spec => WorldSurvives
<1> DEFINE Safe == \A s \in volumes \ volumes' :
                     \E r \in Requests : op[r] = "wipe" /\ sid[r] = s /\ Acts(r)
<1>1. ASSUME Typed, Removals, Next PROVE Safe
  <2> SUFFICES ASSUME NEW s \in volumes \ volumes'
               PROVE  \E r \in Requests : op[r] = "wipe" /\ sid[r] = s /\ Acts(r)
    OBVIOUS
  <2>1. PICK r \in Requests : Advance(r)
    <3>1. ASSUME NEW q \in Requests, Begin(q) PROVE volumes' = volumes
      BY <3>1 DEF Begin, BeginCreate, BeginStart, BeginStop, BeginDelete,
         BeginRename, Lookup, engine
    <3>2. Environment => volumes' = volumes
      BY DEF Environment, Cancel, Crash, ExternalRemove, engine
    <3> QED
      BY <1>1, <3>1, <3>2 DEF Next
  <2>2. pc[r] = "rmvolume" /\ sid[r] = s
    BY <1>1, <2>1, AdvanceEffect DEF Effect, VolumeEffect
  <2>3. op[r] = "wipe"
    BY <1>1, <2>2 DEF Removals
  <2>4. RemoveVolume(r)
    BY <2>1, <2>2 DEF Advance, ReadPorts, PickPort, InsertRecord, CreateVolume,
       CreateContainer, SaveServer, RecordFailure, StartContainer, RemoveStale,
       SaveContainerID, RecordStarted, TouchActivity, MarkStopping, StopContainer,
       RecordStopped, RemoveContainer, RemoveRecord, UpdateRecord
  <2>5. pc'[r] \in {"rmrecord", "fail"}
    BY <1>1, <2>4 DEF RemoveVolume, Call, Goto, Unheard, Typed, TypeOK
  <2> QED
    BY <2>2, <2>3, <2>5 DEF Acts
<1>2. Typed /\ Removals /\ [Next]_vars => [Safe]_vars
  BY <1>1
<1> QED
  BY <1>2, AlwaysTyped, AlwaysRemovals, PTL DEF Spec, WorldSurvives

\* No handler changes a container of a server it was not called for.
THEOREM OthersAreUntouched == Spec => OthersUntouched
<1> DEFINE Safe == \A r \in Requests : Acts(r) =>
              \A c \in DOMAIN containers : containers[c].server # sid[r] =>
                c \in DOMAIN containers' /\ containers'[c] = containers[c]
<1>1. ASSUME Typed, Home, Next PROVE Safe
  <2> SUFFICES ASSUME NEW r \in Requests, Acts(r), NEW c \in DOMAIN containers,
                      containers[c].server # sid[r]
               PROVE  c \in DOMAIN containers' /\ containers'[c] = containers[c]
    OBVIOUS
  <2>1. CASE Advance(r)
    <3>1. EngineEffect(r)
      BY <1>1, <2>1, AdvanceEffect DEF Effect
    <3>2. pc[r] \in {"start", "stop", "remove", "rmcontainer"} => c # srv[r].cid
      BY <1>1 DEF Home, CopiesPointHome, Early
    <3>3. c \in UsedContainerIds
      BY DEF UsedContainerIds
    <3> QED
      BY <1>1, <3>1, <3>2, <3>3 DEF EngineEffect, CreatedContainer, StartedContainer,
         StoppedContainer, RemovedContainer, Restrict, Typed, TypeOK
  <2>2. CASE containers' = containers
    BY <2>2
  <2> QED
    BY <1>1, <2>1, <2>2, ActsAdvance
<1>2. Typed /\ Home /\ [Next]_vars => [Safe]_vars
  BY <1>1
<1> QED
  BY <1>2, AlwaysTyped, AlwaysHome, PTL DEF Spec, OthersUntouched

-----------------------------------------------------------------------------
(* Ports. *)

LEMMA OthersKeepTable ==
  ASSUME NEW r \in Requests, Begin(r) \/ Environment
  PROVE  servers' = servers /\ minted' = minted /\ volumes' = volumes
BY DEF Begin, BeginCreate, BeginStart, BeginStop, BeginDelete, BeginRename, Lookup,
   Environment, Cancel, Crash, ExternalRemove, table, engine

LEMMA BeginKeepsEngine ==
  ASSUME NEW r \in Requests, Begin(r) PROVE containers' = containers
BY DEF Begin, BeginCreate, BeginStart, BeginStop, BeginDelete, BeginRename, Lookup,
   engine

\* The port each live server holds, as PortLease sees it.
Held == [s \in DOMAIN servers |-> servers[s].port]

LEMMA AdvanceLeases ==
  ASSUME Typed, NEW r \in Requests, Advance(r)
  PROVE  Leases!Next \/ (Held' = Held /\ minted' = minted)
<1>0. TableEffect(r)
  BY AdvanceEffect DEF Effect
<1>1. CASE servers' = servers /\ minted' = minted
  BY <1>1 DEF Held
<1>2. CASE minted' = minted /\ Rewritten(servers, servers', sid[r], srv[r].cid)
  BY <1>2 DEF Held, Rewritten
<1>3. CASE minted' = minted /\ servers' = DeleteServer(servers, sid[r])
  <2>1. CASE sid[r] \in DOMAIN servers
    <3>1. Held' = [t \in DOMAIN Held \ {sid[r]} |-> Held[t]]
      BY <1>3 DEF Held, DeleteServer, Restrict
    <3>2. Leases!Release(sid[r])
      BY <1>3, <2>1, <3>1 DEF Held, Leases!Release
    <3> SUFFICES \E s \in DOMAIN Held : Leases!Release(s)
      BY DEF Held, Leases!Next
    <3>3. sid[r] \in DOMAIN Held
      BY <2>1 DEF Held
    <3> QED
      BY <3>2, <3>3 DEF Leases!Release
  <2>2. CASE sid[r] \notin DOMAIN servers
    BY <1>3, <2>2 DEF Held, DeleteServer, Restrict
  <2> QED
    BY <2>1, <2>2
<1>4. ASSUME NEW s \in ServerIds \ minted, pc[r] = "insert",
             ~PortTaken(servers, srv[r].port),
             servers' = NewRow(servers, s, srv[r]), minted' = minted \cup {s}
      PROVE  Leases!Next
  <2>1. srv[r].port \in Ports
    BY <1>4 DEF Typed, LocalsOK
  <2>2. Held' = [t \in DOMAIN Held \cup {s} |->
                   IF t = s THEN srv[r].port ELSE Held[t]]
    BY <1>4 DEF Held, NewRow
  <2>3. \A t \in DOMAIN Held : Held[t] # srv[r].port
    BY <1>4 DEF Held, PortTaken, UsedPorts
  <2>4. Leases!Claim(s, srv[r].port)
    BY <1>4, <2>2, <2>3 DEF Held, Leases!Claim
  <2> SUFFICES \E t \in ServerIds, p \in Ports : Leases!Claim(t, p)
    BY DEF Leases!Next
  <2>5. s \in ServerIds
    BY <1>4
  <2> QED
    BY <2>1, <2>4, <2>5 DEF Leases!Claim
<1> QED
  BY <1>0, <1>1, <1>2, <1>3, <1>4 DEF TableEffect

\* The table of records implements PortLease: a live server holds one port of the
\* range alone from its insertion to its deletion, although the allocator hands
\* ports out before they are claimed and stale copies are written back.
THEOREM PortsAlwaysLeased == Spec => PortsAreLeased
<1>1. Init => Leases!Init
  BY EmptyFunction DEF Init, Leases!Init
<1>2. ASSUME Typed, [Next]_vars
      PROVE  [Leases!Next]_<<Held, minted>>
  <2>1. CASE UNCHANGED vars
    BY <2>1 DEF vars, Held
  <2>2. ASSUME NEW r \in Requests, Begin(r) \/ Environment
        PROVE  Held' = Held /\ minted' = minted
    BY <2>2, OthersKeepTable DEF Held
  <2>3. CASE Environment
    BY <2>3 DEF Environment, Cancel, Crash, ExternalRemove, table, Held
  <2> QED
    BY <1>2, <2>1, <2>2, <2>3, AdvanceLeases DEF Next
<1> QED
  BY <1>1, <1>2, AlwaysTyped, PTL DEF Spec, PortsAreLeased, Leases!Spec, Held
-----------------------------------------------------------------------------
(* Every handler ends. *)

LEMMA CallsFromValues ==
  /\ CallsFrom.idle = 0 /\ CallsFrom.allocate = 9 /\ CallsFrom.probe = 8
  /\ CallsFrom.insert = 7 /\ CallsFrom.remove = 7 /\ CallsFrom.volume = 6
  /\ CallsFrom.container = 5 /\ CallsFrom.setcid = 4 /\ CallsFrom.start = 3
  /\ CallsFrom.started = 2 /\ CallsFrom.touch = 1 /\ CallsFrom.save = 1
  /\ CallsFrom.fail = 1 /\ CallsFrom.mark = 3 /\ CallsFrom.stop = 2
  /\ CallsFrom.stopped = 1 /\ CallsFrom.rmcontainer = 3 /\ CallsFrom.rmvolume = 2
  /\ CallsFrom.rmrecord = 1 /\ CallsFrom.update = 1
  /\ \A s \in Step : CallsFrom[s] \in Nat /\ (s # "idle" => CallsFrom[s] > 0)
BY DEF CallsFrom, Step

\* The handler's next place has fewer calls before it, or its start has become a
\* rebuild.
Nearer(r) ==
  \/ op'[r] = op[r] /\ CallsFrom[pc'[r]] < CallsFrom[pc[r]]
  \/ op'[r] # "start" /\ CallsFrom[pc'[r]] < CallsFrom[pc[r]]
  \/ op[r] = "start" /\ op'[r] = "rebuild" /\ pc[r] = "start" /\ pc'[r] = "remove"

LEMMA NearerDescends ==
  ASSUME Typed, NEW r \in Requests, Nearer(r), pc'[r] \in Step
  PROVE  CallsLeft(r)' < CallsLeft(r)
<1>1. /\ CallsFrom[pc[r]] \in Nat /\ CallsFrom[pc'[r]] \in Nat
      /\ CallsFrom.start = 3 /\ CallsFrom.remove = 7
  BY CallsFromValues DEF Typed, TypeOK
<1> QED
  BY <1>1 DEF Nearer, CallsLeft

\* Where each step of a handler leads.
LEMMA AdvanceNearer ==
  ASSUME Typed, NEW r \in Requests, Advance(r)
  PROVE  Nearer(r)
<1>1. ASSUME Finish(r), pc[r] # "idle"
      PROVE  Nearer(r)
  <2>1. pc'[r] = "idle" /\ op'[r] = "none"
    BY <1>1 DEF Finish, Typed, TypeOK
  <2>2. pc[r] \in Step \ {"idle"}
    BY <1>1 DEF Typed, TypeOK
  <2> QED
    BY <2>1, <2>2, CallsFromValues DEF Nearer
<1>2. ASSUME NEW step, pc' = [pc EXCEPT ![r] = step], op' = op,
             CallsFrom[step] < CallsFrom[pc[r]]
      PROVE  Nearer(r)
  BY <1>2 DEF Nearer, Typed, TypeOK
<1>3. ASSUME NEW cs, NEW vs, NEW step, Call(r, cs, vs, step),
             CallsFrom[step] < CallsFrom[pc[r]], CallsFrom["fail"] < CallsFrom[pc[r]]
      PROVE  Nearer(r)
  BY <1>2, <1>3 DEF Call, Goto, Unheard
<1>4. CASE ReadPorts(r)
  BY <1>1, <1>2, <1>4, CallsFromValues DEF ReadPorts, Goto
<1>5. CASE PickPort(r)
  BY <1>1, <1>2, <1>5, CallsFromValues DEF PickPort
<1>6. CASE InsertRecord(r)
  BY <1>1, <1>2, <1>6, CallsFromValues DEF InsertRecord
<1>7. CASE CreateVolume(r)
  BY <1>3, <1>7, CallsFromValues DEF CreateVolume
<1>8. CASE CreateContainer(r)
  <2>1. pc[r] = "container" /\ op' = op
    BY <1>8 DEF CreateContainer, Goto, Unheard
  <2>2. \E step \in {"save", "setcid", "fail"} : pc' = [pc EXCEPT ![r] = step]
    BY <1>8 DEF CreateContainer, Goto, Unheard
  <2>3. /\ CallsFrom["save"] < CallsFrom["container"]
        /\ CallsFrom["setcid"] < CallsFrom["container"]
        /\ CallsFrom["fail"] < CallsFrom["container"]
    BY CallsFromValues
  <2> QED
    BY <1>2, <2>1, <2>2, <2>3
<1>9. CASE SaveServer(r) \/ RecordFailure(r) \/ TouchActivity(r) \/ RecordStopped(r)
           \/ RemoveRecord(r) \/ UpdateRecord(r)
  BY <1>1, <1>9 DEF SaveServer, RecordFailure, TouchActivity, RecordStopped,
     RemoveRecord, UpdateRecord
<1>10. CASE StartContainer(r)
  <2>1. pc[r] = "start"
    BY <1>10 DEF StartContainer
  <2>2. CASE Call(r, StartedContainer(containers, srv[r].cid), volumes, "started")
    BY <1>3, <2>1, <2>2, CallsFromValues
  <2>3. CASE Goto(r, "fail")
    <3>1. CallsFrom["fail"] < CallsFrom["start"]
      BY CallsFromValues
    <3> QED
      BY <1>2, <2>1, <2>3, <3>1 DEF Goto
  <2>4. CASE /\ op[r] = "start" /\ pc' = [pc EXCEPT ![r] = "remove"]
             /\ op' = [op EXCEPT ![r] = "rebuild"]
    BY <2>1, <2>4 DEF Nearer, Typed, TypeOK
  <2> QED
    BY <1>10, <2>2, <2>3, <2>4 DEF StartContainer
<1>11. CASE RemoveStale(r)
  <2>1. pc[r] = "remove" /\ op' = op /\ pc' = [pc EXCEPT ![r] = "volume"]
    BY <1>11 DEF RemoveStale, Goto, Unheard
  <2>2. CallsFrom["volume"] < CallsFrom["remove"]
    BY CallsFromValues
  <2> QED
    BY <1>2, <2>1, <2>2
<1>12. CASE SaveContainerID(r) \/ RecordStarted(r) \/ MarkStopping(r)
  BY <1>2, <1>12, CallsFromValues DEF SaveContainerID, RecordStarted, MarkStopping,
     Goto
<1>13. CASE StopContainer(r)
  BY <1>3, <1>13, CallsFromValues DEF StopContainer
<1>14. CASE RemoveContainer(r)
  <2>1. \E step \in {"rmvolume", "rmrecord"} :
          Call(r, RemovedContainer(containers, srv[r].cid), volumes, step)
    BY <1>14 DEF RemoveContainer
  <2> QED
    BY <1>3, <1>14, <2>1, CallsFromValues DEF RemoveContainer
<1>15. CASE RemoveVolume(r)
  <2>1. CASE Call(r, containers, volumes \ {sid[r]}, "rmrecord")
    BY <1>3, <1>15, <2>1, CallsFromValues DEF RemoveVolume
  <2>2. CASE Goto(r, "fail")
    <3>1. pc[r] = "rmvolume" /\ CallsFrom["fail"] < CallsFrom["rmvolume"]
      BY <1>15, CallsFromValues DEF RemoveVolume
    <3> QED
      BY <1>2, <2>2, <3>1 DEF Goto
  <2> QED
    BY <1>15, <2>1, <2>2 DEF RemoveVolume
<1> QED
  BY <1>4, <1>5, <1>6, <1>7, <1>8, <1>9, <1>10, <1>11, <1>12, <1>13, <1>14, <1>15
     DEF Advance

\* Every step of a handler brings its end nearer and nothing puts it off, so each
\* is done after eleven calls and statements at most, whatever races with it:
\* above all, a start whose container keeps disappearing makes it again only once
\* (servers.go:212).
THEOREM CallsAlwaysRunOut == Spec => CallsRunOut
<1> DEFINE Ends ==
      \A r \in Requests : pc[r] # "idle" =>
        \/ CallsLeft(r)' < CallsLeft(r)
        \/ pc'[r] = pc[r] /\ op'[r] = op[r]
<1>1. ASSUME Typed, Typed', Next PROVE Ends
  <2> SUFFICES ASSUME NEW r \in Requests, pc[r] # "idle"
               PROVE  \/ CallsLeft(r)' < CallsLeft(r)
                      \/ pc'[r] = pc[r] /\ op'[r] = op[r]
    OBVIOUS
  <2>1. CASE Advance(r)
    <3>1. pc'[r] \in Step
      BY <1>1 DEF Typed, TypeOK
    <3> QED
      BY <1>1, <2>1, <3>1, AdvanceNearer, NearerDescends
  <2>2. ASSUME NEW q \in Requests \ {r}, Advance(q)
        PROVE  pc'[r] = pc[r] /\ op'[r] = op[r]
    BY <1>1, <2>2, AdvanceEffect DEF Effect, LocalEffect
  <2>3. ASSUME NEW q \in Requests, Begin(q)
        PROVE  pc'[r] = pc[r] /\ op'[r] = op[r]
    <3>1. q # r
      BY <2>3 DEF Begin, BeginCreate, BeginStart, BeginStop, BeginDelete, BeginRename,
         Lookup
    <3>2. \E step, handler : /\ pc' = [pc EXCEPT ![q] = step]
                             /\ op' = [op EXCEPT ![q] = handler]
      BY <2>3 DEF Begin, BeginCreate, BeginStart, BeginStop, BeginDelete, BeginRename,
         Lookup
    <3> QED
      BY <1>1, <3>1, <3>2 DEF Typed, TypeOK
  <2>4. CASE Crash
    <3>1. pc'[r] = "idle" /\ op'[r] = "none" /\ pc[r] \in Step \ {"idle"}
      BY <1>1, <2>4 DEF Crash, Typed, TypeOK
    <3>2. CallsLeft(r)' = 0 /\ CallsFrom[pc[r]] \in Nat /\ CallsFrom[pc[r]] > 0
      BY <3>1, CallsFromValues DEF CallsLeft
    <3> QED
      BY <3>2 DEF CallsLeft
  <2>5. CASE Environment /\ ~Crash
    BY <2>5 DEF Environment, Cancel, ExternalRemove
  <2> QED
    BY <1>1, <2>1, <2>2, <2>3, <2>4, <2>5 DEF Next
<1>2. Typed /\ Typed' /\ [Next]_vars => [Ends]_vars
  BY <1>1
<1> QED
  BY <1>2, AlwaysTyped, PTL DEF Spec, CallsRunOut

-----------------------------------------------------------------------------
(* The allocator's mutex. *)

LEMMA AdvanceKeepsMutex ==
  ASSUME NEW r \in Requests, Advance(r), pc[r] \notin {"allocate", "probe"}
  PROVE  mu' = mu
<1>1. ~ReadPorts(r) /\ ~PickPort(r)
  BY DEF ReadPorts, PickPort
<1> QED
  BY <1>1 DEF Advance, InsertRecord, CreateVolume, CreateContainer, SaveServer,
     RecordFailure, StartContainer, RecordStarted, TouchActivity, RemoveStale,
     SaveContainerID, MarkStopping, StopContainer, RecordStopped, RemoveContainer, RemoveVolume,
     RemoveRecord, UpdateRecord, Call, Write, Answered, Refused, Unheard, lock

\* A request takes the mutex, gives it back, or leaves it alone.
LEMMA AdvanceMutex ==
  ASSUME Typed, Typed', NEW r \in Requests, Advance(r)
  PROVE  \/ pc[r] = "allocate" /\ mu = None /\ mu' = r /\ pc'[r] = "probe"
         \/ pc[r] = "probe" /\ mu' = None /\ pc'[r] # "probe"
         \/ pc[r] # "probe" /\ mu' = mu /\ pc'[r] # "probe"
<1>1. pc \in [Requests -> Step]
  BY DEF Typed, TypeOK
<1>2. CASE pc[r] = "allocate"
  <2>1. ReadPorts(r)
    BY <1>2 DEF Advance, ReadPorts, PickPort, InsertRecord, CreateVolume,
       CreateContainer, SaveServer, RecordFailure, StartContainer, RecordStarted,
       TouchActivity, RemoveStale, SaveContainerID, MarkStopping, StopContainer, RecordStopped,
       RemoveContainer, RemoveVolume, RemoveRecord, UpdateRecord
  <2> QED
    BY <1>1, <1>2, <2>1 DEF ReadPorts, Goto, Finish, lock
<1>3. CASE pc[r] = "probe"
  <2>1. PickPort(r)
    BY <1>3 DEF Advance, ReadPorts, PickPort, InsertRecord, CreateVolume,
       CreateContainer, SaveServer, RecordFailure, StartContainer, RecordStarted,
       TouchActivity, RemoveStale, SaveContainerID, MarkStopping, StopContainer, RecordStopped,
       RemoveContainer, RemoveVolume, RemoveRecord, UpdateRecord
  <2> QED
    BY <1>1, <1>3, <2>1 DEF PickPort, Finish
<1>4. CASE pc[r] \notin {"allocate", "probe"}
  <2>1. CallsFrom[pc[r]] <= 7
    BY <1>1, <1>4, CallsFromValues DEF Step
  <2>2. pc'[r] \in Step /\ CallsFrom[pc[r]] \in Nat /\ CallsFrom[pc'[r]] \in Nat
    BY <1>1, CallsFromValues DEF Typed, TypeOK
  <2>3. pc'[r] = "remove" \/ CallsFrom[pc'[r]] < 7
    BY <2>1, <2>2, AdvanceNearer DEF Nearer
  <2>4. pc'[r] # "probe"
    BY <2>3, CallsFromValues
  <2> QED
    BY <1>4, <2>4, AdvanceKeepsMutex
<1> QED
  BY <1>2, <1>3, <1>4

\* The mutex is held by the one request that is choosing a port and given back on
\* every way out of Allocate (allocator.go:51): with CallsAlwaysRunOut, that no
\* request waits for one that cannot go on.
THEOREM MutexIsGivenBack == Spec => []MutexHeldToPick
<1>1. Init => MutexHeldToPick
  BY NoneAssumption DEF Init, MutexHeldToPick
<1>2. ASSUME MutexHeldToPick, Typed, Typed', [Next]_vars
      PROVE  MutexHeldToPick'
  <2>1. CASE UNCHANGED vars
    BY <1>2, <2>1 DEF vars, MutexHeldToPick
  <2>2. ASSUME NEW r \in Requests, Advance(r)
        PROVE  MutexHeldToPick'
    <3>1. \A q \in Requests \ {r} : pc'[q] = pc[q]
      BY <1>2, <2>2, AdvanceEffect DEF Effect, LocalEffect
    <3> QED
      BY <1>2, <2>2, <3>1, AdvanceMutex, NoneAssumption DEF MutexHeldToPick
  <2>3. ASSUME NEW r \in Requests, Begin(r)
        PROVE  MutexHeldToPick'
    <3>1. /\ mu' = mu /\ pc[r] = "idle"
          /\ \E step \in Step \ {"probe"} : pc' = [pc EXCEPT ![r] = step]
      BY <2>3 DEF Begin, BeginCreate, BeginStart, BeginStop, BeginDelete,
         BeginRename, Lookup, Step, lock
    <3> QED
      BY <1>2, <3>1 DEF MutexHeldToPick, Typed, TypeOK
  <2>4. CASE Crash
    BY <2>4, NoneAssumption DEF Crash, MutexHeldToPick
  <2>5. CASE Environment /\ ~Crash
    BY <1>2, <2>5 DEF Environment, Cancel, ExternalRemove, MutexHeldToPick, lock
  <2> QED
    BY <1>2, <2>1, <2>2, <2>3, <2>4, <2>5 DEF Next
<1> QED
  BY <1>1, <1>2, AlwaysTyped, PTL DEF Spec

-----------------------------------------------------------------------------
(* The cap. *)

LEMMA SubsetCardinality ==
  ASSUME NEW S, IsFiniteSet(S), NEW T, T \subseteq S
  PROVE  /\ IsFiniteSet(T) /\ Cardinality(T) \in Nat /\ Cardinality(S) \in Nat
         /\ Cardinality(T) <= Cardinality(S)
<1>1. IsFiniteSet(T) /\ Cardinality(T) <= Cardinality(S)
  BY FS_Subset
<1> QED
  BY <1>1, FS_CardinalityType

LEMMA OneMoreCardinality ==
  ASSUME NEW S, IsFiniteSet(S), NEW x
  PROVE  /\ IsFiniteSet(S \cup {x}) /\ Cardinality(S \cup {x}) \in Nat
         /\ Cardinality(S) \in Nat
         /\ Cardinality(S \cup {x}) <= Cardinality(S) + 1
<1>1. IsFiniteSet(S \cup {x}) /\ Cardinality(S) \in Nat
  BY FS_AddElement, FS_CardinalityType
<1> QED
  BY <1>1, FS_AddElement, FS_CardinalityType

LEMMA Limits ==
  /\ MaxServers \in Nat \ {0} /\ IsFiniteSet(Requests)
  /\ Cardinality(Requests) \in Nat
<1>1. MaxServers \in Nat \ {0}
  BY ConfigAssumption
<1>2. IsFiniteSet(Requests)
  BY EnvironmentAssumption
<1> QED
  BY <1>1, <1>2, FS_CardinalityType

\* The creates that have counted and not inserted yet.
Counting == {r \in Requests : pc[r] \in Early \ {"idle"}}

\* What the creates that have counted may still insert is part of the sum.
WithinCap ==
  /\ IsFiniteSet(DOMAIN servers)
  /\ CountServers(servers) + Cardinality(Counting)
       <= MaxServers + Cardinality(Requests) - 1

LEMMA CountingFinite == IsFiniteSet(Counting) /\ Cardinality(Counting) <= Cardinality(Requests)
<1>1. Counting \subseteq Requests
  BY DEF Counting
<1> QED
  BY <1>1, Limits, SubsetCardinality

LEMMA FewerWithinCap ==
  ASSUME WithinCap, DOMAIN servers' \subseteq DOMAIN servers,
         Counting' \subseteq Counting
  PROVE  WithinCap'
<1>1. /\ IsFiniteSet(DOMAIN servers')
      /\ Cardinality(DOMAIN servers') <= Cardinality(DOMAIN servers)
      /\ Cardinality(DOMAIN servers') \in Nat /\ Cardinality(DOMAIN servers) \in Nat
  BY SubsetCardinality DEF WithinCap
<1>2. /\ Cardinality(Counting') <= Cardinality(Counting)
      /\ Cardinality(Counting') \in Nat /\ Cardinality(Counting) \in Nat
  BY CountingFinite, SubsetCardinality
<1>3. Cardinality(DOMAIN servers') + Cardinality(Counting')
        <= MaxServers + Cardinality(Requests) - 1
  BY <1>1, <1>2, Limits DEF WithinCap, CountServers
<1> QED
  BY <1>1, <1>3 DEF WithinCap, CountServers

\* A create goes on counting or is done with it, and no other handler counts.
LEMMA AdvanceCounts ==
  ASSUME Typed, NEW r \in Requests, Advance(r)
  PROVE  /\ pc'[r] \in Early \ {"idle"} => pc[r] \in Early \ {"idle"}
         /\ minted' # minted => pc[r] = "insert" /\ pc'[r] \notin Early
         /\ \A q \in Requests \ {r} : pc'[q] = pc[q]
<1>1. CASE ReadPorts(r) \/ PickPort(r)
  BY <1>1 DEF ReadPorts, PickPort, table, Finish, Goto, Typed, TypeOK, Early
<1>2. CASE InsertRecord(r)
  BY <1>2 DEF InsertRecord, table, Finish, Typed, TypeOK, Early
<1>3. CASE \/ CreateVolume(r) \/ RemoveStale(r) \/ StopContainer(r)
           \/ RemoveContainer(r) \/ RemoveVolume(r) \/ StartContainer(r)
  BY <1>3 DEF CreateVolume, RemoveStale, StopContainer, RemoveContainer,
     RemoveVolume, StartContainer, Call, Answered, Refused, Unheard, Goto, table,
     Typed, TypeOK, Early
<1>4. CASE CreateContainer(r)
  BY <1>4 DEF CreateContainer, Answered, Refused, Unheard, Goto, table, Typed,
     TypeOK, Early
<1>5. CASE \/ SaveServer(r) \/ RecordFailure(r) \/ SaveContainerID(r)
           \/ RecordStarted(r) \/ MarkStopping(r) \/ RecordStopped(r)
           \/ RemoveRecord(r) \/ UpdateRecord(r)
  BY <1>5 DEF SaveServer, RecordFailure, SaveContainerID, RecordStarted,
     MarkStopping, RecordStopped, RemoveRecord, UpdateRecord, Write, Finish, Goto,
     Typed, TypeOK, Early
<1>6. CASE TouchActivity(r)
  BY <1>6 DEF TouchActivity, table, Finish, Typed, TypeOK, Early
<1> QED
  BY <1>1, <1>2, <1>3, <1>4, <1>5, <1>6 DEF Advance

LEMMA BeginWithinCap ==
  ASSUME Typed, WithinCap, NEW r \in Requests, Begin(r)
  PROVE  WithinCap'
<1>1. ASSUME NEW u \in Users, NEW name \in Names, BeginCreate(r, u, name)
      PROVE  WithinCap'
  <2>1. servers' = servers /\ CountServers(servers) < MaxServers
    BY <1>1 DEF BeginCreate, table, UnderCap
  <2>2. /\ Cardinality(Counting') <= Cardinality(Requests)
        /\ Cardinality(Counting') \in Nat
    <3>1. Counting' \subseteq Requests
      BY DEF Counting
    <3> QED
      BY <3>1, Limits, SubsetCardinality
  <2>3. IsFiniteSet(DOMAIN servers) /\ Cardinality(DOMAIN servers) \in Nat
    BY FS_CardinalityType DEF WithinCap
  <2>4. Cardinality(DOMAIN servers) + Cardinality(Counting')
          <= MaxServers + Cardinality(Requests) - 1
    BY <2>1, <2>2, <2>3, Limits DEF CountServers
  <2> QED
    BY <2>1, <2>3, <2>4 DEF WithinCap, CountServers
<1>2. CASE \A u \in Users, name \in Names : ~BeginCreate(r, u, name)
  <2>1. servers' = servers /\ \E step \in Step \ Early : pc' = [pc EXCEPT ![r] = step]
    BY <1>2 DEF Begin, BeginStart, BeginStop, BeginDelete, BeginRename, Lookup,
       table, Step, Early
  <2>2. Counting' \subseteq Counting
    BY <2>1 DEF Counting, Typed, TypeOK
  <2> QED
    BY <2>1, <2>2, FewerWithinCap
<1> QED
  BY <1>1, <1>2

LEMMA AdvanceWithinCap ==
  ASSUME Typed, WithinCap, NEW r \in Requests, Advance(r)
  PROVE  WithinCap'
<1>1. CASE minted' = minted
  <2>1. DOMAIN servers' \subseteq DOMAIN servers
    <3>1. ASSUME NEW s \in ServerIds \ minted, minted' = minted \cup {s} PROVE FALSE
      BY <1>1, <3>1
    <3> QED
      BY <3>1, AdvanceEffect DEF Effect, TableEffect, Rewritten, DeleteServer, Restrict
  <2>2. Counting' \subseteq Counting
    BY AdvanceCounts DEF Counting
  <2> QED
    BY <2>1, <2>2, FewerWithinCap
<1>2. CASE minted' # minted
  <2>1. PICK s \in ServerIds : DOMAIN servers' = DOMAIN servers \cup {s}
    BY <1>2, AdvanceEffect DEF Effect, TableEffect, NewRow
  <2>2. r \in Counting /\ Counting' = Counting \ {r}
    BY <1>2, AdvanceCounts DEF Counting, Early
  <2>3. /\ IsFiniteSet(DOMAIN servers')
        /\ Cardinality(DOMAIN servers') <= Cardinality(DOMAIN servers) + 1
        /\ Cardinality(DOMAIN servers') \in Nat /\ Cardinality(DOMAIN servers) \in Nat
    BY <2>1, OneMoreCardinality DEF WithinCap
  <2>4. /\ Cardinality(Counting') = Cardinality(Counting) - 1
        /\ Cardinality(Counting) \in Nat
    BY <2>2, CountingFinite, FS_RemoveElement, FS_CardinalityType
  <2>5. Cardinality(DOMAIN servers') + Cardinality(Counting')
          <= MaxServers + Cardinality(Requests) - 1
    BY <2>3, <2>4, Limits DEF WithinCap, CountServers
  <2> QED
    BY <2>3, <2>5 DEF WithinCap, CountServers
<1> QED
  BY <1>1, <1>2

LEMMA WithinCapInductive ==
  ASSUME Typed, WithinCap, [Next]_vars
  PROVE  WithinCap'
<1>1. CASE UNCHANGED vars
  BY <1>1, FewerWithinCap DEF vars, Counting
<1>2. CASE Environment
  <2>1. Counting' \subseteq Counting
    BY <1>2 DEF Environment, Cancel, Crash, ExternalRemove, Counting, Early
  <2>2. servers' = servers
    BY <1>2 DEF Environment, Cancel, Crash, ExternalRemove, table
  <2> QED
    BY <1>2, <2>1, <2>2, FewerWithinCap
<1> QED
  BY <1>1, <1>2, BeginWithinCap, AdvanceWithinCap DEF Next

\* Each create checks the cap before it inserts, and nothing holds the check: the
\* cap can be exceeded by the creates that were counting together, and by no more
\* (servers.go:77-86).
THEOREM CapOvershotByRivals == Spec => []CapOvershoot
<1>1. Init => WithinCap
  <2> SUFFICES ASSUME Init PROVE WithinCap
    OBVIOUS
  <2>1. DOMAIN servers = {} /\ Counting = {}
    BY DEF Init, Counting, Early
  <2> QED
    BY <2>1, Limits, FS_EmptySet DEF WithinCap, CountServers
<1>2. WithinCap => CapOvershoot
  <2>1. Cardinality(Counting) \in Nat
    BY CountingFinite, FS_CardinalityType
  <2>2. ASSUME WithinCap PROVE CountServers(servers) \in Nat
    BY <2>2, FS_CardinalityType DEF WithinCap, CountServers
  <2> QED
    BY <2>1, <2>2, Limits DEF WithinCap, CapOvershoot
<1> QED
  BY <1>1, <1>2, AlwaysTyped, WithinCapInductive, PTL DEF Spec
=============================================================================
