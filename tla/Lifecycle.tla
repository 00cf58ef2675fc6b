----------------------------- MODULE Lifecycle -----------------------------
(***************************************************************************)
(* The server handlers of internal/api/servers.go, run concurrently.       *)
(*                                                                         *)
(* Each HTTP request runs its handler in a goroutine of its own and takes  *)
(* no lock per server.  A handler works on a private copy of the record,   *)
(* read once, and alternates statements on the registry with calls to the  *)
(* Docker Engine; each of those is one step here, and the steps of two     *)
(* requests interleave in any order.  A request whose client has gone has  *)
(* its context cancelled: every statement and call it makes from then on   *)
(* fails, the ones that would record the failure included.                 *)
(***************************************************************************)
EXTENDS Registry, Engine

CONSTANTS
  Requests,       \* the requests the process serves at a time
  ServerIds,      \* the ids CreateServer can draw; never drawn twice
  ContainerIds,   \* the ids the Engine can give a container
  Users, Admins,  \* the accounts, and those that act on every server
  Names,
  PortLo, PortHi, \* OWO_PORT_RANGE_START, OWO_PORT_RANGE_END
  MaxServers,     \* OWO_MAX_SERVERS
  ProbeHost,      \* OWO_PROBE_HOST_PORTS: the allocator also tries to bind
  HeldPorts,      \* host ports bound by something that is not a game server
  Handlers,       \* the handlers clients call
  Faults,         \* what may go wrong; see Fault
  None

Handler == {"create", "start", "stop", "delete", "wipe", "rename"}

\* cancel: the client goes away.  docker: the Engine answers with an error.
\* store: a statement fails.  crash: the process dies and is started again.
\* rm: someone removes a container behind the process (docker rm).
Fault == {"cancel", "docker", "store", "crash", "rm"}

ASSUME ConfigAssumption ==
  /\ PortLo \in 1..65535 /\ PortHi \in PortLo..65535
  /\ MaxServers \in Nat \ {0}
  /\ ProbeHost \in BOOLEAN
ASSUME EnvironmentAssumption ==
  /\ Handlers \subseteq Handler /\ Faults \subseteq Fault
  /\ IsFiniteSet(Requests) /\ Admins \subseteq Users
ASSUME NoneAssumption ==
  None \notin Requests \cup ServerIds \cup ContainerIds \cup Users \cup Names

Ports == PortLo..PortHi

Status == {"creating", "stopped", "starting", "stopping", "error"}

Row == [owner : Users, name : Names, port : Ports, status : Status,
        cid : ContainerIds \cup {None}]

\* A handler's store.Server value: the zero value until it is filled in.
Struct == [owner : Users \cup {None}, name : Names \cup {None},
           port : Ports \cup {0}, status : Status \cup {""},
           cid : ContainerIds \cup {None}]

ZeroStruct == [owner |-> None, name |-> None, port |-> 0, status |-> "",
               cid |-> None]

Container == [server : ServerIds, port : Ports,
              state : {"created", "running", "exited"}]

\* Where a request is: the statement or call its handler makes next.
Step == {"idle", "allocate", "probe", "insert", "volume", "container", "save",
         "setcid", "start", "remove", "started", "touch", "mark", "stop",
         "stopped", "rmcontainer", "rmvolume", "rmrecord", "update", "fail"}

\* The handler a request runs; "rebuild" is a start that found its container
\* missing, "wipe" a delete with ?deleteData=true.
Op == Handler \cup {"none", "rebuild"}

VARIABLES
  servers,    \* the rows of the live records
  minted,     \* every server id drawn so far
  containers, \* the Engine's containers
  volumes,    \* the servers whose world volume exists
  mu,         \* who holds the allocator's mutex
  claimed,    \* the ports read under it
  pc, op, sid,
  srv,        \* each handler's copy of the record
  cancelled   \* the requests whose context is cancelled

table  == <<servers, minted>>
engine == <<containers, volumes>>
lock   == <<mu, claimed>>
vars   == <<servers, minted, containers, volumes, mu, claimed, pc, op, sid,
            srv, cancelled>>

Init ==
  /\ servers = << >> /\ minted = {}
  /\ containers = << >> /\ volumes = {}
  /\ mu = None /\ claimed = {}
  /\ pc = [r \in Requests |-> "idle"]
  /\ op = [r \in Requests |-> "none"]
  /\ sid = [r \in Requests |-> None]
  /\ srv = [r \in Requests |-> ZeroStruct]
  /\ cancelled = {}
-----------------------------------------------------------------------------
(***************************************************************************)
(* Control: a handler goes on to its next call, or answers and is gone.    *)
(***************************************************************************)
Goto(r, step) ==
  pc' = [pc EXCEPT ![r] = step] /\ UNCHANGED <<op, sid, srv, cancelled>>

Finish(r) ==
  /\ pc' = [pc EXCEPT ![r] = "idle"]
  /\ op' = [op EXCEPT ![r] = "none"]
  /\ sid' = [sid EXCEPT ![r] = None]
  /\ srv' = [srv EXCEPT ![r] = ZeroStruct]
  /\ cancelled' = cancelled \ {r}

(***************************************************************************)
(* A statement: it writes rows, or fails and writes nothing.               *)
(***************************************************************************)
StoreFails(r) == r \in cancelled \/ "store" \in Faults

Write(r, rows) ==
  /\ \/ r \notin cancelled /\ servers' = rows
     \/ StoreFails(r) /\ servers' = servers
  /\ UNCHANGED <<minted, engine, lock>>

(***************************************************************************)
(* A call to the Engine.  It is carried out and answered; or refused; or   *)
(* carried out while the client goes away, so that the handler sees an     *)
(* error although the effect is there.                                     *)
(***************************************************************************)
Answered(r, cs, vs) ==
  /\ r \notin cancelled
  /\ containers' = cs /\ volumes' = vs
  /\ UNCHANGED <<table, lock>>

Refused(r) ==
  /\ r \in cancelled \/ "docker" \in Faults
  /\ UNCHANGED <<table, engine, lock>>

Unheard(r, cs, vs, step) ==
  /\ "cancel" \in Faults /\ r \notin cancelled
  /\ cancelled' = cancelled \cup {r}
  /\ pc' = [pc EXCEPT ![r] = step]
  /\ containers' = cs /\ volumes' = vs
  /\ UNCHANGED <<table, lock, op, sid, srv>>

Call(r, cs, vs, step) ==
  \/ Answered(r, cs, vs) /\ Goto(r, step)
  \/ Refused(r) /\ Goto(r, "fail")
  \/ Unheard(r, cs, vs, "fail")
-----------------------------------------------------------------------------
(***************************************************************************)
(* handleCreateServer.  BeginCreate is the count check; a request that     *)
(* fails it, or any earlier one, leaves no trace.  Bound: creates start    *)
(* only while each can still draw an id.                                   *)
(***************************************************************************)
PendingCreates == {r \in Requests : op[r] = "create" /\ sid[r] = None}

\* Mutant of UnderCap: > for >= in the handler's test.
UnderOrAtCap == CountServers(servers) <= MaxServers

UnderCap == CountServers(servers) < MaxServers

BeginCreate(r, u, name) ==
  /\ pc[r] = "idle" /\ "create" \in Handlers
  /\ Cardinality(PendingCreates) < Cardinality(ServerIds \ minted)
  /\ UnderCap
  /\ pc' = [pc EXCEPT ![r] = "allocate"]
  /\ op' = [op EXCEPT ![r] = "create"]
  /\ srv' = [srv EXCEPT ![r] = [ZeroStruct EXCEPT
                        !.owner = u, !.name = name, !.status = "creating"]]
  /\ UNCHANGED <<table, engine, lock, sid, cancelled>>

\* Mutant of ReadPorts: Unlock without defer, missed when the query fails.
ReadPortsKeepsLock(r) ==
  /\ pc[r] = "allocate" /\ mu = None /\ mu' = r
  /\ \/ /\ r \notin cancelled
        /\ claimed' = UsedPorts(servers) /\ Goto(r, "probe")
     \/ StoreFails(r) /\ Finish(r) /\ UNCHANGED claimed
  /\ UNCHANGED <<table, engine>>

\* Allocate takes the mutex and reads the claimed ports; on an error the
\* deferred Unlock gives it back at once.
ReadPorts(r) ==
  /\ pc[r] = "allocate" /\ mu = None
  /\ \/ /\ r \notin cancelled
        /\ mu' = r /\ claimed' = UsedPorts(servers)
        /\ Goto(r, "probe")
     \/ StoreFails(r) /\ Finish(r) /\ UNCHANGED lock
  /\ UNCHANGED <<table, engine>>

\* docker-compose.yml publishes part of the pool for the API itself.
Bound(p, except) == p \in HeldPorts \/ PortBound(containers, p, except)

\* Mutant of FreePorts: the loop runs one past the end of the range.
FreePortsPastEnd ==
  {p \in PortLo..(PortHi + 1) :
     p \notin claimed /\ (ProbeHost => ~Bound(p, None))}

\* The rest of Allocate: the lowest port that is neither claimed nor, when
\* the allocator probes, bound.  The probe of the whole range is one step.
FreePorts == {p \in Ports : /\ p \notin claimed
                            /\ ProbeHost => ~Bound(p, None)}

\* Mutant of PickPort: Unlock without defer, missed when the pool is exhausted.
PickPortKeepsLock(r) ==
  /\ pc[r] = "probe" /\ claimed' = {}
  /\ \/ \E p \in FreePorts :
          /\ \A q \in FreePorts : p <= q
          /\ srv' = [srv EXCEPT ![r].port = p] /\ mu' = None
          /\ pc' = [pc EXCEPT ![r] = "insert"]
          /\ UNCHANGED <<op, sid, cancelled>>
     \/ FreePorts = {} /\ Finish(r) /\ UNCHANGED mu
  /\ UNCHANGED <<table, engine>>

PickPort(r) ==
  /\ pc[r] = "probe"
  /\ mu' = None /\ claimed' = {}
  /\ \/ \E p \in FreePorts :
          /\ \A q \in FreePorts : p <= q
          /\ srv' = [srv EXCEPT ![r].port = p]
          /\ pc' = [pc EXCEPT ![r] = "insert"]
          /\ UNCHANGED <<op, sid, cancelled>>
     \/ FreePorts = {} /\ Finish(r)
  /\ UNCHANGED <<table, engine>>

\* The UNIQUE constraint turns a lost race for the port into a 409.
InsertRecord(r) ==
  /\ pc[r] = "insert"
  /\ \/ /\ r \notin cancelled /\ ~PortTaken(servers, srv[r].port)
        /\ \E s \in ServerIds \ minted :
             /\ servers' = NewRow(servers, s, srv[r])
             /\ minted' = minted \cup {s}
             /\ sid' = [sid EXCEPT ![r] = s]
        /\ pc' = [pc EXCEPT ![r] = "volume"]
        /\ UNCHANGED <<op, srv, cancelled>>
     \/ /\ StoreFails(r) \/ PortTaken(servers, srv[r].port)
        /\ Finish(r) /\ UNCHANGED table
  /\ UNCHANGED <<engine, lock>>

\* docker.CreateServer, first half; a volume that exists is left as it is.
CreateVolume(r) ==
  /\ pc[r] = "volume"
  /\ Call(r, containers, volumes \cup {sid[r]}, "container")

\* Second half.  The Engine refuses a name that is taken, and makes the
\* volume the container mounts if a delete has removed it meanwhile.  A fresh
\* container id is one that nothing refers to: the Engine never reuses one.
UsedContainerIds == DOMAIN containers \cup {servers[s].cid : s \in DOMAIN servers}
                      \cup {srv[r].cid : r \in Requests}

CreateContainer(r) ==
  /\ pc[r] = "container"
  /\ \/ /\ ~NameTaken(containers, sid[r])
        /\ \E c \in ContainerIds \ UsedContainerIds :
             LET cs == CreatedContainer(containers, c, sid[r], srv[r].port)
                 vs == volumes \cup {sid[r]}
             IN  \/ /\ Answered(r, cs, vs)
                    /\ srv' = [srv EXCEPT ![r].cid = c,
                         ![r].status = IF op[r] = "create" THEN "stopped" ELSE @]
                    /\ pc' = [pc EXCEPT
                         ![r] = IF op[r] = "create" THEN "save" ELSE "setcid"]
                    /\ UNCHANGED <<op, sid, cancelled>>
                 \/ Unheard(r, cs, vs, "fail")
     \/ NameTaken(containers, sid[r]) /\ Answered(r, containers, volumes)
          /\ Goto(r, "fail")
     \/ Refused(r) /\ Goto(r, "fail")

\* The end of a create: UpdateServer writes the handler's whole copy, and an
\* error is only logged.
SaveServer(r) ==
  /\ pc[r] = "save"
  /\ Write(r, UpdateServer(servers, sid[r], srv[r])) /\ Finish(r)

\* Mutant of RecordFailure: the failure is logged but not recorded.
LogFailure(r) ==
  /\ pc[r] = "fail"
  /\ Finish(r) /\ UNCHANGED <<table, engine, lock>>

\* Mutant of RecordFailure: the whole copy is written, as a rename does.
RecordFailureWhole(r) ==
  /\ pc[r] = "fail"
  /\ Write(r, UpdateServer(servers, sid[r], [srv[r] EXCEPT !.status = "error"]))
  /\ Finish(r)

\* The error branch of a create and failServer: SetStatus(error), on the same
\* context as the call that failed.
RecordFailure(r) ==
  /\ pc[r] = "fail"
  /\ Write(r, SetStatus(servers, sid[r], "error")) /\ Finish(r)
-----------------------------------------------------------------------------
(***************************************************************************)
(* lookup: the record is read once, and only its owner or an admin gets    *)
(* past.  A lookup that fails answers 404 and leaves no trace.             *)
(***************************************************************************)
Lookup(r, s, handler, step) ==
  /\ pc[r] = "idle" /\ handler \in Handlers
  /\ s \in DOMAIN servers
  /\ \E u \in Users : u = servers[s].owner \/ u \in Admins
  /\ pc' = [pc EXCEPT ![r] = step]
  /\ op' = [op EXCEPT ![r] = handler]
  /\ sid' = [sid EXCEPT ![r] = s]
  /\ UNCHANGED <<table, engine, lock, cancelled>>

(***************************************************************************)
(* handleStartServer and recreateContainer.                                *)
(***************************************************************************)
\* Mutant of BeginStart: every start rebuilds the container.
BeginStartRebuilds(r, s) ==
  /\ Lookup(r, s, "start", IF servers[s].cid = None THEN "volume" ELSE "remove")
  /\ srv' = [srv EXCEPT ![r] = servers[s]]

BeginStart(r, s) ==
  /\ Lookup(r, s, "start", IF servers[s].cid = None THEN "volume" ELSE "start")
  /\ srv' = [srv EXCEPT ![r] = servers[s]]

\* Mutant of StartContainer: a container that is missing is made again as often
\* as it is found missing.
StartContainerAgain(r) ==
  /\ pc[r] = "start"
  /\ LET c == srv[r].cid
     IN  \/ c \in DOMAIN containers /\ ~Bound(containers[c].port, c)
           /\ Call(r, StartedContainer(containers, c), volumes, "started")
         \/ c \notin DOMAIN containers
           /\ Answered(r, containers, volumes) /\ Goto(r, "remove")
         \/ Refused(r) /\ Goto(r, "fail")

StartContainer(r) ==
  /\ pc[r] = "start"
  /\ LET c == srv[r].cid
         found == c \in DOMAIN containers
         bound == Bound(containers[c].port, c)
     IN  \/ found /\ ~bound
           /\ Call(r, StartedContainer(containers, c), volumes, "started")
         \/ found /\ bound
           /\ Answered(r, containers, volumes) /\ Goto(r, "fail")
         \/ ~found /\ op[r] = "start" /\ Answered(r, containers, volumes)
           /\ pc' = [pc EXCEPT ![r] = "remove"]
           /\ op' = [op EXCEPT ![r] = "rebuild"]
           /\ UNCHANGED <<sid, srv, cancelled>>
         \/ ~found /\ op[r] = "rebuild"
           /\ Answered(r, containers, volumes) /\ Goto(r, "fail")
         \/ Refused(r) /\ Goto(r, "fail")

\* recreateContainer first removes the container its copy names; what that
\* returns is ignored.
RemoveStale(r) ==
  /\ pc[r] = "remove"
  /\ LET cs == RemovedContainer(containers, srv[r].cid)
     IN  \/ Answered(r, cs, volumes) /\ Goto(r, "volume")
         \/ Refused(r) /\ Goto(r, "volume")
         \/ Unheard(r, cs, volumes, "volume")

SaveContainerID(r) ==
  /\ pc[r] = "setcid"
  /\ Write(r, SetContainerID(servers, sid[r], srv[r].cid)) /\ Goto(r, "start")

RecordStarted(r) ==
  /\ pc[r] = "started"
  /\ Write(r, SetStatus(servers, sid[r], "starting")) /\ Goto(r, "touch")

\* A statement of its own, whose error is ignored; last_active_at is not kept.
TouchActivity(r) ==
  /\ pc[r] = "touch"
  /\ Finish(r) /\ UNCHANGED <<table, engine, lock>>
-----------------------------------------------------------------------------
(***************************************************************************)
(* handleStopServer: a container that is missing counts as stopped.        *)
(***************************************************************************)
BeginStop(r, s) ==
  /\ Lookup(r, s, "stop", "mark") /\ servers[s].cid # None
  /\ srv' = [srv EXCEPT ![r] = servers[s]]

MarkStopping(r) ==
  /\ pc[r] = "mark"
  /\ Write(r, SetStatus(servers, sid[r], "stopping")) /\ Goto(r, "stop")

StopContainer(r) ==
  /\ pc[r] = "stop"
  /\ Call(r, StoppedContainer(containers, srv[r].cid), volumes, "stopped")

RecordStopped(r) ==
  /\ pc[r] = "stopped"
  /\ Write(r, SetStatus(servers, sid[r], "stopped")) /\ Finish(r)
-----------------------------------------------------------------------------
(***************************************************************************)
(* handleDeleteServer.  RemoveServer and the volume's removal are skipped  *)
(* when the copy names no container.                                       *)
(***************************************************************************)
BeginDelete(r, s, handler) ==
  /\ handler \in {"delete", "wipe"}
  /\ Lookup(r, s, handler,
            IF servers[s].cid = None THEN "rmrecord" ELSE "rmcontainer")
  /\ srv' = [srv EXCEPT ![r] = servers[s]]

\* Mutant of RemoveContainer: deleteData is not looked at.
RemoveContainerAndVolume(r) ==
  /\ pc[r] = "rmcontainer"
  /\ Call(r, RemovedContainer(containers, srv[r].cid), volumes, "rmvolume")

RemoveContainer(r) ==
  /\ pc[r] = "rmcontainer"
  /\ Call(r, RemovedContainer(containers, srv[r].cid), volumes,
          IF op[r] = "wipe" THEN "rmvolume" ELSE "rmrecord")

\* Mutant of RemoveVolume: its error does not stop the delete.
RemoveVolumeIfItGoes(r) ==
  /\ pc[r] = "rmvolume"
  /\ \/ /\ ~NameTaken(containers, sid[r])
        /\ Call(r, containers, volumes \ {sid[r]}, "rmrecord")
     \/ Refused(r) /\ Goto(r, "rmrecord")

\* The Engine keeps a volume that a container mounts.
RemoveVolume(r) ==
  /\ pc[r] = "rmvolume"
  /\ \/ /\ ~NameTaken(containers, sid[r])
        /\ Call(r, containers, volumes \ {sid[r]}, "rmrecord")
     \/ /\ NameTaken(containers, sid[r])
        /\ Answered(r, containers, volumes) /\ Goto(r, "fail")
     \/ Refused(r) /\ Goto(r, "fail")

RemoveRecord(r) ==
  /\ pc[r] = "rmrecord"
  /\ Write(r, DeleteServer(servers, sid[r])) /\ Finish(r)

(***************************************************************************)
(* handleUpdateServer: a new name in the copy, then the whole copy back.   *)
(***************************************************************************)
BeginRename(r, s, name) ==
  /\ Lookup(r, s, "rename", "update")
  /\ srv' = [srv EXCEPT ![r] = [servers[s] EXCEPT !.name = name]]

UpdateRecord(r) ==
  /\ pc[r] = "update"
  /\ Write(r, UpdateServer(servers, sid[r], srv[r])) /\ Finish(r)
-----------------------------------------------------------------------------
(***************************************************************************)
(* The environment.                                                        *)
(***************************************************************************)
Cancel(r) ==
  /\ "cancel" \in Faults /\ pc[r] # "idle" /\ r \notin cancelled
  /\ cancelled' = cancelled \cup {r}
  /\ UNCHANGED <<table, engine, lock, pc, op, sid, srv>>

\* The database file and the Engine outlive the process; nothing reconciles
\* them when it comes back.
Crash ==
  /\ "crash" \in Faults /\ \E r \in Requests : pc[r] # "idle"
  /\ mu' = None /\ claimed' = {}
  /\ pc' = [r \in Requests |-> "idle"]
  /\ op' = [r \in Requests |-> "none"]
  /\ sid' = [r \in Requests |-> None]
  /\ srv' = [r \in Requests |-> ZeroStruct]
  /\ cancelled' = {}
  /\ UNCHANGED <<table, engine>>

ExternalRemove(c) ==
  /\ "rm" \in Faults /\ c \in DOMAIN containers
  /\ containers' = RemovedContainer(containers, c)
  /\ UNCHANGED <<table, volumes, lock, pc, op, sid, srv, cancelled>>
-----------------------------------------------------------------------------
Begin(r) ==
  \/ \E u \in Users, name \in Names : BeginCreate(r, u, name)
  \/ \E s \in DOMAIN servers :
       \/ BeginStart(r, s)
       \/ BeginStop(r, s)
       \/ \E handler \in {"delete", "wipe"} : BeginDelete(r, s, handler)
       \/ \E name \in Names : BeginRename(r, s, name)

Advance(r) ==
  \/ ReadPorts(r) \/ PickPort(r) \/ InsertRecord(r)
  \/ CreateVolume(r) \/ CreateContainer(r) \/ SaveServer(r) \/ RecordFailure(r)
  \/ StartContainer(r) \/ RemoveStale(r) \/ SaveContainerID(r)
  \/ RecordStarted(r) \/ TouchActivity(r)
  \/ MarkStopping(r) \/ StopContainer(r) \/ RecordStopped(r)
  \/ RemoveContainer(r) \/ RemoveVolume(r) \/ RemoveRecord(r)
  \/ UpdateRecord(r)

Environment ==
  \/ \E r \in Requests : Cancel(r)
  \/ Crash
  \/ \E c \in DOMAIN containers : ExternalRemove(c)

Next == (\E r \in Requests : Begin(r) \/ Advance(r)) \/ Environment

Spec == Init /\ [][Next]_vars

\* The runtime runs every goroutine that can go on, the Engine and the
\* database answer every call, and sync.Mutex starves no waiter.
FairSpec ==
  /\ Spec
  /\ \A r \in Requests : WF_vars(Advance(r)) /\ SF_vars(ReadPorts(r))
-----------------------------------------------------------------------------
(***************************************************************************)
(* Correctness.  Acts(r) is a step of request r's handler (or its end in a *)
(* crash, which touches neither the registry nor the Engine).              *)
(***************************************************************************)
Acts(r) == pc[r] # "idle" /\ pc'[r] # pc[r]

\* Every variable has its type; the table's and the Engine's domains are the
\* ids in use.
TypeOK ==
  /\ DOMAIN servers \subseteq minted /\ servers \in [DOMAIN servers -> Row]
  /\ minted \subseteq ServerIds
  /\ DOMAIN containers \subseteq ContainerIds
  /\ containers \in [DOMAIN containers -> Container]
  /\ volumes \subseteq ServerIds
  /\ mu \in Requests \cup {None} /\ claimed \subseteq Ports
  /\ pc \in [Requests -> Step] /\ op \in [Requests -> Op]
  /\ sid \in [Requests -> ServerIds \cup {None}]
  /\ srv \in [Requests -> Struct]
  /\ cancelled \subseteq Requests

\* Whatever copies of a record are in flight when it is written back, a record
\* never comes to name another server's container, and every container of a
\* live server publishes the port its record holds.
RecordsPointHome ==
  /\ \A s \in DOMAIN servers :
       servers[s].cid \in DOMAIN containers =>
         containers[servers[s].cid].server = s
  /\ \A c \in DOMAIN containers :
       containers[c].server \in DOMAIN servers =>
         containers[c].port = servers[containers[c].server].port

\* The count check and the insert are two steps, so what README.md:155 calls a
\* "Hard cap on server records" can be exceeded; but only by the creates that
\* were counting at the same time.
CapOvershoot ==
  CountServers(servers) <= MaxServers + Cardinality(Requests) - 1

\* A container of a live server is named by its record, or is in the hands of
\* the request that made it and is about to save its id: creates, recreates,
\* stops and deletes that interleave or fail half-way lose sight of none, so a
\* later stop or delete finds it.  (Not so with a client that goes away, a crash
\* or a rename, which writes an old id back.)
LiveContainersAreKnown ==
  \A c \in DOMAIN containers :
    LET s == containers[c].server
    IN  s \in DOMAIN servers =>
          \/ servers[s].cid = c
          \/ \E r \in Requests : /\ pc[r] \in {"save", "setcid"}
                                 /\ sid[r] = s /\ srv[r].cid = c

\* recreateContainer's RemoveServer: whatever a start does about a missing
\* container, it never destroys one that exists, so a player is never thrown
\* out by a start.
StartNeverRemoves ==
  [][\A r \in Requests : Acts(r) /\ op[r] \in {"start", "rebuild"} =>
       DOMAIN containers \subseteq DOMAIN containers']_vars

\* World data survives everything but a delete with deleteData of that server:
\* no start, stop, plain delete, crash or docker rm loses a world.
WorldSurvives ==
  [][\A s \in volumes \ volumes' :
       \E r \in Requests : op[r] = "wipe" /\ sid[r] = s /\ Acts(r)]_vars

\* A handler changes no container but those of the server it was called for,
\* however stale its copy of the record.
OthersUntouched ==
  [][\A r \in Requests : Acts(r) =>
       \A c \in DOMAIN containers : containers[c].server # sid[r] =>
         c \in DOMAIN containers' /\ containers'[c] = containers[c]]_vars

\* One request at a time and an Engine that may refuse any call: whenever the
\* process is at rest the records and the containers agree.  Every container
\* is the one its server's record names; no record is left "creating" or
\* "stopping"; "starting" has a running container and "stopped" has none.
AtRest == \A r \in Requests : pc[r] = "idle"

Running(c) == c \in DOMAIN containers /\ containers[c].state = "running"

SerialAgreement ==
  AtRest =>
    /\ \A c \in DOMAIN containers :
         LET s == containers[c].server
         IN  s \in DOMAIN servers /\ servers[s].cid = c
    /\ \A s \in DOMAIN servers :
         \/ servers[s].status = "error"
         \/ servers[s].status = "starting" /\ Running(servers[s].cid)
         \/ servers[s].status = "stopped" /\ ~Running(servers[s].cid)

\* One request at a time: a delete with deleteData that removes the record has
\* removed the world, whatever failed on the way, unless the record named no
\* container; then the volume a failed create left is not looked for
\* (servers.go:278).
WipedWorldIsGone ==
  [][\A r \in Requests :
       Acts(r) /\ op[r] = "wipe" /\ sid[r] \in DOMAIN servers \ DOMAIN servers'
         => srv[r].cid = None \/ sid[r] \notin volumes']_vars

\* The registry as a set of exclusive leases: a server's port is the one it was
\* created with, whatever stale copies of its record are written back, and a
\* record that was deleted under a request in flight does not come back.
Leases == INSTANCE PortLease
            WITH Servers <- ServerIds, LeasablePorts <- Ports,
                 lease <- [s \in DOMAIN servers |-> servers[s].port],
                 spent <- minted
PortsAreLeased == Leases!Spec

\* The calls and statements a handler has before it at most, without the
\* inspection for its answer: a start that finds its container missing goes
\* through recreateContainer, but only once (servers.go:212), whatever others
\* remove meanwhile.
CallsFrom == [idle |-> 0, allocate |-> 9, probe |-> 8, insert |-> 7,
              remove |-> 7, volume |-> 6, container |-> 5, setcid |-> 4,
              start |-> 3, started |-> 2, touch |-> 1, save |-> 1, fail |-> 1,
              mark |-> 3, stop |-> 2, stopped |-> 1,
              rmcontainer |-> 3, rmvolume |-> 2, rmrecord |-> 1, update |-> 1]

CallsLeft(r) == CallsFrom[pc[r]] + IF op[r] = "start" THEN 5 ELSE 0

\* Every step of a handler brings its end nearer, and no other request's step
\* puts it off.  After its lookup a handler makes at most eleven calls and
\* statements before it answers: a start without a container id that makes one,
\* finds it gone, makes another and starts that.
CallsRunOut ==
  [][\A r \in Requests : pc[r] # "idle" =>
       \/ CallsLeft(r)' < CallsLeft(r)
       \/ pc'[r] = pc[r] /\ op'[r] = op[r]]_vars

\* The allocator's mutex is held by the one request that is choosing a port, and
\* is given back on every way out of Allocate: an exhausted pool, a failed query,
\* a cancelled client (allocator.go:51).
MutexHeldToPick == \A r \in Requests : mu = r <=> pc[r] = "probe"

\* Every request is answered in the end: no handler waits for ever on the
\* allocator's mutex, and recreating a container is tried only once.
RequestsEnd == \A r \in Requests : pc[r] # "idle" ~> pc[r] = "idle"

\* A record does not stay "creating" or "stopping": while clients wait for
\* their answers and nobody renames, the handler that wrote the status, or one
\* that came later, replaces it or deletes the record.
TransientStatusSettles ==
  \A s \in ServerIds :
    (s \in DOMAIN servers /\ servers[s].status \in {"creating", "stopping"})
      ~> ~(s \in DOMAIN servers /\ servers[s].status \in {"creating", "stopping"})
=============================================================================
