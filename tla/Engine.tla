------------------------------- MODULE Engine -------------------------------
(***************************************************************************)
(* What the Docker client wrapper (internal/docker) makes the Docker       *)
(* Engine do, as operators on the set of existing containers: a function   *)
(* from container ids to [server, port, state].  A container's name and    *)
(* its volume's name are derived from the server's id, so the server       *)
(* stands for both; port is the host port it publishes when it runs.       *)
(***************************************************************************)
EXTENDS Integers, Functions

\* A container's name stays taken as long as it exists, running or not.
NameTaken(cs, server) == \E c \in DOMAIN cs : cs[c].server = server

\* A port the containers other than "except" have bound on the host.
PortBound(cs, port, except) ==
  \E c \in DOMAIN cs \ {except} : cs[c].state = "running" /\ cs[c].port = port

CreatedContainer(cs, c, server, port) ==
  [d \in DOMAIN cs \cup {c} |->
     IF d = c THEN [server |-> server, port |-> port, state |-> "created"]
              ELSE cs[d]]

\* Starting a running container and stopping a stopped one succeed and do
\* nothing; "unless-stopped" makes the Engine restart a server that exits by
\* itself, so only a stop or a removal ends "running".
StartedContainer(cs, c) == [cs EXCEPT ![c].state = "running"]

StoppedContainer(cs, c) ==
  [d \in DOMAIN cs |->
     IF d = c /\ cs[d].state = "running"
       THEN [cs[d] EXCEPT !.state = "exited"] ELSE cs[d]]

\* Mutant of RemovedContainer: selects by the managed label alone.
RemovedManaged(cs, c) == << >>

\* Force: a running container is killed first.
RemovedContainer(cs, c) == Restrict(cs, DOMAIN cs \ {c})
=============================================================================
