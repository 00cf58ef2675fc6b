------------------------------ MODULE Registry ------------------------------
(***************************************************************************)
(* The servers table of the SQLite store (internal/store), as a function   *)
(* from the ids of the live records to their rows, and its statements as   *)
(* operators on that function.  The store opens one connection, so each    *)
(* statement is atomic and nothing spans two of them: there is no          *)
(* transaction anywhere.  A row keeps the columns the handlers decide by:  *)
(* owner, name, port, status and cid (container_id).                       *)
(***************************************************************************)
EXTENDS Integers, FiniteSets, Functions

UsedPorts(rows) == {rows[s].port : s \in DOMAIN rows}

CountServers(rows) == Cardinality(DOMAIN rows)

\* The UNIQUE constraint on servers.port.
PortTaken(rows, port) == port \in UsedPorts(rows)

NewRow(rows, id, row) ==
  [s \in DOMAIN rows \cup {id} |-> IF s = id THEN row ELSE rows[s]]

\* Mutant of UpdateServer: INSERT OR REPLACE, which brings a deleted row back.
UpsertServer(rows, id, row) == NewRow(rows, id, row)

\* UPDATE ... WHERE id = ?: a row that is gone is not written.
UpdateServer(rows, id, row) ==
  [s \in DOMAIN rows |->
     IF s = id
       THEN [rows[s] EXCEPT !.name = row.name, !.status = row.status,
                            !.cid = row.cid]
       ELSE rows[s]]

SetStatus(rows, id, status) ==
  [s \in DOMAIN rows |->
     IF s = id THEN [rows[s] EXCEPT !.status = status] ELSE rows[s]]

\* Mutant of SetContainerID: the WHERE clause is missing.
SetEveryContainerID(rows, id, cid) ==
  [s \in DOMAIN rows |-> [rows[s] EXCEPT !.cid = cid]]

SetContainerID(rows, id, cid) ==
  [s \in DOMAIN rows |->
     IF s = id THEN [rows[s] EXCEPT !.cid = cid] ELSE rows[s]]

DeleteServer(rows, id) == Restrict(rows, DOMAIN rows \ {id})
=============================================================================
