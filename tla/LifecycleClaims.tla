-------------------------- MODULE LifecycleClaims --------------------------
(***************************************************************************)
(* What the repository's comments and README say of the handlers and the   *)
(* concurrent handlers do not do.  Each claim has a run that refutes it.   *)
(***************************************************************************)
EXTENDS Lifecycle

\* servers.go:267 ("removes the container and the record") and sqlite.go:421
\* (who deletes a record has "already removed the container"): a container
\* never outlives its record.
ContainersHaveRecords ==
  \A c \in DOMAIN containers : containers[c].server \in DOMAIN servers

\* servers.go:60-62: "a failed container create leaves a visible server in the
\* error state"; so once its create has ended no record says "creating".
FailedCreateIsRecorded ==
  \A s \in DOMAIN servers : servers[s].status = "creating" =>
    \E r \in Requests : sid[r] = s

\* servers.go:326-327: a start clears "any stale container of the same name
\* first, or the create fails on a name conflict".
RecreateNeverConflicts ==
  \A r \in Requests : pc[r] = "container" /\ op[r] \in {"start", "rebuild"} =>
    ~NameTaken(containers, sid[r])
=============================================================================
