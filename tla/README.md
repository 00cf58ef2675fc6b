# A verification project for Overworld Ops

TLA+ models of the control plane in this repository (`backend/`) and of the
browser's side of it (`frontend/`): the handlers that create, start, stop,
delete and rename Minecraft servers over a SQLite registry and the Docker
Engine, the account handlers of the admin panel, the live console from the
Engine's log to the browser's page, the life of the process, and the way from a
user's input to a container's environment and limits. TLC checks the models on
small instances; TLAPS proves theorems about them for every instance. Source
lines are named as `file.go:line`; `+page.svelte` is the page of one server.

    tlc -workers 2 -config races.cfg MCLifecycle.tla     # any run of PROJECT.json
    tlapm LifecycleProofs.tla                            # a module of proofs (*Proofs.tla)

## 1. The system

| Component | State | Operations | Talks to |
| --- | --- | --- | --- |
| server handlers, `internal/api/servers.go` | none of their own: a private copy of one record per request | list, get, create, rename, delete (`?deleteData`), start, stop | registry, allocator, Docker wrapper |
| registry, `internal/store` | tables `servers` and `users` in one SQLite file, one connection | one statement per method, no transactions | called by every handler |
| port allocator, `internal/ports` | one mutex | `Allocate`: read the claimed ports, take the lowest that is free and can be bound | registry, host sockets |
| Docker wrapper, `internal/docker` | none; the Engine holds containers and volumes | create (volume, then container), start, stop, remove (container, then volume), inspect, logs, pull | Docker Engine |
| accounts, `internal/api/auth.go`, `admin.go` | none in the process; sessions are signed cookies | register, login, seed; list, create, update, delete accounts | registry |
| log stream, `internal/api/logs.go`, `internal/docker/logs.go` | a goroutine, a channel of 64 lines, a ticker per console | demultiplex frames into lines, send them as events | Docker wrapper, browser |
| process, `cmd/overworld-ops`, with its configuration, `internal/config` | an HTTP server, a signal context | start-up checks, serve, drain for 15 s | all |
| provisioning, `store/models.go`, `docker/minecraft.go` | none: pure functions of a record and the configuration | validate, fill in defaults, container environment, CPU and memory limits | called by create and start |
| pages in the browser, `src/frontend` | the list or server last fetched, busy flags, console lines, an EventSource | poll every 5 s, act, stream the console | HTTP API |
| scripts, packaging | - | developer tooling, compose file | Docker |

Every HTTP request runs in its own goroutine. Nothing locks a server, an
account or a request; the only lock is the allocator's mutex and the only
atomic unit is one SQL statement or one Engine call. What goes wrong is
therefore what happens *between* two of these.

What makes each component correct, and what makes it hard:

* **Server handlers.** A record and its container agree when nobody is at
  work; nobody loses a world or a running server to an operation that did not
  ask for it; an operation on one server leaves the others alone; every
  request ends. Hard: stale copies of a record written back by a rename or a
  create; container ids saved long after the container exists; a client that
  goes away cancels the context, and with it the statements that would record
  the failure; a crash between two calls, with no recovery at start-up.
* **Registry and allocator.** A port belongs to one live server at a time and
  a server's port never changes; the cap holds. Hard: the port is chosen and the
  cap is checked well before the record that makes them true is inserted.
* **Accounts.** The platform keeps an admin, a record keeps an owner, deleting
  an account loses no server. Hard: roles, counts and callers are read in one
  statement and used in a later one; deleting a row cascades.
* **Log stream.** What the goroutine cut reaches the browser once, in order and
  before the end of the stream is told; whichever side stops, the other finds
  out and the Engine's response is closed. Hard: a bounded channel between two
  goroutines of which either may wait for the other, a client that stalls or
  leaves in the middle, `select` choosing among several ready cases.
* **Process.** A signal ends it in time, in whatever state it is; what it cuts
  off it cuts late, and its exit code tells. Hard: an open console never ends by
  itself and Shutdown cancels nothing; the listener's error races the signal.
* **Provisioning.** A container made again from its record is the one that was
  made first; its memory cap holds its heap. Hard: the process may have been
  restarted with other defaults; sizes leave a machine word.
* **Pages.** What is shown is eventually what is, buttons come back, the console
  keeps up. Hard: polls and reloads that overtake each other; an EventSource that
  replays, and that gives up for good on one bad answer.

`PROJECT.json` lists these as `components`, and under `hazards` each hard place
at its line with the properties that watch it.

## 2. The modules

| Module | Models | Uses |
| --- | --- | --- |
| `Registry` | the `servers` table and its statements, as operators on a function from ids to rows | |
| `Engine` | what the wrapper's calls do to the Engine's containers, as operators | |
| `PortLease` | abstract specification: a live server holds one port, alone, from its record's insertion to its deletion, and a spent server never holds one again | |
| `Lifecycle` | the handlers of `servers.go` with the allocator, run concurrently; faults; properties | `Registry`, `Engine`, instance of `PortLease` |
| `LifecycleClaims` | claims of comments and README that the concurrent handlers do not keep | `Lifecycle` |
| `LifecycleProofs` | theorems and proofs, for any number of requests | `Lifecycle` |
| `LifecycleKnownProofs` | theorem and proof about requests whose clients wait for their answers, without renames | `LifecycleProofs` |
| `LifecycleSerialProofs` | theorems and proofs about one request at a time | `LifecycleProofs` |
| `Accounts` | the account handlers of `auth.go` and `admin.go` and the `users` table, with the ownership of servers | |
| `AccountsProofs` | theorems and proofs | `Accounts` |
| `LineFeed` | abstract specification: a reader is shown a growing feed's lines, one at a time, in order | |
| `LogStream` | `handleServerLogs` and `DemuxLogs` with the channel, the context, the Engine's feed and the browser; properties | instance of `LineFeed` |
| `Process` | `run` of `main.go` with `config.Load`, the listener, Shutdown and its deadline, around `LogStream` and ordinary requests; fairness; properties | `LogStream` |
| `ProcessProofs` | theorems and proofs about both | `Process` |
| `Provision` | validation, defaults, `specFor`, `buildEnv`, `buildResources`, `parseSize`, for one server through losses and restarts | |
| `ProvisionProofs` | theorems and proofs | `Provision` |
| `ServerPage` | the page of one server: `load`, `act`, the console's effect and EventSource | |
| `ServerPageProofs` | theorems and proofs | `ServerPage` |
| `MCLifecycle`, `MCAccounts`, `MCProcess`, `MCProvision` | instances for TLC (symmetry, frames, configurations, inputs) | |

### Lifecycle

A request `r` is at `pc[r]`, the statement or Engine call its handler makes
next; `op[r]` is the handler, `sid[r]` the server, `srv[r]` the handler's
`store.Server` value. Each action is one statement or one call *with* everything
the handler does up to the next one:

    create   BeginCreate (count) - ReadPorts (lock, read) - PickPort (choose,
             unlock) - InsertRecord - CreateVolume - CreateContainer - SaveServer
    start    BeginStart - StartContainer - RecordStarted - TouchActivity; when
             the container is missing: RemoveStale - CreateVolume -
             CreateContainer - SaveContainerID - StartContainer (a second miss
             fails); with no container id the rebuild starts at CreateVolume
    stop     BeginStop - MarkStopping - StopContainer - RecordStopped
    delete   BeginDelete - RemoveContainer - [RemoveVolume] - RemoveRecord
    rename   BeginRename - UpdateRecord
    any      RecordFailure: SetStatus(error), on the request's own context

`Call` gives an Engine call its three outcomes: carried out and answered;
refused (`docker` fault, or a context that is already cancelled); carried out
while the client goes away, so that the handler sees an error. `Write` does the
same for statements. `Cancel`, `Crash` and `ExternalRemove` are the rest of the
environment. A crash keeps the database and the Engine, and nothing reconciles
them afterwards: `docker.FindByServerID` has no caller.

Abstractions, each of which changes no decision of the code:

* a row keeps owner, name, port, status and container id; type, version,
  modpack, memory, CPU and the status message decide nothing after validation;
  `TouchActivity` is a statement and a step, but the column it writes,
  `last_active_at`, decides nothing and is not kept;
* the read-only endpoints (list, get) and requests that fail before their first
  write (validation, 404, a full cap) leave no trace and are not steps;
* the allocator's probe of the whole range is one step; it looks at the ports
  that running containers have bound and at `HeldPorts`, those that something
  else holds; the Engine refuses to start a container on either;
* a container's name and volume are derived from the server's id, so the id
  stands for both; container ids are never reused (`UsedContainerIds`);
* a statement that is answered with an error has written nothing; a commit whose
  answer is lost is not modelled;
* `ErrNotFound` from a start is taken to mean that the container is missing, as
  the handler takes it;
* `unless-stopped` restarts a server that exits by itself, so only a stop or a
  removal ends "running"; a container that fails for good is not modelled;
* the caller's authorisation is one condition on the row that was read; the
  changes that the account handlers make to ownership are `Accounts`' subject.

### Accounts

The same shape: `actor[r]` is the caller as `requireAuth` read it, `target[r]`
the account as `lookupUser` read it, `ask[r]` the input. PATCH is `LookupUser` -
[`CountAdmins`] - `SetRole` - `SetPassword`; DELETE is `LookupUser` -
[`CountAdmins`] - `CountServers` - [`Reassign`] - `RemoveUser`. The statements
carry SQLite's constraints: unique usernames, the foreign key from servers to
their owner, and its ON DELETE CASCADE. Server creation and deletion appear only
as what they do to ownership. Passwords and cookies keep no state that decides
anything here: any account that exists may call, and `requireAuth` refuses the
cookie of one that does not. `Boot` is `SeedAdmin`. Two variables are histories:
`met[r]` is the accounts there were when a registration began, `came[r]` the
servers that came to an account while its deletion is the request's next
statement, read off every step by `Watch`, whoever takes it.

### LogStream and Process

The two goroutines of a console have a position each. The handler (`consumer`)
is in its `select` or in a write; the goroutine (`producer`) reads a frame,
sends its lines, or is on its way out through `closing`, where the body is closed
and the channel is not yet. Each case of the `select` is an action
(`Receive`, `ReceiveClosed`, `Keepalive`, `SeeCancelled`), so that any ready case
may be taken. A frame is the texts its newlines separate; `Lines` is
`strings.Split(strings.TrimRight(..))` on them. `source` and `written` are
histories: what was cut and what was written. A stalled browser blocks the
handler's write (there is no write deadline); one that is gone may still take a
few into its socket before a write fails or net/http cancels the request.

`Process` adds `main.go`: `phase` is the place in `run`. `Load`, `OpenStore`,
`SeedAdmin`, `PingDocker`, `EnsureImage` are the start-up steps in their order;
a seed that has nothing to do, and a pull, whose failure is only warned of, can
get through with a cancelled context. The listener runs in its own goroutine and may fail to bind or
fail later. `ListenerFails` and `BeginShutdown` are the two cases of the final
`select`, `ShutdownEnds` and `DeadlinePasses` the two ways Shutdown returns.
Ordinary requests are only "running", "answered" or "cut". Idle keep-alive
connections and `ReadHeaderTimeout` decide nothing and are left out, and so is
the order in which deferred closes run; a new request on a connection that is
still open while Shutdown drains is not modelled.

### ServerPage

`truth` is what the API would answer now, with a version that grows at each
change; `shown` is what the page shows. JavaScript runs one callback at a time,
so an action is a callback or something the network does: `Ask`, `Answer`,
`Deliver` split a `fetch`, so that answers are computed and delivered in any
order. The console's effect reads `server`, hence `Deliver` runs `Attach`: the old
EventSource is closed and a new one connects, at every poll. A line is its number
in the log.

### Provision

A size is a number with its unit. `HalfWord` (2^63 in the code) and `Bytes` (of
each unit; 2^30 for a G) are parameters: the arithmetic of `parseSize` and
`deriveMemoryLimit` wraps as int64 does, at numbers TLC can reach, and the theorems
hold for the code's own numbers. `row` outlives the process, `cfg` changes with `Restart`, `container` is lost
with `ContainerLost` and made again by `Start` from the row under the
configuration of the moment. The CPU cap is a whole number. Interleavings are
`Lifecycle`'s subject and not repeated.

## 3. The runs

`CHECK_DEADLOCK FALSE` where a bounded instance stops, when no id is left and all
requests are answered, and in `console`, where the process exits; `page` and
`provision` are checked for deadlock. The environment's actions are enabled or
not by `Handlers` and `Faults`, so that each run spends its states on its
question.

| Run | Instance | Question |
| --- | --- | --- |
| `races` | 2 requests, 1 server, 3 container ids; all handlers; cancel, docker, crash, rm | who may destroy a world or a container, is the mutex given back, does every handler run out of steps (891,708 states) |
| `neighbours` | 2 requests, 3 servers, 4 container ids, 3 free ports and a held one, cap 1, probe on; create, start, wipe, rename | do stale copies reach another server; ports; cap (482,844) |
| `serial` | 1 request, 3 servers, 5 container ids, 2 ports, one of them held by something else, cap 3; all handlers; docker | do record and container agree at rest, is a wiped world gone (6,636) |
| `progress` | 2 requests, 2 servers, 1 port, cap 2, `FairSpec`; create, start, stop; docker | is every request answered, does a transient status end, is every container of a live server known (25,501) |
| `accounts` | 2 requests, 3 accounts, 3 names, 2 servers; all handlers, crashes, seeding of any name | admins, owners, the cascade, first admins (433,016) |
| `console` | 1 console, 1 ordinary request, channel of 2, 3 lines in frames of 0, 1 and 3, one valid and several invalid configurations, a deadline of 1 tick | lines, both goroutines' ends, signals, exit codes (72,444) |
| `page` | 1 poll and 1 action in flight, 1 container, 2 changes, 3 lines, tail and list of 2 | what the page shows, buttons, the console (286,180) |
| `provision` | all mixes of type, version, pack; 14 sizes; CPU caps below, at and above 0; 2 configurations; words of 8 bits | made again the same, limits (1,244) |

Why the bounds are enough. The races of this code are between two requests: one
that has read and one that writes before the first writes back. A third request
adds no new kind of step, and the theorems below hold for any number. One server
suffices where the question is about one server's container and world; three
where a stale copy could reach another server's (two live, one deleted).
Container ids bound the number of creations: three allow a create and two
rebuilds; a port pool smaller than the cap exhausts it; a cap of one puts every
create at the boundary. In `progress` nothing deletes, so that one server holds
the only port for good and later creates meet an exhausted pool, and two
container ids never run out; deletes are left to the ranking, `CallsRunOut`, and
to the theorems, because with them the liveness check takes too long to be run
often. Three accounts let two admins fight while a third
looks on, or is created meanwhile. Creates start only while ids are left
(`BeginCreate`, `IdsLeft`), frames come while the feed has fewer than `MaxLines`
lines, and the page's server changes and prints `MaxChanges` and `MaxOutput`
times: the only bounds in guards. A frame of three lines over a channel of two
fills it while one is in the handler's hands or still pending; a second console shares nothing with the first but the shutdown, which only asks
whether all are over. A list of two lines under a log of three is cut in front,
and overflows when a tail is replayed behind it. Symmetry permutes
requests and ids, which nothing orders; never in the liveness run.

Fairness of `Lifecycle` (`FairSpec`): `WF(Advance(r))`, because the Go runtime runs every
goroutine that can go on, SQLite is given five seconds and one connection, and
the Engine answers every call or refuses it; `SF(ReadPorts(r))`, because
`sync.Mutex` hands the lock to a waiter that has waited for a millisecond, so
that none starves. Nothing is assumed of clients: no request need ever come.
`TransientStatusSettles` is asked where clients wait for their answers and
nobody renames; the run `stuck` shows what a cancelled request does to it.

Of `Process`: both goroutines, `run` and the clock go on when they can (WF). A
start-up step is only assumed to return after a signal, because then its context
is cancelled; an ordinary request is never assumed to end. `TakeLine` and
`SeeCancelled` are SF, because Go's `select` picks at random among the ready
cases, so that a ticker that is always ready cannot keep the others out for
ever. `NoticeGone` is WF: net/http reads the connection in the background.
Nothing is assumed of the browser or the feed. Of `ServerPage`: the timer fires,
callbacks run, requests settle (WF); `Answer` and `Connect` are SF: a load or a
connection that is tried again and again succeeds at some time. Without that
nothing could be shown at all; each single one may fail.

### What the passing runs show

* `StartNeverRemoves`, `WorldSurvives`: whatever is refused, cancelled, killed or
  removed behind the process, a start destroys no container, and a world goes
  only with a delete with deleteData of that server.
* `LiveContainersAreKnown`: handlers that race to make a server's container, or
  fail half-way, never lose sight of it: the record names it, or the handler that
  is about to save its id. This is what a later stop or delete relies on. It is
  not so when a client goes away between the container and its id (`conflict`),
  in a crash, or with a rename: `UpdateServer` writes every column of the copy
  that was read (`servers.go:187`), an older status and container id included.
* `RecordsPointHome`, `OthersUntouched`: stale copies do harm to their own server
  at most.
* `PortsAreLeased`: the table implements `PortLease` (lease = the ports of the
  live rows, spent = the ids ever drawn). Two creates can pick the same port, as
  the allocator's mutex does not cover the insert, against what
  `allocator.go:32-33` says; the UNIQUE constraint is the arbiter, as the comment
  at `sqlite.go:267-269` says.
* `CapOvershoot`: the cap is exceeded by at most the number of rival creates, and
  no less: creates that count before any of them inserts all pass, against what
  README.md:155 calls a "Hard cap on server records".
* `SerialAgreement`: without concurrency, failures at any Engine call leave
  record and container in agreement; what the claims below show is due to
  concurrency, cancellation or crashes.
* `WipedWorldIsGone`: one request at a time, a delete with deleteData that removes
  the record has removed the world, unless the record named no container. The
  exception is real: after a create whose container could not be made the volume
  exists, and the delete does not look for it (`servers.go:278`), although
  README.md:185 says that deleteData "also destroys the world".
* `MutexHeldToPick`, `CallsRunOut`: with clients that leave, refused calls and
  crashes, the mutex is still held only by the request that chooses a port, and
  every step of a handler lowers `CallsLeft`, the calls it has before it at most.
  (The pool is exhausted in `progress` and `serial`, not in `races`; the theorem has both.)
  Together they say why `RequestsEnd` holds; that run looks at the scheduling.
* `RequestsEnd`, `TransientStatusSettles`: see Fairness.
* `OwnersExist`, `LastAdminFallsToStaleCaller`: the foreign key keeps every record
  owned; the last admin falls only to a caller that has itself lost the role
  since it was read, so no race among admins that stay admins removes it.
* `CascadeTakesOnlyUnseen`: the cascade of a deletion takes no record but those
  that came to the account while its deletion was the handler's next statement.
  So a handler that gets there has left the account without a server, by the
  count or by the reassignment, whose new owner must not be the account itself.
  What does come in between is lost, against what `admin.go:185-189` says, and its
  container runs on.
* `AdminsOnlyFromEmpty`: two registrations that race on a fresh database may both
  become admins, but one that met accounts never does while any of them is left.
* `EveryLineSomewhere`, `FeedsInOrder`, `ReturnsDrained`: no line is lost, doubled
  or overtaken between the goroutine and the browser, and the end of the stream
  comes after the last of them.
* `NothingLeaks`, `FeedDrains`: whoever leaves first, the goroutine ends and the
  Engine's response is closed; a reader that stays is given everything and the end.
* `SignalEnds`, `CutsOnlyLate`, `ZeroMeansAnswered`: a signal ends the process
  whatever it does, an open console holds Shutdown to its deadline but no longer,
  and then the exit code is 1.
* `PageCatchesUp`, `ActShowsItsEffect`, `BusyEnds`: answers may be delivered out of
  order, so the page may go back for a poll, but not for ever; the reload an action
  awaits is newer than the action; every way an action ends gives the button back.
* `ConsoleEndsWithTheTail`, `ConsoleReattaches`: lines may be shown twice, but a
  console that has caught up ends with the log's tail, whole; and a refusal, which
  closes an EventSource for good, is repaired by the next poll, because the effect
  runs again. The comment at `+page.svelte:36` gives another reason, that
  EventSource reconnects on its own; its mutant shows that this alone would not do.
* `MadeAgainTheSame`, `PackOrVersion`, `CapHoldsTheHeap`: a container made again has
  the environment and the limits of the first, whatever the defaults have become;
  a heap that fits in a word with its headroom gets exactly that. One that does
  not fit is wrapped, not refused: 17179869185G, 2^64 bytes and one G more, is
  taken for one G, which is capped wrongly, although `minecraft.go:311` prefers
  "uncapped".

### What the violated claims show

Each of these runs checks one sentence of the repository, and TLC finds the
schedule that contradicts it.

| Run | Sentence | What happens |
| --- | --- | --- |
| `orphan` | the delete "removes the container and the record" (`servers.go:267`) | it read the record before the container id was saved, and skips Docker |
| `stuck` | a failed create is left "in the error state" (`servers.go:60-62`) | the client goes away; the status cannot be written on the cancelled context |
| `conflict` | the stale container is cleared "first" (`servers.go:326-327`) | the record names none while the name is taken: every later start fails |
| `lastadmin` | "the platform always keeps someone who can administer it" (`admin.go:130-131`) | two admins demote each other |

Four more sentences are contradicted in the models. Here the project checks, in a
passing run, and proves what is left of the sentence, and has no second run for
the sentence itself; where the table has a formula, defining it in `MCLifecycle` and
adding it to that run's invariants makes TLC print the schedule.

| Sentence | What is left of it | What happens |
| --- | --- | --- |
| "Hard cap on server records" (README.md:155) | `CapOvershoot` in `neighbours` | `CountServers(servers) <= MaxServers` fails: two creates count before either inserts (`servers.go:83`, `:127`) |
| "two concurrent create requests cannot pick the same port between the read and the insert" (`allocator.go:32-33`) | `PortsAreLeased` in `neighbours` | two requests come to `"insert"` with one port: the mutex is given back when `Allocate` returns (`allocator.go:51`) |
| a user who owns servers "is refused" or they are "transferred to the calling admin first" (`admin.go:185-186`) | `CascadeTakesOnlyUnseen` in `accounts` | a server created between the count and the deletion goes with the cascade, and its container stays |
| "`?deleteData=true` also destroys the world" (README.md:185) | `WipedWorldIsGone` in `serial` | a create that made the volume and failed to make the container leaves a record without a container id, and the delete then calls nothing of Docker (`servers.go:278`) |

The first three are findings in `PROJECT.json` too, with the four runs. "The very
first account to register becomes the admin" (`auth.go:194-195`) is another such
sentence, if it is read as "and no other": two registrations on a fresh database
both do (`AdminsOnlyFromEmpty` is what is left).

A further race, a stop that overwrites the status of a later start, is a case of
the drift that FUTURE_DEVELOPMENT.md (item 3) already describes.

## 4. What is proved

Every invariant and every action property that a passing run checks is a theorem
for all values of the constants, and so are the two refinements; liveness is
model-checked only. Each theorem's constants satisfy only the ASSUMEs of its
module, which TLC evaluates in the runs, except where an assumption is named.

### Lifecycle

`LifecycleProofs` proves nine properties of `Lifecycle` for every number of
requests, servers, containers and ports, any cap, any handlers and any faults,
from `ConfigAssumption` (what `config.Load` enforces: a pool of ports within
1..65535, a cap of at least one), `EnvironmentAssumption` (finitely many
requests, and sets of the right members) and `NoneAssumption`:

| Theorem | Property |
| --- | --- |
| `TypeCorrect` | `TypeOK` |
| `RecordsAlwaysPointHome` | `RecordsPointHome` |
| `StartsNeverRemove` | `StartNeverRemoves` |
| `WorldsSurvive` | `WorldSurvives` |
| `OthersAreUntouched` | `OthersUntouched` |
| `PortsAlwaysLeased` | `PortsAreLeased` |
| `CapOvershotByRivals` | `CapOvershoot` |
| `CallsAlwaysRunOut` | `CallsRunOut` |
| `MutexIsGivenBack` | `MutexHeldToPick` |

The argument. Nearly every action is `Call` or `Write` with other arguments, so
the proofs first say once what a step of a handler can do: `AdvanceEffect`
reduces the nineteen actions to an effect on the Engine (`EngineEffect`), the
volumes, the table (`TableEffect`) and the request's own variables
(`LocalEffect`). Three invariants build on that.

* `Typed`: `TypeOK` alone is not inductive; a handler past its lookup must also
  know its server, and one past the allocator must hold a port. `Typed` adds
  what is known of a request's variables at each step of its handler.
* `Home`: `RecordsPointHome` speaks of the table, but what is written to it comes
  from the copies in flight. `Home` says the same of the copies: the container
  id in a copy, if that container exists, is of the copy's server, and a copy's
  port is its server's while the record lives; and no container is of an id
  that was never drawn, so that a new record meets none. With it each write-back
  keeps the table as it was.
* `Removals`: at `RemoveStale` the named container is missing (and stays so, as
  ids are not reused); `RemoveContainer` and `RemoveVolume` are reached by
  deletes only, the latter with deleteData only. The action properties follow
  from it, step by step.

`PortsAlwaysLeased` is a refinement: under the mapping `Held` (the port of each live
row) an insertion is `Claim`, a deletion `Release`, and every other step, a stale
write-back included, a stutter.

`CapOvershotByRivals` counts: its invariant, `WithinCap`, bounds the rows together
with `Counting`, the creates that have passed the cap's check and not inserted
yet. A check that passes establishes the bound anew, as there are fewer rows than
the cap and at most all requests are counting (`BeginWithinCap`); an insertion
moves one request from `Counting` to the rows; no other step adds to either.

`CallsAlwaysRunOut` needs `Typed` alone: `AdvanceNearer` says of each step of a
handler that `CallsFrom` gives less for its next place, or that a start has become
a rebuild, which it can do once. The longest way is a start without a container id
whose new container vanishes before it is started: eleven calls and statements.
`MutexIsGivenBack` follows with it: no step but
`ReadPorts` leads to the place where the mutex is held.

`LifecycleKnownProofs` proves `ContainersStayKnown`, that is
`LiveContainersAreKnown`, for any number of requests and all handlers but rename,
from `Waited`: no client goes away and the process lives (`Faults \subseteq
{"docker"}`). The invariant is inductive only together with `HeldAlone`, that a
handler which has made a container and not saved its id is the only one that knows
the id, and `OnePerServer`, that the Engine's names allow a server one container;
the three are `InSight`. With them an id that is saved hides no other container,
and a container that is removed is not the one a handler is holding.

`LifecycleSerialProofs` proves the two properties of the run `serial`, whose
hypotheses are those of that run: one request at a time (`Requests = {r}`), for
`SerialRequestsAgree` also a client that waits and a process that lives (`Faults
\subseteq {"docker"}`; the run says `{"docker"}`). Without them `SerialAgreement` is
false, as the violated claims show.

| Theorem | Property |
| --- | --- |
| `SerialRequestsAgree` | `SerialAgreement` |
| `WipesLeaveNoWorld` | `WipedWorldIsGone` |

`SerialAgreement` says nothing while the handler is at work, so its invariant,
`Serial`, has two sides: before the handler knows its server everything agrees
(`Everywhere`); afterwards all other servers do, and of its own it is said, place
by place, which container may exist (none, the one just made, the one the record
names), and which status the copy carries (`Working`). A refused call leads to
`fail`, where it suffices that only the recorded container may exist.
`WipesLeaveNoWorld` needs only `Emptied`: a delete with deleteData comes to the
record with the volume gone, unless its copy names no container.

### Accounts

`AccountsProofs` proves all of `Accounts`' properties, for any number of requests,
accounts, names and servers, any handlers, and crashes at any step:

| Theorem | Property |
| --- | --- |
| `TypeCorrect` | `TypeOK` |
| `OwnersAlwaysExist` | `OwnersExist` |
| `LastAdminFallsOnlyToStaleCaller` | `LastAdminFallsToStaleCaller` |
| `CascadesTakeOnlyUnseen` | `CascadeTakesOnlyUnseen` |
| `OnlyEmptyMakesAdmins` | `AdminsOnlyFromEmpty` |

The invariant has four parts. `TablesOK`: the tables' types, the constraints and
that ids in the tables were drawn (`TypeOK` says so too: without it a new row
could take an old row's place). `Knows`: the statements that write look
nothing up again, so what keeps an account from demoting or deleting itself is
the path since its lookup. `MetNone`: a registration that is to make an admin met
no account that is still there, which stays true because no id is drawn twice.
`Watched`: while a deletion is a request's next statement, all that the account
owns came to it since. A handler arrives there with the account left without
servers (`Arrives`), which for a reassignment needs that the target is not the
caller, hence `Knows`; and what another step gives to the account, `Watch` has in
`came` (`Watching`).

### Process and LogStream

`ProcessProofs` proves six properties of `Process`, console included, for any
set of frames, channel capacity, bound, configurations, requests and deadline,
from `LogStreamAssumption` (the shape of a frame, a capacity of at least one) and
`ProcessAssumption`:

| Theorem | Property |
| --- | --- |
| `TypeCorrect` | `TypeOK` |
| `EveryLineHasItsPlace` | `EveryLineSomewhere` |
| `ConsoleIsAFeed` | `FeedsInOrder` (refinement of `LineFeed`) |
| `ConsoleEndsDrained` | `ReturnsDrained` |
| `ZeroIsClean` | `ZeroMeansAnswered` |
| `RequestsAreGivenTime` | `CutsOnlyLate` |

The argument. `StreamInv` is inductive over the console's own steps:
`EveryLineSomewhere` says where each line is, and needs `Hands` beside it, that
the handler holds a line only while it writes and the goroutine has lines left
only while it sends or after it gave up, or else an action could overwrite one.
`ReturnsDrained` needs `Ended`: a cancelled request is one whose handler returned
or whose client is gone, so a goroutine that stopped without either has sent
everything. `Gates` is the process's part: nothing is let in before the listener
runs or after Shutdown closed it; with it `ZeroMeansAnswered` survives the steps
after the exit.
`NextIsStreamStep` says that the process either leaves the console alone or lets
it take one of its steps, which joins the two. The refinement then needs two
facts: a held line is the next one not yet shown (`WriteShows`), and a frame
lengthens the feed (`FrameGrows`), for which `LinesTyped` shows that a frame is
never cut into no line at all; the least position `Trimmed` chooses exists
because `<` is well founded on the naturals (`FirstOf`).

### Provision

`ProvisionProofs` proves the three invariants for any set of inputs, names, types
and configurations, and any width of a word, from `WordAssumption`,
`TextAssumption` (which strings are told apart), `InputAssumption` and
`NoneAssumption`:

| Theorem | Property |
| --- | --- |
| `ContainersAreMadeAgain` | `MadeAgainTheSame` |
| `CapsHoldTheHeap` | `CapHoldsTheHeap` |
| `PacksExcludeVersions` | `PackOrVersion` |

`MadeAgainTheSame` compares two containers that were made at different times; the
invariant says instead that each was made from the record as it is now
(`MadeFrom`), because neither a rename nor a restart changes what `KeptOf` takes
from it, and that the record is `Sound`, as Validate and the defaults leave it.
`WordKeeps` is the arithmetic: what fits in a word is not changed by it.

### ServerPage

`ServerPageProofs` proves the safety properties of the page, for any number of
polls, containers, changes and lines, any tail and any list at least as long:

| Theorem | Property |
| --- | --- |
| `PageTypeCorrect` | `TypeOK` |
| `ActsShowTheirEffect` | `ActShowsItsEffect` |
| `ConsolesEndWithTheTail` | `ConsoleEndsWithTheTail` |

`ConsoleEndsWithTheTail` speaks of a console that has caught up. `ConsoleOK` says
of every open connection that what it has brought so far, from the line it
started with, ends the list; it survives `slice(-MAX_LINES)` because a tail
is no longer than the list (`KeepsTheLast`), which is what the two constants of
the page and of the API have to agree on. `ButtonOK` is what `act` knows: its
reload is in flight exactly while it waits for it, and was asked for after the
action's effect.

### Not proved

Liveness under fairness is beyond the prover and stays with TLC: `RequestsEnd`,
`TransientStatusSettles`, `SignalEnds`, `FeedDrains`, `NothingLeaks`,
`PageCatchesUp`, `BusyEnds`, `ConsoleReattaches`. Of `RequestsEnd`, `CallsAlwaysRunOut` and
`MutexIsGivenBack` prove what does not depend on scheduling: the ranking, and that
the one thing a handler waits for is held by one that waits for nothing.

## 5. What is not modelled

* Fractions of a CPU (`int64(CPULimit*1e9)`): a cap is a whole number, and no
  property depends on it.
* More than one poll of the page in flight in the run `page`; the theorems have any
  number.
* Cookies, password hashing, CORS, JSON, logging: no state shared between
  requests.
* The progress of an image pull, which only its own step sees.
* The list and admin pages: the same `load` and `act` as the page that is
  modelled. Forms, layout and texts of the frontend; the developer scripts,
  except that `kill-stray.sh --containers` is `ExternalRemove`.
* A record made with a CurseForge key and made again without one: the model has
  it, and no property speaks of it, because nothing says what should happen.
* Lines that span two frames: they come out as two, as the comment at
  `docker/logs.go:60-63` accepts; what a line was before the Engine framed it is
  not in the model.

## 6. Plan

Done: `Registry`, `Engine`, `PortLease`, `Lifecycle`; `Accounts`; `LogStream`,
`LineFeed`, `Process`; `Provision`; `ServerPage`; the proofs of section 4, which
leave no safety property of a passing run unproved. Left: `ControlPlane`, a
composition of `Accounts`' cascade and reassignment with the handlers of
`Lifecycle`, and what of section 4 carries over to it.
