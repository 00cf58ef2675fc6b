------------------------------ MODULE Process -------------------------------
(***************************************************************************)
(* The life of the process: main.go's run, from the configuration to the   *)
(* exit code, with the requests it serves meanwhile.  One of them is the   *)
(* live console of LogStream, which never ends by itself; the others are   *)
(* kept only as running, answered or cut off.                              *)
(*                                                                         *)
(* SIGTERM may come at any moment.  It cancels the context the start-up    *)
(* steps use, and once the process serves it starts the shutdown, which    *)
(* waits for the running requests, but cancels none of them, until its     *)
(* deadline.                                                               *)
(***************************************************************************)
EXTENDS LogStream

CONSTANTS
  Configs,   \* the environments the process may be started in
  Requests,  \* the ordinary requests
  Deadline   \* clock ticks Shutdown may take (15 seconds in the code)

\* An integer of the environment: << >> when unset or not a number.
EnvInt(value, default) == IF value = << >> THEN default ELSE value[1]

ASSUME ProcessAssumption ==
  /\ Deadline \in Nat
  /\ \A c \in Configs : {c.start, c.end, c.max} \subseteq Seq(Int)

VARIABLES
  phase,     \* what run does: see Phase
  code,      \* the exit code; -1 until there is one
  config,    \* the environment
  signalled, \* SIGINT or SIGTERM came: ctx is done
  listener,  \* "off", "starting", "bound", "failed" (errCh holds it), "closed"
  request,   \* each ordinary request: "none", "running", "answered", "cut"
  left       \* the ticks left of Shutdown's deadline

Phase == {"config", "store", "seed", "docker", "image", "serving", "draining",
          "exited"}

boot == <<config, signalled>>
main == <<phase, code>>
http == <<listener, request, left>>
vars == <<main, boot, http, streamVars>>

Init ==
  /\ phase = "config" /\ code = -1 /\ config \in Configs /\ signalled = FALSE
  /\ listener = "off" /\ request = [q \in Requests |-> "none"]
  /\ left = Deadline
  /\ StreamInit

\* run returns: main exits, whatever still runs is cut off.
Exit(status) ==
  /\ phase' = "exited" /\ code' = status
  /\ request' = [q \in Requests |->
                   IF request[q] = "running" THEN "cut" ELSE request[q]]
  /\ UNCHANGED <<boot, listener, left, streamVars>>
-----------------------------------------------------------------------------
(***************************************************************************)
(* Start-up.                                                               *)
(***************************************************************************)
\* The defaults, and the checks of Load.
PoolStart(c)  == EnvInt(c.start, 25565)
PoolEnd(c)    == EnvInt(c.end, 25665)
MaxServers(c) == EnvInt(c.max, 10)

Valid(c) ==
  /\ PoolStart(c) \in 1 .. 65535 /\ PoolEnd(c) \in PoolStart(c) .. 65535
  /\ MaxServers(c) >= 1

Goto(next) == /\ phase' = next
              /\ UNCHANGED <<code, boot, http, streamVars>>

Load == /\ phase = "config"
        /\ IF Valid(config) THEN Goto("store") ELSE Exit(1)

\* store.Open and Ping use ctx, and do not get through after a signal.  Each may
\* also fail by itself.
OpenStore  == phase = "store" /\ ((~signalled /\ Goto("seed")) \/ Exit(1))

\* Without a configured admin SeedAdmin does nothing and needs no ctx, so it
\* may get through all the same.
SeedAdmin  == phase = "seed" /\ (Goto("docker") \/ Exit(1))

PingDocker == phase = "docker" /\ ((~signalled /\ Goto("image")) \/ Exit(1))

\* A pull that fails is only warned of.  The listener's goroutine is started.
EnsureImage ==
  /\ phase = "image"
  /\ phase' = "serving" /\ listener' = "starting"
  /\ UNCHANGED <<code, boot, request, left, streamVars>>

Signal ==
  /\ phase # "exited" /\ ~signalled /\ signalled' = TRUE
  /\ UNCHANGED <<main, config, http, streamVars>>
-----------------------------------------------------------------------------
(***************************************************************************)
(* The listener, and the requests it lets in.                              *)
(***************************************************************************)
\* The address may be taken, and accepting may fail later.  A listener that
\* starts after Shutdown was called ends at once, without an error.
Listen ==
  /\ \/ listener = "starting" /\ phase = "serving" /\ listener' \in {"bound", "failed"}
     \/ listener = "starting" /\ phase = "draining" /\ listener' = "closed"
     \/ listener = "bound" /\ listener' = "failed"
  /\ UNCHANGED <<main, boot, request, left, streamVars>>

Begin(q) ==
  /\ listener = "bound" /\ request[q] = "none"
  /\ request' = [request EXCEPT ![q] = "running"]
  /\ UNCHANGED <<main, boot, listener, left, streamVars>>

Answer(q) ==
  /\ phase # "exited" /\ request[q] = "running"
  /\ request' = [request EXCEPT ![q] = "answered"]
  /\ UNCHANGED <<main, boot, listener, left, streamVars>>

Up == phase \in {"serving", "draining"}

\* The console's request is let in like any other.
Console(step) == Up /\ step /\ UNCHANGED <<main, boot, http>>
ConsoleStarts == listener = "bound" /\ Console(Open \/ RefuseStream)

Quiet == /\ \A q \in Requests : request[q] # "running"
         /\ consumer \notin {"select", "writing"}
-----------------------------------------------------------------------------
(***************************************************************************)
(* The end.                                                                *)
(***************************************************************************)
\* errCh comes first: run returns without a shutdown.
ListenerFails == phase = "serving" /\ listener = "failed" /\ Exit(1)

\* ctx.Done comes first: Shutdown closes the listener.
BeginShutdown ==
  /\ phase = "serving" /\ signalled
  /\ phase' = "draining"
  /\ listener' = IF listener = "bound" THEN "closed" ELSE listener
  /\ UNCHANGED <<code, boot, request, left, streamVars>>

\* Mutant of ShutdownEnds: it is taken for idle while a console is open.
ShutdownIgnoresConsoles ==
  /\ phase = "draining" /\ \A q \in Requests : request[q] # "running"
  /\ Exit(0)

ShutdownEnds == phase = "draining" /\ Quiet /\ Exit(0)

Tick ==
  /\ phase = "draining" /\ left > 0 /\ left' = left - 1
  /\ UNCHANGED <<main, boot, listener, request, streamVars>>

\* Mutant of DeadlinePasses: shutdownCtx has no deadline.
NoDeadline == FALSE /\ UNCHANGED vars

\* Mutant of DeadlinePasses: srv.Close instead of srv.Shutdown.
CloseAtOnce == phase = "draining" /\ Exit(1)

\* Shutdown returns ctx's error, even if the last request just ended.
DeadlinePasses == phase = "draining" /\ left = 0 /\ Exit(1)
-----------------------------------------------------------------------------
Boot == Load \/ OpenStore \/ SeedAdmin \/ PingDocker \/ EnsureImage
End  == ListenerFails \/ BeginShutdown \/ ShutdownEnds \/ DeadlinePasses

Next == \/ Boot \/ Signal \/ Listen \/ End \/ Tick
        \/ \E q \in Requests : Begin(q) \/ Answer(q)
        \/ ConsoleStarts
        \/ Console(TakeLine) \/ Console(Keepalive) \/ Console(SeeCancelled)
        \/ Console(WriteOut) \/ Console(DemuxStep)
        \/ Console(Surroundings) \/ Console(NoticeGone)

\* The goroutines are scheduled and the clock runs.  A cancelled context ends
\* the call that uses it; nothing else says a start-up step returns, or a
\* request is answered.  select picks at random among its ready cases, and a
\* closed connection is noticed.
Fairness ==
  /\ WF_vars(signalled /\ Boot) /\ WF_vars(End) /\ WF_vars(Tick)
  /\ SF_vars(Console(TakeLine)) /\ SF_vars(Console(SeeCancelled))
  /\ WF_vars(Console(WriteOut)) /\ WF_vars(Console(DemuxStep))
  /\ WF_vars(Console(NoticeGone))

Spec == Init /\ [][Next]_vars /\ Fairness
-----------------------------------------------------------------------------
(***************************************************************************)
(* Properties.                                                             *)
(***************************************************************************)
\* Types, and the exit code exists when the process has ended.
TypeOK ==
  /\ StreamTypeOK
  /\ phase \in Phase /\ code \in {-1, 0, 1} /\ (phase = "exited" <=> code # -1)
  /\ config \in Configs /\ signalled \in BOOLEAN
  /\ listener \in {"off", "starting", "bound", "failed", "closed"}
  /\ request \in [Requests -> {"none", "running", "answered", "cut"}]
  /\ left \in 0 .. Deadline

\* Exit code 0 says that nothing was cut off: every request let in was
\* answered, and the console was ended by its own side (main.go:117).
ZeroMeansAnswered ==
  code = 0 => /\ \A q \in Requests : request[q] \in {"none", "answered"}
              /\ consumer \in {"idle", "returned"}

\* A request is only cut off by a failed listener, or once Shutdown's deadline
\* has passed ("give in-flight requests a moment", main.go:113).
CutsOnlyLate ==
  [][\A q \in Requests : request[q] = "running" /\ request'[q] = "cut"
       => left = 0 \/ listener = "failed"]_vars

\* A signal ends the process, whatever it is doing: the start-up steps, because
\* their context is cancelled, the shutdown, because of its deadline, however
\* long a console stays open.
SignalEnds == signalled ~> phase = "exited"

\* Once the feed has stopped, a browser that reads on is given every line and
\* then the end of the stream.
FeedDrains ==
  (feed # "open" /\ consumer # "idle")
    ~> (consumer = "returned" \/ client # "reading" \/ phase = "exited")

\* Whoever leaves first, the goroutine ends and the Engine's response body is
\* closed (the comments at docker/logs.go:26, api/logs.go:62): an abandoned
\* console holds nothing.
NothingLeaks ==
  ((client = "gone" /\ consumer # "idle") \/ consumer = "returned")
    ~> (\/ phase = "exited"
        \/ consumer = "returned" /\ producer \in {"none", "done"} /\ ~rcOpen)
=============================================================================
