----------------------------- MODULE ServerPage -----------------------------
(***************************************************************************)
(* The page of one server in the browser (routes/servers/[id]/+page.svelte *)
(* over lib/api.ts): a poll every five seconds, the buttons' act, and the  *)
(* live console, an EventSource on the stream of LogStream.                *)
(*                                                                         *)
(* JavaScript runs one callback at a time, but the requests in flight are  *)
(* answered, or fail, in any order, and the API's own state moves on in    *)
(* between.  What the API would answer is kept as one value, with a        *)
(* version that grows with each change.                                    *)
(***************************************************************************)
EXTENDS Integers, Sequences

CONSTANTS
  Polls,      \* bound: the polls in flight at a time
  Containers, \* the containers the server has, one after the other
  None,       \* no container
  MaxChanges, \* bound: the changes of the server
  MaxOutput,  \* bound: the lines a container prints
  TailLines,  \* the lines a console asks for when it connects (200)
  MAX_LINES   \* the lines the page keeps (1000)

ASSUME ServerPageAssumption ==
  /\ MaxChanges \in Nat /\ MaxOutput \in Nat
  /\ TailLines \in Nat \ {0} /\ MAX_LINES \in Nat /\ TailLines <= MAX_LINES
  /\ None \notin Containers /\ "reload" \notin Polls

\* The load of act is in flight besides the polls.
Loads == Polls \cup {"reload"}

VARIABLES
  truth,   \* the server as the API would answer it now
  log,     \* the lines its container has printed
  shown,   \* the page's server; Nothing before the first load
  error,   \* the error banner is shown
  loads,   \* each load: "free", "asked", its answer, or "failed"
  act,     \* the button's request: "idle", "asked", "done", "failed", "reload"
  effect,  \* the version it left behind, until it is over (a history)
  stream,  \* the EventSource: "none", "connecting", "open", "waiting", "closed"
  next,    \* the next line its connection brings, while it is open
  lines    \* the console's lines, each the number it has in its log

server  == <<truth, log>>
console == <<stream, next, lines>>
button  == <<act, effect>>
vars    == <<server, shown, error, loads, button, console>>

View    == [container : Containers \cup {None}, running : BOOLEAN,
            version : 0 .. MaxChanges]
Nothing == [container |-> None, running |-> FALSE, version |-> -1]

\* What has become of a load.
Load == {<<"free">>, <<"asked">>, <<"failed">>} \cup ({"answer"} \X View)

busy == act # "idle"

Init ==
  /\ \E c \in Containers \cup {None}, r \in BOOLEAN :
       /\ r => c # None
       /\ truth = [container |-> c, running |-> r, version |-> 0]
  /\ log = 0 /\ shown = Nothing /\ error = FALSE
  /\ loads = [l \in Loads |-> <<"free">>]
  /\ act = "idle" /\ effect = -1
  /\ stream = "none" /\ next = 1 /\ lines = << >>
-----------------------------------------------------------------------------
(***************************************************************************)
(* The server behind the API.  A console that is open ends when its        *)
(* container is stopped, started or replaced; it reads the rest when it    *)
(* connects again.                                                         *)
(***************************************************************************)
\* The connection is given up.
Leave(state) == stream' = state /\ next' = 1

Becomes(container, running) ==
  /\ truth.version < MaxChanges
  /\ running => container # None
  /\ truth' = [container |-> container, running |-> running,
               version |-> truth.version + 1]
  /\ log' = IF container = truth.container THEN log ELSE 0
  /\ IF stream = "open" /\ <<container, running>> # <<truth.container, truth.running>>
       THEN Leave("waiting") ELSE UNCHANGED <<stream, next>>
  /\ UNCHANGED lines

\* Another session, or Docker itself.
Changes ==
  /\ \E c \in Containers \cup {None}, r \in BOOLEAN : Becomes(c, r)
  /\ UNCHANGED <<shown, error, loads, button>>

Prints ==
  /\ truth.running /\ log < MaxOutput /\ log' = log + 1
  /\ UNCHANGED <<truth, shown, error, loads, button, console>>
-----------------------------------------------------------------------------
(***************************************************************************)
(* load.                                                                   *)
(***************************************************************************)
Ask(l) == loads' = [loads EXCEPT ![l] = <<"asked">>]

\* The interval, and the first load when the page is opened.
Poll(l) ==
  /\ l \in Polls /\ loads[l] = <<"free">> /\ Ask(l)
  /\ UNCHANGED <<server, shown, error, button, console>>

Answer(l) ==
  /\ loads[l] = <<"asked">>
  /\ loads' = [loads EXCEPT ![l] = <<"answer", truth>>]
  /\ UNCHANGED <<server, shown, error, button, console>>

LoadFails(l) ==
  /\ loads[l] = <<"asked">>
  /\ loads' = [loads EXCEPT ![l] = <<"failed">>]
  /\ UNCHANGED <<server, shown, error, button, console>>

\* Mutant of Attach: the effect depends on containerId alone.
AttachToNew(view) ==
  /\ IF view.container = shown.container
       THEN UNCHANGED <<stream, next>>
       ELSE Leave(IF view.container = None THEN "none" ELSE "connecting")
  /\ UNCHANGED lines

\* The effect reads server, so it runs again whenever load assigns it, even
\* the same values: the old EventSource is closed, a new one connects.
Attach(view) ==
  /\ Leave(IF view.container = None THEN "none" ELSE "connecting")
  /\ UNCHANGED lines

Idle == act' = "idle" /\ effect' = -1

\* act waits for its own load, and is over with it.
Settled(l) ==
  /\ loads' = [loads EXCEPT ![l] = <<"free">>]
  /\ IF l = "reload" THEN Idle ELSE UNCHANGED button
  /\ UNCHANGED server

\* Mutant of Deliver: only the first answer is taken.
DeliverOnce(l) ==
  /\ loads[l][1] = "answer"
  /\ shown' = (IF shown = Nothing THEN loads[l][2] ELSE shown) /\ error' = FALSE
  /\ Attach(shown') /\ Settled(l)

\* Whatever answer arrives is shown, be it older than the one it replaces.
Deliver(l) ==
  /\ loads[l][1] = "answer"
  /\ shown' = loads[l][2] /\ error' = FALSE
  /\ Attach(shown') /\ Settled(l)

DeliverFailure(l) ==
  /\ loads[l] = <<"failed">>
  /\ error' = TRUE
  /\ Settled(l) /\ UNCHANGED <<shown, console>>
-----------------------------------------------------------------------------
(***************************************************************************)
(* act: a button sends Start or Stop, then loads the server again.         *)
(***************************************************************************)
Click ==
  /\ ~busy /\ shown # Nothing
  /\ act' = "asked"
  /\ UNCHANGED <<server, shown, error, loads, effect, console>>

\* The API carries it out, or leaves some change behind and fails, or fails.
Acts(outcome) ==
  /\ act = "asked"
  /\ \/ \E c \in Containers \cup {None}, r \in BOOLEAN : Becomes(c, r)
     \/ outcome = "failed" /\ UNCHANGED <<server, console>>
     \/ truth.version = MaxChanges /\ UNCHANGED <<server, console>>
  /\ act' = outcome /\ effect' = truth'.version
  /\ UNCHANGED <<shown, error, loads>>

\* Mutant of ActReturns: load is called but not awaited.
ActReturnsAtOnce ==
  /\ act = "done" /\ Idle
  /\ UNCHANGED <<server, shown, error, loads, console>>

ActReturns ==
  /\ act = "done" /\ act' = "reload" /\ Ask("reload")
  /\ UNCHANGED <<server, shown, error, effect, console>>

\* Mutant of ActFails: busy is not reset when the request failed.
ActFailsBusy ==
  /\ act = "failed" /\ error' = TRUE
  /\ UNCHANGED <<server, act, shown, loads, effect, console>>

ActFails ==
  /\ act = "failed" /\ Idle /\ error' = TRUE
  /\ UNCHANGED <<server, shown, loads, console>>
-----------------------------------------------------------------------------
(***************************************************************************)
(* The console: an EventSource over the log stream.                        *)
(***************************************************************************)
page == <<server, shown, error, loads, button, lines>>

\* The log starts over from its last lines, which a stopped container still has.
Connect ==
  /\ stream = "connecting" /\ truth.container # None
  /\ stream' = "open" /\ next' = IF log > TailLines THEN log - TailLines + 1 ELSE 1
  /\ UNCHANGED page

\* An answer other than 200 closes an EventSource for good; a connection that
\* fails, or ends, is tried again.
Refused == stream = "connecting" /\ Leave("closed") /\ UNCHANGED page
Breaks  == stream \in {"connecting", "open"} /\ Leave("waiting") /\ UNCHANGED page
Retry   == stream = "waiting" /\ Leave("connecting") /\ UNCHANGED page

\* Mutant of Keep: slice(0, MAX_LINES), the oldest lines.
KeepOldest(s) == IF Len(s) > MAX_LINES THEN SubSeq(s, 1, MAX_LINES) ELSE s

\* Mutant of Keep: no slice.
KeepAll(s) == s

\* slice(-MAX_LINES)
Keep(s) ==
  IF Len(s) > MAX_LINES THEN SubSeq(s, Len(s) - MAX_LINES + 1, Len(s)) ELSE s

Message ==
  /\ stream = "open" /\ next <= log
  /\ lines' = Keep(Append(lines, next)) /\ next' = next + 1
  /\ UNCHANGED <<server, shown, error, loads, button, stream>>
-----------------------------------------------------------------------------
Next ==
  \/ Changes \/ Prints
  \/ \E l \in Loads : \/ Poll(l) \/ Answer(l) \/ LoadFails(l)
                      \/ Deliver(l) \/ DeliverFailure(l)
  \/ Click \/ (\E o \in {"done", "failed"} : Acts(o)) \/ ActReturns \/ ActFails
  \/ Connect \/ Refused \/ Breaks \/ Retry \/ Message

\* The timer goes off, callbacks run, and every request settles; neither a
\* load nor a connection fails every time it is tried.
Fairness ==
  /\ \A l \in Loads : /\ WF_vars(Poll(l)) /\ SF_vars(Answer(l))
                      /\ WF_vars(Deliver(l) \/ DeliverFailure(l))
  /\ WF_vars(\E o \in {"done", "failed"} : Acts(o))
  /\ WF_vars(ActReturns) /\ WF_vars(ActFails)
  /\ SF_vars(Connect) /\ WF_vars(Retry)

Spec == Init /\ [][Next]_vars /\ Fairness
-----------------------------------------------------------------------------
(***************************************************************************)
(* Properties.                                                             *)
(***************************************************************************)
\* Types; the console holds at most MAX_LINES lines, however often it connects.
TypeOK ==
  /\ truth \in View /\ log \in 0 .. MaxOutput
  /\ shown \in View \cup {Nothing} /\ error \in BOOLEAN
  /\ loads \in [Loads -> Load]
  /\ act \in {"idle", "asked", "done", "failed", "reload"}
  /\ effect \in -1 .. MaxChanges
  /\ stream \in {"none", "connecting", "open", "waiting", "closed"}
  /\ next \in 1 .. MaxOutput + 1
  /\ lines \in Seq(1 .. MaxOutput) /\ Len(lines) <= MAX_LINES

\* Once the server changes no more, the page comes to show what it is, and
\* stays there: no answer that was under way is left to take it back
\* (+page.svelte:22, :31).
PageCatchesUp == <>[](shown = truth)

\* When a button's action is over and no error is shown, the page shows a state
\* at least as recent as what the action left (+page.svelte:72): not an answer
\* computed before it.
ActShowsItsEffect ==
  [][busy /\ ~busy' /\ ~error' => shown'.version >= effect]_vars

\* A button that was pressed can be pressed again (the finally at
\* +page.svelte:76).
BusyEnds == busy ~> ~busy

\* A console that has caught up ends with the last lines of the log, whole and
\* in order, however it was reconnected and whatever was cut off in front
\* (+page.svelte:44).
ConsoleEndsWithTheTail ==
  stream = "open" /\ next = log + 1
    => LET tail == IF log > TailLines THEN TailLines ELSE log
       IN  /\ tail <= Len(lines)
           /\ \A i \in 0 .. tail - 1 : lines[Len(lines) - i] = log - i

\* A restarted server re-attaches the console without a page reload (the
\* comment at +page.svelte:36), also after an answer that closed the
\* EventSource for good: as long as the container runs, the console is
\* connected again and again.
ConsoleReattaches == []<>(stream = "open" \/ ~truth.running)
=============================================================================
