----------------------------- MODULE LogStream ------------------------------
(***************************************************************************)
(* The live console of one server: handleServerLogs (internal/api/logs.go) *)
(* and the goroutine it starts, DemuxLogs (internal/docker/logs.go), with  *)
(* the bounded channel between them, the request's context, the Engine's   *)
(* log feed and the browser at the other end.                              *)
(*                                                                         *)
(* The goroutine cuts the Engine's frames into lines and sends them on the *)
(* channel; the handler writes each line to the browser as an event.       *)
(* Either side can stop first, and each has to find out about the other.   *)
(***************************************************************************)
EXTENDS Integers, Sequences

CONSTANTS
  Frames,    \* the frames the Engine can send
  Capacity,  \* of the channel (64 in the code)
  MaxLines   \* bound: the lines of the whole feed

\* A frame is one stream's payload: the texts its newlines separate, the last
\* of them empty when it ends in a newline.  The payload of no bytes is <<"">>.
ASSUME LogStreamAssumption ==
  /\ Capacity \in Nat \ {0} /\ MaxLines \in Nat
  /\ \A f \in Frames : /\ f.header \in 0 .. 2
                       /\ f.parts \in Seq(STRING) \ {<< >>}

VARIABLES
  consumer,  \* the handler: "idle", "select", "writing", "returned"
  producer,  \* the goroutine: "none", "reading", "sending", "closing", "done"
  source,    \* every line the goroutine has cut so far (a history)
  pending,   \* those of the frame in hand still to be sent
  lines,     \* the channel
  held,      \* the line the handler writes; empty for a keepalive
  written,   \* every line written to the browser (a history)
  rcOpen,    \* the Engine's response body is open
  chClosed,  \* close(lines) was called
  cancelled, \* r.Context() is done
  feed,      \* the Engine's side: "open", "ended", "broken"
  client     \* the browser: "reading", "stalled", "gone"

handler   == <<consumer, held, written>>
demux     == <<producer, source, pending, rcOpen, chClosed>>
ends      == <<cancelled, feed, client>>
streamVars == <<handler, demux, lines, ends>>

StreamInit ==
  /\ consumer = "idle" /\ held = << >> /\ written = << >>
  /\ producer = "none" /\ source = << >> /\ pending = << >>
  /\ rcOpen = FALSE /\ chClosed = FALSE /\ lines = << >>
  /\ cancelled = FALSE /\ feed = "open" /\ client = "reading"
-----------------------------------------------------------------------------
(***************************************************************************)
(* From a frame to its lines.                                              *)
(***************************************************************************)
IsEmpty(f) == f.parts = <<"">>

StreamName(f) == IF f.header = 2 THEN "stderr" ELSE "stdout"

\* TrimRight(payload, "\n"): the empty texts at the end go, but one text is
\* always left.
Trimmed(f) ==
  LET kept == {n \in 1 .. Len(f.parts) :
                 \A i \in n + 1 .. Len(f.parts) : f.parts[i] = ""}
  IN  SubSeq(f.parts, 1, CHOOSE n \in kept : \A m \in kept : n <= m)

Lines(f) == [i \in 1 .. Len(Trimmed(f)) |->
               [stream |-> StreamName(f), text |-> Trimmed(f)[i]]]
-----------------------------------------------------------------------------
(***************************************************************************)
(* The handler.                                                            *)
(***************************************************************************)
\* The record names a container and the Engine opens its log.
Open ==
  /\ consumer = "idle" /\ ~cancelled
  /\ consumer' = "select" /\ producer' = "reading" /\ rcOpen' = TRUE
  /\ UNCHANGED <<held, written, source, pending, chClosed, lines, ends>>

\* A handler that returns takes its request's context with it.
Return ==
  /\ consumer' = "returned" /\ cancelled' = TRUE
  /\ UNCHANGED <<held, written, demux, lines, feed, client>>

\* No container yet, no container any more, or the Engine cannot open its log.
RefuseStream == consumer = "idle" /\ Return

\* Mutant of Receive: the handler takes the newest line first.
ReceiveNewest ==
  /\ consumer = "select" /\ lines # << >>
  /\ consumer' = "writing" /\ held' = <<lines[Len(lines)]>>
  /\ lines' = SubSeq(lines, 1, Len(lines) - 1)
  /\ UNCHANGED <<written, demux, ends>>

Receive ==
  /\ consumer = "select" /\ lines # << >>
  /\ consumer' = "writing" /\ held' = <<Head(lines)>> /\ lines' = Tail(lines)
  /\ UNCHANGED <<written, demux, ends>>

\* Mutant of ReceiveClosed: the loop ends as soon as the channel is closed,
\* with lines in it.
ReceiveClosedEarly == consumer = "select" /\ chClosed /\ Return

\* A closed channel gives its remaining lines first.
ReceiveClosed == consumer = "select" /\ lines = << >> /\ chClosed /\ Return

\* The ticker fires.
Keepalive ==
  /\ consumer = "select"
  /\ consumer' = "writing" /\ held' = << >>
  /\ UNCHANGED <<written, demux, lines, ends>>

\* select takes any case that is ready, so a cancelled handler may still go
\* through Receive or Keepalive first.
SeeCancelled == consumer = "select" /\ cancelled /\ Return

\* There is no WriteTimeout: a write to a browser that does not read waits for
\* it.  One to a browser that is gone may still succeed, into the socket.
Write ==
  /\ consumer = "writing" /\ client # "stalled"
  /\ consumer' = "select" /\ written' = written \o held /\ held' = << >>
  /\ UNCHANGED <<demux, lines, ends>>

WriteFails == consumer = "writing" /\ client = "gone" /\ Return
-----------------------------------------------------------------------------
(***************************************************************************)
(* The goroutine.                                                          *)
(***************************************************************************)
\* Bound: no frame takes the feed beyond MaxLines.  A cancelled request's body
\* may still give what was read ahead.  An empty frame changes nothing.
ReadFrame(f) ==
  /\ producer = "reading" /\ feed # "broken" /\ ~IsEmpty(f)
  /\ Len(source) + Len(Lines(f)) <= MaxLines
  /\ producer' = "sending" /\ pending' = Lines(f)
  /\ source' = source \o Lines(f)
  /\ UNCHANGED <<rcOpen, chClosed, handler, lines, ends>>

\* The body ends, between two frames or within one, or fails, as it does when
\* its request is cancelled.  Part of a frame is dropped.
StopReading ==
  /\ producer = "reading" /\ (feed # "open" \/ cancelled)
  /\ producer' = "closing" /\ rcOpen' = FALSE
  /\ UNCHANGED <<source, pending, chClosed, handler, lines, ends>>

\* Mutant of Send: a queue without a capacity in the channel's place.
SendUnbounded ==
  /\ producer = "sending"
  /\ lines' = Append(lines, Head(pending)) /\ pending' = Tail(pending)
  /\ producer' = IF Len(pending) = 1 THEN "reading" ELSE "sending"
  /\ UNCHANGED <<source, rcOpen, chClosed, handler, ends>>

\* Mutant of Send: a line that finds the channel full is dropped.
SendOrDrop ==
  /\ producer = "sending"
  /\ lines' = IF Len(lines) < Capacity THEN Append(lines, Head(pending)) ELSE lines
  /\ pending' = Tail(pending)
  /\ producer' = IF Len(pending) = 1 THEN "reading" ELSE "sending"
  /\ UNCHANGED <<source, rcOpen, chClosed, handler, ends>>

Send ==
  /\ producer = "sending" /\ Len(lines) < Capacity
  /\ lines' = Append(lines, Head(pending)) /\ pending' = Tail(pending)
  /\ producer' = IF Len(pending) = 1 THEN "reading" ELSE "sending"
  /\ UNCHANGED <<source, rcOpen, chClosed, handler, ends>>

\* Mutant of SendCancelled: a send that waits does not look at ctx.
SendOrWait == FALSE /\ UNCHANGED streamVars

\* The rest of the frame is dropped; pending is not looked at again.
SendCancelled ==
  /\ producer = "sending" /\ cancelled
  /\ producer' = "closing" /\ rcOpen' = FALSE
  /\ UNCHANGED <<source, pending, chClosed, handler, lines, ends>>

\* Mutant of CloseLines: the goroutine returns without close(lines).
ReturnOnly ==
  /\ producer = "closing"
  /\ producer' = "done"
  /\ UNCHANGED <<source, pending, rcOpen, chClosed, handler, lines, ends>>

CloseLines ==
  /\ producer = "closing"
  /\ producer' = "done" /\ chClosed' = TRUE
  /\ UNCHANGED <<source, pending, rcOpen, handler, lines, ends>>
-----------------------------------------------------------------------------
(***************************************************************************)
(* The Engine and the browser.                                             *)
(***************************************************************************)
\* The container stops or is removed, or the connection to the Engine breaks.
FeedStops(how) ==
  /\ feed = "open" /\ feed' = how
  /\ UNCHANGED <<handler, demux, lines, cancelled, client>>

Stall ==
  /\ client = "reading" /\ client' = "stalled"
  /\ UNCHANGED <<handler, demux, lines, cancelled, feed>>

Resume ==
  /\ client = "stalled" /\ client' = "reading"
  /\ UNCHANGED <<handler, demux, lines, cancelled, feed>>

Leave ==
  /\ client # "gone" /\ client' = "gone"
  /\ UNCHANGED <<handler, demux, lines, cancelled, feed>>

\* net/http reads the connection while the handler runs, and cancels the
\* request's context when it is closed.
NoticeGone ==
  /\ client = "gone" /\ ~cancelled
  /\ cancelled' = TRUE
  /\ UNCHANGED <<handler, demux, lines, feed, client>>
-----------------------------------------------------------------------------
TakeLine    == Receive \/ ReceiveClosed
WriteOut    == Write \/ WriteFails
DemuxStep   == \/ Send \/ SendCancelled \/ StopReading \/ CloseLines
               \/ \E f \in Frames : ReadFrame(f)
Surroundings == \/ \E how \in {"ended", "broken"} : FeedStops(how)
                \/ Stall \/ Resume \/ Leave

StreamNext == \/ Open \/ RefuseStream
              \/ TakeLine \/ Keepalive \/ SeeCancelled \/ WriteOut
              \/ DemuxStep
              \/ Surroundings \/ NoticeGone

StreamSpec == StreamInit /\ [][StreamNext]_streamVars
-----------------------------------------------------------------------------
(***************************************************************************)
(* Properties.                                                             *)
(***************************************************************************)
Line == [stream : {"stdout", "stderr"}, text : STRING]

\* Types; a channel never holds more than its capacity.
StreamTypeOK ==
  /\ consumer \in {"idle", "select", "writing", "returned"}
  /\ producer \in {"none", "reading", "sending", "closing", "done"}
  /\ source \in Seq(Line) /\ pending \in Seq(Line) /\ lines \in Seq(Line)
  /\ held \in Seq(Line) /\ written \in Seq(Line)
  /\ Len(lines) <= Capacity
  /\ rcOpen \in BOOLEAN /\ chClosed \in BOOLEAN /\ cancelled \in BOOLEAN
  /\ feed \in {"open", "ended", "broken"}
  /\ client \in {"reading", "stalled", "gone"}

\* A line the Engine sent is, at every moment, in exactly one place, and in
\* its order: written, in the handler's hands, in the channel or still with
\* the goroutine (docker/logs.go:64, api/logs.go:74).
EveryLineSomewhere == source = written \o held \o lines \o pending

\* What the browser has been written is a feed of lines in the sense of
\* LineFeed: a prefix of the container's output that only grows.
Feed == INSTANCE LineFeed WITH shown <- written

FeedsInOrder == Feed!Spec

\* The stream is only ended on the browser for a reason, with everything the
\* goroutine cut delivered unless the browser left: a handler that returns to
\* a browser still there either refused the console, or closes behind the feed's
\* last line (api/logs.go:76).
ReturnsDrained ==
  consumer = "returned" /\ client # "gone"
    => producer = "none" \/ (written = source /\ feed # "open")
=============================================================================
