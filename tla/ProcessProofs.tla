--------------------------- MODULE ProcessProofs ----------------------------
(***************************************************************************)
(* Proofs about Process and the console of LogStream in it, for every set  *)
(* of frames, capacity of the channel, bound, configuration and deadline.  *)
(***************************************************************************)
EXTENDS Process, SequenceTheorems, WellFoundedInduction, TLAPS

-----------------------------------------------------------------------------
(* The lines of a frame. *)

\* A set of positions of a frame has a first one.
LEMMA FirstOf ==
  ASSUME NEW S, S \subseteq Nat, S # {}
  PROVE  \E n \in S : \A m \in S : n <= m
<1> DEFINE Below == {p \in Nat \X Nat : p[1] < p[2]}
<1>1. OpToRel(<, Nat) = Below
  BY Zenon DEF OpToRel
<1>2. IsWellFoundedOn(Below, Nat)
  BY <1>1, NatLessThanWellFounded
<1>3. PICK n \in S : \A m \in S : ~(<<m, n>> \in Below)
  <2> HIDE DEF Below
  <2> QED BY <1>2, WFMin, Zenon
<1>4. \A k, m \in Nat : k < m => <<k, m>> \in Below
  OBVIOUS
<1>5. ASSUME NEW m \in S PROVE n <= m
  <2>1. ~(m < n)
    BY <1>3, <1>4
  <2> QED
    BY <2>1
<1> QED
  BY <1>5

\* A frame has at least one line, and its lines are lines.
LEMMA LinesTyped ==
  ASSUME NEW f \in Frames
  PROVE  Lines(f) \in Seq(Line) /\ Lines(f) # << >>
<1>1. f.parts \in Seq(STRING) /\ f.parts # << >>
  BY LogStreamAssumption
<1> DEFINE N == Len(f.parts)
<1>2. N \in Nat \ {0} /\ \A i \in 1 .. N : f.parts[i] \in STRING
  BY <1>1
<1> HIDE DEF N
<1> DEFINE kept == {n \in 1 .. N : \A i \in n + 1 .. N : f.parts[i] = ""}
           last == CHOOSE n \in kept : \A m \in kept : n <= m
<1>3. N \in kept
  <2>1. N \in 1 .. N /\ N + 1 .. N = {}
    BY <1>2
  <2> QED
    BY <2>1
<1>4. \E n \in kept : \A m \in kept : n <= m
  <2>1. kept \subseteq 1 .. N
    BY Zenon
  <2>2. \A n \in 1 .. N : n \in Nat
    BY <1>2
  <2> HIDE DEF kept
  <2> QED BY <1>3, <2>1, <2>2, FirstOf
<1>5. last \in 1 .. N
  <2>1. last \in kept
    <3> HIDE DEF kept
    <3> QED BY <1>4
  <2> QED BY <2>1
<1>6. Trimmed(f) = SubSeq(f.parts, 1, last)
  BY DEF Trimmed, N
<1> HIDE DEF last
<1>7. Trimmed(f) \in Seq(STRING) /\ Len(Trimmed(f)) = last
  <2>1. \A i \in 1 .. last : f.parts[i] \in STRING
    BY <1>2, <1>5
  <2> QED
    BY <1>2, <1>5, <1>6, <2>1, SubSeqProperties
<1>8. StreamName(f) \in {"stdout", "stderr"}
  BY DEF StreamName
<1>9. \A i \in 1 .. last : Trimmed(f)[i] \in STRING
  BY <1>5, <1>7, ElementOfSeq
<1>10. Lines(f) \in [1 .. last -> Line]
  BY <1>7, <1>8, <1>9 DEF Lines, Line
<1>11. last \in Nat \ {0}
  BY <1>2, <1>5
<1> QED
  BY <1>10, <1>11
-----------------------------------------------------------------------------
(* The console's invariant. *)

\* The handler has a line in its hands only while it writes it; the goroutine
\* has some of a frame left exactly while it sends it, or gave it up.
Hands ==
  /\ Len(held) <= 1
  /\ consumer \in {"idle", "select"} => held = << >>
  /\ consumer = "idle" => producer = "none"
  /\ producer \in {"none", "reading"} => pending = << >>
  /\ producer = "sending" => pending # << >>

\* Why each side stopped: a request is cancelled by its handler's return or its
\* client's leaving; a goroutine that stopped without that has sent everything
\* there was.  A handler that returns to a client still there leaves no goroutine.
Ended ==
  /\ cancelled => consumer = "returned" \/ client = "gone"
  /\ chClosed => producer = "done"
  /\ producer \in {"closing", "done"} =>
       cancelled \/ (feed # "open" /\ pending = << >>)
  /\ consumer = "returned" /\ client # "gone" => producer \in {"none", "done"}

StreamInv == /\ StreamTypeOK /\ Hands /\ Ended
             /\ EveryLineSomewhere /\ ReturnsDrained

\* No lines are lines.
LEMMA EmptyLines == << >> \in Seq(Line) /\ Len(<< >>) = 0
BY EmptySeq

\* A console that was not opened yet.
LEMMA StreamInitInv == StreamInit => StreamInv
<1> SUFFICES ASSUME StreamInit PROVE StreamInv
  OBVIOUS
<1>1. StreamTypeOK
  <2>1. Capacity >= 0
    BY LogStreamAssumption
  <2> QED
    BY EmptyLines, <2>1 DEF StreamInit, StreamTypeOK
<1>2. EveryLineSomewhere
  BY EmptyLines, ConcatEmptySeq DEF StreamInit, EveryLineSomewhere
<1> QED
  BY <1>1, <1>2, EmptyLines DEF StreamInit, StreamInv, Hands, Ended, ReturnsDrained

\* Opening moves no line.
LEMMA OpenKeeps == ASSUME StreamInv, Open PROVE StreamInv'
BY DEF StreamInv, StreamTypeOK, Hands, Ended, EveryLineSomewhere, ReturnsDrained,
       Open, ends

\* A handler may return when its client is gone, when nothing was opened, or
\* when the channel is closed and empty.
LEMMA ReturnKeeps ==
  ASSUME StreamInv, Return,
         \/ client = "gone"
         \/ producer = "none"
         \/ consumer = "select" /\ lines = << >> /\ producer = "done"
  PROVE  StreamInv'
<1>1. UNCHANGED <<held, written, demux, lines, feed, client>>
  BY DEF Return
<1>2. StreamTypeOK' /\ Hands' /\ Ended' /\ EveryLineSomewhere'
  BY <1>1 DEF StreamInv, StreamTypeOK, Hands, Ended, EveryLineSomewhere, Return, demux
<1>3. ReturnsDrained'
  <2>1. CASE client = "gone" \/ producer = "none"
    BY <1>1, <2>1 DEF ReturnsDrained, demux
  <2>2. CASE client # "gone" /\ consumer = "select" /\ lines = << >> /\ producer = "done"
    <3>1. feed # "open" /\ pending = << >> /\ held = << >>
      BY <2>2 DEF StreamInv, Ended, Hands
    <3>2. written = source
      BY <2>2, <3>1, EmptyLines, ConcatEmptySeq
         DEF StreamInv, StreamTypeOK, EveryLineSomewhere
    <3> QED
      BY <1>1, <3>1, <3>2 DEF ReturnsDrained, demux
  <2> QED
    BY <2>1, <2>2
<1> QED
  BY <1>2, <1>3 DEF StreamInv

\* Brackets move.
LEMMA Rejoin ==
  ASSUME NEW s \in Seq(Line), NEW t \in Seq(Line), NEW u \in Seq(Line),
         NEW v, v = t \o u
  PROVE  s \o v = (s \o t) \o u
<1>1. (s \o t) \o u = s \o (t \o u)
  BY ConcatAssociative
<1> QED
  BY <1>1, Zenon

\* A line goes from the channel to the handler's hands.
LEMMA ReceiveKeeps == ASSUME StreamInv, Receive PROVE StreamInv'
<1>1. /\ lines \in Seq(Line) /\ lines # << >> /\ held = << >>
      /\ source \in Seq(Line) /\ written \in Seq(Line) /\ pending \in Seq(Line)
  BY DEF StreamInv, StreamTypeOK, Hands, Receive
<1>2. /\ <<Head(lines)>> \in Seq(Line) /\ Tail(lines) \in Seq(Line)
      /\ Len(Tail(lines)) = Len(lines) - 1 /\ Len(<<Head(lines)>>) = 1
  BY <1>1, HeadTailProperties
<1>3. lines = <<Head(lines)>> \o Tail(lines)
  BY <1>1
<1>4. EveryLineSomewhere'
  <2>1. source = written \o lines \o pending
    BY <1>1, ConcatEmptySeq DEF StreamInv, EveryLineSomewhere
  <2>2. source = written \o <<Head(lines)>> \o Tail(lines) \o pending
    <3>1. written \o lines = (written \o <<Head(lines)>>) \o Tail(lines)
      BY <1>1, <1>2, <1>3, Rejoin
    <3> QED
      BY <2>1, <3>1
  <2> QED
    BY <2>2 DEF EveryLineSomewhere, Receive, demux
<1>5. Len(Tail(lines)) <= Capacity
  BY <1>1, <1>2, LenProperties, LogStreamAssumption DEF StreamInv, StreamTypeOK
<1>6. StreamTypeOK'
  BY <1>2, <1>5 DEF StreamInv, StreamTypeOK, Receive, demux, ends
<1>7. Hands' /\ Ended' /\ ReturnsDrained'
  BY <1>2 DEF StreamInv, Hands, Ended, ReturnsDrained, Receive, demux, ends
<1> QED
  BY <1>4, <1>6, <1>7 DEF StreamInv

\* A keepalive is a write of no line.
LEMMA KeepaliveKeeps == ASSUME StreamInv, Keepalive PROVE StreamInv'
BY EmptyLines
   DEF StreamInv, StreamTypeOK, Hands, Ended, EveryLineSomewhere, ReturnsDrained,
       Keepalive, demux, ends

\* A line goes from the handler's hands to the browser.
LEMMA WriteKeeps == ASSUME StreamInv, Write PROVE StreamInv'
<1>1. /\ held \in Seq(Line) /\ written \in Seq(Line) /\ written \o held \in Seq(Line)
      /\ lines \in Seq(Line) /\ pending \in Seq(Line)
  BY ConcatProperties DEF StreamInv, StreamTypeOK
<1>2. EveryLineSomewhere'
  BY <1>1, ConcatEmptySeq DEF StreamInv, EveryLineSomewhere, Write, demux
<1> QED
  BY <1>1, <1>2, EmptyLines
     DEF StreamInv, StreamTypeOK, Hands, Ended, ReturnsDrained, Write, demux, ends
\* A frame's lines enter the feed, in the goroutine's hands.
LEMMA ReadFrameKeeps ==
  ASSUME StreamInv, NEW f \in Frames, ReadFrame(f)
  PROVE  StreamInv'
<1>1. Lines(f) \in Seq(Line) /\ Lines(f) # << >>
  BY LinesTyped
<1>2. /\ source \in Seq(Line) /\ written \in Seq(Line) /\ held \in Seq(Line)
      /\ lines \in Seq(Line) /\ pending = << >>
  BY DEF StreamInv, StreamTypeOK, Hands, ReadFrame
<1>3. EveryLineSomewhere'
  <2>1. source = written \o held \o lines
    BY <1>2, ConcatProperties, ConcatEmptySeq DEF StreamInv, EveryLineSomewhere
  <2> QED
    BY <2>1 DEF EveryLineSomewhere, ReadFrame, handler
<1>4. source \o Lines(f) \in Seq(Line)
  BY <1>1, <1>2, ConcatProperties
<1>5. consumer # "idle" /\ (consumer = "returned" => client = "gone")
  BY DEF StreamInv, Hands, Ended, ReadFrame
<1>6. StreamTypeOK'
  BY <1>1, <1>4 DEF StreamInv, StreamTypeOK, ReadFrame, handler, ends
<1>7. Hands' /\ Ended' /\ ReturnsDrained'
  BY <1>1, <1>5 DEF StreamInv, Hands, Ended, ReturnsDrained, ReadFrame, handler, ends
<1> QED
  BY <1>3, <1>6, <1>7 DEF StreamInv

\* A line goes from the goroutine to the channel.
LEMMA SendKeeps == ASSUME StreamInv, Send PROVE StreamInv'
<1>1. /\ written \in Seq(Line) /\ held \in Seq(Line) /\ lines \in Seq(Line)
      /\ pending \in Seq(Line) /\ pending # << >>
  BY DEF StreamInv, StreamTypeOK, Hands, Send
<1>2. /\ Head(pending) \in Line /\ <<Head(pending)>> \in Seq(Line)
      /\ Tail(pending) \in Seq(Line) /\ Len(Tail(pending)) = Len(pending) - 1
      /\ pending = <<Head(pending)>> \o Tail(pending)
  BY <1>1, HeadTailProperties
<1>3. /\ Append(lines, Head(pending)) \in Seq(Line)
      /\ Append(lines, Head(pending)) = lines \o <<Head(pending)>>
      /\ Len(Append(lines, Head(pending))) = Len(lines) + 1
  BY <1>1, <1>2, AppendProperties, AppendIsConcat
<1>4. EveryLineSomewhere'
  <2> DEFINE w == written \o held
  <2>1. w \in Seq(Line)
    BY <1>1, ConcatProperties
  <2> HIDE DEF w
  <2>2. w \o lines \in Seq(Line)
    BY <1>1, <2>1, ConcatProperties
  <2>3. (w \o lines) \o pending
          = ((w \o lines) \o <<Head(pending)>>) \o Tail(pending)
    <3>1. \A p : p = <<Head(pending)>> \o Tail(pending) =>
            (w \o lines) \o p = ((w \o lines) \o <<Head(pending)>>) \o Tail(pending)
      BY <1>2, <2>2, Rejoin
    <3> QED
      BY <1>2, <3>1, Zenon
  <2>4. w \o Append(lines, Head(pending)) = (w \o lines) \o <<Head(pending)>>
    BY <1>1, <1>2, <1>3, <2>1, Rejoin
  <2>5. source = (w \o lines) \o pending
    BY DEF StreamInv, EveryLineSomewhere, w
  <2>6. source = (w \o Append(lines, Head(pending))) \o Tail(pending)
    BY <2>3, <2>4, <2>5
  <2> QED
    BY <2>6 DEF EveryLineSomewhere, Send, handler, w
<1>5. /\ Len(Append(lines, Head(pending))) <= Capacity
      /\ (Len(pending) = 1) <=> (Tail(pending) = << >>)
  <2>1. Len(lines) \in Nat /\ Len(lines) < Capacity /\ Capacity \in Nat
    BY <1>1, LenProperties, LogStreamAssumption DEF Send
  <2>2. Len(pending) \in Nat /\ (Len(Tail(pending)) = 0 <=> Tail(pending) = << >>)
    BY <1>1, <1>2, LenProperties, EmptySeq
  <2> QED
    BY <1>2, <1>3, <2>1, <2>2
<1>6. consumer # "idle" /\ (consumer = "returned" => client = "gone")
  BY DEF StreamInv, Hands, Ended, Send
<1>7. StreamTypeOK'
  BY <1>2, <1>3, <1>5 DEF StreamInv, StreamTypeOK, Send, handler, ends
<1>8. Hands' /\ Ended' /\ ReturnsDrained'
  BY <1>5, <1>6 DEF StreamInv, Hands, Ended, ReturnsDrained, Send, handler, ends
<1> QED
  BY <1>4, <1>7, <1>8 DEF StreamInv

\* The goroutine's last steps move no line.
LEMMA StopKeeps ==
  ASSUME StreamInv, StopReading \/ SendCancelled \/ CloseLines
  PROVE  StreamInv'
<1>1. /\ UNCHANGED <<source, pending, consumer, held, written, lines,
                     cancelled, feed, client>>
      /\ producer \in {"reading", "sending", "closing"}
      /\ producer' \in {"closing", "done"}
      /\ rcOpen' \in {rcOpen, FALSE} /\ chClosed' \in {chClosed, TRUE}
  BY DEF StopReading, SendCancelled, CloseLines, handler, ends
<1>2. StreamTypeOK' /\ Hands' /\ EveryLineSomewhere' /\ ReturnsDrained'
  <2>1. StreamTypeOK' /\ EveryLineSomewhere'
    BY <1>1 DEF StreamInv, StreamTypeOK, EveryLineSomewhere
  <2>2. Hands'
    BY <1>1 DEF StreamInv, Hands, StopReading, SendCancelled, CloseLines
  <2>3. ReturnsDrained'
    BY <1>1 DEF StreamInv, ReturnsDrained, StopReading, SendCancelled, CloseLines
  <2> QED
    BY <2>1, <2>2, <2>3
<1>3. Ended'
  <2>1. CASE StopReading
    BY <1>1, <2>1 DEF StreamInv, StreamTypeOK, Hands, Ended, StopReading
  <2>2. CASE SendCancelled
    BY <1>1, <2>2 DEF StreamInv, StreamTypeOK, Ended, SendCancelled
  <2>3. CASE CloseLines
    BY <1>1, <2>3 DEF StreamInv, StreamTypeOK, Ended, CloseLines
  <2> QED
    BY <2>1, <2>2, <2>3
<1> QED
  BY <1>2, <1>3 DEF StreamInv

\* What the Engine and the browser do moves no line.
LEMMA SurroundingsKeep ==
  ASSUME StreamInv, Surroundings \/ NoticeGone
  PROVE  StreamInv'
<1>1. /\ UNCHANGED <<handler, demux, lines>>
      /\ feed' = feed \/ (feed = "open" /\ feed' \in {"ended", "broken"})
      /\ client' \in {"reading", "stalled", "gone"}
      /\ client = "gone" => client' = "gone"
      /\ cancelled' = cancelled \/ (cancelled' = TRUE /\ client' = "gone")
  BY DEF StreamInv, StreamTypeOK, Surroundings, FeedStops, Stall, Resume, Leave, NoticeGone
<1>2. StreamTypeOK' /\ Hands' /\ EveryLineSomewhere'
  <2>1. StreamTypeOK'
    BY <1>1 DEF StreamInv, StreamTypeOK, handler, demux
  <2>2. Hands'
    BY <1>1 DEF StreamInv, Hands, handler, demux
  <2>3. EveryLineSomewhere'
    BY <1>1 DEF StreamInv, EveryLineSomewhere, handler, demux
  <2> QED
    BY <2>1, <2>2, <2>3
<1>3. Ended'
  BY <1>1 DEF StreamInv, StreamTypeOK, Ended, handler, demux
<1>4. ReturnsDrained'
  BY <1>1 DEF StreamInv, StreamTypeOK, ReturnsDrained, handler, demux
<1> QED
  BY <1>2, <1>3, <1>4 DEF StreamInv

\* The console's invariant, through any step of it.
LEMMA StreamStepKeeps ==
  ASSUME StreamInv, [StreamNext]_streamVars
  PROVE  StreamInv'
<1>1. CASE Open
  BY <1>1, OpenKeeps
<1>2. CASE RefuseStream
  BY <1>2, ReturnKeeps DEF RefuseStream, StreamInv, Hands
<1>3. CASE TakeLine
  <2>1. CASE Receive
    BY <2>1, ReceiveKeeps
  <2>2. CASE ReceiveClosed
    BY <2>2, ReturnKeeps DEF ReceiveClosed, StreamInv, Ended
  <2> QED
    BY <1>3, <2>1, <2>2 DEF TakeLine
<1>4. CASE Keepalive
  BY <1>4, KeepaliveKeeps
<1>5. CASE SeeCancelled
  BY <1>5, ReturnKeeps DEF SeeCancelled, StreamInv, Ended
<1>6. CASE WriteOut
  BY <1>6, WriteKeeps, ReturnKeeps DEF WriteOut, WriteFails
<1>7. CASE DemuxStep
  BY <1>7, SendKeeps, StopKeeps, ReadFrameKeeps DEF DemuxStep
<1>8. CASE Surroundings \/ NoticeGone
  BY <1>8, SurroundingsKeep
<1>9. CASE UNCHANGED streamVars
  BY <1>9 DEF StreamInv, StreamTypeOK, Hands, Ended, EveryLineSomewhere,
              ReturnsDrained, streamVars, handler, demux, ends
<1> QED
  BY <1>1, <1>2, <1>3, <1>4, <1>5, <1>6, <1>7, <1>8, <1>9 DEF StreamNext
-----------------------------------------------------------------------------
(* The process. *)

Booting == {"config", "store", "seed", "docker", "image"}

\* Nothing is let in before the listener runs, nor after the shutdown closed
\* it; and only the process's end cuts a request off.
Gates ==
  /\ phase \in Booting => listener = "off"
  /\ phase # "serving" => listener # "bound"
  /\ listener = "off" => consumer = "idle" /\ \A q \in Requests : request[q] = "none"
  /\ phase # "exited" => \A q \in Requests : request[q] # "cut"

Inv == TypeOK /\ StreamInv /\ Gates /\ ZeroMeansAnswered

\* Process leaves the console alone, or lets it take one of its steps.
LEMMA NextIsStreamStep ==
  ASSUME [Next]_vars
  PROVE  [StreamNext]_streamVars
<1>1. CASE Boot \/ Signal \/ Listen \/ End \/ Tick
  BY <1>1, Zenon
     DEF Boot, Load, OpenStore, SeedAdmin, PingDocker, EnsureImage, Goto, Exit,
         Signal, Listen, End, ListenerFails, BeginShutdown, ShutdownEnds,
         DeadlinePasses, Tick
<1>2. CASE \E q \in Requests : Begin(q) \/ Answer(q)
  BY <1>2, Zenon DEF Begin, Answer
<1>3. CASE ConsoleStarts
  BY <1>3 DEF ConsoleStarts, Console, StreamNext
<1>4. CASE \/ Console(TakeLine) \/ Console(Keepalive) \/ Console(SeeCancelled)
           \/ Console(WriteOut) \/ Console(DemuxStep)
           \/ Console(Surroundings) \/ Console(NoticeGone)
  BY <1>4 DEF Console, StreamNext
<1>5. CASE UNCHANGED vars
  BY <1>5 DEF vars
<1> QED
  BY <1>1, <1>2, <1>3, <1>4, <1>5 DEF Next

\* Before main's first step.
LEMMA InitInv == Init => Inv
<1> SUFFICES ASSUME Init PROVE Inv
  OBVIOUS
<1>1. StreamInv
  BY StreamInitInv DEF Init
<1>2. TypeOK
  <2>1. Deadline \in 0 .. Deadline
    BY ProcessAssumption
  <2> QED
    BY <1>1, <2>1 DEF StreamInv, Init, TypeOK, Phase
<1>3. Gates
  BY DEF Init, StreamInit, Gates, Booting
<1> QED
  BY <1>1, <1>2, <1>3 DEF Init, Inv, ZeroMeansAnswered

\* The process ends: what it may have cut off does not matter, unless it says 0.
LEMMA ExitKeeps ==
  ASSUME Inv, NEW status \in {0, 1}, Exit(status),
         phase # "exited", phase # "serving" \/ listener # "bound",
         status = 0 => Quiet
  PROVE  Inv'
<1>1. StreamInv' /\ UNCHANGED consumer
  BY StreamStepKeeps DEF Inv, Exit, streamVars, handler
<1>2. TypeOK'
  BY <1>1 DEF Inv, StreamInv, TypeOK, Phase, Exit, boot
<1>3. Gates'
  BY <1>1 DEF Inv, Gates, Booting, Exit, boot
<1>4. ZeroMeansAnswered'
  <2> SUFFICES ASSUME status = 0
               PROVE  /\ \A q \in Requests : request'[q] \in {"none", "answered"}
                      /\ consumer' \in {"idle", "returned"}
    BY DEF ZeroMeansAnswered, Exit
  <2>1. \A q \in Requests : request[q] \in {"none", "answered"} /\ request'[q] = request[q]
    BY DEF Inv, TypeOK, Gates, Quiet, Exit
  <2> QED
    BY <1>1, <2>1 DEF Inv, StreamInv, StreamTypeOK, Quiet
<1> QED
  BY <1>1, <1>2, <1>3, <1>4 DEF Inv

\* The start-up steps.
LEMMA BootKeeps == ASSUME Inv, Boot PROVE Inv'
<1>1. CASE Exit(1)
  BY <1>1, ExitKeeps DEF Inv, Boot, Load, OpenStore, SeedAdmin, PingDocker,
                         EnsureImage, Goto, Exit
<1>2. CASE \E next \in {"store", "seed", "docker", "image"} :
             Goto(next) /\ phase \in Booting
  <2>1. UNCHANGED <<code, boot, http, streamVars>>
    BY <1>2 DEF Goto
  <2>2. StreamInv'
    BY <2>1, StreamStepKeeps DEF Inv
  <2>3. TypeOK' /\ ZeroMeansAnswered'
    BY <1>2, <2>1, <2>2
       DEF Inv, StreamInv, TypeOK, Phase, Booting, Goto, boot, http, streamVars, handler,
           ZeroMeansAnswered
  <2>4. Gates'
    BY <1>2, <2>1 DEF Inv, Gates, Booting, Goto, boot, http, streamVars, handler
  <2> QED
    BY <2>2, <2>3, <2>4 DEF Inv
<1>3. CASE EnsureImage
  <2>1. StreamInv'
    BY <1>3, StreamStepKeeps DEF Inv, EnsureImage
  <2>2. TypeOK' /\ ZeroMeansAnswered'
    BY <1>3, <2>1 DEF Inv, StreamInv, TypeOK, Phase, EnsureImage, boot, ZeroMeansAnswered,
                      streamVars, handler
  <2>3. Gates'
    BY <1>3 DEF Inv, Gates, Booting, EnsureImage, boot, streamVars, handler
  <2> QED
    BY <2>1, <2>2, <2>3 DEF Inv
<1> QED
  BY <1>1, <1>2, <1>3 DEF Boot, Load, OpenStore, SeedAdmin, PingDocker, Booting

\* The listener's failure, and the shutdown.
LEMMA EndKeeps == ASSUME Inv, End PROVE Inv'
<1>1. CASE ListenerFails
  BY <1>1, ExitKeeps DEF ListenerFails
<1>2. CASE ShutdownEnds
  BY <1>2, ExitKeeps DEF ShutdownEnds
<1>3. CASE DeadlinePasses
  BY <1>3, ExitKeeps DEF DeadlinePasses
<1>4. CASE BeginShutdown
  <2>1. StreamInv'
    BY <1>4, StreamStepKeeps DEF Inv, BeginShutdown
  <2>2. TypeOK' /\ ZeroMeansAnswered'
    BY <1>4, <2>1 DEF Inv, StreamInv, TypeOK, Phase, BeginShutdown, boot, ZeroMeansAnswered,
                      streamVars, handler
  <2>3. Gates'
    BY <1>4 DEF Inv, Gates, Booting, BeginShutdown, boot, streamVars, handler
  <2> QED
    BY <2>1, <2>2, <2>3 DEF Inv
<1> QED
  BY <1>1, <1>2, <1>3, <1>4 DEF End

\* The signal, the listener, the clock and the ordinary requests.
LEMMA OutsideKeeps ==
  ASSUME Inv, Signal \/ Listen \/ Tick \/ \E q \in Requests : Begin(q) \/ Answer(q)
  PROVE  Inv'
<1>1. UNCHANGED <<main, config, streamVars>>
  BY DEF Signal, Listen, Tick, Begin, Answer, boot
<1>2. StreamInv'
  BY <1>1, StreamStepKeeps DEF Inv
<1>3. CASE Signal \/ Listen \/ Tick
  <2>1. left' \in 0 .. Deadline
    BY <1>3, ProcessAssumption DEF Inv, TypeOK, Signal, Listen, Tick, http
  <2>2. TypeOK'
    BY <1>1, <1>2, <1>3, <2>1
       DEF Inv, StreamInv, TypeOK, Signal, Listen, Tick, boot, http, main
  <2>3. Gates' /\ ZeroMeansAnswered'
    BY <1>1, <1>3 DEF Inv, Gates, Booting, ZeroMeansAnswered, Signal, Listen, Tick, boot,
                      http, main, streamVars, handler
  <2> QED
    BY <1>2, <2>2, <2>3 DEF Inv
<1>4. CASE \E q \in Requests : Begin(q) \/ Answer(q)
  <2>1. PICK q \in Requests : Begin(q) \/ Answer(q)
    BY <1>4
  <2>2. phase # "exited" /\ listener # "off"
    BY <2>1 DEF Inv, Gates, TypeOK, Begin, Answer
  <2>3. TypeOK'
    BY <1>1, <1>2, <2>1 DEF Inv, StreamInv, TypeOK, Begin, Answer, boot, main
  <2>4. Gates' /\ ZeroMeansAnswered'
    BY <1>1, <2>1, <2>2 DEF Inv, TypeOK, Gates, Booting, ZeroMeansAnswered, Begin, Answer,
                            boot, main, streamVars, handler
  <2> QED
    BY <1>2, <2>3, <2>4 DEF Inv
<1> QED
  BY <1>3, <1>4

\* A step of the console in a process that runs.
LEMMA ConsoleKeeps ==
  ASSUME Inv, Up, [StreamNext]_streamVars, UNCHANGED <<main, boot, http>>,
         listener = "off" => consumer' = "idle"
  PROVE  Inv'
<1>1. StreamInv'
  BY StreamStepKeeps DEF Inv
<1>2. TypeOK' /\ ZeroMeansAnswered'
  BY <1>1 DEF Inv, StreamInv, TypeOK, Up, ZeroMeansAnswered, main, boot, http
<1>3. Gates'
  BY DEF Inv, Gates, Booting, Up, main, boot, http
<1> QED
  BY <1>1, <1>2, <1>3 DEF Inv

\* The invariant is inductive.
LEMMA NextKeeps == ASSUME Inv, [Next]_vars PROVE Inv'
<1>1. CASE Boot
  BY <1>1, BootKeeps
<1>2. CASE End
  BY <1>2, EndKeeps
<1>3. CASE Signal \/ Listen \/ Tick \/ \E q \in Requests : Begin(q) \/ Answer(q)
  BY <1>3, OutsideKeeps
<1>4. CASE ConsoleStarts
  BY <1>4, NextIsStreamStep, ConsoleKeeps DEF ConsoleStarts, Console
<1>5. CASE \/ Console(TakeLine) \/ Console(Keepalive) \/ Console(SeeCancelled)
           \/ Console(WriteOut) \/ Console(DemuxStep)
           \/ Console(Surroundings) \/ Console(NoticeGone)
  <2>1. Up /\ UNCHANGED <<main, boot, http>>
    BY <1>5 DEF Console
  <2>2. consumer = "idle" => consumer' = "idle"
    BY <1>5 DEF Console, TakeLine, Receive, ReceiveClosed, Keepalive, SeeCancelled,
                WriteOut, Write, WriteFails, DemuxStep, Send, SendCancelled, StopReading,
                CloseLines, ReadFrame, Surroundings, FeedStops, Stall, Resume, Leave,
                NoticeGone, handler
  <2> QED
    BY <2>1, <2>2, NextIsStreamStep, ConsoleKeeps DEF Inv, Gates
<1>6. CASE UNCHANGED vars
  <2>1. StreamInv'
    BY <1>6, StreamStepKeeps DEF Inv, vars
  <2> QED
    BY <1>6, <2>1 DEF Inv, StreamInv, TypeOK, Gates, Booting, ZeroMeansAnswered, vars, main,
                      boot, http, streamVars, handler
<1> QED
  BY <1>1, <1>2, <1>3, <1>4, <1>5, <1>6 DEF Next
-----------------------------------------------------------------------------
(* The theorems. *)

\* The configuration, the listener, the requests and the console keep together
\* all that the theorems below need.
LEMMA InvHolds == Spec => []Inv
<1>1. Init => Inv
  BY InitInv
<1>2. Inv /\ [Next]_vars => Inv'
  BY NextKeeps
<1> QED
  BY <1>1, <1>2, PTL DEF Spec

\* Every variable keeps its type, the channel never exceeds its capacity, and
\* the process has an exit code exactly when it has ended (main.go:40-118).
THEOREM TypeCorrect == Spec => []TypeOK
<1>1. Inv => TypeOK
  BY DEF Inv
<1> QED
  BY <1>1, InvHolds, PTL

\* No line of the container's output is lost, doubled or out of its order on
\* its way through the goroutine, the channel and the handler
\* (docker/logs.go:64, api/logs.go:74).
THEOREM EveryLineHasItsPlace == Spec => []EveryLineSomewhere
<1>1. Inv => EveryLineSomewhere
  BY DEF Inv, StreamInv
<1> QED
  BY <1>1, InvHolds, PTL

\* A console is only ended under a browser still there with everything
\* delivered, or before it was opened (api/logs.go:74-77).
THEOREM ConsoleEndsDrained == Spec => []ReturnsDrained
<1>1. Inv => ReturnsDrained
  BY DEF Inv, StreamInv
<1> QED
  BY <1>1, InvHolds, PTL

\* Exit code 0 says that no request was cut off (main.go:115-118).
THEOREM ZeroIsClean == Spec => []ZeroMeansAnswered
<1>1. Inv => ZeroMeansAnswered
  BY DEF Inv
<1> QED
  BY <1>1, InvHolds, PTL

\* A running request is cut off by nothing but a failed listener or Shutdown's
\* deadline (main.go:104-118).
THEOREM RequestsAreGivenTime == Spec => CutsOnlyLate
<1> DEFINE Late == \A q \in Requests : request[q] = "running" /\ request'[q] = "cut"
                                         => left = 0 \/ listener = "failed"
<1>1. ASSUME Inv, Next PROVE Late
  <2> SUFFICES ASSUME NEW q \in Requests, request[q] = "running", request'[q] = "cut"
               PROVE  left = 0 \/ listener = "failed"
    OBVIOUS
  <2>1. CASE Boot
    BY <1>1, <2>1 DEF Inv, Gates, Booting, Boot, Load, OpenStore, SeedAdmin, PingDocker,
                      EnsureImage
  <2>2. CASE End
    BY <2>2 DEF End, ListenerFails, BeginShutdown, ShutdownEnds, DeadlinePasses, Quiet
  <2>3. CASE Signal \/ Listen \/ Tick
    BY <2>3 DEF Signal, Listen, Tick, http
  <2>4. CASE \E p \in Requests : Begin(p) \/ Answer(p)
    BY <1>1, <2>4 DEF Inv, TypeOK, Begin, Answer
  <2>5. CASE UNCHANGED http
    BY <2>5 DEF http
  <2> QED
    BY <1>1, <2>1, <2>2, <2>3, <2>4, <2>5 DEF Next, ConsoleStarts, Console
<1>2. Inv /\ [Next]_vars => [Late]_vars
  BY <1>1
<1> QED
  BY <1>2, InvHolds, PTL DEF Spec, CutsOnlyLate
-----------------------------------------------------------------------------
(* The console implements LineFeed. *)

\* One line behind w, whatever follows: appending it is the next step of w.
LEMMA OneBehind ==
  ASSUME NEW w \in Seq(Line), NEW h \in Seq(Line), Len(h) = 1, NEW r \in Seq(Line)
  PROVE  /\ w \o h = Append(w, h[1])
         /\ Len(w) < Len((w \o h) \o r)
         /\ ((w \o h) \o r)[Len(w) + 1] = h[1]
<1>1. Len(w) \in Nat /\ Len(r) \in Nat /\ h[1] \in Line
  <2>1. 1 \in 1 .. Len(h)
    OBVIOUS
  <2> QED
    BY <2>1, LenProperties, ElementOfSeq
<1>2. h = <<h[1]>>
  <2>1. <<h[1]>> \in Seq(Line) /\ Len(<<h[1]>>) = 1 /\ <<h[1]>>[1] = h[1]
    BY <1>1
  <2>2. \A i \in 1 .. Len(h) : h[i] = <<h[1]>>[i]
    BY <2>1
  <2> QED
    BY <2>1, <2>2, SeqEqual
<1>3. w \o h = Append(w, h[1])
  BY <1>1, <1>2, AppendIsConcat
<1> DEFINE v == w \o h
<1>4. v \in Seq(Line) /\ Len(v) = Len(w) + 1 /\ v[Len(w) + 1] = h[1]
  BY <1>1, <1>3, AppendProperties
<1> HIDE DEF v
<1>5. /\ Len(v \o r) = Len(v) + Len(r)
      /\ (v \o r)[Len(w) + 1] = v[Len(w) + 1]
  <2>1. \A i \in 1 .. Len(v) + Len(r) : (v \o r)[i] = IF i <= Len(v) THEN v[i] ELSE r[i - Len(v)]
    BY <1>4, ConcatProperties
  <2>2. Len(w) + 1 \in 1 .. Len(v) + Len(r) /\ Len(w) + 1 <= Len(v)
    BY <1>1, <1>4
  <2> QED
    BY <1>4, <2>1, <2>2, ConcatProperties
<1>6. Len(w) < Len(v \o r) /\ (v \o r)[Len(w) + 1] = h[1]
  BY <1>1, <1>4, <1>5
<1> QED
  BY <1>3, <1>6 DEF v

\* A line the handler holds is the next one the browser has not been shown.
LEMMA WriteShows ==
  ASSUME StreamInv, Write
  PROVE  [Feed!Next]_<<source, written>>
<1>1. /\ held \in Seq(Line) /\ lines \in Seq(Line) /\ pending \in Seq(Line)
      /\ written \in Seq(Line) /\ Len(held) <= 1
  BY DEF StreamInv, StreamTypeOK, Hands
<1>2. CASE held = << >>
  <2>1. written' = written /\ source' = source
    BY <1>1, <1>2, ConcatEmptySeq DEF Write, demux
  <2> QED
    BY <2>1
<1>3. CASE held # << >>
  <2>1. Len(held) = 1
    <3>1. Len(held) \in Nat /\ Len(held) # 0
      BY <1>1, <1>3, EmptySeq
    <3>2. \A n \in Nat : n # 0 /\ n <= 1 => n = 1
      OBVIOUS
    <3> QED
      BY <1>1, <3>1, <3>2, Zenon
  <2>2. lines \o pending \in Seq(Line) /\ written \o held \in Seq(Line)
    BY <1>1, ConcatProperties
  <2>3. source = (written \o held) \o (lines \o pending)
    <3>1. (written \o held) \o (lines \o pending)
            = ((written \o held) \o lines) \o pending
      BY <1>1, <2>2, Rejoin
    <3>2. source = ((written \o held) \o lines) \o pending
      BY DEF StreamInv, EveryLineSomewhere
    <3> QED
      BY <3>1, <3>2
  <2>4. /\ written \o held = Append(written, held[1])
        /\ Len(written) < Len(source) /\ source[Len(written) + 1] = held[1]
    BY <1>1, <2>1, <2>2, <2>3, OneBehind
  <2> QED
    BY <2>4 DEF Feed!Next, Feed!Show, Write, demux
<1> QED
  BY <1>2, <1>3

\* A frame lengthens the feed at its end.
LEMMA FrameGrows ==
  ASSUME StreamInv, NEW f \in Frames, ReadFrame(f)
  PROVE  Feed!Grow
<1>1. Lines(f) \in Seq(Line) /\ Lines(f) # << >> /\ source \in Seq(Line)
  BY LinesTyped DEF StreamInv, StreamTypeOK
<1>2. /\ Len(source \o Lines(f)) = Len(source) + Len(Lines(f))
      /\ Len(source) \in Nat /\ Len(Lines(f)) \in Nat \ {0}
  BY <1>1, ConcatProperties, LenProperties, EmptySeq
<1>3. SubSeq(source \o Lines(f), 1, Len(source)) = source
  <2>1. CASE source = << >>
    BY <2>1, SubSeqEmpty
  <2>2. CASE source # << >>
    <3>1. 1 \in 1 .. Len(source) /\ Len(source) \in 1 .. Len(source)
      BY <1>1, <2>2, EmptySeq
    <3> QED
      BY <1>1, <3>1, SubSeqOfConcat1, SubSeqFull
  <2> QED
    BY <2>1, <2>2
<1> QED
  BY <1>2, <1>3 DEF Feed!Grow, ReadFrame, handler

\* Every other step of the console leaves the feed alone.
LEMMA StreamStepFeeds ==
  ASSUME StreamInv, [StreamNext]_streamVars
  PROVE  [Feed!Next]_<<source, written>>
<1>1. CASE Write
  BY <1>1, WriteShows
<1>2. CASE \E f \in Frames : ReadFrame(f)
  BY <1>2, FrameGrows DEF Feed!Next
<1>3. CASE ~Write /\ ~\E f \in Frames : ReadFrame(f)
  <2>1. UNCHANGED <<source, written>>
    BY <1>3 DEF StreamNext, Open, RefuseStream, Return, TakeLine, Receive, ReceiveClosed,
                Keepalive, SeeCancelled, WriteOut, WriteFails, DemuxStep, Send,
                SendCancelled, StopReading, CloseLines, Surroundings, FeedStops, Stall,
                Resume, Leave, NoticeGone, streamVars, handler, demux
  <2> QED
    BY <2>1
<1> QED
  BY <1>1, <1>2, <1>3

\* What the browser has been written is always the beginning of what the
\* container printed, and only grows, a line at a time (docker/logs.go:64,
\* api/logs.go:78-88).
THEOREM ConsoleIsAFeed == Spec => FeedsInOrder
<1>1. Init => Feed!Init
  BY DEF Init, StreamInit, Feed!Init
<1>2. Inv /\ [Next]_vars => [Feed!Next]_<<source, written>>
  BY NextIsStreamStep, StreamStepFeeds DEF Inv
<1> QED
  BY <1>1, <1>2, InvHolds, PTL DEF Spec, FeedsInOrder, Feed!Spec
=============================================================================
