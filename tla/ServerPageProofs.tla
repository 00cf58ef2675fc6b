-------------------------- MODULE ServerPageProofs --------------------------
(***************************************************************************)
(* Proofs about ServerPage, for any number of polls, containers, changes   *)
(* and lines.                                                              *)
(***************************************************************************)
EXTENDS ServerPage, SequenceTheorems, TLAPS

\* A load that was answered carries the view the API gave.
Answered(l) == loads[l][1] = "answer"

\* What act knows: its own load is in flight exactly while it waits for it, the
\* server has not gone back behind what its request left, and an answer to a
\* load asked for after that is no older.
ButtonOK ==
  /\ act = "reload" <=> loads["reload"] # <<"free">>
  /\ effect <= truth.version
  /\ Answered("reload") => effect <= loads["reload"][2].version

\* Where a connection would start now.
From == IF log > TailLines THEN log - TailLines + 1 ELSE 1

\* While a connection is open, what it has brought of the log's tail ends the
\* console.
ConsoleOK ==
  stream = "open" =>
    /\ next <= log + 1
    /\ next - From <= Len(lines)
    /\ \A k \in From .. next - 1 : lines[Len(lines) - (next - 1 - k)] = k

Inv == TypeOK /\ ButtonOK /\ ConsoleOK
-----------------------------------------------------------------------------
LEMMA Bounds ==
  /\ MaxChanges \in Nat /\ MaxOutput \in Nat /\ TailLines \in Nat \ {0}
  /\ MAX_LINES \in Nat /\ TailLines <= MAX_LINES
BY ServerPageAssumption

(* Loads. *)

LEMMA LoadStates ==
  ASSUME NEW s \in Load
  PROVE  /\ s[1] = "answer" => s = <<"answer", s[2]>> /\ s[2] \in View
         /\ s[1] # "answer" => s \in {<<"free">>, <<"asked">>, <<"failed">>}
BY DEF Load

LEMMA LoadsDiffer ==
  /\ <<"free">> # <<"asked">> /\ <<"free">> # <<"failed">> /\ <<"asked">> # <<"failed">>
  /\ \A v : <<"answer", v>> # <<"free">>
  /\ <<"free">>[1] # "answer" /\ <<"asked">>[1] # "answer" /\ <<"failed">>[1] # "answer"
  /\ \A v : <<"answer", v>>[1] = "answer" /\ <<"answer", v>>[2] = v
OBVIOUS
-----------------------------------------------------------------------------
(* The console's lines. *)

\* slice(-MAX_LINES) keeps the last MAX_LINES lines (+page.svelte:44).
LEMMA KeepsTheLast ==
  ASSUME NEW S, NEW s \in Seq(S)
  PROVE  /\ Keep(s) \in Seq(S)
         /\ Len(Keep(s)) = IF Len(s) > MAX_LINES THEN MAX_LINES ELSE Len(s)
         /\ \A i \in 0 .. Len(Keep(s)) - 1 : Keep(s)[Len(Keep(s)) - i] = s[Len(s) - i]
<1>1. Len(s) \in Nat /\ MAX_LINES \in Nat
  BY LenProperties, ServerPageAssumption
<1>2. CASE Len(s) <= MAX_LINES
  BY <1>1, <1>2 DEF Keep
<1>3. CASE Len(s) > MAX_LINES
  <2> DEFINE m == Len(s) - MAX_LINES + 1
  <2>1. m \in Int /\ \A i \in m .. Len(s) : s[i] \in S
    BY <1>1, <1>3, ElementOfSeq
  <2>2. Keep(s) = SubSeq(s, m, Len(s))
    BY <1>3 DEF Keep
  <2>3. /\ Keep(s) \in Seq(S)
        /\ Len(Keep(s)) = IF m <= Len(s) THEN Len(s) - m + 1 ELSE 0
        /\ \A i \in 1 .. Len(s) - m + 1 : Keep(s)[i] = s[m + i - 1]
    BY <1>1, <2>1, <2>2, SubSeqProperties
  <2>4. Len(Keep(s)) = MAX_LINES
    BY <1>1, <1>3, <2>3
  <2>5. ASSUME NEW i \in 0 .. MAX_LINES - 1
        PROVE  Keep(s)[MAX_LINES - i] = s[Len(s) - i]
    <3>1. MAX_LINES - i \in 1 .. Len(s) - m + 1 /\ m + (MAX_LINES - i) - 1 = Len(s) - i
      BY <1>1, <1>3
    <3> QED
      BY <2>3, <3>1
  <2> QED
    BY <1>3, <2>3, <2>4, <2>5
<1> QED
  BY <1>1, <1>2, <1>3
-----------------------------------------------------------------------------
(* The types. *)

LEMMA BecomesTyped ==
  ASSUME TypeOK, NEW c \in Containers \cup {None}, NEW r \in BOOLEAN, Becomes(c, r)
  PROVE  /\ truth' \in View /\ truth'.version = truth.version + 1
         /\ log' \in 0 .. MaxOutput /\ lines' = lines
         /\ stream' \in {"none", "connecting", "open", "waiting", "closed"}
         /\ next' \in 1 .. MaxOutput + 1
<1>1. truth.version \in 0 .. MaxChanges /\ truth.version < MaxChanges
  BY DEF TypeOK, View, Becomes
<1>2. truth.version + 1 \in 0 .. MaxChanges
  BY <1>1, ServerPageAssumption
<1>3. truth' = [container |-> c, running |-> r, version |-> truth.version + 1]
  BY DEF Becomes
<1>4. truth' \in View /\ truth'.version = truth.version + 1
  BY <1>2, <1>3 DEF View
<1>5. log' \in 0 .. MaxOutput /\ lines' = lines
  BY ServerPageAssumption DEF Becomes, TypeOK
<1>6. /\ stream' \in {"none", "connecting", "open", "waiting", "closed"}
      /\ next' \in 1 .. MaxOutput + 1
  BY ServerPageAssumption DEF Becomes, TypeOK, Leave
<1> QED
  BY <1>4, <1>5, <1>6

LEMMA InitTyped == Init => TypeOK
<1> SUFFICES ASSUME Init PROVE TypeOK
  OBVIOUS
<1>1. truth \in View
  BY ServerPageAssumption DEF Init, View
<1>2. loads \in [Loads -> Load]
  BY DEF Init, Load
<1>3. lines \in Seq(1 .. MaxOutput) /\ Len(lines) = 0
  BY EmptySeq DEF Init
<1> QED
  <2>1. log \in 0 .. MaxOutput /\ effect \in -1 .. MaxChanges /\ next \in 1 .. MaxOutput + 1
    BY Bounds DEF Init
  <2>2. Len(lines) <= MAX_LINES
    BY <1>3, Bounds
  <2> QED
    BY <1>1, <1>2, <1>3, <2>1, <2>2 DEF Init, TypeOK

\* Everything but the console and the server.
LEMMA LoadTyped ==
  ASSUME TypeOK, NEW l \in Loads,
         Poll(l) \/ Answer(l) \/ LoadFails(l) \/ Deliver(l) \/ DeliverFailure(l)
  PROVE  TypeOK'
<1>1. loads[l] \in Load /\ truth \in View
  BY DEF TypeOK
<1>2. \A s \in Load : [loads EXCEPT ![l] = s] \in [Loads -> Load]
  BY DEF TypeOK
<1>3. /\ <<"free">> \in Load /\ <<"asked">> \in Load /\ <<"failed">> \in Load
      /\ <<"answer", truth>> \in Load
  BY <1>1 DEF Load
<1>4. loads' \in [Loads -> Load]
  BY <1>2, <1>3 DEF Poll, Ask, Answer, LoadFails, Deliver, DeliverFailure, Settled
<1>5. CASE Poll(l) \/ Answer(l) \/ LoadFails(l)
  BY <1>4, <1>5 DEF Poll, Answer, LoadFails, server, console, button, TypeOK
<1>6. CASE Deliver(l)
  <2>1. shown' \in View /\ error' = FALSE /\ UNCHANGED <<truth, log, lines>>
    BY <1>1, <1>6, LoadStates DEF Deliver, Attach, Settled, server
  <2>2. stream' \in {"none", "connecting"} /\ next' = 1
    BY <1>6 DEF Deliver, Attach, Leave
  <2>3. act' \in {act, "idle"} /\ effect' \in {effect, -1}
    BY <1>6 DEF Deliver, Settled, Idle, button
  <2> QED
    <3>1. effect' \in -1 .. MaxChanges
      BY <2>3, Bounds DEF TypeOK
    <3>2. next' \in 1 .. MaxOutput + 1
      BY <2>2, Bounds
    <3>3. act' \in {"idle", "asked", "done", "failed", "reload"} /\ error' \in BOOLEAN
      BY <2>1, <2>3 DEF TypeOK
    <3> QED
      BY <1>4, <2>1, <2>2, <3>1, <3>2, <3>3 DEF TypeOK
<1>7. CASE DeliverFailure(l)
  <2>1. UNCHANGED <<truth, log, shown, stream, next, lines>> /\ error' = TRUE
    BY <1>7 DEF DeliverFailure, Settled, server, console
  <2>2. act' \in {act, "idle"} /\ effect' \in {effect, -1}
    BY <1>7 DEF DeliverFailure, Settled, Idle, button
  <2> QED
    BY <1>4, <2>1, <2>2, ServerPageAssumption DEF TypeOK
<1> QED
  BY <1>5, <1>6, <1>7

LEMMA MessageTyped ==
  ASSUME TypeOK, Message
  PROVE  TypeOK'
<1>1. next \in 1 .. MaxOutput /\ next + 1 \in 1 .. MaxOutput + 1
  BY ServerPageAssumption DEF TypeOK, Message
<1>2. Append(lines, next) \in Seq(1 .. MaxOutput)
  BY <1>1, AppendProperties DEF TypeOK
<1>3. Len(Append(lines, next)) \in Nat
  BY <1>2, LenProperties
<1>4. lines' \in Seq(1 .. MaxOutput) /\ Len(lines') <= MAX_LINES
  <2>1. lines' = Keep(Append(lines, next))
    BY DEF Message
  <2>2. /\ lines' \in Seq(1 .. MaxOutput)
        /\ Len(lines') = IF Len(Append(lines, next)) > MAX_LINES
                         THEN MAX_LINES ELSE Len(Append(lines, next))
    BY <1>2, <2>1, KeepsTheLast
  <2> QED
    BY <1>3, <2>2, Bounds
<1> QED
  BY <1>1, <1>4 DEF Message, TypeOK, server, button

LEMMA TypeInductive ==
  ASSUME TypeOK, [Next]_vars
  PROVE  TypeOK'
<1>1. CASE UNCHANGED vars
  BY <1>1 DEF vars, server, console, button, TypeOK
<1>2. CASE Changes
  <2>1. PICK c \in Containers \cup {None}, r \in BOOLEAN : Becomes(c, r)
    BY <1>2 DEF Changes
  <2> QED
    BY <1>2, <2>1, BecomesTyped DEF Changes, button, TypeOK
<1>3. CASE Prints
  BY <1>3, ServerPageAssumption DEF Prints, TypeOK, console, button
<1>4. ASSUME NEW l \in Loads,
             Poll(l) \/ Answer(l) \/ LoadFails(l) \/ Deliver(l) \/ DeliverFailure(l)
      PROVE  TypeOK'
  BY <1>4, LoadTyped
<1>5. CASE Click
  BY <1>5 DEF Click, TypeOK, server, console
<1>6. ASSUME NEW o \in {"done", "failed"}, Acts(o)
      PROVE  TypeOK'
  <2>1. CASE UNCHANGED <<server, console>>
    <3>1. effect' = truth.version /\ truth.version \in 0 .. MaxChanges
      BY <1>6, <2>1 DEF Acts, server, TypeOK, View
    <3> QED
      BY <1>6, <2>1, <3>1, ServerPageAssumption DEF Acts, TypeOK, server, console
  <2>2. ASSUME NEW c \in Containers \cup {None}, NEW r \in BOOLEAN, Becomes(c, r)
        PROVE  TypeOK'
    <3>1. /\ truth' \in View /\ log' \in 0 .. MaxOutput /\ lines' = lines
          /\ stream' \in {"none", "connecting", "open", "waiting", "closed"}
          /\ next' \in 1 .. MaxOutput + 1
      BY <2>2, BecomesTyped
    <3>2. effect' \in 0 .. MaxChanges
      BY <1>6, <3>1 DEF Acts, View
    <3> QED
      BY <1>6, <3>1, <3>2, ServerPageAssumption DEF Acts, TypeOK
  <2> QED
    BY <1>6, <2>1, <2>2 DEF Acts
<1>7. CASE ActReturns
  <2>1. "reload" \in Loads /\ <<"asked">> \in Load
    BY DEF Loads, Load
  <2> QED
    BY <1>7, <2>1 DEF ActReturns, Ask, TypeOK, server, console
<1>8. CASE ActFails
  BY <1>8, ServerPageAssumption DEF ActFails, Idle, TypeOK, server, console
<1>9. CASE Connect
  BY <1>9, ServerPageAssumption DEF Connect, TypeOK, page, server, button
<1>10. CASE Refused \/ Breaks \/ Retry
  BY <1>10, ServerPageAssumption DEF Refused, Breaks, Retry, Leave, TypeOK, page,
     server, button
<1>11. CASE Message
  BY <1>11, MessageTyped
<1> QED
  BY <1>1, <1>2, <1>3, <1>4, <1>5, <1>6, <1>7, <1>8, <1>9, <1>10, <1>11 DEF Next

\* Every variable keeps its type, and the console never holds more than MAX_LINES
\* lines, however often it connects (+page.svelte:44).
THEOREM PageTypeCorrect == Spec => []TypeOK
BY InitTyped, TypeInductive, PTL DEF Spec
-----------------------------------------------------------------------------
(* The button. *)

LEMMA LoadButton ==
  ASSUME TypeOK, ButtonOK, NEW l \in Loads,
         Poll(l) \/ Answer(l) \/ LoadFails(l) \/ Deliver(l) \/ DeliverFailure(l)
  PROVE  ButtonOK'
<1>1. /\ loads[l] \in Load /\ truth.version \in Nat /\ truth' = truth
      /\ "reload" \in Loads
  BY DEF TypeOK, View, Poll, Answer, LoadFails, Deliver, DeliverFailure, Settled,
     server, Loads
<1>2. CASE Deliver(l) \/ DeliverFailure(l)
  <2>1. loads' = [loads EXCEPT ![l] = <<"free">>]
    BY <1>2 DEF Deliver, DeliverFailure, Settled
  <2>2. CASE l = "reload"
    <3>1. act' = "idle" /\ effect' = -1 /\ loads'["reload"] = <<"free">>
      BY <1>1, <1>2, <2>1, <2>2 DEF Deliver, DeliverFailure, Settled, Idle, TypeOK
    <3> QED
      BY <1>1, <3>1, LoadsDiffer DEF ButtonOK, Answered
  <2>3. CASE l # "reload"
    <3>1. act' = act /\ effect' = effect /\ loads'["reload"] = loads["reload"]
      BY <1>1, <1>2, <2>1, <2>3 DEF Deliver, DeliverFailure, Settled, button, TypeOK
    <3> QED
      BY <1>1, <3>1 DEF ButtonOK, Answered
  <2> QED
    BY <2>2, <2>3
<1>3. CASE Poll(l) \/ Answer(l) \/ LoadFails(l)
  <2>1. act' = act /\ effect' = effect
    BY <1>3 DEF Poll, Answer, LoadFails, button
  <2>2. CASE l = "reload"
    <3>1. ~Poll(l)
      BY <2>2, ServerPageAssumption DEF Poll
    <3>2. /\ loads["reload"] = <<"asked">>
          /\ loads'["reload"] \in {<<"answer", truth>>, <<"failed">>}
      BY <1>1, <1>3, <2>2, <3>1 DEF Answer, LoadFails, TypeOK
    <3> QED
      BY <1>1, <2>1, <3>2, LoadsDiffer DEF ButtonOK, Answered
  <2>3. CASE l # "reload"
    <3>1. loads'["reload"] = loads["reload"]
      BY <1>1, <1>3, <2>3 DEF Poll, Ask, Answer, LoadFails, TypeOK
    <3> QED
      BY <1>1, <2>1, <3>1 DEF ButtonOK, Answered
  <2> QED
    BY <2>2, <2>3
<1> QED
  BY <1>2, <1>3

LEMMA ButtonInductive ==
  ASSUME TypeOK, ButtonOK, [Next]_vars
  PROVE  ButtonOK'
<1>1. truth.version \in Nat /\ effect \in Int
  BY Bounds DEF TypeOK, View
<1>2. CASE UNCHANGED <<truth, loads, act, effect>>
  BY <1>2 DEF ButtonOK, Answered
<1>3. CASE Changes
  <2>1. UNCHANGED <<loads, act, effect>> /\ truth'.version = truth.version + 1
    BY <1>3, BecomesTyped DEF Changes, button
  <2> QED
    BY <1>1, <2>1 DEF ButtonOK, Answered
<1>4. ASSUME NEW l \in Loads,
             Poll(l) \/ Answer(l) \/ LoadFails(l) \/ Deliver(l) \/ DeliverFailure(l)
      PROVE  ButtonOK'
  BY <1>4, LoadButton
<1>5. CASE Click
  <2>1. act = "idle" /\ act' = "asked" /\ UNCHANGED <<truth, loads, effect>>
    BY <1>5 DEF Click, busy, server
  <2> QED
    BY <2>1 DEF ButtonOK, Answered
<1>6. ASSUME NEW o \in {"done", "failed"}, Acts(o)
      PROVE  ButtonOK'
  <2>1. act = "asked" /\ act' = o /\ effect' = truth'.version /\ loads' = loads
    BY <1>6 DEF Acts
  <2>2. truth'.version \in Nat
    <3>1. ASSUME NEW c \in Containers \cup {None}, NEW r \in BOOLEAN, Becomes(c, r)
          PROVE  truth'.version \in Nat
      BY <1>1, <3>1, BecomesTyped
    <3> QED
      BY <1>1, <1>6, <3>1 DEF Acts, server
  <2>3. loads["reload"] = <<"free">>
    BY <2>1 DEF ButtonOK
  <2> QED
    BY <2>1, <2>2, <2>3, LoadsDiffer DEF ButtonOK, Answered
<1>7. CASE ActReturns
  <2>1. "reload" \in Loads
    BY DEF Loads
  <2>2. /\ act' = "reload" /\ effect' = effect /\ truth' = truth
        /\ loads'["reload"] = <<"asked">>
    BY <1>7, <2>1 DEF ActReturns, Ask, TypeOK, server
  <2> QED
    BY <2>2, LoadsDiffer DEF ButtonOK, Answered
<1>8. CASE ActFails
  <2>1. act = "failed" /\ act' = "idle" /\ effect' = -1 /\ UNCHANGED <<truth, loads>>
    BY <1>8 DEF ActFails, Idle, server
  <2>2. loads["reload"] = <<"free">>
    BY <2>1 DEF ButtonOK
  <2> QED
    BY <1>1, <2>1, <2>2, LoadsDiffer DEF ButtonOK, Answered
<1>9. CASE UNCHANGED vars \/ Prints \/ Connect \/ Refused \/ Breaks \/ Retry \/ Message
  BY <1>2, <1>9 DEF vars, Prints, Connect, Refused, Breaks, Retry, Message, page,
     server, button
<1> QED
  BY <1>3, <1>4, <1>5, <1>6, <1>7, <1>8, <1>9 DEF Next

LEMMA AlwaysButton == Spec => [](TypeOK /\ ButtonOK)
<1>1. Init => ButtonOK
  <2> SUFFICES ASSUME Init PROVE ButtonOK
    OBVIOUS
  <2>1. "reload" \in Loads /\ loads["reload"] = <<"free">>
    BY DEF Init, Loads
  <2>2. truth.version = 0 /\ effect = -1 /\ act = "idle"
    BY DEF Init
  <2> QED
    BY <2>1, <2>2, LoadsDiffer DEF ButtonOK, Answered
<1> QED
  BY <1>1, InitTyped, TypeInductive, ButtonInductive, PTL DEF Spec

\* Whatever polls are answered late: when a button's action is over without an
\* error, the page shows what the action left or something newer, because act
\* awaits a load of its own (+page.svelte:72).
THEOREM ActsShowTheirEffect == Spec => ActShowsItsEffect
<1> DEFINE Shows == busy /\ ~busy' /\ ~error' => shown'.version >= effect
<1>1. ASSUME TypeOK, ButtonOK, Next
      PROVE  Shows
  <2> SUFFICES ASSUME act # "idle", act' = "idle", ~error'
               PROVE  shown'.version >= effect
    BY DEF busy
  <2>1. Deliver("reload")
    <3>1. ASSUME NEW l \in Loads,
                 \/ Poll(l) \/ Answer(l) \/ LoadFails(l) \/ DeliverFailure(l)
                 \/ Deliver(l) /\ l # "reload"
          PROVE  FALSE
      BY <3>1 DEF Poll, Answer, LoadFails, DeliverFailure, Deliver, Settled, button
    <3>2. ~(Changes \/ Prints \/ Click \/ ActReturns \/ ActFails)
      BY DEF Changes, Prints, Click, ActReturns, ActFails, button
    <3>3. ~(Connect \/ Refused \/ Breaks \/ Retry \/ Message)
      BY DEF Connect, Refused, Breaks, Retry, Message, page, button
    <3>4. \A o \in {"done", "failed"} : ~Acts(o)
      BY DEF Acts
    <3> QED
      BY <1>1, <3>1, <3>2, <3>3, <3>4 DEF Next
  <2>2. Answered("reload") /\ shown' = loads["reload"][2]
    BY <2>1 DEF Deliver, Answered
  <2>3. "reload" \in Loads
    BY DEF Loads
  <2>4. shown' \in View /\ effect \in Int
    BY <1>1, <2>2, <2>3, LoadStates, Bounds DEF TypeOK, Answered
  <2> QED
    BY <1>1, <2>2, <2>4 DEF ButtonOK, View
<1>2. TypeOK /\ ButtonOK /\ [Next]_vars => [Shows]_vars
  BY <1>1
<1> QED
  BY <1>2, AlwaysButton, PTL DEF Spec, ActShowsItsEffect
-----------------------------------------------------------------------------
(* The console. *)

\* A line that arrives goes behind the lines that are kept; what is cut off in
\* front is more than TailLines lines back.
LEMMA MessageConsole ==
  ASSUME TypeOK, ConsoleOK, Message
  PROVE  ConsoleOK'
<1>1. /\ stream = "open" /\ next \in 1 .. log /\ log \in 0 .. MaxOutput /\ log' = log
      /\ lines' = Keep(Append(lines, next)) /\ next' = next + 1
  BY Bounds DEF Message, TypeOK, server
<1>2. From \in 1 .. log + 1 /\ log - From < TailLines /\ From' = From
  BY <1>1, Bounds DEF From
<1>3. next - From <= Len(lines)
      /\ \A k \in From .. next - 1 : lines[Len(lines) - (next - 1 - k)] = k
  BY <1>1 DEF ConsoleOK
<1> PICK s : s = Append(lines, next)
  OBVIOUS
<1> PICK n : n = Len(lines)
  OBVIOUS
<1>4. /\ s \in Seq(1 .. MaxOutput) /\ n \in Nat /\ Len(s) = n + 1 /\ s[n + 1] = next
      /\ \A i \in 1 .. n : s[i] = lines[i]
  <2>1. lines \in Seq(1 .. MaxOutput) /\ next \in 1 .. MaxOutput
    BY <1>1, Bounds DEF TypeOK
  <2> QED
    BY <2>1, AppendProperties, LenProperties
<1> PICK m : m = Len(Keep(s))
  OBVIOUS
<1>5. /\ m = IF n + 1 > MAX_LINES THEN MAX_LINES ELSE n + 1
      /\ \A i \in 0 .. m - 1 : Keep(s)[m - i] = s[n + 1 - i]
  <2>1. s \in Seq(1 .. MaxOutput) /\ Len(s) = n + 1
    BY <1>4
  <2>2. /\ Len(Keep(s)) = IF Len(s) > MAX_LINES THEN MAX_LINES ELSE Len(s)
        /\ \A i \in 0 .. Len(Keep(s)) - 1 : Keep(s)[Len(Keep(s)) - i] = s[Len(s) - i]
    BY <2>1, KeepsTheLast
  <2> QED
    BY <2>1, <2>2
<1>6. lines' = Keep(s) /\ Len(lines') = m /\ m \in Nat
  BY <1>1, <1>4, <1>5, Bounds
<1>7. next + 1 - From <= m
  BY <1>1, <1>2, <1>3, <1>4, <1>5, Bounds
<1>8. ASSUME NEW k \in From .. next
      PROVE  lines'[m - (next - k)] = k
  <2>1. next - k \in 0 .. m - 1 /\ n + 1 - (next - k) \in 1 .. n + 1
    <3>1. m <= n + 1
      BY <1>4, <1>5, Bounds
    <3>2. next \in Int /\ From \in Int /\ n \in Int /\ m \in Int /\ k \in Int
      BY <1>1, <1>2, <1>4, <1>6
    <3>3. 0 <= next - k /\ next - k <= m - 1
      BY <1>7, <3>2
    <3> QED
      BY <3>1, <3>2, <3>3
  <2>2. lines'[m - (next - k)] = s[n + 1 - (next - k)]
    BY <1>5, <1>6, <2>1
  <2>3. CASE k = next
    BY <1>1, <1>4, <2>2, <2>3
  <2>4. CASE k # next
    <3>1. k \in From .. next - 1 /\ n - (next - 1 - k) \in 1 .. n
      BY <1>1, <1>2, <1>3, <1>4, <2>1, <2>4
    <3>2. n + 1 - (next - k) = n - (next - 1 - k)
      BY <1>1, <1>2, <1>4
    <3> QED
      BY <1>3, <1>4, <2>2, <3>1, <3>2
  <2> QED
    BY <2>3, <2>4
<1>9. \A k \in From' .. next' - 1 : lines'[Len(lines') - (next' - 1 - k)] = k
  <2>1. next \in Int /\ From \in Int /\ From' = From /\ next' = next + 1
        /\ Len(lines') = m
    BY <1>1, <1>2, <1>6
  <2>2. From' .. next' - 1 = From .. next
    BY <2>1
  <2>3. ASSUME NEW k \in From .. next
        PROVE  next' - 1 - k = next - k
    BY <2>1
  <2> QED
    BY <1>8, <2>1, <2>2, <2>3, Zenon
<1> QED
  BY <1>1, <1>2, <1>6, <1>7, <1>9 DEF ConsoleOK

LEMMA ConsoleInductive ==
  ASSUME TypeOK, ConsoleOK, [Next]_vars
  PROVE  ConsoleOK'
<1>1. log \in Nat /\ next \in Nat /\ Len(lines) \in Nat
  BY LenProperties, Bounds DEF TypeOK
<1>2. CASE stream' # "open"
  BY <1>2 DEF ConsoleOK
<1>3. CASE UNCHANGED <<log, stream, next, lines>>
  BY <1>3 DEF ConsoleOK, From
<1>4. ASSUME NEW c, NEW r, Becomes(c, r)
      PROVE  ConsoleOK'
  BY <1>2, <1>3, <1>4 DEF Becomes, Leave
<1>5. CASE Changes
  BY <1>4, <1>5 DEF Changes
<1>6. CASE Prints
  <2>1. UNCHANGED <<stream, next, lines>> /\ log' = log + 1
    BY <1>6 DEF Prints, console
  <2>2. From' \in Int /\ From \in Int /\ From <= From'
    BY <1>1, <2>1, Bounds DEF From
  <2> QED
    BY <1>1, <2>1, <2>2 DEF ConsoleOK
<1>7. ASSUME NEW l \in Loads,
             Poll(l) \/ Answer(l) \/ LoadFails(l) \/ Deliver(l) \/ DeliverFailure(l)
      PROVE  ConsoleOK'
  <2>1. CASE Deliver(l)
    BY <1>2, <2>1 DEF Deliver, Attach, Leave
  <2>2. CASE ~Deliver(l)
    BY <1>3, <1>7, <2>2 DEF Poll, Answer, LoadFails, DeliverFailure, Settled, server,
       console
  <2> QED
    BY <2>1, <2>2
<1>8. ASSUME NEW o \in {"done", "failed"}, Acts(o)
      PROVE  ConsoleOK'
  BY <1>3, <1>4, <1>8 DEF Acts, server, console
<1>9. CASE Click \/ ActReturns \/ ActFails
  BY <1>3, <1>9 DEF Click, ActReturns, ActFails, server, console
<1>10. CASE Connect
  <2>1. next' = From /\ From' = From /\ lines' = lines /\ log' = log
    BY <1>10 DEF Connect, From, page, server
  <2>2. From \in Nat /\ From <= log + 1
    BY <1>1, Bounds DEF From
  <2> QED
    BY <1>1, <2>1, <2>2 DEF ConsoleOK
<1>11. CASE Refused \/ Breaks \/ Retry
  BY <1>2, <1>11 DEF Refused, Breaks, Retry, Leave
<1>12. CASE Message
  BY <1>12, MessageConsole
<1>13. CASE UNCHANGED vars
  BY <1>3, <1>13 DEF vars, server, console
<1> QED
  BY <1>5, <1>6, <1>7, <1>8, <1>9, <1>10, <1>11, <1>12, <1>13 DEF Next

\* A console that has read its log to the end shows the log's last lines whole and
\* in order, for any number of lines, any tail and any limit no smaller than it,
\* however often it was reconnected (+page.svelte:38-51).
THEOREM ConsolesEndWithTheTail == Spec => []ConsoleEndsWithTheTail
<1>1. Init => ConsoleOK
  BY DEF Init, ConsoleOK
<1>2. TypeOK /\ ConsoleOK => ConsoleEndsWithTheTail
  <2> SUFFICES ASSUME TypeOK, ConsoleOK, stream = "open", next = log + 1
               PROVE  LET tail == IF log > TailLines THEN TailLines ELSE log
                      IN  /\ tail <= Len(lines)
                          /\ \A i \in 0 .. tail - 1 : lines[Len(lines) - i] = log - i
    BY DEF ConsoleEndsWithTheTail
  <2> PICK tail : tail = IF log > TailLines THEN TailLines ELSE log
    OBVIOUS
  <2>1. log \in Nat /\ Len(lines) \in Nat
    BY LenProperties, Bounds DEF TypeOK
  <2>2. tail \in Nat /\ tail <= log /\ From = log - tail + 1
    BY <2>1, Bounds DEF From
  <2>3. /\ next - From <= Len(lines)
        /\ \A k \in From .. next - 1 : lines[Len(lines) - (next - 1 - k)] = k
    BY DEF ConsoleOK
  <2>4. ASSUME NEW i \in 0 .. tail - 1
        PROVE  lines[Len(lines) - i] = log - i
    <3>1. log - i \in From .. next - 1 /\ next - 1 - (log - i) = i
      BY <2>1, <2>2
    <3> QED
      BY <2>3, <3>1
  <2> QED
    BY <2>1, <2>2, <2>3, <2>4
<1> QED
  BY <1>1, <1>2, InitTyped, TypeInductive, ConsoleInductive, PTL DEF Spec
=============================================================================
