------------------------------ MODULE LineFeed ------------------------------
(***************************************************************************)
(* What a console promises its reader: the container's output grows at its *)
(* end, and the reader is shown its lines one at a time, in order, none    *)
(* skipped and none twice.  How many of them is left open, because the     *)
(* reader may leave.                                                       *)
(***************************************************************************)
EXTENDS Sequences, Naturals

VARIABLES source, shown

Init == source = << >> /\ shown = << >>

Grow == /\ Len(source) < Len(source')
        /\ SubSeq(source', 1, Len(source)) = source
        /\ UNCHANGED shown

Show == /\ Len(shown) < Len(source)
        /\ shown' = Append(shown, source[Len(shown) + 1])
        /\ UNCHANGED source

Next == Grow \/ Show

Spec == Init /\ [][Next]_<<source, shown>>
=============================================================================
