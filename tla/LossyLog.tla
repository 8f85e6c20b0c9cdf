------------------------------ MODULE LossyLog ------------------------------
(* What the buffered debug output of doprint.c promises: characters come   *)
(* out in the order they were printed; while they may not come out, the    *)
(* last Size are kept and the older ones are counted; and none passes one  *)
(* that is kept.                                                           *)
EXTENDS Naturals, Sequences

CONSTANTS
  Char,  \* characters
  Size   \* how many are kept

VARIABLES
  kept,   \* the characters kept
  lost,   \* how many are gone, since the start
  shown,  \* the characters that came out
  told    \* the last count of lost characters that came out

vars == <<kept, lost, shown, told>>

Init ==
  /\ kept = <<>>
  /\ lost = 0
  /\ shown = <<>>
  /\ told = 0

Keep(c) ==
  /\ Len(kept) < Size
  /\ kept' = Append(kept, c)
  /\ UNCHANGED <<lost, shown, told>>

\* The oldest makes room.
Replace(c) ==
  /\ Len(kept) = Size
  /\ kept' = Append(Tail(kept), c)
  /\ lost' = lost + 1
  /\ UNCHANGED <<shown, told>>

Show(c) ==
  /\ kept = <<>>
  /\ shown' = Append(shown, c)
  /\ UNCHANGED <<kept, lost, told>>

Drain ==
  /\ kept # <<>>
  /\ shown' = Append(shown, Head(kept))
  /\ kept' = Tail(kept)
  /\ UNCHANGED <<lost, told>>

Tell ==
  /\ told' = lost
  /\ UNCHANGED <<kept, lost, shown>>

Next ==
  \/ \E c \in Char : Keep(c) \/ Replace(c) \/ Show(c)
  \/ Drain
  \/ Tell

Spec == Init /\ [][Next]_vars

=============================================================================
