---------------------------- MODULE RxLossyQueue ----------------------------
(***************************************************************************)
(* What the receive side of the glue promises: frames reach lwIP-2 in the  *)
(* order the radio received them, each at most once and with the bytes it  *)
(* was received with.  A frame may be lost on the way.                     *)
(***************************************************************************)
EXTENDS Naturals, Sequences

VARIABLES
  received,   \* how many frames the radio has received; frames are numbered
  pending,    \* the frames received and on their way, oldest first
  delivered   \* the frames lwIP-2 was given, oldest first

vars == <<received, pending, delivered>>

Init == received = 0 /\ pending = <<>> /\ delivered = <<>>

Receive ==
  /\ received' = received + 1
  /\ pending' \in {pending, Append(pending, received + 1)}
  /\ UNCHANGED delivered

Deliver ==
  /\ pending # <<>>
  /\ delivered' = Append(delivered, Head(pending))
  /\ pending' = Tail(pending)
  /\ UNCHANGED received

Lose ==
  /\ pending # <<>>
  /\ pending' = Tail(pending)
  /\ UNCHANGED <<received, delivered>>

Next == Receive \/ Deliver \/ Lose

SafetySpec == Init /\ [][Next]_vars

\* What is on its way does not stay there.
Spec == SafetySpec /\ WF_vars(Deliver \/ Lose)

=============================================================================
