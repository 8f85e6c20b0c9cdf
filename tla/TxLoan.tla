------------------------------- MODULE TxLoan -------------------------------
(***************************************************************************)
(* What the transmit side of the glue promises to its two neighbours,      *)
(* without the wrappers, the pool, the lock or the reference counts that   *)
(* implement the promise (those are in TxPath).                            *)
(*                                                                         *)
(* lwIP-2 owns packet buffers.  Sending one LENDS it to the radio blob;    *)
(* the blob RETURNS it when the frame has left.  A buffer's memory stays   *)
(* alive while lwIP-2 holds it or a loan of it is out, and is given back   *)
(* in the very step that ends the last of these.                           *)
(***************************************************************************)
EXTENDS Naturals

CONSTANTS
  Pbuf,     \* the packet buffers of lwIP-2
  Frame,    \* the tokens a loan is identified by
  MaxHold,  \* bound: pointers lwIP-2 itself keeps to one buffer
  NULL

VARIABLES
  live,  \* the buffers whose memory is allocated
  held,  \* held[p]: pointers to p that lwIP-2 keeps
  loan   \* loan[f]: the buffer lent as frame f, or NULL

vars == <<live, held, loan>>

TypeOK ==
  /\ live \in SUBSET Pbuf
  /\ held \in [Pbuf -> 0..MaxHold]
  /\ loan \in [Frame -> Pbuf \cup {NULL}]

Lent(p) == \E f \in Frame : loan[f] = p

Init ==
  /\ live = {}
  /\ held = [p \in Pbuf |-> 0]
  /\ loan = [f \in Frame |-> NULL]

Alloc(p) ==
  /\ p \notin live
  /\ live' = live \cup {p}
  /\ held' = [held EXCEPT ![p] = 1]
  /\ UNCHANGED loan

Hold(p) ==
  /\ held[p] \in 1 .. MaxHold - 1
  /\ held' = [held EXCEPT ![p] = @ + 1]
  /\ UNCHANGED <<live, loan>>

\* Whoever ends the last reference to p gives its memory back at once.
Reclaim(p, stillUsed) == live' = IF stillUsed THEN live ELSE live \ {p}

Drop(p) ==
  /\ held[p] > 0
  /\ held' = [held EXCEPT ![p] = @ - 1]
  /\ Reclaim(p, held[p] > 1 \/ Lent(p))
  /\ UNCHANGED loan

Lend(f, p) ==
  /\ loan[f] = NULL
  /\ held[p] > 0
  /\ loan' = [loan EXCEPT ![f] = p]
  /\ UNCHANGED <<live, held>>

Return(f) ==
  /\ loan[f] # NULL
  /\ loan' = [loan EXCEPT ![f] = NULL]
  /\ Reclaim(loan[f], held[loan[f]] > 0 \/ \E g \in Frame \ {f} : loan[g] = loan[f])
  /\ UNCHANGED held

Next ==
  \/ \E p \in Pbuf : Alloc(p) \/ Hold(p) \/ Drop(p)
  \/ \E f \in Frame, p \in Pbuf : Lend(f, p)
  \/ \E f \in Frame : Return(f)

SafetySpec == Init /\ [][Next]_vars

\* The blob does not keep a frame for ever.
Spec == SafetySpec /\ \A f \in Frame : WF_vars(Return(f))

=============================================================================
