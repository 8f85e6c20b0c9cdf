------------------------------- MODULE RxPath -------------------------------
(***************************************************************************)
(* The way of a frame from the radio blob to lwIP-2, and of the receive    *)
(* buffer back: pbuf_alloc, ethernet_input and pbuf_free (lwip-esp.c),     *)
(* esp2glue_alloc_for_recv and esp2glue_ethernet_input (lwip-git.c).       *)
(*                                                                         *)
(* The radio fills a buffer in an interrupt, whenever it likes; the blob's *)
(* task wraps it in a pbuf and calls ethernet_input, which copies the      *)
(* frame and gives the buffer back BEFORE lwIP-2 sees the copy.  Both      *)
(* sides take their pbufs from one heap, where the blob also puts frames   *)
(* of its own that it sends and frees by the same pbuf_free.               *)
(***************************************************************************)
EXTENDS Integers, FiniteSets, Sequences, SequencesExt

CONSTANTS
  Eb,         \* the radio's receive buffers
  Pbuf,       \* where the heap can put a blob's pbuf
  HeapRoom,   \* pbufs, the blob's and lwIP-2's, the heap has room for
  MaxFrames,  \* bound: frames received
  BlobRefs,   \* does the blob call pbuf_ref on a pbuf of its own?
  NULL

Frame == 1 .. MaxFrames
PbufType == [type : {"RAM", "REF"}, ref : 1 .. 2, eb : Eb \cup {NULL}]

ASSUME RxConstants ==
  /\ IsFiniteSet(Eb) /\ IsFiniteSet(Pbuf)
  /\ HeapRoom \in 0 .. Cardinality(Pbuf) /\ MaxFrames \in Nat /\ BlobRefs \in BOOLEAN
  /\ NULL \notin Eb \cup Pbuf \cup Frame \cup PbufType

VARIABLES
  rxFree,     \* the buffers the radio may fill
  rxQueue,    \* the buffers filled, oldest first, that wait for the task
  bytes,      \* bytes[e]: the frame whose bytes are in e
  received,   \* the frames received so far, numbered from 1
  pbuf,       \* pbuf[p]: the blob's pbuf at p, or NULL
  users,      \* users[p]: the pointers to it that the blob has yet to free
  pc, cur,    \* where the task is in ethernet_input, and its argument
  glue,       \* the frame in the copy it got for lwIP-2, or NULL
  lwipHeld,   \* pbufs that lwIP-2 keeps, in its sockets
  delivered   \* the frames lwIP-2 was given

radio == <<rxFree, rxQueue, bytes, received>>
blob == <<pbuf, users>>
task == <<pc, cur, glue>>
lwip == <<lwipHeld, delivered>>
vars == <<rxFree, rxQueue, bytes, received, pbuf, users, pc, cur, glue, lwipHeld, delivered>>

Live == {p \in Pbuf : pbuf[p] # NULL}

\* mem_malloc of either side: both are the SDK's heap.
HeapHasRoom ==
  Cardinality(Live) + lwipHeld + (IF glue = NULL THEN 0 ELSE 1) < HeapRoom

Init ==
  /\ rxFree = Eb /\ rxQueue = <<>>
  /\ bytes = [e \in Eb |-> NULL] /\ received = 0
  /\ pbuf = [p \in Pbuf |-> NULL] /\ users = [p \in Pbuf |-> 0]
  /\ pc = "idle" /\ cur = NULL /\ glue = NULL
  /\ lwipHeld = 0 /\ delivered = <<>>

-----------------------------------------------------------------------------
(* The radio.                                                              *)

RxInterrupt(e) ==
  /\ received < MaxFrames
  /\ e \in rxFree
  /\ received' = received + 1
  /\ bytes' = [bytes EXCEPT ![e] = received + 1]
  /\ rxFree' = rxFree \ {e}
  /\ rxQueue' = Append(rxQueue, e)
  /\ UNCHANGED <<blob, task, lwip>>

RxOverrun ==
  /\ received < MaxFrames
  /\ rxFree = {}
  /\ received' = received + 1
  /\ UNCHANGED <<rxFree, rxQueue, bytes, blob, task, lwip>>

-----------------------------------------------------------------------------
(* pbuf_alloc and pbuf_free for the blob.                                  *)

\* pbuf_alloc(PBUF_RAW, length, type); its caller sets eb.
PbufAlloc(p, type, eb) ==
  /\ HeapHasRoom /\ pbuf[p] = NULL
  /\ pbuf' = [pbuf EXCEPT ![p] = [type |-> type, ref |-> 1, eb |-> eb]]
  /\ users' = [users EXCEPT ![p] = 1]

Recycled(e) == IF e = NULL THEN rxFree ELSE rxFree \cup {e}

\* (A mistake the runs must find: the receive buffer is not recycled.)
PbufFree_NoRecycle(p) ==
  /\ pbuf[p].ref = 1
  /\ pbuf' = [pbuf EXCEPT ![p] = NULL]
  /\ users' = [users EXCEPT ![p] = @ - 1]
  /\ UNCHANGED rxFree

\* (A mistake: the count is decremented, and the memory kept at zero.)
PbufFree_KeptAtZero(p) ==
  /\ pbuf' = [pbuf EXCEPT ![p].ref = @ - 1]
  /\ users' = [users EXCEPT ![p] = @ - 1]
  /\ UNCHANGED rxFree

\* pbuf_free(p).  A pbuf with more than one reference is the "BAD CASE": an
\* error is printed and nothing is changed.
PbufFree(p) ==
  /\ users' = [users EXCEPT ![p] = @ - 1]
  /\ \/ /\ pbuf[p].ref = 1
        /\ rxFree' = Recycled(pbuf[p].eb)
        /\ pbuf' = [pbuf EXCEPT ![p] = NULL]
     \/ /\ pbuf[p].ref # 1
        /\ UNCHANGED <<rxFree, pbuf>>

\* A frame the blob makes itself and sends; it is freed when it has left.
BlobAlloc(p) ==
  /\ PbufAlloc(p, "RAM", NULL)
  /\ UNCHANGED <<radio, task, lwip>>

BlobFree(p) ==
  /\ users[p] > 0 /\ p # cur
  /\ PbufFree(p)
  /\ UNCHANGED <<rxQueue, bytes, received, task, lwip>>

\* pbuf_ref
PbufRef(p) ==
  /\ BlobRefs
  /\ users[p] = 1 /\ p # cur /\ pbuf[p].ref = 1
  /\ pbuf' = [pbuf EXCEPT ![p].ref = @ + 1]
  /\ users' = [users EXCEPT ![p] = @ + 1]
  /\ UNCHANGED <<radio, task, lwip>>

-----------------------------------------------------------------------------
(* The blob's task.                                                        *)

\* The blob wraps the oldest frame, netif->input being ethernet_input ...
BlobInput(p) ==
  /\ pc = "idle" /\ rxQueue # <<>>
  /\ PbufAlloc(p, "REF", Head(rxQueue))
  /\ rxQueue' = Tail(rxQueue)
  /\ pc' = "alloc" /\ cur' = p
  /\ UNCHANGED <<rxFree, bytes, received, glue, lwip>>

\* ... or drops it, when pbuf_alloc fails.
BlobDrop ==
  /\ pc = "idle" /\ rxQueue # <<>> /\ ~HeapHasRoom
  /\ rxQueue' = Tail(rxQueue)
  /\ rxFree' = rxFree \cup {Head(rxQueue)}
  /\ UNCHANGED <<bytes, received, blob, task, lwip>>

\* (A mistake: without memory, ethernet_input returns at once.)
AllocForRecv_ReturnAtOnce ==
  /\ pc = "alloc"
  /\ IF HeapHasRoom THEN glue' = bytes[pbuf[cur].eb] /\ pc' = "free" /\ UNCHANGED cur
                    ELSE glue' = NULL /\ pc' = "idle" /\ cur' = NULL
  /\ UNCHANGED <<radio, blob, lwip>>

\* (A mistake: the allocation is taken to succeed.)
AllocForRecv_Unchecked ==
  /\ pc = "alloc"
  /\ glue' = bytes[pbuf[cur].eb]
  /\ pc' = "free"
  /\ UNCHANGED <<radio, blob, cur, lwip>>

\* (A mistake: the buffer goes back to the radio before the frame is copied.)
AllocForRecv_ReleaseFirst ==
  /\ pc = "alloc"
  /\ IF pbuf[cur].eb \notin rxFree
     THEN rxFree' = rxFree \cup {pbuf[cur].eb} /\ UNCHANGED <<glue, pc>>
     ELSE /\ glue' = IF HeapHasRoom THEN bytes[pbuf[cur].eb] ELSE NULL
          /\ pc' = "free" /\ UNCHANGED rxFree
  /\ UNCHANGED <<rxQueue, bytes, received, blob, cur, lwip>>

\* esp2glue_alloc_for_recv, and the copy of the payload.
AllocForRecv ==
  /\ pc = "alloc"
  /\ glue' = IF HeapHasRoom THEN bytes[pbuf[cur].eb] ELSE NULL
  /\ pc' = "free"
  /\ UNCHANGED <<radio, blob, cur, lwip>>

\* "release blob's buffer asap"; without a copy the packet is lost.
ReleaseBlobBuffer ==
  /\ pc = "free"
  /\ PbufFree(cur)
  /\ IF glue = NULL THEN pc' = "idle" /\ cur' = NULL
                    ELSE pc' = "input" /\ UNCHANGED cur
  /\ UNCHANGED <<rxQueue, bytes, received, glue, lwip>>

\* esp2glue_ethernet_input; lwIP-2 frees the copy at once, or keeps it.
GlueEthernetInput ==
  /\ pc = "input"
  /\ delivered' = Append(delivered, glue)
  /\ lwipHeld' \in {lwipHeld, lwipHeld + 1}
  /\ pc' = "idle" /\ cur' = NULL /\ glue' = NULL
  /\ UNCHANGED <<radio, blob>>

LwipFree ==
  /\ lwipHeld > 0
  /\ lwipHeld' = lwipHeld - 1
  /\ UNCHANGED <<radio, blob, task, delivered>>

-----------------------------------------------------------------------------
TaskStep ==
  \/ \E p \in Pbuf : BlobInput(p)
  \/ BlobDrop
  \/ AllocForRecv \/ ReleaseBlobBuffer \/ GlueEthernetInput

Next ==
  \/ \E e \in Eb : RxInterrupt(e)
  \/ RxOverrun
  \/ \E p \in Pbuf : BlobAlloc(p) \/ BlobFree(p) \/ PbufRef(p)
  \/ TaskStep
  \/ LwipFree

SafetySpec == Init /\ [][Next]_vars

\* The task runs, and the blob's own frames leave in the end.
Spec ==
  /\ SafetySpec
  /\ WF_vars(TaskStep)
  /\ \A p \in Pbuf : WF_vars(BlobFree(p))

-----------------------------------------------------------------------------
(* Properties.                                                             *)

TypeOK ==
  /\ rxFree \in SUBSET Eb /\ rxQueue \in Seq(Eb)
  /\ bytes \in [Eb -> Frame \cup {NULL}] /\ received \in 0 .. MaxFrames
  /\ pbuf \in [Pbuf -> PbufType \cup {NULL}] /\ users \in [Pbuf -> 0 .. 2]
  /\ pc \in {"idle", "alloc", "free", "input"}
  /\ cur \in Pbuf \cup {NULL} /\ glue \in Frame \cup {NULL}
  /\ lwipHeld \in 0 .. HeapRoom /\ delivered \in Seq(Frame)

\* No receive buffer is lost or has two owners: it is the radio's to fill, or
\* waits in the queue, or belongs to one pbuf, whether lwIP-2 had memory for
\* the frame or not ("packet lost", ethernet_input).
BuffersConserved ==
  /\ Eb = rxFree \cup Range(rxQueue) \cup ({pbuf[p].eb : p \in Live} \ {NULL})
  /\ Cardinality(rxFree) + Len(rxQueue)
       + Cardinality({p \in Live : pbuf[p].eb # NULL}) = Cardinality(Eb)

\* The heap does not overflow, and no pbuf is freed while the blob has a
\* pointer to it, however the blob's references, its frees and the early
\* release of ethernet_input follow each other.
HeapIsSound ==
  /\ Cardinality(Live) + lwipHeld + (IF glue = NULL THEN 0 ELSE 1) <= HeapRoom
  /\ \A p \in Pbuf : users[p] > 0 => p \in Live

\* What pbuf_free's comment says of the count: it "equals the number of
\* pointers that refer to the pbuf", it is decremented, and at zero "the pbuf
\* is deallocated".  The code does so only for pbufs nobody called pbuf_ref on:
\* a count above 1 is never decremented, and the pbuf never freed.
RefCountIsUsers ==
  \A p \in Pbuf : IF p \in Live THEN pbuf[p].ref = users[p] /\ users[p] > 0
                                ELSE users[p] = 0

\* Each receive buffer returns to the radio, whatever becomes of its frame.
BufferReturns == \A e \in Eb : e \notin rxFree ~> e \in rxFree

\* The code keeps the promise of RxLossyQueue: lwIP-2 is given what the radio
\* received, in that order, although the radio refills the buffer meanwhile.
OnItsWay ==
  CASE pc = "alloc" -> <<bytes[pbuf[cur].eb]>>
    [] pc \in {"free", "input"} /\ glue # NULL -> <<glue>>
    [] OTHER -> <<>>

Queue == INSTANCE RxLossyQueue WITH
  pending <- OnItsWay \o [i \in DOMAIN rxQueue |-> bytes[rxQueue[i]]]

QueueSpec == Queue!Spec

=============================================================================
