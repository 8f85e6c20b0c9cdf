------------------------------- MODULE TxPath -------------------------------
(***************************************************************************)
(* The way of a frame from lwIP-2 to the radio blob, and of its buffer     *)
(* back: new_linkoutput and esp2glue_pbuf_freed (lwip-git.c),              *)
(* glue2esp_linkoutput, the pool of wrappers and the pooled branch of      *)
(* pbuf_free (lwip-esp.c).                                                 *)
(*                                                                         *)
(* Two contexts run: the task in which lwIP-2 calls linkoutput, and the    *)
(* blob, which may interrupt that task wherever interrupts are open to     *)
(* call pbuf_free on a frame it has sent or dropped.  A section between    *)
(* os_intr_lock and os_intr_unlock is one step, except around os_malloc,   *)
(* a call into the SDK.                                                    *)
(***************************************************************************)
EXTENDS Integers, FiniteSets, Sequences, SequencesExt

CONSTANTS
  Pbuf,                \* addresses of lwIP-2's buffers
  PBUF_WRAPPER_BLOCK,  \* wrappers carved out of one os_malloc
  MaxBlocks,           \* bound: blocks the heap has room for
  MaxHold,             \* bound: pointers lwIP-2 keeps to one buffer
  MallocUnlocks,       \* does os_malloc reopen the interrupts? (no nesting)
  NULL

\* A wrapper is <<block, index>>: the address p + index of that block.
Wrapper == (1 .. MaxBlocks) \X (1 .. PBUF_WRAPPER_BLOCK)

ASSUME ConstantsAssumption ==
  /\ IsFiniteSet(Pbuf)
  /\ PBUF_WRAPPER_BLOCK \in Nat \ {0}
  /\ MaxBlocks \in Nat
  /\ MaxHold \in Nat \ {0}
  /\ MallocUnlocks \in BOOLEAN
  /\ NULL \notin Pbuf /\ NULL \notin Wrapper

\* lwIP-2's pbuf.ref is a u8_t: its bounded number of users stays below 256.
ASSUME RefFits == MaxHold + Cardinality(Wrapper) + 1 < 256

VARIABLES
  ref,                \* ref[p]: lwIP-2's pbuf.ref; 0 is free memory
  held,               \* held[p]: the pointers lwIP-2 itself keeps to p
  pbuf_wrapper_head,  \* the chain of unused wrappers, first free first
  blocks,             \* blocks allocated so far (they are never given back)
  wref,               \* wref[w]: the reference count in the wrapper's pbuf
  ref2save,           \* ref2save[w]: the buffer w stands for
  phy,                \* the wrappers the blob has accepted and not freed
  pc,                 \* where the task is in new_linkoutput
  txp,                \* its argument
  txw,                \* the wrapper it got
  isr                 \* the wrapper an interrupting pbuf_free has yet to release

lwip == <<ref, held>>
wrap == <<wref, ref2save>>
task == <<pc, txp, txw>>
vars == <<ref, held, pbuf_wrapper_head, blocks, wref, ref2save, phy, pc, txp, txw, isr>>

Inc(n) == (n + 1) % 256
Dec(n) == (n - 1) % 256

\* (A mistake the runs must find: the head is p, one past the block.)
BlockChain_HeadPastEnd(b) ==
  [k \in 1 .. PBUF_WRAPPER_BLOCK |-> <<b, PBUF_WRAPPER_BLOCK + 2 - k>>]

\* The chain the loop of pbuf_wrapper_get builds: its last element is the head.
BlockChain(b) ==
  [k \in 1 .. PBUF_WRAPPER_BLOCK |-> <<b, PBUF_WRAPPER_BLOCK + 1 - k>>]

Init ==
  /\ ref = [p \in Pbuf |-> 0]
  /\ held = [p \in Pbuf |-> 0]
  /\ pbuf_wrapper_head = <<>>
  /\ blocks = 0
  /\ wref = [w \in Wrapper |-> 0]
  /\ ref2save = [w \in Wrapper |-> NULL]
  /\ phy = {}
  /\ pc = "idle" /\ txp = NULL /\ txw = NULL
  /\ isr = NULL

-----------------------------------------------------------------------------
(* lwIP-2, between its calls of linkoutput.                                *)

TaskRuns(at) == pc = at /\ isr = NULL

LwipAlloc(p) ==
  /\ TaskRuns("idle")
  /\ ref[p] = 0
  /\ ref' = [ref EXCEPT ![p] = 1]
  /\ held' = [held EXCEPT ![p] = 1]
  /\ UNCHANGED <<pbuf_wrapper_head, blocks, wrap, phy, task, isr>>

LwipRef(p) ==
  /\ TaskRuns("idle")
  /\ held[p] \in 1 .. MaxHold - 1
  /\ ref' = [ref EXCEPT ![p] = Inc(@)]
  /\ held' = [held EXCEPT ![p] = @ + 1]
  /\ UNCHANGED <<pbuf_wrapper_head, blocks, wrap, phy, task, isr>>

LwipFree(p) ==
  /\ TaskRuns("idle")
  /\ held[p] > 0
  /\ ref' = [ref EXCEPT ![p] = Dec(@)]
  /\ held' = [held EXCEPT ![p] = @ - 1]
  /\ UNCHANGED <<pbuf_wrapper_head, blocks, wrap, phy, task, isr>>

-----------------------------------------------------------------------------
(* Mistakes the runs must find, each in the place of the action it names.  *)

NewLinkoutput_NoRef(p) ==     \* the buffer is lent without pbuf_ref
  /\ TaskRuns("idle")
  /\ held[p] > 0
  /\ pc' = "get" /\ txp' = p
  /\ UNCHANGED <<lwip, pbuf_wrapper_head, blocks, wrap, phy, txw, isr>>

WrapperPop_KeepHead ==        \* the chain is read, not advanced
  /\ TaskRuns("get")
  /\ pbuf_wrapper_head # <<>>
  /\ txw' = Head(pbuf_wrapper_head)
  /\ pc' = "fill"
  /\ UNCHANGED <<lwip, pbuf_wrapper_head, blocks, wrap, phy, txp, isr>>

FillWrapper_KeepRef ==        \* pbuf.ref = 0 is forgotten
  /\ TaskRuns("fill")
  /\ ref2save' = [ref2save EXCEPT ![txw] = txp]
  /\ pc' = "call"
  /\ UNCHANGED <<lwip, pbuf_wrapper_head, blocks, wref, phy, txp, txw, isr>>

PhyRejects_NoRelease ==       \* the refused wrapper is not given back
  /\ TaskRuns("call")
  /\ pc' = "error" /\ txw' = NULL
  /\ UNCHANGED <<lwip, pbuf_wrapper_head, blocks, wrap, phy, txp, isr>>

PhyRejects_Retry ==           \* a refused frame is tried again at once
  /\ TaskRuns("call")
  /\ pbuf_wrapper_head' = <<txw>> \o pbuf_wrapper_head
  /\ pc' = "get" /\ txw' = NULL
  /\ UNCHANGED <<lwip, blocks, wrap, phy, txp, isr>>

LinkoutputError_NoFree ==     \* the reference taken at the start is kept
  /\ TaskRuns("error")
  /\ pc' = "idle" /\ txp' = NULL
  /\ UNCHANGED <<lwip, pbuf_wrapper_head, blocks, wrap, phy, txw, isr>>

-----------------------------------------------------------------------------
(* new_linkoutput, down to the blob's linkoutput and back.                 *)

\* "protect pbuf, so lwip2(git) won't free it before phy(esp) finishes"
NewLinkoutput(p) ==
  /\ TaskRuns("idle")
  /\ held[p] > 0
  /\ ref' = [ref EXCEPT ![p] = Inc(@)]
  /\ pc' = "get" /\ txp' = p
  /\ UNCHANGED <<held, pbuf_wrapper_head, blocks, wrap, phy, txw, isr>>

WrapperPop ==
  /\ TaskRuns("get")
  /\ pbuf_wrapper_head # <<>>
  /\ txw' = Head(pbuf_wrapper_head)
  /\ pbuf_wrapper_head' = Tail(pbuf_wrapper_head)
  /\ pc' = "fill"
  /\ UNCHANGED <<lwip, blocks, wrap, phy, txp, isr>>

\* os_malloc has memory; whether it leaves interrupts locked is the SDK's.
WrapperMalloc ==
  /\ TaskRuns("get")
  /\ pbuf_wrapper_head = <<>>
  /\ blocks < MaxBlocks
  /\ blocks' = blocks + 1
  /\ pc' = "carve"
  /\ UNCHANGED <<lwip, pbuf_wrapper_head, wrap, phy, txp, txw, isr>>

\* The head is assigned, not appended to: the code tested it before os_malloc.
WrapperCarve ==
  /\ TaskRuns("carve")
  /\ txw' = Head(BlockChain(blocks))
  /\ pbuf_wrapper_head' = Tail(BlockChain(blocks))
  /\ pc' = "fill"
  /\ UNCHANGED <<lwip, blocks, wrap, phy, txp, isr>>

\* os_malloc may fail at any time: GLUE_ERR_MEM.
WrapperNone ==
  /\ TaskRuns("get")
  /\ pbuf_wrapper_head = <<>>
  /\ pc' = "error"
  /\ UNCHANGED <<lwip, pbuf_wrapper_head, blocks, wrap, phy, txp, txw, isr>>

FillWrapper ==
  /\ TaskRuns("fill")
  /\ wref' = [wref EXCEPT ![txw] = 0]
  /\ ref2save' = [ref2save EXCEPT ![txw] = txp]
  /\ pc' = "call"
  /\ UNCHANGED <<lwip, pbuf_wrapper_head, blocks, phy, txp, txw, isr>>

\* The blob queues the frame and takes its reference to the wrapper.
PhyAccepts ==
  /\ TaskRuns("call")
  /\ wref' = [wref EXCEPT ![txw] = Inc(@)]
  /\ phy' = phy \cup {txw}
  /\ pc' = "return" /\ txp' = NULL /\ txw' = NULL
  /\ UNCHANGED <<lwip, pbuf_wrapper_head, blocks, ref2save, isr>>

\* The way back to lwIP-2, on which the blob may already free the frame: from
\* here on neither function touches the buffer or the wrapper.
LinkoutputReturn ==
  /\ TaskRuns("return")
  /\ pc' = "idle"
  /\ UNCHANGED <<lwip, pbuf_wrapper_head, blocks, wrap, phy, txp, txw, isr>>

\* "blob/phy is exhausted, release memory"
PhyRejects ==
  /\ TaskRuns("call")
  /\ pbuf_wrapper_head' = <<txw>> \o pbuf_wrapper_head
  /\ pc' = "error" /\ txw' = NULL
  /\ UNCHANGED <<lwip, blocks, wrap, phy, txp, isr>>

LinkoutputError ==
  /\ TaskRuns("error")
  /\ ref' = [ref EXCEPT ![txp] = Dec(@)]
  /\ pc' = "idle" /\ txp' = NULL
  /\ UNCHANGED <<held, pbuf_wrapper_head, blocks, wrap, phy, txw, isr>>

-----------------------------------------------------------------------------
(* The blob's call of pbuf_free, for a frame that was sent or dropped.     *)

Locked == pc = "carve" /\ ~MallocUnlocks

\* esp2glue_pbuf_freed(pw->ref2save), that is pbuf_free on lwIP-2's side ...
TxDone(w) ==
  /\ isr = NULL /\ ~Locked
  /\ w \in phy
  /\ phy' = phy \ {w}
  /\ ref' = [ref EXCEPT ![ref2save[w]] = Dec(@)]
  /\ isr' = w
  /\ UNCHANGED <<held, pbuf_wrapper_head, blocks, wrap, task>>

\* ... then pbuf_wrapper_release(pw).
TxDoneRelease ==
  /\ isr # NULL
  /\ pbuf_wrapper_head' = <<isr>> \o pbuf_wrapper_head
  /\ isr' = NULL
  /\ UNCHANGED <<lwip, blocks, wrap, phy, task>>

-----------------------------------------------------------------------------
LinkoutputStep ==
  \/ WrapperPop \/ WrapperMalloc \/ WrapperCarve \/ WrapperNone
  \/ FillWrapper \/ PhyAccepts \/ PhyRejects
  \/ LinkoutputReturn \/ LinkoutputError

Next ==
  \/ \E p \in Pbuf : LwipAlloc(p) \/ LwipRef(p) \/ LwipFree(p) \/ NewLinkoutput(p)
  \/ LinkoutputStep
  \/ \E w \in Wrapper : TxDone(w)
  \/ TxDoneRelease

SafetySpec == Init /\ [][Next]_vars

\* A called function returns; the blob sends or drops each frame in the end,
\* however often linkoutput or another frame keeps it from doing so at once.
Spec ==
  /\ SafetySpec
  /\ WF_vars(LinkoutputStep)
  /\ WF_vars(TxDoneRelease)
  /\ \A w \in Wrapper : SF_vars(TxDone(w))

-----------------------------------------------------------------------------
(* Properties.                                                             *)

InLinkoutput == pc # "idle"
HasBuffer == pc \notin {"idle", "return"}
HasWrapper == pc \in {"fill", "call"}

TypeOK ==
  /\ ref \in [Pbuf -> 0..255]
  /\ held \in [Pbuf -> 0..MaxHold]
  /\ pbuf_wrapper_head \in Seq(Wrapper)
  /\ blocks \in 0..MaxBlocks
  /\ wref \in [Wrapper -> 0..255]
  /\ ref2save \in [Wrapper -> Pbuf \cup {NULL}]
  /\ phy \in SUBSET Wrapper
  /\ pc \in {"idle", "get", "carve", "fill", "call", "return", "error"}
  /\ txp \in IF HasBuffer THEN Pbuf ELSE {NULL}
  /\ txw \in IF HasWrapper THEN Wrapper ELSE {NULL}
  /\ isr \in Wrapper \cup {NULL}

Loans(p) == {w \in phy : ref2save[w] = p}
Pending(p) == IF txp = p THEN 1 ELSE 0

\* lwIP-2's reference count is the number of users: its own pointers, the
\* frames the blob holds, and the linkoutput in progress.  Whatever path a
\* frame takes (pool empty, blob refuses, blob frees before linkoutput
\* returns), nothing is counted twice and nothing is forgotten.
RefCountExact ==
  \A p \in Pbuf : ref[p] = held[p] + Cardinality(Loans(p)) + Pending(p)

\* The blob never reads freed memory: "protect pbuf, so lwip2(git) won't free
\* it before phy(esp) finishes sending" (new_linkoutput).
PayloadAlive == \A w \in phy : ref2save[w] \in Pbuf /\ ref[ref2save[w]] > 0

\* A wrapper has one owner: it is once in the chain, or in the blob, or in
\* the hands of linkoutput or of an interrupted pbuf_free.
OneOwner ==
  /\ IsInjective(pbuf_wrapper_head)
  /\ Range(pbuf_wrapper_head) \cap phy = {}
  /\ txw \notin Range(pbuf_wrapper_head) \cup phy
  /\ isr \notin Range(pbuf_wrapper_head) \cup phy
  /\ txw # NULL => txw # isr

Carved == {w \in Wrapper : w[1] <= IF pc = "carve" THEN blocks - 1 ELSE blocks}

\* No wrapper is lost: the memory of the pool, which is never given back to
\* the heap, can always be used again.  (Only if os_malloc stays locked.)
NoWrapperLost ==
  Carved = Range(pbuf_wrapper_head) \cup phy \cup ({txw, isr} \ {NULL})

\* The first check of pbuf_free, uassert(p->ref == 1), holds of every frame
\* the blob gives back, reused wrappers included.
FreedWithOneRef == \A w \in phy : wref[w] = 1

\* The pool takes another block from the heap only when the blob has every
\* wrapper there is, so its size follows the blob's queue.
GrowsWhenAllLent ==
  [][blocks' # blocks => phy = {w \in Wrapper : w[1] <= blocks}]_vars

\* linkoutput returns, however often the blob interrupts it.
LinkoutputReturns == InLinkoutput ~> ~InLinkoutput

\* A buffer lwIP-2 lets go of while the blob holds it is freed in the end.
ReleasedIsFreed ==
  \A p \in Pbuf : (held[p] = 0 /\ ref[p] > 0) ~> ref[p] = 0

\* The code keeps the promise of TxLoan: wrappers are the tokens of loans,
\* and allocated memory is what has a reference.
Loan == INSTANCE TxLoan WITH
  Frame <- Wrapper,
  live <- {p \in Pbuf : ref[p] > 0},
  loan <- [w \in Wrapper |-> IF w \in phy THEN ref2save[w] ELSE NULL]

LoanSafety == Loan!SafetySpec
LoanSpec == Loan!Spec

=============================================================================
