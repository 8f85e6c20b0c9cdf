--------------------------- MODULE TxPathProofs ---------------------------
(***************************************************************************)
(* Proofs about TxPath, for every set of buffers, block size, number of    *)
(* blocks and behaviour of os_malloc.                                      *)
(*                                                                         *)
(*   1. facts about chains and about the constants                         *)
(*   2. the inductive invariant IInv and its parts                         *)
(*   3. IInv is preserved, part by part                                    *)
(*   4. the theorems                                                       *)
(*   5. TxPath implements TxLoan                                           *)
(***************************************************************************)
EXTENDS TxPath, FiniteSetTheorems, SequenceTheorems, TLAPS

-----------------------------------------------------------------------------
(* 1. Chains and constants.                                                *)

\* Pushing a wrapper on a chain that does not have it.
LEMMA PushFacts ==
  ASSUME NEW S, NEW s \in Seq(S), NEW x \in S
  PROVE  /\ <<x>> \o s \in Seq(S)
         /\ Range(<<x>> \o s) = {x} \cup Range(s)
         /\ IsInjective(s) /\ x \notin Range(s) => IsInjective(<<x>> \o s)
<1>1. <<x>> \in Seq(S) /\ Len(<<x>>) = 1 /\ <<x>>[1] = x /\ DOMAIN <<x>> = 1..1
  OBVIOUS
<1> DEFINE t == <<x>> \o s
<1>2. /\ t \in Seq(S) /\ Len(t) = 1 + Len(s)
      /\ \A i \in 1 .. 1 + Len(s) : t[i] = IF i <= 1 THEN <<x>>[i] ELSE s[i - 1]
  BY <1>1, ConcatProperties
<1>3. Range(<<x>>) = {x}
  BY <1>1 DEF Range
<1>4. Range(t) = {x} \cup Range(s)
  <2>1. PICK u \in Seq(S) : u = <<x>>
    BY <1>1
  <2>2. Range(u \o s) = Range(u) \cup Range(s)
    BY RangeConcatenation
  <2>3. Range(t) = Range(<<x>>) \cup Range(s)
    BY <2>1, <2>2
  <2> QED BY <2>3, <1>3
<1>5. ASSUME IsInjective(s), x \notin Range(s) PROVE IsInjective(t)
  <2>1. Len(s) \in Nat /\ DOMAIN s = 1 .. Len(s) /\ DOMAIN t = 1 .. 1 + Len(s)
    BY <1>2, LenProperties
  <2>2. \A i \in 2 .. 1 + Len(s) : t[i] = s[i - 1] /\ i - 1 \in DOMAIN s
    BY <1>2, <2>1
  <2>3. t[1] = x
    BY <1>1, <1>2, <2>1
  <2>4. \A i \in 2 .. 1 + Len(s) : t[i] # x
    BY <2>2, <1>5 DEF Range
  <2>5. ASSUME NEW a \in DOMAIN t, NEW b \in DOMAIN t, t[a] = t[b] PROVE a = b
    <3>1. CASE a = 1 \/ b = 1
      BY <3>1, <2>1, <2>3, <2>4, <2>5
    <3>2. CASE a # 1 /\ b # 1
      <4>1. a \in 2 .. 1 + Len(s) /\ b \in 2 .. 1 + Len(s)
        BY <3>2, <2>1
      <4>2. s[a - 1] = s[b - 1] /\ a - 1 \in DOMAIN s /\ b - 1 \in DOMAIN s
        BY <4>1, <2>2, <2>5
      <4>3. a - 1 = b - 1
        BY <4>2, <1>5 DEF IsInjective
      <4> QED BY <4>1, <4>3
    <3> QED BY <3>1, <3>2
  <2> QED BY <2>5 DEF IsInjective
<1> QED BY <1>2, <1>4, <1>5

\* Taking the head off a chain without duplicates.
LEMMA PopFacts ==
  ASSUME NEW S, NEW s \in Seq(S), s # <<>>, IsInjective(s)
  PROVE  /\ Head(s) \in S
         /\ Tail(s) \in Seq(S)
         /\ IsInjective(Tail(s))
         /\ Head(s) \notin Range(Tail(s))
         /\ Range(s) = {Head(s)} \cup Range(Tail(s))
<1> DEFINE t == Tail(s)
<1>1. /\ Head(s) \in S /\ t \in Seq(S) /\ Len(t) = Len(s) - 1
      /\ \A i \in 1 .. Len(t) : t[i] = s[i + 1]
  BY HeadTailProperties
<1>2. Len(s) \in Nat \ {0} /\ DOMAIN s = 1 .. Len(s) /\ DOMAIN t = 1 .. Len(t)
  BY <1>1, LenProperties, EmptySeq
<1>3. Head(s) = s[1]
  OBVIOUS
<1>4. \A i \in DOMAIN t : t[i] = s[i + 1] /\ i + 1 \in DOMAIN s /\ i + 1 # 1
  BY <1>1, <1>2
<1>5. IsInjective(t)
  <2>1. ASSUME NEW a \in DOMAIN t, NEW b \in DOMAIN t, t[a] = t[b] PROVE a = b
    <3>1. s[a + 1] = s[b + 1] /\ a + 1 \in DOMAIN s /\ b + 1 \in DOMAIN s
      BY <1>4, <2>1
    <3>2. a + 1 = b + 1
      BY <3>1 DEF IsInjective
    <3> QED BY <3>2, <1>2
  <2> QED BY <2>1 DEF IsInjective
<1>6. Head(s) \notin Range(t)
  <2>1. SUFFICES ASSUME NEW i \in DOMAIN t, t[i] = s[1] PROVE FALSE
    BY <1>3 DEF Range
  <2>2. i + 1 \in DOMAIN s /\ 1 \in DOMAIN s /\ s[i + 1] = s[1] /\ i + 1 # 1
    BY <1>2, <1>4, <2>1
  <2> QED BY <2>2 DEF IsInjective
<1>7. Range(s) = {Head(s)} \cup Range(t)
  <2>1. ASSUME NEW j \in DOMAIN s PROVE s[j] \in {Head(s)} \cup Range(t)
    <3>1. CASE j = 1
      BY <3>1, <1>3
    <3>2. CASE j # 1
      <4>1. j - 1 \in DOMAIN t /\ t[j - 1] = s[j]
        BY <3>2, <1>1, <1>2
      <4> QED BY <4>1 DEF Range
    <3> QED BY <3>1, <3>2
  <2>2. ASSUME NEW i \in DOMAIN t PROVE t[i] \in Range(s)
    BY <1>4 DEF Range
  <2>3. Head(s) \in Range(s)
    BY <1>2, <1>3 DEF Range
  <2> QED BY <2>1, <2>2, <2>3 DEF Range
<1> QED BY <1>1, <1>5, <1>6, <1>7

\* The loop of pbuf_wrapper_get chains every wrapper of the block, once.
LEMMA ChainFacts ==
  ASSUME NEW b \in 1 .. MaxBlocks
  PROVE  /\ BlockChain(b) \in Seq(Wrapper)
         /\ BlockChain(b) # <<>>
         /\ IsInjective(BlockChain(b))
         /\ Range(BlockChain(b)) = {w \in Wrapper : w[1] = b}
<1> DEFINE B == PBUF_WRAPPER_BLOCK
           c == BlockChain(b)
<1>1. B \in Nat \ {0} /\ DOMAIN c = 1 .. B
  BY ConstantsAssumption DEF BlockChain
<1>2. \A k \in 1 .. B : c[k] = <<b, B + 1 - k>> /\ B + 1 - k \in 1 .. B
  BY <1>1 DEF BlockChain
<1>3. \A k \in 1 .. B : c[k] \in Wrapper /\ c[k][1] = b
  BY <1>2 DEF Wrapper
<1>4. c \in Seq(Wrapper) /\ Len(c) = B
  <2>1. c = [k \in 1 .. B |-> c[k]]
    BY <1>1 DEF BlockChain
  <2>2. c \in [1 .. B -> Wrapper]
    BY <2>1, <1>3
  <2> QED BY <1>1, <2>2
<1>5. c # <<>>
  BY <1>1, <1>4
<1>6. IsInjective(c)
  <2>1. ASSUME NEW i \in 1 .. B, NEW j \in 1 .. B, c[i] = c[j] PROVE i = j
    <3>1. B + 1 - i = B + 1 - j
      BY <2>1, <1>2
    <3> QED BY <3>1, <1>1
  <2> QED BY <2>1, <1>1 DEF IsInjective
<1>7. ASSUME NEW w \in Wrapper, w[1] = b PROVE w \in Range(c)
  <2>1. w = <<b, w[2]>> /\ w[2] \in 1 .. B
    BY <1>7 DEF Wrapper
  <2>2. B + 1 - w[2] \in 1 .. B /\ c[B + 1 - w[2]] = <<b, w[2]>>
    BY <2>1, <1>1, <1>2
  <2> QED BY <2>1, <2>2, <1>1 DEF Range
<1>8. Range(c) = {w \in Wrapper : w[1] = b}
  BY <1>1, <1>3, <1>7 DEF Range
<1> QED BY <1>4, <1>5, <1>6, <1>8

\* There are finitely many wrappers.
LEMMA WrapperFinite == IsFiniteSet(Wrapper)
<1>1. MaxBlocks \in Int /\ PBUF_WRAPPER_BLOCK \in Int
  BY ConstantsAssumption
<1>2. IsFiniteSet(1 .. MaxBlocks) /\ IsFiniteSet(1 .. PBUF_WRAPPER_BLOCK)
  BY <1>1, FS_Interval
<1> QED BY <1>2, FS_Product DEF Wrapper

\* A u8_t counter that is neither full nor empty counts exactly.
LEMMA CounterFacts ==
  /\ \A n \in 0..255 : Inc(n) \in 0..255 /\ Dec(n) \in 0..255
  /\ \A n \in 0..254 : Inc(n) = n + 1
  /\ \A n \in 1..255 : Dec(n) = n - 1
<1>1. ASSUME NEW n \in 0..255 PROVE Inc(n) \in 0..255 /\ Dec(n) \in 0..255
  BY DEF Inc, Dec
<1>2. ASSUME NEW n \in 0..254 PROVE Inc(n) = n + 1
  BY DEF Inc
<1>3. ASSUME NEW n \in 1..255 PROVE Dec(n) = n - 1
  BY DEF Dec
<1> QED BY <1>1, <1>2, <1>3

-----------------------------------------------------------------------------
(* 2. The inductive invariant.                                             *)

Owned == Range(pbuf_wrapper_head) \cup phy \cup ({txw, isr} \ {NULL})

\* OneOwner alone is not inductive: a fresh block must be known to be unowned.
PoolInv ==
  /\ OneOwner
  /\ Owned \subseteq Carved
  /\ pc = "carve" => blocks > 0
  /\ ~MallocUnlocks => NoWrapperLost
  /\ ~MallocUnlocks /\ pc = "carve" => pbuf_wrapper_head = <<>> /\ isr = NULL

\* RefCountExact alone is not inductive: a wrapper must be known to carry the
\* buffer that was referenced for it, and lwIP-2 to hold what it sends.
CountInv ==
  /\ RefCountExact
  /\ FreedWithOneRef
  /\ \A w \in phy : ref2save[w] \in Pbuf
  /\ HasBuffer => held[txp] > 0
  /\ pc = "call" => ref2save[txw] = txp /\ wref[txw] = 0

IInv == TypeOK /\ PoolInv /\ CountInv

-----------------------------------------------------------------------------
(* 3. The invariant is preserved.                                          *)

\* The inductive invariant holds when nothing is allocated yet.
LEMMA InitIInv == Init => IInv
<1> SUFFICES ASSUME Init PROVE IInv
  OBVIOUS
<1>1. Range(pbuf_wrapper_head) = {}
  BY DEF Init, Range
<1>2. TypeOK
  BY ConstantsAssumption DEF Init, TypeOK, HasBuffer, HasWrapper
<1>3. Carved = {}
  BY DEF Init, Carved, Wrapper
<1>4. PoolInv
  <2>1. OneOwner
    BY <1>1 DEF Init, OneOwner, IsInjective
  <2> QED BY <1>1, <1>3, <2>1 DEF Init, PoolInv, Owned, NoWrapperLost
<1>5. RefCountExact
  <2>1. ASSUME NEW p \in Pbuf PROVE Loans(p) = {} /\ Pending(p) = 0
    BY ConstantsAssumption DEF Init, Loans, Pending
  <2> QED BY <2>1, FS_EmptySet DEF Init, RefCountExact
<1>6. CountInv
  BY <1>5 DEF Init, CountInv, FreedWithOneRef, HasBuffer
<1> QED BY <1>2, <1>4, <1>6 DEF IInv

\* Every step keeps the types; it needs the chain's wrappers to be wrappers.
LEMMA TypeStep ==
  ASSUME TypeOK, PoolInv, [Next]_vars
  PROVE  TypeOK'
<1>a. /\ ref \in [Pbuf -> 0..255]
      /\ wref \in [Wrapper -> 0..255]
  BY DEF TypeOK
<1>b. ASSUME NEW p \in Pbuf PROVE Inc(ref[p]) \in 0..255 /\ Dec(ref[p]) \in 0..255
  <2>1. ref[p] \in 0..255
    BY <1>a
  <2> QED BY <2>1, CounterFacts
<1>c. ASSUME NEW w \in Wrapper PROVE Inc(wref[w]) \in 0..255
  <2>1. wref[w] \in 0..255
    BY <1>a
  <2> QED BY <2>1, CounterFacts
<1>0. /\ \A p \in Pbuf : Inc(ref[p]) \in 0..255 /\ Dec(ref[p]) \in 0..255
      /\ \A w \in Wrapper : Inc(wref[w]) \in 0..255
  BY <1>b, <1>c
<1> USE ConstantsAssumption DEF TypeOK, HasBuffer, HasWrapper, TaskRuns
<1>1. ASSUME NEW p \in Pbuf, LwipAlloc(p) PROVE TypeOK'
  BY <1>1 DEF LwipAlloc, wrap, task
<1>2. ASSUME NEW p \in Pbuf, LwipRef(p) PROVE TypeOK'
  <2>1. ref' \in [Pbuf -> 0..255]
    BY <1>2, <1>0 DEF LwipRef
  <2>2. held' \in [Pbuf -> 0..MaxHold]
    BY <1>2 DEF LwipRef
  <2> QED BY <1>2, <2>1, <2>2 DEF LwipRef, wrap, task
<1>3. ASSUME NEW p \in Pbuf, LwipFree(p) PROVE TypeOK'
  <2>1. ref' \in [Pbuf -> 0..255]
    BY <1>3, <1>0 DEF LwipFree
  <2>2. held' \in [Pbuf -> 0..MaxHold]
    BY <1>3 DEF LwipFree
  <2> QED BY <1>3, <2>1, <2>2 DEF LwipFree, wrap, task
<1>4. ASSUME NEW p \in Pbuf, NewLinkoutput(p) PROVE TypeOK'
  BY <1>4, <1>0 DEF NewLinkoutput, wrap
<1>5. CASE WrapperPop
  BY <1>5, HeadTailProperties DEF WrapperPop, lwip, wrap
<1>6. CASE WrapperMalloc
  BY <1>6 DEF WrapperMalloc, lwip, wrap
<1>7. CASE WrapperCarve
  <2>1. blocks \in 1 .. MaxBlocks
    BY <1>7 DEF WrapperCarve, PoolInv
  <2>2. Head(BlockChain(blocks)) \in Wrapper /\ Tail(BlockChain(blocks)) \in Seq(Wrapper)
    BY <2>1, ChainFacts, HeadTailProperties
  <2> QED BY <1>7, <2>2 DEF WrapperCarve, lwip, wrap
<1>8. CASE WrapperNone
  BY <1>8 DEF WrapperNone, lwip, wrap
<1>9. CASE FillWrapper
  BY <1>9 DEF FillWrapper, lwip
<1>10. CASE PhyAccepts
  <2>1. wref' \in [Wrapper -> 0..255]
    BY <1>10, <1>0 DEF PhyAccepts
  <2>2. phy' \in SUBSET Wrapper
    BY <1>10 DEF PhyAccepts
  <2> QED BY <1>10, <2>1, <2>2 DEF PhyAccepts, lwip
<1>11. CASE PhyRejects
  <2>1. <<txw>> \o pbuf_wrapper_head \in Seq(Wrapper)
    BY <1>11, PushFacts DEF PhyRejects
  <2> QED BY <1>11, <2>1 DEF PhyRejects, lwip, wrap
<1>12. CASE LinkoutputError
  BY <1>12, <1>0 DEF LinkoutputError, wrap
<1>13. ASSUME NEW w \in Wrapper, TxDone(w) PROVE TypeOK'
  <2>0. ref' = [ref EXCEPT ![ref2save[w]] = Dec(@)]
    BY <1>13 DEF TxDone
  <2>1. ref' \in [Pbuf -> 0..255]
    <3>1. ref \in [Pbuf -> 0..255]
      OBVIOUS
    <3> HIDE DEF TypeOK
    <3> QED BY <3>1, <2>0, <1>0
  <2> QED BY <1>13, <2>1 DEF TxDone, wrap, task
<1>14. CASE TxDoneRelease
  <2>1. <<isr>> \o pbuf_wrapper_head \in Seq(Wrapper)
    BY <1>14, PushFacts DEF TxDoneRelease
  <2> QED BY <1>14, <2>1 DEF TxDoneRelease, lwip, wrap, task
<1>15. CASE UNCHANGED vars
  BY <1>15 DEF vars
<1>16. CASE LinkoutputReturn
  BY <1>16 DEF LinkoutputReturn, lwip, wrap
<1> QED
  BY <1>1, <1>2, <1>3, <1>4, <1>5, <1>6, <1>7, <1>8, <1>9, <1>10, <1>11, <1>12,
     <1>13, <1>14, <1>15, <1>16 DEF Next, LinkoutputStep

\* A step that leaves the pool alone, outside the carving of a block.
LEMMA PoolFrame ==
  ASSUME PoolInv, pc # "carve", pc' # "carve",
         UNCHANGED <<pbuf_wrapper_head, blocks, phy, txw, isr>>
  PROVE  PoolInv'
BY DEF PoolInv, OneOwner, Owned, Carved, NoWrapperLost

\* Every step keeps each wrapper in one place.
LEMMA PoolStep ==
  ASSUME TypeOK, PoolInv, [Next]_vars
  PROVE  PoolInv'
<1> USE ConstantsAssumption
<1> DEFINE head == pbuf_wrapper_head
<1>0. /\ head \in Seq(Wrapper) /\ Range(head) \subseteq Wrapper
      /\ phy \subseteq Wrapper /\ isr \in Wrapper \cup {NULL}
      /\ HasWrapper => txw \in Wrapper
      /\ ~HasWrapper => txw = NULL
      /\ blocks \in Nat
  BY RangeOfSeq DEF TypeOK
<1>1. ASSUME NEW p \in Pbuf,
             LwipAlloc(p) \/ LwipRef(p) \/ LwipFree(p) \/ NewLinkoutput(p)
      PROVE  PoolInv'
  BY <1>1, PoolFrame
     DEF LwipAlloc, LwipRef, LwipFree, NewLinkoutput, TaskRuns, task
<1>2. CASE WrapperNone \/ FillWrapper \/ LinkoutputReturn \/ LinkoutputError
  BY <1>2, PoolFrame DEF WrapperNone, FillWrapper, LinkoutputReturn, LinkoutputError, TaskRuns
<1>3. CASE WrapperPop
  <2>1. /\ isr = NULL /\ pc = "get" /\ pc' = "fill" /\ txw = NULL
        /\ UNCHANGED <<blocks, phy, isr>>
        /\ txw' = Head(head) /\ head' = Tail(head) /\ head # <<>>
    BY <1>0, <1>3 DEF WrapperPop, TaskRuns, HasWrapper
  <2>2. IsInjective(head)
    BY DEF PoolInv, OneOwner
  <2>3. /\ txw' \in Wrapper /\ IsInjective(head') /\ txw' \notin Range(head')
        /\ Range(head) = {txw'} \cup Range(head')
    BY <1>0, <2>1, <2>2, PopFacts
  <2>4. Owned' = Owned /\ Carved' = Carved
    BY <2>1, <2>3 DEF Owned, Carved
  <2>5. OneOwner'
    BY <2>1, <2>3 DEF PoolInv, OneOwner
  <2> QED BY <2>1, <2>4, <2>5 DEF PoolInv, NoWrapperLost, Owned
<1>4. CASE WrapperMalloc
  <2>1. /\ isr = NULL /\ pc = "get" /\ pc' = "carve" /\ head = <<>>
        /\ blocks' = blocks + 1
        /\ UNCHANGED <<pbuf_wrapper_head, phy, txw, isr>>
    BY <1>4 DEF WrapperMalloc, TaskRuns
  <2>2. Owned' = Owned
    BY <2>1 DEF Owned
  <2>3. Carved' = Carved
    BY <1>0, <2>1 DEF Carved
  <2>4. OneOwner'
    BY <2>1 DEF PoolInv, OneOwner
  <2> QED BY <1>0, <2>1, <2>2, <2>3, <2>4 DEF PoolInv, NoWrapperLost, Owned
<1>5. CASE WrapperCarve
  <2> DEFINE c == BlockChain(blocks)
             fresh == {w \in Wrapper : w[1] = blocks}
  <2>1. /\ isr = NULL /\ pc = "carve" /\ pc' = "fill" /\ txw = NULL
        /\ UNCHANGED <<blocks, phy, isr>>
        /\ txw' = Head(c) /\ head' = Tail(c)
    BY <1>0, <1>5 DEF WrapperCarve, TaskRuns, HasWrapper
  <2>2. blocks \in 1 .. MaxBlocks
    BY <2>1 DEF PoolInv, TypeOK
  <2>3. c \in Seq(Wrapper) /\ c # <<>> /\ IsInjective(c) /\ Range(c) = fresh
    BY <2>2, ChainFacts
  <2>4. /\ txw' \in Wrapper /\ IsInjective(head') /\ txw' \notin Range(head')
        /\ fresh = {txw'} \cup Range(head')
    BY <2>1, <2>3, PopFacts
  <2>5. \A w \in Wrapper : w[1] \in Int
    BY DEF Wrapper
  <2>6. Carved' = Carved \cup fresh /\ Carved \cap fresh = {}
    BY <1>0, <2>1, <2>5 DEF Carved
  <2>7. phy \cap fresh = {} /\ phy \subseteq Carved
    BY <2>6 DEF PoolInv, Owned
  <2>8. OneOwner'
    <3>1. Range(head') \subseteq Wrapper /\ Range(head') \cap phy = {}
      BY <2>4, <2>7
    <3>2. txw' \notin Range(head') \cup phy /\ NULL \notin Range(head') \cup phy
      BY <1>0, <2>4, <2>7, <3>1
    <3> QED BY <2>1, <2>4, <3>1, <3>2 DEF OneOwner
  <2>9. Owned' = phy \cup fresh
    BY <2>1, <2>4 DEF Owned
  <2>10. ~MallocUnlocks => Carved = phy
    <3>1. Range(<<>>) = {}
      BY DEF Range
    <3> QED BY <2>1, <3>1 DEF PoolInv, NoWrapperLost
  <2> QED BY <2>1, <2>6, <2>7, <2>8, <2>9, <2>10 DEF PoolInv, NoWrapperLost, Owned
<1>6. CASE PhyAccepts
  <2>1. /\ isr = NULL /\ pc = "call" /\ pc' = "return" /\ txw \in Wrapper /\ txw' = NULL
        /\ phy' = phy \cup {txw}
        /\ UNCHANGED <<pbuf_wrapper_head, blocks, isr>>
    BY <1>0, <1>6 DEF PhyAccepts, TaskRuns, HasWrapper
  <2>2. Owned' = Owned /\ Carved' = Carved
    BY <2>1 DEF Owned, Carved
  <2>3. OneOwner'
    BY <1>0, <2>1 DEF PoolInv, OneOwner
  <2> QED BY <2>1, <2>2, <2>3 DEF PoolInv, NoWrapperLost, Owned
<1>7. CASE PhyRejects
  <2>1. /\ isr = NULL /\ pc = "call" /\ pc' = "error" /\ txw \in Wrapper /\ txw' = NULL
        /\ head' = <<txw>> \o head
        /\ UNCHANGED <<phy, blocks, isr>>
    BY <1>0, <1>7 DEF PhyRejects, TaskRuns, HasWrapper
  <2>2. IsInjective(head) /\ txw \notin Range(head) /\ txw \notin phy
    BY DEF PoolInv, OneOwner
  <2>3. Range(head') = {txw} \cup Range(head) /\ IsInjective(head')
    BY <1>0, <2>1, <2>2, PushFacts
  <2>4. Owned' = Owned /\ Carved' = Carved
    BY <2>1, <2>3 DEF Owned, Carved
  <2>5. OneOwner'
    BY <1>0, <2>1, <2>2, <2>3 DEF PoolInv, OneOwner
  <2> QED BY <2>1, <2>4, <2>5 DEF PoolInv, NoWrapperLost, Owned
<1>8. ASSUME NEW w \in Wrapper, TxDone(w) PROVE PoolInv'
  <2>1. /\ isr = NULL /\ isr' = w /\ w \in phy /\ phy' = phy \ {w}
        /\ UNCHANGED <<pbuf_wrapper_head, blocks, pc, txw>>
        /\ ~MallocUnlocks => pc # "carve"
    BY <1>8 DEF TxDone, task, Locked
  <2>2. Owned' = Owned /\ Carved' = Carved
    BY <2>1 DEF Owned, Carved
  <2>3. w \notin Range(head) /\ txw # w
    BY <2>1 DEF PoolInv, OneOwner
  <2>4. OneOwner'
    BY <1>0, <2>1, <2>3 DEF PoolInv, OneOwner
  <2> QED BY <2>1, <2>2, <2>4 DEF PoolInv, NoWrapperLost, Owned
<1>9. CASE TxDoneRelease
  <2>1. /\ isr \in Wrapper /\ isr' = NULL /\ head' = <<isr>> \o head
        /\ UNCHANGED <<phy, blocks, pc, txw>>
    BY <1>0, <1>9 DEF TxDoneRelease, task
  <2>2. IsInjective(head) /\ isr \notin Range(head) /\ isr \notin phy /\ txw # isr
    BY <2>1 DEF PoolInv, OneOwner
  <2>3. Range(head') = {isr} \cup Range(head) /\ IsInjective(head')
    BY <1>0, <2>1, <2>2, PushFacts
  <2>4. Owned' = Owned /\ Carved' = Carved
    BY <2>1, <2>3 DEF Owned, Carved
  <2>5. OneOwner'
    BY <1>0, <2>1, <2>2, <2>3 DEF PoolInv, OneOwner
  <2> QED BY <2>1, <2>4, <2>5 DEF PoolInv, NoWrapperLost, Owned
<1>10. CASE UNCHANGED vars
  BY <1>10 DEF vars, PoolInv, OneOwner, Owned, Carved, NoWrapperLost
<1> QED
  BY <1>1, <1>2, <1>3, <1>4, <1>5, <1>6, <1>7, <1>8, <1>9, <1>10
     DEF Next, LinkoutputStep

\* The loans of a buffer are finitely many: they can be counted.
LEMMA LoansFacts ==
  ASSUME NEW p, phy \subseteq Wrapper
  PROVE  /\ IsFiniteSet(Loans(p))
         /\ Cardinality(Loans(p)) \in Nat
         /\ Cardinality(Loans(p)) <= Cardinality(Wrapper)
<1>1. Loans(p) \in SUBSET Wrapper
  BY DEF Loans
<1> QED BY <1>1, WrapperFinite, FS_Subset, FS_CardinalityType

\* A count with room for one more user does not wrap around.
LEMMA RefBounds ==
  ASSUME TypeOK, RefCountExact, NEW p \in Pbuf
  PROVE  /\ held[p] > 0 => ref[p] \in 1..255
         /\ txp = p => ref[p] \in 1..255
         /\ txp = NULL => ref[p] \in 0..254
<1> DEFINE c == Cardinality(Loans(p))
           n == Cardinality(Wrapper)
<1>1. c \in Nat /\ c <= n /\ n \in Nat
  BY LoansFacts, WrapperFinite, FS_CardinalityType DEF TypeOK
<1>2. ref[p] = held[p] + c + Pending(p) /\ Pending(p) \in {0, 1}
  BY DEF RefCountExact, Pending
<1>3. held[p] \in 0..MaxHold /\ MaxHold \in Nat /\ ref[p] \in 0..255
  BY ConstantsAssumption DEF TypeOK
<1>4. held[p] > 0 => ref[p] \in 1..255
  BY <1>1, <1>2, <1>3
<1>5. txp = p => ref[p] \in 1..255
  BY <1>1, <1>2, <1>3 DEF Pending
<1>6. txp = NULL => ref[p] \in 0..254
  <2>1. txp = NULL => Pending(p) = 0
    BY ConstantsAssumption DEF Pending
  <2> QED BY <1>1, <1>2, <1>3, <2>1, RefFits
<1> QED BY <1>4, <1>5, <1>6

\* A step that leaves lwIP-2's buffers, the wrappers and the task alone.
LEMMA CountFrame ==
  ASSUME CountInv, UNCHANGED <<ref, held, wref, ref2save, phy>>,
         HasBuffer <=> HasBuffer', UNCHANGED txp,
         pc' # "call" \/ UNCHANGED <<pc, txw>>
  PROVE  CountInv'
BY DEF CountInv, RefCountExact, Loans, Pending, FreedWithOneRef, HasBuffer

\* Every step keeps the counts exact, of buffers and of wrappers.
LEMMA CountStep ==
  ASSUME TypeOK, PoolInv, CountInv, [Next]_vars
  PROVE  CountInv'
<1> USE ConstantsAssumption
<1>0. /\ phy \subseteq Wrapper
      /\ HasBuffer => txp \in Pbuf
      /\ ~HasBuffer => txp = NULL
      /\ HasWrapper => txw \in Wrapper
      /\ ref \in [Pbuf -> 0..255] /\ held \in [Pbuf -> 0..MaxHold]
      /\ wref \in [Wrapper -> 0..255] /\ ref2save \in [Wrapper -> Pbuf \cup {NULL}]
  BY DEF TypeOK
<1>c. RefCountExact
  BY DEF CountInv
<1>1. ASSUME NEW p \in Pbuf, LwipAlloc(p) \/ LwipRef(p) \/ LwipFree(p)
      PROVE  CountInv'
  <2>1. /\ pc = "idle" /\ txp = NULL
        /\ UNCHANGED <<wref, ref2save, phy, pc, txp, txw>>
    BY <1>0, <1>1 DEF LwipAlloc, LwipRef, LwipFree, TaskRuns, wrap, task, HasBuffer
  <2>2. ref[p] = held[p] + Cardinality(Loans(p)) /\ Cardinality(Loans(p)) \in Nat
    BY <1>0, <2>1, LoansFacts DEF CountInv, RefCountExact, Pending
  <2>3. /\ \A q \in Pbuf \ {p} : ref'[q] = ref[q] /\ held'[q] = held[q]
        /\ ref'[p] = held'[p] + Cardinality(Loans(p))
    <3>1. CASE LwipAlloc(p)
      <4>1. held[p] = 0 /\ Cardinality(Loans(p)) = 0
        BY <1>0, <2>2, <3>1 DEF LwipAlloc
      <4> QED BY <1>0, <3>1, <4>1 DEF LwipAlloc
    <3>2. CASE LwipRef(p)
      <4>1. ref[p] \in 0..254
        BY <1>c, <2>1, RefBounds
      <4>2. Inc(ref[p]) = ref[p] + 1
        BY <4>1, CounterFacts
      <4> QED BY <1>0, <2>2, <3>2, <4>2 DEF LwipRef
    <3>3. CASE LwipFree(p)
      <4>1. Dec(ref[p]) = ref[p] - 1
        BY <1>c, <3>3, RefBounds, CounterFacts DEF LwipFree
      <4> QED BY <1>0, <2>2, <3>3, <4>1 DEF LwipFree
    <3> QED BY <1>1, <3>1, <3>2, <3>3
  <2>4. RefCountExact'
    <3>1. ASSUME NEW q \in Pbuf
          PROVE  ref'[q] = held'[q] + Cardinality(Loans(q))' + Pending(q)'
      <4>1. /\ Loans(q)' = Loans(q) /\ Pending(q) = 0 /\ Pending(q)' = 0
            /\ ref[q] = held[q] + Cardinality(Loans(q)) + Pending(q)
        <5>1. Loans(q)' = Loans(q)
          BY <2>1 DEF Loans
        <5>2. Pending(q) = 0 /\ Pending(q)' = 0
          BY <1>0, <2>1, ConstantsAssumption DEF Pending
        <5>3. ref[q] = held[q] + Cardinality(Loans(q)) + Pending(q)
          BY <1>c DEF RefCountExact
        <5> QED BY <5>1, <5>2, <5>3
      <4>2. held'[q] \in Int /\ Cardinality(Loans(q)) \in Int
        BY <1>0, <1>1, LoansFacts, TypeStep DEF TypeOK
      <4>3. CASE q = p
        BY <2>3, <4>1, <4>2, <4>3
      <4>4. CASE q # p
        BY <2>3, <4>1, <4>2, <4>4
      <4> QED BY <4>3, <4>4
    <3> QED BY <3>1 DEF RefCountExact
  <2> QED BY <2>1, <2>4 DEF CountInv, FreedWithOneRef, HasBuffer
<1>2. ASSUME NEW p \in Pbuf, NewLinkoutput(p) PROVE CountInv'
  <2>1. /\ txp = NULL /\ txp' = p /\ pc' = "get" /\ held[p] > 0
        /\ ref' = [ref EXCEPT ![p] = Inc(@)]
        /\ UNCHANGED <<held, wref, ref2save, phy>>
    BY <1>0, <1>2 DEF NewLinkoutput, TaskRuns, wrap, HasBuffer
  <2>2. Inc(ref[p]) = ref[p] + 1
    <3>1. ref[p] \in 0..254
      BY <1>c, <2>1, RefBounds
    <3> QED BY <3>1, CounterFacts
  <2>3. RefCountExact'
    <3>1. ASSUME NEW q \in Pbuf
          PROVE  ref'[q] = held'[q] + Cardinality(Loans(q))' + Pending(q)'
      <4>1. /\ Loans(q)' = Loans(q) /\ Pending(q) = 0
            /\ ref[q] = held[q] + Cardinality(Loans(q)) + Pending(q)
        BY <1>c, <2>1 DEF RefCountExact, Loans, Pending
      <4>2. held[q] \in Int /\ Cardinality(Loans(q)) \in Int
        BY <1>0, LoansFacts
      <4> QED BY <1>0, <2>1, <2>2, <4>1, <4>2 DEF Pending
    <3> QED BY <3>1 DEF RefCountExact
  <2> QED BY <2>1, <2>3 DEF CountInv, FreedWithOneRef, HasBuffer
<1>3. CASE WrapperPop \/ WrapperMalloc \/ WrapperCarve \/ WrapperNone \/ PhyRejects
  <2>1. /\ UNCHANGED <<ref, held, wref, ref2save, phy, txp>>
        /\ HasBuffer /\ HasBuffer' /\ pc' # "call"
    BY <1>3 DEF WrapperPop, WrapperMalloc, WrapperCarve, WrapperNone, PhyRejects,
                TaskRuns, lwip, wrap, HasBuffer
  <2> QED BY <2>1, CountFrame
<1>4. CASE FillWrapper
  <2>1. /\ txw \in Wrapper /\ pc = "fill" /\ pc' = "call"
        /\ wref' = [wref EXCEPT ![txw] = 0]
        /\ ref2save' = [ref2save EXCEPT ![txw] = txp]
        /\ UNCHANGED <<ref, held, phy, txp, txw>>
    BY <1>0, <1>4 DEF FillWrapper, TaskRuns, lwip, HasWrapper
  <2>2. txw \notin phy
    BY DEF PoolInv, OneOwner
  <2>3. \A w \in phy : wref'[w] = wref[w] /\ ref2save'[w] = ref2save[w]
    BY <1>0, <2>1, <2>2
  <2>4. \A p : Loans(p)' = Loans(p)
    BY <2>1, <2>3 DEF Loans
  <2>5. RefCountExact'
    BY <2>1, <2>4 DEF CountInv, RefCountExact, Pending
  <2>6. ref2save'[txw'] = txp' /\ wref'[txw'] = 0
    BY <1>0, <2>1
  <2> QED BY <2>1, <2>3, <2>5, <2>6 DEF CountInv, FreedWithOneRef, HasBuffer
<1>5. CASE PhyAccepts
  <2>1. /\ pc = "call" /\ pc' = "return" /\ txw \in Wrapper /\ txp \in Pbuf /\ txp' = NULL
        /\ wref' = [wref EXCEPT ![txw] = Inc(@)]
        /\ phy' = phy \cup {txw}
        /\ UNCHANGED <<ref, held, ref2save>>
    BY <1>0, <1>5 DEF PhyAccepts, TaskRuns, lwip, HasWrapper, HasBuffer
  <2>2. txw \notin phy /\ ref2save[txw] = txp /\ wref[txw] = 0
    BY <2>1 DEF PoolInv, OneOwner, CountInv
  <2>3. \A w \in phy' : wref'[w] = 1 /\ ref2save'[w] \in Pbuf
    <3>1. Inc(0) = 1
      BY DEF Inc
    <3>2. wref'[txw] = 1 /\ ref2save'[txw] \in Pbuf
      BY <1>0, <2>1, <2>2, <3>1
    <3>3. \A w \in phy : wref'[w] = 1 /\ ref2save'[w] \in Pbuf
      BY <1>0, <2>1, <2>2 DEF CountInv, FreedWithOneRef
    <3> QED BY <2>1, <3>2, <3>3
  <2>4. RefCountExact'
    <3>1. ASSUME NEW p \in Pbuf
          PROVE  Cardinality(Loans(p))' = Cardinality(Loans(p)) + Pending(p)
      <4>1. CASE p = txp
        <5>1. Loans(p)' = Loans(p) \cup {txw} /\ txw \notin Loans(p)
          BY <2>1, <2>2, <4>1 DEF Loans
        <5>2. IsFiniteSet(Loans(p))
          BY <1>0, LoansFacts
        <5>3. Cardinality(Loans(p) \cup {txw}) = Cardinality(Loans(p)) + 1
          BY <5>1, <5>2, FS_AddElement
        <5>4. Pending(p) = 1
          BY <4>1 DEF Pending
        <5> QED BY <5>1, <5>3, <5>4
      <4>2. CASE p # txp
        <5>1. Loans(p)' = Loans(p)
          BY <2>1, <2>2, <4>2 DEF Loans
        <5> QED BY <1>0, <4>2, <5>1, LoansFacts DEF Pending
      <4> QED BY <4>1, <4>2
    <3>2. ASSUME NEW p \in Pbuf
          PROVE  ref'[p] = held'[p] + Cardinality(Loans(p))' + Pending(p)'
      <4>1. ref[p] = held[p] + Cardinality(Loans(p)) + Pending(p) /\ Pending(p)' = 0
        BY <2>1 DEF CountInv, RefCountExact, Pending
      <4>2. held[p] \in Int /\ Cardinality(Loans(p)) \in Int /\ Pending(p) \in Int
        BY <1>0, LoansFacts DEF Pending
      <4> QED BY <2>1, <3>1, <4>1, <4>2
    <3> QED BY <3>2 DEF RefCountExact
  <2> QED BY <2>1, <2>3, <2>4 DEF CountInv, FreedWithOneRef, HasBuffer
<1>6. CASE LinkoutputError
  <2>1. /\ pc' = "idle" /\ txp \in Pbuf /\ txp' = NULL
        /\ ref' = [ref EXCEPT ![txp] = Dec(@)]
        /\ UNCHANGED <<held, wref, ref2save, phy>>
    BY <1>0, <1>6 DEF LinkoutputError, TaskRuns, wrap, HasBuffer
  <2>2. Dec(ref[txp]) = ref[txp] - 1
    BY <2>1, RefBounds, CounterFacts DEF CountInv
  <2>3. RefCountExact'
    <3>1. ASSUME NEW p \in Pbuf
          PROVE  ref'[p] = held'[p] + Cardinality(Loans(p))' + Pending(p)'
      <4>1. /\ ref[p] = held[p] + Cardinality(Loans(p)) + Pending(p)
            /\ Loans(p)' = Loans(p) /\ Pending(p)' = 0
        BY <2>1 DEF CountInv, RefCountExact, Loans, Pending
      <4>2. held[p] \in Int /\ Cardinality(Loans(p)) \in Int
        BY <1>0, LoansFacts
      <4> QED BY <1>0, <2>1, <2>2, <4>1, <4>2 DEF Pending
    <3> QED BY <3>1 DEF RefCountExact
  <2> QED BY <2>1, <2>3 DEF CountInv, FreedWithOneRef, HasBuffer
<1>7. ASSUME NEW w \in Wrapper, TxDone(w) PROVE CountInv'
  <2>0. PICK b \in Pbuf : b = ref2save[w]
    BY <1>7 DEF TxDone, CountInv
  <2>1. /\ w \in phy /\ phy' = phy \ {w}
        /\ ref' = [ref EXCEPT ![b] = Dec(@)]
        /\ UNCHANGED <<held, wref, ref2save, pc, txp, txw>>
    BY <1>7, <2>0 DEF TxDone, wrap, task
  <2>2. Cardinality(Loans(b))' = Cardinality(Loans(b)) - 1
    <3>1. Loans(b)' = Loans(b) \ {w} /\ w \in Loans(b)
      BY <2>0, <2>1 DEF Loans
    <3>2. IsFiniteSet(Loans(b))
      BY <1>0, LoansFacts
    <3>3. Cardinality(Loans(b) \ {w}) = Cardinality(Loans(b)) - 1
      BY <3>1, <3>2, FS_RemoveElement
    <3> QED BY <3>1, <3>3
  <2>3. \A p \in Pbuf \ {b} : Loans(p)' = Loans(p)
    BY <2>0, <2>1 DEF Loans
  <2>4. \A p \in Pbuf : /\ held[p] \in Nat /\ Cardinality(Loans(p)) \in Nat
                        /\ Pending(p) \in Nat /\ Pending(p)' = Pending(p)
    BY <1>0, <2>1, LoansFacts DEF Pending
  <2>5. Dec(ref[b]) = ref[b] - 1
    <3>1. Cardinality(Loans(b)) > 0
      <4>1. Loans(b) # {}
        BY <2>0, <2>1 DEF Loans
      <4> QED BY <1>0, <4>1, LoansFacts, FS_EmptySet
    <3>2. ref[b] = held[b] + Cardinality(Loans(b)) + Pending(b)
      BY <2>1 DEF CountInv, RefCountExact
    <3>3. ref[b] \in 1..255
      BY <1>0, <2>1, <2>4, <3>1, <3>2
    <3> QED BY <3>3, CounterFacts
  <2>6. RefCountExact'
    <3>1. ASSUME NEW p \in Pbuf
          PROVE  ref'[p] = held'[p] + Cardinality(Loans(p))' + Pending(p)'
      <4>1. ref[p] = held[p] + Cardinality(Loans(p)) + Pending(p)
        BY DEF CountInv, RefCountExact
      <4>2. CASE p = b
        BY <1>0, <2>1, <2>2, <2>4, <2>5, <4>1, <4>2
      <4>3. CASE p # b
        BY <1>0, <2>1, <2>3, <2>4, <4>1, <4>3
      <4> QED BY <4>2, <4>3
    <3> QED BY <3>1 DEF RefCountExact
  <2> QED BY <2>1, <2>6 DEF CountInv, FreedWithOneRef, HasBuffer
<1>8. CASE TxDoneRelease \/ UNCHANGED vars
  <2>1. UNCHANGED <<ref, held, wref, ref2save, phy, pc, txp, txw>>
    BY <1>8 DEF TxDoneRelease, vars, lwip, wrap, task
  <2> QED BY <2>1, CountFrame DEF HasBuffer
<1>9. CASE LinkoutputReturn
  <2>1. /\ UNCHANGED <<ref, held, wref, ref2save, phy, txp>>
        /\ ~HasBuffer /\ ~HasBuffer' /\ pc' # "call"
    BY <1>9 DEF LinkoutputReturn, TaskRuns, lwip, wrap, HasBuffer
  <2> QED BY <2>1, CountFrame
<1> QED
  BY <1>1, <1>2, <1>3, <1>4, <1>5, <1>6, <1>7, <1>8, <1>9 DEF Next, LinkoutputStep

-----------------------------------------------------------------------------
(* 4. The theorems.                                                        *)

\* The inductive invariant holds in every state of every behaviour.
THEOREM IInvAlways == SafetySpec => []IInv
<1>1. IInv /\ [Next]_vars => IInv'
  BY TypeStep, PoolStep, CountStep DEF IInv
<1> QED BY InitIInv, <1>1, PTL DEF SafetySpec

\* Every variable has its type; in particular the counts stay within u8_t.
THEOREM TypeCorrect == SafetySpec => []TypeOK
<1>1. IInv => TypeOK
  BY DEF IInv
<1> QED BY IInvAlways, <1>1, PTL

\* The reference count of lwIP-2's buffers is the number of their users.
THEOREM RefCountCorrect == SafetySpec => []RefCountExact
<1>1. IInv => RefCountExact
  BY DEF IInv, CountInv
<1> QED BY IInvAlways, <1>1, PTL

\* The blob never holds a frame whose buffer was freed.
THEOREM NoUseAfterFree == SafetySpec => []PayloadAlive
<1>1. IInv => PayloadAlive
  <2>1. SUFFICES ASSUME IInv, NEW w \in phy
                 PROVE  ref2save[w] \in Pbuf /\ ref[ref2save[w]] > 0
    BY DEF PayloadAlive
  <2> DEFINE b == ref2save[w]
  <2>2. /\ b \in Pbuf /\ phy \subseteq Wrapper /\ held[b] \in Nat
        /\ ref[b] = held[b] + Cardinality(Loans(b)) + Pending(b)
        /\ Pending(b) \in Nat
    BY <2>1 DEF IInv, CountInv, TypeOK, RefCountExact, Pending
  <2>3. Cardinality(Loans(b)) \in Nat \ {0}
    <3>1. Loans(b) # {}
      BY <2>1 DEF Loans
    <3> QED BY <2>2, <3>1, LoansFacts, FS_EmptySet
  <2> QED BY <2>2, <2>3
<1> QED BY IInvAlways, <1>1, PTL

\* A wrapper is never handed out twice, nor in the chain while it is in use.
THEOREM WrapperHasOneOwner == SafetySpec => []OneOwner
<1>1. IInv => OneOwner
  BY DEF IInv, PoolInv
<1> QED BY IInvAlways, <1>1, PTL

\* The assertion at the top of pbuf_free holds of every transmitted frame.
THEOREM FreeAssertionHolds == SafetySpec => []FreedWithOneRef
<1>1. IInv => FreedWithOneRef
  BY DEF IInv, CountInv
<1> QED BY IInvAlways, <1>1, PTL

\* If os_malloc keeps the interrupts locked, no wrapper is ever lost.
THEOREM PoolConserved ==
  ASSUME ~MallocUnlocks
  PROVE  SafetySpec => []NoWrapperLost
<1>1. IInv => NoWrapperLost
  BY DEF IInv, PoolInv
<1> QED BY IInvAlways, <1>1, PTL

\* pbuf_wrapper_get goes to the heap only when the blob has every wrapper: a
\* pool of any size grows with the blob's queue and not otherwise.
THEOREM PoolFollowsQueue ==
  ASSUME ~MallocUnlocks
  PROVE  SafetySpec => GrowsWhenAllLent
<1>1. ASSUME IInv, [Next]_vars, blocks' # blocks
      PROVE  phy = {w \in Wrapper : w[1] <= blocks}
  <2>1. WrapperMalloc
    BY <1>1 DEF Next, LinkoutputStep, LwipAlloc, LwipRef, LwipFree, NewLinkoutput, WrapperPop,
       WrapperCarve, WrapperNone, FillWrapper, PhyAccepts, PhyRejects, LinkoutputReturn, LinkoutputError, TxDone,
       TxDoneRelease, vars
  <2>2. pc = "get" /\ isr = NULL /\ pbuf_wrapper_head = <<>>
    BY <2>1 DEF WrapperMalloc, TaskRuns
  <2>3. txw = NULL
    BY <1>1, <2>2 DEF IInv, TypeOK, HasWrapper
  <2>4. Range(pbuf_wrapper_head) = {}
    BY <2>2 DEF Range
  <2>5. Carved = phy
    BY <1>1, <2>2, <2>3, <2>4 DEF IInv, PoolInv, NoWrapperLost
  <2> QED BY <2>2, <2>5 DEF Carved
<1>2. IInv /\ [Next]_vars => [blocks' # blocks => phy = {w \in Wrapper : w[1] <= blocks}]_vars
  BY <1>1
<1> QED BY <1>2, IInvAlways, PTL DEF SafetySpec, GrowsWhenAllLent

-----------------------------------------------------------------------------
(* 5. TxPath implements TxLoan.                                            *)

\* Memory is allocated exactly as long as lwIP-2 or the blob uses it.
LiveExact ==
  \A p \in Pbuf : ref[p] > 0 <=> held[p] > 0 \/ \E w \in phy : ref2save[w] = p

\* Allocated memory is exactly what lwIP-2 holds, the blob holds, or linkoutput is sending.
LEMMA LiveExactAlways == SafetySpec => []LiveExact
<1>1. IInv => LiveExact
  <2>1. SUFFICES ASSUME IInv, NEW p \in Pbuf
                 PROVE  ref[p] > 0 <=> held[p] > 0 \/ Loans(p) # {}
    BY DEF LiveExact, Loans
  <2>2. ref[p] = held[p] + Cardinality(Loans(p)) + Pending(p)
    BY <2>1 DEF IInv, CountInv, RefCountExact
  <2>3. /\ held[p] \in Nat /\ Pending(p) \in Nat
        /\ Cardinality(Loans(p)) \in Nat /\ IsFiniteSet(Loans(p))
    BY <2>1, LoansFacts DEF IInv, TypeOK, Pending
  <2>4. Cardinality(Loans(p)) > 0 <=> Loans(p) # {}
    BY <2>3, FS_EmptySet
  <2>5. Pending(p) > 0 => held[p] > 0
    BY <2>1, ConstantsAssumption DEF IInv, CountInv, TypeOK, Pending, HasBuffer
  <2> QED BY <2>2, <2>3, <2>4, <2>5
<1> QED BY IInvAlways, <1>1, PTL

LoanOf == [w \in Wrapper |-> IF w \in phy THEN ref2save[w] ELSE NULL]

\* TxLoan starts where the transmit path starts.
LEMMA LoanInit == Init => Loan!Init
BY DEF Init, Loan!Init

\* Every step of the transmit path is a step of TxLoan, or changes nothing it sees.
LEMMA LoanStep ==
  ASSUME IInv, LiveExact, LiveExact', [Next]_vars
  PROVE  [Loan!Next]_Loan!vars
<1> USE ConstantsAssumption
<1> DEFINE live == {p \in Pbuf : ref[p] > 0}
<1>0. /\ phy \subseteq Wrapper /\ txp \in Pbuf \cup {NULL}
      /\ held \in [Pbuf -> 0..MaxHold] /\ ref \in [Pbuf -> 0..255]
      /\ ref2save \in [Wrapper -> Pbuf \cup {NULL}]
      /\ \A w \in phy : ref2save[w] \in Pbuf
      /\ HasBuffer => txp \in Pbuf /\ held[txp] > 0
      /\ HasWrapper => txw \in Wrapper
      /\ pc = "call" => ref2save[txw] = txp
      /\ txw \notin phy
  BY DEF IInv, TypeOK, CountInv, PoolInv, OneOwner, HasBuffer
<1>1. /\ \A p \in Pbuf : p \in live <=> held[p] > 0 \/ \E w \in phy : ref2save[w] = p
      /\ \A p \in Pbuf : p \in live' <=> held'[p] > 0 \/ \E w \in phy' : ref2save'[w] = p
  BY DEF LiveExact
<1>2. ASSUME UNCHANGED <<phy, ref2save>> PROVE UNCHANGED LoanOf
  BY <1>2 DEF LoanOf
<1>3. ASSUME UNCHANGED <<held, phy, ref2save>> PROVE UNCHANGED Loan!vars
  <2>1. live' = live
    BY <1>1, <1>3
  <2> QED BY <1>3, <2>1 DEF Loan!vars
<1>4. ASSUME NEW p \in Pbuf, LwipAlloc(p) PROVE Loan!Alloc(p)
  <2>1. /\ ref[p] = 0 /\ held' = [held EXCEPT ![p] = 1]
        /\ UNCHANGED <<phy, ref2save>>
    BY <1>4 DEF LwipAlloc, wrap
  <2>2. p \notin live /\ live' = live \cup {p}
    BY <1>0, <1>1, <2>1
  <2> QED BY <1>2, <2>1, <2>2 DEF Loan!Alloc, LoanOf
<1>5. ASSUME NEW p \in Pbuf, LwipRef(p) PROVE Loan!Hold(p)
  <2>1. /\ held[p] \in 1 .. MaxHold - 1 /\ held' = [held EXCEPT ![p] = @ + 1]
        /\ UNCHANGED <<phy, ref2save>>
    BY <1>5 DEF LwipRef, wrap
  <2>2. live' = live
    BY <1>0, <1>1, <2>1
  <2> QED BY <1>2, <2>1, <2>2 DEF Loan!Hold, LoanOf
<1>6. ASSUME NEW p \in Pbuf, LwipFree(p) PROVE Loan!Drop(p)
  <2>1. /\ held[p] > 0 /\ held' = [held EXCEPT ![p] = @ - 1]
        /\ UNCHANGED <<phy, ref2save>>
    BY <1>6 DEF LwipFree, wrap
  <2>2. Loan!Lent(p) <=> \E w \in phy : ref2save[w] = p
    BY <1>0 DEF Loan!Lent
  <2>3. live' = IF held[p] > 1 \/ Loan!Lent(p) THEN live ELSE live \ {p}
    <3>1. held'[p] > 0 <=> held[p] > 1
      BY <1>0, <2>1
    <3>2. \A q \in Pbuf \ {p} : held'[q] = held[q]
      BY <1>0, <2>1
    <3>3. \A q \in Pbuf \ {p} : q \in live' <=> q \in live
      BY <1>1, <2>1, <3>2
    <3>4. p \in live /\ (p \in live' <=> held[p] > 1 \/ Loan!Lent(p))
      BY <1>1, <2>1, <2>2, <3>1
    <3> QED BY <3>3, <3>4
  <2> QED BY <1>2, <2>1, <2>3 DEF Loan!Drop, Loan!Reclaim, LoanOf
<1>7. CASE PhyAccepts
  <2>1. /\ txw \in Wrapper /\ txp \in Pbuf /\ held[txp] > 0
        /\ ref2save[txw] = txp /\ phy' = phy \cup {txw}
        /\ UNCHANGED <<ref, held, ref2save>>
    BY <1>0, <1>7 DEF PhyAccepts, TaskRuns, lwip, HasBuffer, HasWrapper
  <2>2. PICK w \in Wrapper, p \in Pbuf : w = txw /\ p = txp
    BY <2>1
  <2>3. LoanOf[w] = NULL /\ LoanOf' = [LoanOf EXCEPT ![w] = p]
    BY <1>0, <2>1, <2>2 DEF LoanOf
  <2>4. Loan!Lend(w, p)
    BY <2>1, <2>2, <2>3 DEF Loan!Lend, LoanOf
  <2> QED BY <2>4 DEF Loan!Next
<1>8. ASSUME NEW w \in Wrapper, TxDone(w) PROVE Loan!Return(w)
  <2>1. PICK b \in Pbuf : b = ref2save[w]
    BY <1>0, <1>8 DEF TxDone
  <2>2. /\ w \in phy /\ phy' = phy \ {w}
        /\ UNCHANGED <<held, ref2save>>
    BY <1>8 DEF TxDone, wrap
  <2>3. LoanOf[w] = b /\ b # NULL /\ LoanOf' = [LoanOf EXCEPT ![w] = NULL]
    BY <1>0, <2>1, <2>2 DEF LoanOf
  <2>4. (\E g \in Wrapper \ {w} : LoanOf[g] = b) <=> \E g \in phy' : ref2save[g] = b
    BY <1>0, <2>1, <2>2 DEF LoanOf
  <2>5. live' = IF held[b] > 0 \/ \E g \in Wrapper \ {w} : LoanOf[g] = b
                THEN live ELSE live \ {b}
    <3>1. \A q \in Pbuf \ {b} : q \in live' <=> q \in live
      BY <1>1, <2>1, <2>2
    <3>2. b \in live
      BY <1>1, <2>1, <2>2
    <3>3. b \in live' <=> held[b] > 0 \/ \E g \in Wrapper \ {w} : LoanOf[g] = b
      BY <1>1, <2>2, <2>4
    <3> QED BY <3>1, <3>2, <3>3
  <2> QED BY <2>2, <2>3, <2>5 DEF Loan!Return, Loan!Reclaim, LoanOf
<1>9. CASE \/ \E p \in Pbuf : NewLinkoutput(p)
           \/ WrapperPop \/ WrapperMalloc \/ WrapperCarve \/ WrapperNone
           \/ PhyRejects \/ LinkoutputReturn \/ LinkoutputError \/ TxDoneRelease
           \/ UNCHANGED vars
  <2>1. UNCHANGED <<held, phy, ref2save>>
    BY <1>9 DEF NewLinkoutput, WrapperPop, WrapperMalloc, WrapperCarve, WrapperNone,
                PhyRejects, LinkoutputReturn, LinkoutputError, TxDoneRelease, vars, lwip, wrap
  <2> QED BY <1>3, <2>1
<1>10. CASE FillWrapper
  <2>1. /\ UNCHANGED <<ref, held, phy>>
        /\ \A w \in phy : ref2save'[w] = ref2save[w]
    BY <1>0, <1>10 DEF FillWrapper, lwip
  <2>2. LoanOf' = LoanOf
    BY <2>1 DEF LoanOf
  <2> QED BY <2>1, <2>2 DEF Loan!vars, LoanOf
<1>11. CASE \E p \in Pbuf : LwipAlloc(p) \/ LwipRef(p) \/ LwipFree(p)
  BY <1>4, <1>5, <1>6, <1>11 DEF Loan!Next
<1>12. CASE \E w \in Wrapper : TxDone(w)
  BY <1>8, <1>12 DEF Loan!Next
<1> QED
  BY <1>7, <1>9, <1>10, <1>11, <1>12 DEF Next, LinkoutputStep

\* The whole transmit path, with its pool, lock, counts and interrupts, does
\* nothing that lending and returning buffers would not.
THEOREM ImplementsLoan == SafetySpec => LoanSafety
<1>1. IInv /\ LiveExact /\ LiveExact' /\ [Next]_vars => [Loan!Next]_Loan!vars
  BY LoanStep
<1> QED BY LoanInit, <1>1, IInvAlways, LiveExactAlways, PTL
        DEF SafetySpec, LoanSafety, Loan!SafetySpec

=============================================================================
