---------------------------- MODULE RxPathProofs ----------------------------
(***************************************************************************)
(* Proofs about RxPath, for every set of receive buffers, size of the heap *)
(* and number of frames.                                                   *)
(*                                                                         *)
(*   1. facts about queues                                                 *)
(*   2. the inductive invariant IInv and its parts                         *)
(*   3. IInv is preserved, part by part                                    *)
(*   4. the theorems                                                       *)
(*   5. RxPath implements RxLossyQueue                                     *)
(***************************************************************************)
EXTENDS RxPath, FiniteSetTheorems, SequenceTheorems, TLAPS

-----------------------------------------------------------------------------
(* 1. Queues.                                                              *)

\* Taking the head off a sequence without duplicates.
LEMMA PopFacts ==
  ASSUME NEW S, NEW s \in Seq(S), s # <<>>, IsInjective(s)
  PROVE  /\ Head(s) \in S
         /\ Tail(s) \in Seq(S)
         /\ IsInjective(Tail(s))
         /\ Head(s) \notin Range(Tail(s))
         /\ Range(s) = {Head(s)} \cup Range(Tail(s))
<1> DEFINE t == Tail(s)
<1>1. /\ Head(s) \in S /\ t \in Seq(S) /\ Len(t) = Len(s) - 1
      /\ \A i \in 1 .. Len(t) : t[i] = s[i + 1]
  BY HeadTailProperties
<1>2. Len(s) \in Nat \ {0} /\ DOMAIN s = 1 .. Len(s) /\ DOMAIN t = 1 .. Len(t)
  BY <1>1, LenProperties, EmptySeq
<1>3. Head(s) = s[1]
  OBVIOUS
<1>4. \A i \in DOMAIN t : t[i] = s[i + 1] /\ i + 1 \in DOMAIN s /\ i + 1 # 1
  BY <1>1, <1>2
<1>5. IsInjective(t)
  <2>1. ASSUME NEW a \in DOMAIN t, NEW b \in DOMAIN t, t[a] = t[b] PROVE a = b
    <3>1. s[a + 1] = s[b + 1] /\ a + 1 \in DOMAIN s /\ b + 1 \in DOMAIN s
      BY <1>4, <2>1
    <3>2. a + 1 = b + 1
      BY <3>1 DEF IsInjective
    <3> QED BY <3>2, <1>2
  <2> QED BY <2>1 DEF IsInjective
<1>6. Head(s) \notin Range(t)
  <2>1. SUFFICES ASSUME NEW i \in DOMAIN t, t[i] = s[1] PROVE FALSE
    BY <1>3 DEF Range
  <2>2. i + 1 \in DOMAIN s /\ 1 \in DOMAIN s /\ s[i + 1] = s[1] /\ i + 1 # 1
    BY <1>2, <1>4, <2>1
  <2> QED BY <2>2 DEF IsInjective
<1>7. Range(s) = {Head(s)} \cup Range(t)
  <2>1. ASSUME NEW j \in DOMAIN s PROVE s[j] \in {Head(s)} \cup Range(t)
    <3>1. CASE j = 1
      BY <3>1, <1>3
    <3>2. CASE j # 1
      <4>1. j - 1 \in DOMAIN t /\ t[j - 1] = s[j]
        BY <3>2, <1>1, <1>2
      <4> QED BY <4>1 DEF Range
    <3> QED BY <3>1, <3>2
  <2>2. ASSUME NEW i \in DOMAIN t PROVE t[i] \in Range(s)
    BY <1>4 DEF Range
  <2>3. Head(s) \in Range(s)
    BY <1>2, <1>3 DEF Range
  <2> QED BY <2>1, <2>2, <2>3 DEF Range
<1> QED BY <1>1, <1>5, <1>6, <1>7

\* Putting an element before a sequence, and taking it away again.
LEMMA FrontFacts ==
  ASSUME NEW S, NEW x \in S, NEW s \in Seq(S)
  PROVE  <<x>> \o s # <<>> /\ Head(<<x>> \o s) = x /\ Tail(<<x>> \o s) = s
<1>1. <<x>> \in Seq(S) /\ Len(<<x>>) = 1 /\ <<x>>[1] = x
  OBVIOUS
<1> DEFINE t == <<x>> \o s
<1>2. /\ t \in Seq(S) /\ Len(t) = 1 + Len(s)
      /\ \A i \in 1 .. 1 + Len(s) : t[i] = IF i <= 1 THEN <<x>>[i] ELSE s[i - 1]
  BY <1>1, ConcatProperties
<1>3. Len(s) \in Nat
  BY LenProperties
<1>4. t[1] = x /\ \A i \in 1 .. Len(s) : t[i + 1] = s[i]
  BY <1>1, <1>2, <1>3
<1> HIDE DEF t
<1>5. t # <<>> /\ Head(t) = t[1]
  BY <1>2, <1>3
<1>6. Tail(t) \in Seq(S) /\ Len(Tail(t)) = Len(s) /\ \A i \in 1 .. Len(s) : Tail(t)[i] = t[i + 1]
  BY <1>2, <1>3, <1>5, HeadTailProperties
<1>7. \A i \in 1 .. Len(s) : Tail(t)[i] = s[i]
  BY <1>4, <1>6
<1>8. Tail(t) = s
  BY <1>6, <1>7, SeqEqual
<1> QED BY <1>4, <1>5, <1>8 DEF t

\* Putting an element after a sequence that does not have it.
LEMMA AppendFacts ==
  ASSUME NEW S, NEW s \in Seq(S), NEW x \in S
  PROVE  /\ Append(s, x) \in Seq(S)
         /\ Len(Append(s, x)) = Len(s) + 1
         /\ Range(Append(s, x)) = Range(s) \cup {x}
         /\ IsInjective(s) /\ x \notin Range(s) => IsInjective(Append(s, x))
<1> DEFINE t == Append(s, x)
<1>1. /\ t \in Seq(S) /\ Len(t) = Len(s) + 1 /\ t[Len(s) + 1] = x
      /\ \A i \in 1 .. Len(s) : t[i] = s[i]
  BY AppendProperties
<1>2. Len(s) \in Nat /\ DOMAIN s = 1 .. Len(s) /\ DOMAIN t = 1 .. Len(s) + 1
  BY <1>1, LenProperties
<1>3. DOMAIN t = DOMAIN s \cup {Len(s) + 1}
  BY <1>2
<1>4. Range(t) = Range(s) \cup {x}
  BY <1>1, <1>2, <1>3 DEF Range
<1>5. ASSUME IsInjective(s), x \notin Range(s) PROVE IsInjective(t)
  <2>1. ASSUME NEW a \in DOMAIN t, NEW b \in DOMAIN t, t[a] = t[b] PROVE a = b
    <3>1. \A i \in DOMAIN s : t[i] # x
      BY <1>1, <1>2, <1>5 DEF Range
    <3>2. CASE a \in DOMAIN s /\ b \in DOMAIN s
      BY <3>2, <1>1, <1>2, <1>5, <2>1 DEF IsInjective
    <3>3. CASE a = Len(s) + 1 \/ b = Len(s) + 1
      BY <3>1, <3>3, <1>1, <1>3, <2>1
    <3> QED BY <1>3, <3>2, <3>3
  <2> QED BY <2>1 DEF IsInjective
<1> QED BY <1>1, <1>4, <1>5

\* A sequence without duplicates is as long as it has elements.
LEMMA RangeCardinality ==
  ASSUME NEW S, NEW s \in Seq(S), IsInjective(s)
  PROVE  IsFiniteSet(Range(s)) /\ Cardinality(Range(s)) = Len(s)
<1>1. Len(s) \in Nat /\ DOMAIN s = 1 .. Len(s)
  BY LenProperties
<1>2. IsFiniteSet(1 .. Len(s)) /\ Cardinality(1 .. Len(s)) = Len(s)
  BY <1>1, FS_Interval
<1>3. s \in [1 .. Len(s) -> Range(s)]
  BY <1>1 DEF Range
<1>4. s \in Surjection(1 .. Len(s), Range(s))
  BY <1>1, <1>3 DEF Surjection, Range
<1>5. s \in Injection(1 .. Len(s), Range(s))
  BY <1>3 DEF Injection
<1> QED BY <1>2, <1>4, <1>5, FS_Surjection

-----------------------------------------------------------------------------
(* 2. The inductive invariant.                                             *)

\* The receive buffer the task has a pbuf for.
InHand == IF pc \in {"alloc", "free"} THEN {pbuf[cur].eb} ELSE {}

HeapInv == Cardinality(Live) + lwipHeld + (IF glue = NULL THEN 0 ELSE 1) <= HeapRoom

\* The pbuf that ethernet_input was given has no other user until it is freed,
\* and there is a copy only after it was made and before lwIP-2 has it.
TaskInv ==
  /\ pc = "idle" <=> cur = NULL
  /\ glue # NULL => pc \in {"free", "input"}
  /\ pc = "input" => glue # NULL
  /\ pc \in {"alloc", "free"} => cur \in Live /\ pbuf[cur].ref = 1

\* HeapIsSound alone is not inductive: a pbuf with one reference must be
\* known to have exactly one user, or its free would leave another behind.
UserInv ==
  /\ \A p \in Pbuf : users[p] > 0 => p \in Live
  /\ \A p \in Live : pbuf[p].ref = 1 => users[p] = 1

\* BuffersConserved alone is not inductive: the pbuf that is freed must be
\* known to be the only one with its buffer, and the frame of a buffer that is
\* not the radio's to have been received.
BufferInv ==
  /\ IsInjective(rxQueue)
  /\ rxFree \cap Range(rxQueue) = {}
  /\ InHand \cap (rxFree \cup Range(rxQueue)) = {}
  /\ Eb = rxFree \cup Range(rxQueue) \cup InHand
  /\ \A p \in Live : pbuf[p].eb # NULL => p = cur /\ pbuf[p].eb \in InHand
  /\ \A e \in Eb \ rxFree : bytes[e] # NULL

IInv == TypeOK /\ HeapInv /\ TaskInv /\ UserInv /\ BufferInv

-----------------------------------------------------------------------------
(* 3. The invariant is preserved.                                          *)

\* Types that the steps share.
LEMMA Types ==
  ASSUME TypeOK
  PROVE  /\ NULL \notin Eb /\ NULL \notin Pbuf /\ NULL \notin Frame
         /\ NULL \notin PbufType
         /\ IsFiniteSet(Eb) /\ IsFiniteSet(Pbuf) /\ HeapRoom \in Nat /\ MaxFrames \in Nat
         /\ Live \subseteq Pbuf /\ IsFiniteSet(Live) /\ Cardinality(Live) \in Nat
         /\ \A p \in Live : /\ pbuf[p] \in PbufType /\ pbuf[p].eb \in Eb \cup {NULL}
                            /\ pbuf[p].ref \in 1 .. 2
         /\ Range(rxQueue) \subseteq Eb
<1>1. /\ NULL \notin Eb /\ NULL \notin Pbuf /\ NULL \notin Frame /\ NULL \notin PbufType
      /\ IsFiniteSet(Eb) /\ IsFiniteSet(Pbuf) /\ MaxFrames \in Nat
  BY RxConstants
<1>2. HeapRoom \in Nat
  BY RxConstants, FS_CardinalityType
<1>3. Live \subseteq Pbuf
  BY DEF Live
<1>4. IsFiniteSet(Live) /\ Cardinality(Live) \in Nat
  BY <1>1, <1>3, FS_Subset, FS_CardinalityType
<1>5. \A p \in Live : /\ pbuf[p] \in PbufType /\ pbuf[p].eb \in Eb \cup {NULL}
                      /\ pbuf[p].ref \in 1 .. 2
  BY DEF TypeOK, Live, PbufType
<1>6. Range(rxQueue) \subseteq Eb
  BY RangeOfSeq DEF TypeOK
<1> QED BY <1>1, <1>2, <1>3, <1>4, <1>5, <1>6

\* The inductive invariant holds before the first frame.
LEMMA InitIInv == Init => IInv
<1> SUFFICES ASSUME Init PROVE IInv
  OBVIOUS
<1>1. Range(rxQueue) = {} /\ Live = {} /\ InHand = {}
  BY DEF Init, Range, Live, InHand
<1>2. Cardinality(Live) = 0 /\ HeapRoom \in Nat
  BY <1>1, RxConstants, FS_EmptySet, FS_CardinalityType
<1>3. TypeOK
  BY <1>2, RxConstants DEF Init, TypeOK
<1>4. HeapInv
  BY <1>2 DEF Init, HeapInv
<1>5. TaskInv /\ UserInv
  BY <1>1 DEF Init, TaskInv, UserInv
<1>6. BufferInv
  BY <1>1 DEF Init, BufferInv, IsInjective
<1> QED BY <1>3, <1>4, <1>5, <1>6 DEF IInv

\* What pbuf_alloc does to the heap.
LEMMA AllocFacts ==
  ASSUME TypeOK, NEW p \in Pbuf, NEW type \in {"RAM", "REF"}, NEW e \in Eb \cup {NULL},
         PbufAlloc(p, type, e)
  PROVE  /\ p \notin Live /\ Live' = Live \cup {p}
         /\ Cardinality(Live') = Cardinality(Live) + 1
         /\ \A q \in Live : pbuf'[q] = pbuf[q]
         /\ pbuf'[p] = [type |-> type, ref |-> 1, eb |-> e]
         /\ pbuf' \in [Pbuf -> PbufType \cup {NULL}]
         /\ users' \in [Pbuf -> 0 .. 2]
         /\ users'[p] = 1 /\ \A q \in Pbuf \ {p} : users'[q] = users[q]
<1> DEFINE new == [type |-> type, ref |-> 1, eb |-> e]
<1>1. /\ pbuf[p] = NULL /\ pbuf' = [pbuf EXCEPT ![p] = new]
      /\ users' = [users EXCEPT ![p] = 1]
      /\ pbuf \in [Pbuf -> PbufType \cup {NULL}] /\ users \in [Pbuf -> 0 .. 2]
  BY DEF PbufAlloc, TypeOK
<1>2. new \in PbufType
  BY DEF PbufType
<1>3. new # NULL
  BY <1>2, Types
<1> HIDE DEF new
<1>4. p \notin Live /\ Live' = Live \cup {p}
  BY <1>1, <1>3 DEF Live
<1>5. Cardinality(Live') = Cardinality(Live) + 1
  BY <1>4, Types, FS_AddElement
<1>6. \A q \in Live : pbuf'[q] = pbuf[q]
  BY <1>1, <1>4 DEF Live
<1>7. pbuf'[p] = new /\ pbuf' \in [Pbuf -> PbufType \cup {NULL}]
  BY <1>1, <1>2
<1>8. /\ users' \in [Pbuf -> 0 .. 2] /\ users'[p] = 1
      /\ \A q \in Pbuf \ {p} : users'[q] = users[q]
  BY <1>1
<1> QED BY <1>4, <1>5, <1>6, <1>7, <1>8 DEF new

\* What pbuf_free does: the memory and the receive buffer go, or, with more
\* than one reference, nothing does.
LEMMA FreeFacts ==
  ASSUME TypeOK, NEW p \in Live, users[p] > 0, PbufFree(p)
  PROVE  /\ \/ /\ pbuf[p].ref = 1 /\ Live' = Live \ {p}
               /\ Cardinality(Live') = Cardinality(Live) - 1
               /\ rxFree' = rxFree \cup ({pbuf[p].eb} \ {NULL})
            \/ /\ pbuf[p].ref = 2 /\ UNCHANGED <<rxFree, pbuf>> /\ Live' = Live
         /\ \A q \in Live' : pbuf'[q] = pbuf[q]
         /\ pbuf' \in [Pbuf -> PbufType \cup {NULL}]
         /\ users' \in [Pbuf -> 0 .. 2]
         /\ users'[p] = users[p] - 1 /\ \A q \in Pbuf \ {p} : users'[q] = users[q]
<1>0. /\ p \in Pbuf /\ pbuf \in [Pbuf -> PbufType \cup {NULL}]
      /\ users \in [Pbuf -> 0 .. 2] /\ pbuf[p].ref \in 1 .. 2
  BY Types DEF TypeOK
<1>1. users' = [users EXCEPT ![p] = @ - 1] /\ users[p] \in 1 .. 2
  BY <1>0 DEF PbufFree
<1>2. /\ users' \in [Pbuf -> 0 .. 2] /\ users'[p] = users[p] - 1
      /\ \A q \in Pbuf \ {p} : users'[q] = users[q]
  BY <1>0, <1>1
<1>3. CASE pbuf[p].ref = 1
  <2>1. rxFree' = Recycled(pbuf[p].eb) /\ pbuf' = [pbuf EXCEPT ![p] = NULL]
    BY <1>3 DEF PbufFree
  <2>2. rxFree' = rxFree \cup ({pbuf[p].eb} \ {NULL})
    BY <2>1 DEF Recycled
  <2>3. Live' = Live \ {p} /\ \A q \in Live' : pbuf'[q] = pbuf[q]
    BY <1>0, <2>1 DEF Live
  <2>4. Cardinality(Live') = Cardinality(Live) - 1
    BY <2>3, Types, FS_RemoveElement
  <2>5. pbuf' \in [Pbuf -> PbufType \cup {NULL}]
    BY <1>0, <2>1
  <2> QED BY <1>2, <1>3, <2>2, <2>3, <2>4, <2>5
<1>4. CASE pbuf[p].ref # 1
  <2>1. UNCHANGED <<rxFree, pbuf>>
    BY <1>4 DEF PbufFree
  <2>2. Live' = Live
    BY <2>1 DEF Live
  <2> QED BY <1>0, <1>2, <1>4, <2>1, <2>2
<1> QED BY <1>3, <1>4

\* Every step keeps the types and the size of the heap.
LEMMA TypeStep ==
  ASSUME IInv, [Next]_vars
  PROVE  TypeOK' /\ HeapInv'
<1> USE DEF radio, blob, task, lwip
<1>0. /\ TypeOK /\ HeapInv /\ TaskInv
      /\ HeapRoom \in Nat /\ MaxFrames \in Nat
      /\ Cardinality(Live) \in Nat
      /\ \A p \in Live : p \in Pbuf /\ pbuf[p].eb \in Eb \cup {NULL}
  BY Types DEF IInv
<1>1. ASSUME NEW e \in Eb, RxInterrupt(e) PROVE TypeOK' /\ HeapInv'
  <2>1. /\ received + 1 \in Frame /\ Append(rxQueue, e) \in Seq(Eb)
    BY <1>0, <1>1 DEF RxInterrupt, Frame, TypeOK
  <2>2. UNCHANGED Live
    BY <1>1 DEF RxInterrupt, Live
  <2> QED BY <1>0, <1>1, <2>1, <2>2 DEF RxInterrupt, TypeOK, HeapInv, Frame
<1>2. ASSUME RxOverrun PROVE TypeOK' /\ HeapInv'
  BY <1>0, <1>2 DEF RxOverrun, TypeOK, HeapInv, Live
<1>3. ASSUME NEW p \in Pbuf, BlobAlloc(p) PROVE TypeOK' /\ HeapInv'
  <2>1. /\ PbufAlloc(p, "RAM", NULL) /\ HeapHasRoom
        /\ UNCHANGED <<radio, task, lwip>>
    BY <1>3 DEF BlobAlloc, PbufAlloc
  <2>2. /\ Cardinality(Live') = Cardinality(Live) + 1
        /\ pbuf' \in [Pbuf -> PbufType \cup {NULL}] /\ users' \in [Pbuf -> 0 .. 2]
    BY <1>0, <2>1, AllocFacts
  <2> QED BY <1>0, <2>1, <2>2 DEF TypeOK, HeapInv, HeapHasRoom
<1>4. ASSUME NEW p \in Pbuf, BlobFree(p) PROVE TypeOK' /\ HeapInv'
  <2>1. /\ PbufFree(p) /\ users[p] > 0 /\ p \in Live
        /\ UNCHANGED <<rxQueue, bytes, received, task, lwip>>
    BY <1>4 DEF BlobFree, IInv, UserInv
  <2>2. /\ Cardinality(Live') <= Cardinality(Live)
        /\ rxFree' \subseteq Eb /\ Cardinality(Live') \in Int
        /\ pbuf' \in [Pbuf -> PbufType \cup {NULL}] /\ users' \in [Pbuf -> 0 .. 2]
    BY <1>0, <2>1, FreeFacts DEF TypeOK
  <2> QED BY <1>0, <2>1, <2>2 DEF TypeOK, HeapInv
<1>5. ASSUME NEW p \in Pbuf, PbufRef(p) PROVE TypeOK' /\ HeapInv'
  <2>1. /\ p \in Live /\ users[p] = 1 /\ pbuf[p].ref = 1
        /\ pbuf' = [pbuf EXCEPT ![p].ref = @ + 1]
        /\ users' = [users EXCEPT ![p] = @ + 1]
        /\ UNCHANGED <<radio, task, lwip>>
    BY <1>5 DEF PbufRef, IInv, UserInv
  <2>2. pbuf[p] \in PbufType /\ [pbuf[p] EXCEPT !.ref = 2] \in PbufType
    BY <1>0, <2>1, Types DEF PbufType
  <2>3. pbuf' = [pbuf EXCEPT ![p] = [pbuf[p] EXCEPT !.ref = 2]]
    BY <2>1
  <2>4. pbuf' \in [Pbuf -> PbufType \cup {NULL}] /\ users' \in [Pbuf -> 0 .. 2]
    BY <1>0, <2>1, <2>2, <2>3 DEF TypeOK
  <2>5. Live' = Live
    BY <1>0, <2>1, <2>2, <2>3, Types DEF Live, TypeOK
  <2> QED BY <1>0, <2>1, <2>4, <2>5 DEF TypeOK, HeapInv
<1>6. ASSUME NEW p \in Pbuf, BlobInput(p) PROVE TypeOK' /\ HeapInv'
  <2>1. /\ PbufAlloc(p, "REF", Head(rxQueue)) /\ HeapHasRoom
        /\ rxQueue # <<>> /\ rxQueue' = Tail(rxQueue)
        /\ pc' = "alloc" /\ cur' = p
        /\ UNCHANGED <<rxFree, bytes, received, glue, lwip>>
    BY <1>6 DEF BlobInput, PbufAlloc
  <2>2. Head(rxQueue) \in Eb /\ Tail(rxQueue) \in Seq(Eb)
    BY <1>0, <2>1 DEF TypeOK
  <2>3. /\ Cardinality(Live') = Cardinality(Live) + 1
        /\ pbuf' \in [Pbuf -> PbufType \cup {NULL}] /\ users' \in [Pbuf -> 0 .. 2]
    BY <1>0, <2>1, <2>2, AllocFacts
  <2> QED BY <1>0, <2>1, <2>2, <2>3 DEF TypeOK, HeapInv, HeapHasRoom
<1>7. ASSUME BlobDrop PROVE TypeOK' /\ HeapInv'
  <2>1. Head(rxQueue) \in Eb /\ Tail(rxQueue) \in Seq(Eb)
    BY <1>0, <1>7 DEF BlobDrop, TypeOK
  <2> QED BY <1>0, <1>7, <2>1 DEF BlobDrop, TypeOK, HeapInv, Live
<1>8. ASSUME AllocForRecv PROVE TypeOK' /\ HeapInv'
  <2>1. /\ glue = NULL /\ cur \in Live /\ pbuf[cur].eb \in Eb \cup {NULL}
        /\ pc' = "free" /\ UNCHANGED <<radio, blob, cur, lwip>>
        /\ glue' = IF HeapHasRoom THEN bytes[pbuf[cur].eb] ELSE NULL
    BY <1>0, <1>8 DEF AllocForRecv, TaskInv
  <2>2. pbuf[cur].eb \in Eb
    BY <1>8, <2>1, Types DEF AllocForRecv, IInv, BufferInv, InHand
  <2>3. TypeOK'
    BY <1>0, <2>1, <2>2 DEF TypeOK
  <2>4. UNCHANGED Live
    BY <2>1 DEF Live
  <2> QED BY <1>0, <2>1, <2>3, <2>4 DEF TypeOK, HeapInv, HeapHasRoom
<1>9. ASSUME ReleaseBlobBuffer PROVE TypeOK' /\ HeapInv'
  <2>1. /\ PbufFree(cur) /\ cur \in Live /\ users[cur] > 0
        /\ pc' \in {"idle", "input"} /\ cur' \in {NULL, cur}
        /\ UNCHANGED <<rxQueue, bytes, received, glue, lwip>>
    BY <1>9 DEF ReleaseBlobBuffer, IInv, TaskInv, UserInv
  <2>2. /\ Cardinality(Live') <= Cardinality(Live)
        /\ rxFree' \subseteq Eb /\ Cardinality(Live') \in Int
        /\ pbuf' \in [Pbuf -> PbufType \cup {NULL}] /\ users' \in [Pbuf -> 0 .. 2]
    BY <1>0, <2>1, FreeFacts DEF TypeOK
  <2> QED BY <1>0, <2>1, <2>2 DEF TypeOK, HeapInv
<1>10. ASSUME GlueEthernetInput PROVE TypeOK' /\ HeapInv'
  <2>1. glue # NULL /\ glue \in Frame
    BY <1>0, <1>10 DEF GlueEthernetInput, TaskInv, TypeOK
  <2>2. Append(delivered, glue) \in Seq(Frame)
    BY <1>0, <2>1 DEF TypeOK
  <2>3. lwipHeld + 1 <= HeapRoom
    BY <1>0, <2>1 DEF HeapInv, TypeOK
  <2>4. UNCHANGED Live
    BY <1>10 DEF GlueEthernetInput, Live
  <2> QED BY <1>0, <1>10, <2>1, <2>2, <2>3, <2>4
          DEF GlueEthernetInput, TypeOK, HeapInv
<1>11. ASSUME LwipFree PROVE TypeOK' /\ HeapInv'
  BY <1>0, <1>11 DEF LwipFree, TypeOK, HeapInv, Live
<1>12. ASSUME UNCHANGED vars PROVE TypeOK' /\ HeapInv'
  BY <1>0, <1>12 DEF vars, TypeOK, HeapInv, Live
<1> QED
  BY <1>1, <1>2, <1>3, <1>4, <1>5, <1>6, <1>7, <1>8, <1>9, <1>10, <1>11, <1>12
     DEF Next, TaskStep

\* Every step keeps the task's place and the users of each pbuf.
LEMMA TaskUserStep ==
  ASSUME IInv, [Next]_vars
  PROVE  TaskInv' /\ UserInv'
<1> USE DEF radio, blob, task, lwip
<1>0. /\ TypeOK /\ TaskInv /\ UserInv /\ NULL \notin Pbuf
      /\ users \in [Pbuf -> 0 .. 2] /\ Live \subseteq Pbuf
      /\ \A p \in Live : pbuf[p].ref \in 1 .. 2
      /\ cur \in Pbuf \cup {NULL}
  BY Types DEF IInv, TypeOK
<1>1. ASSUME UNCHANGED <<blob, task>> PROVE TaskInv' /\ UserInv'
  BY <1>0, <1>1 DEF TaskInv, UserInv, Live
<1>2. ASSUME NEW p \in Pbuf, BlobAlloc(p) PROVE TaskInv' /\ UserInv'
  <2>1. PbufAlloc(p, "RAM", NULL) /\ UNCHANGED task
    BY <1>2 DEF BlobAlloc
  <2>2. /\ p \notin Live /\ Live' = Live \cup {p}
        /\ \A q \in Live : pbuf'[q] = pbuf[q]
        /\ users'[p] = 1 /\ \A q \in Pbuf \ {p} : users'[q] = users[q]
    BY <1>0, <2>1, AllocFacts
  <2> QED BY <1>0, <2>1, <2>2 DEF TaskInv, UserInv
<1>3. ASSUME NEW p \in Live, users[p] > 0, PbufFree(p) PROVE UserInv'
  <2>1. /\ \/ pbuf[p].ref = 1 /\ Live' = Live \ {p}
           \/ pbuf[p].ref = 2 /\ Live' = Live
        /\ \A q \in Live' : pbuf'[q] = pbuf[q]
        /\ users'[p] = users[p] - 1 /\ \A q \in Pbuf \ {p} : users'[q] = users[q]
    BY <1>0, <1>3, FreeFacts
  <2> QED BY <1>0, <1>3, <2>1 DEF UserInv
<1>4. ASSUME NEW p \in Pbuf, BlobFree(p) PROVE TaskInv' /\ UserInv'
  <2>1. /\ PbufFree(p) /\ users[p] > 0 /\ p \in Live /\ p # cur /\ UNCHANGED task
    BY <1>0, <1>4 DEF BlobFree, UserInv
  <2>2. /\ Live \ {p} \subseteq Live'
        /\ \A q \in Live' : pbuf'[q] = pbuf[q]
    BY <1>0, <2>1, FreeFacts
  <2> QED BY <1>0, <1>3, <2>1, <2>2 DEF TaskInv
<1>5. ASSUME NEW p \in Pbuf, PbufRef(p) PROVE TaskInv' /\ UserInv'
  <2>1. /\ p \in Live /\ p # cur /\ users[p] = 1 /\ pbuf[p].ref = 1
        /\ pbuf' = [pbuf EXCEPT ![p] = [pbuf[p] EXCEPT !.ref = 2]]
        /\ users' = [users EXCEPT ![p] = 2]
        /\ UNCHANGED task
    BY <1>0, <1>5 DEF PbufRef, UserInv
  <2>2. /\ pbuf[p] \in PbufType /\ pbuf \in [Pbuf -> PbufType \cup {NULL}]
        /\ NULL \notin PbufType
    BY <1>0, <2>1, Types DEF TypeOK
  <2>3. [pbuf[p] EXCEPT !.ref = 2] \in PbufType /\ [pbuf[p] EXCEPT !.ref = 2].ref = 2
    BY <2>2 DEF PbufType
  <2>4. /\ Live' = Live /\ pbuf'[p].ref = 2
        /\ \A q \in Live \ {p} : pbuf'[q] = pbuf[q]
    BY <2>1, <2>2, <2>3 DEF Live
  <2> QED BY <1>0, <2>1, <2>4 DEF TaskInv, UserInv
<1>6. ASSUME NEW p \in Pbuf, BlobInput(p) PROVE TaskInv' /\ UserInv'
  <2>1. /\ PbufAlloc(p, "REF", Head(rxQueue)) /\ Head(rxQueue) \in Eb
        /\ pc = "idle" /\ pc' = "alloc" /\ cur' = p /\ UNCHANGED glue
    BY <1>0, <1>6 DEF BlobInput, TypeOK
  <2>2. /\ p \notin Live /\ Live' = Live \cup {p}
        /\ \A q \in Live : pbuf'[q] = pbuf[q]
        /\ pbuf'[p] = [type |-> "REF", ref |-> 1, eb |-> Head(rxQueue)]
        /\ users'[p] = 1 /\ \A q \in Pbuf \ {p} : users'[q] = users[q]
    BY <1>0, <2>1, AllocFacts
  <2> QED BY <1>0, <2>1, <2>2 DEF TaskInv, UserInv
<1>7. ASSUME AllocForRecv PROVE TaskInv' /\ UserInv'
  <2>1. pc = "alloc" /\ pc' = "free" /\ UNCHANGED <<blob, cur>>
    BY <1>7 DEF AllocForRecv
  <2> QED BY <1>0, <2>1 DEF TaskInv, UserInv, Live
<1>8. ASSUME ReleaseBlobBuffer PROVE TaskInv' /\ UserInv'
  <2>1. /\ PbufFree(cur) /\ cur \in Live /\ users[cur] > 0 /\ UNCHANGED glue
        /\ IF glue = NULL THEN pc' = "idle" /\ cur' = NULL
                          ELSE pc' = "input" /\ UNCHANGED cur
    BY <1>0, <1>8 DEF ReleaseBlobBuffer, TaskInv, UserInv
  <2>2. TaskInv'
    BY <1>0, <2>1 DEF TaskInv
  <2> QED BY <1>3, <2>1, <2>2
<1>9. ASSUME GlueEthernetInput PROVE TaskInv' /\ UserInv'
  BY <1>0, <1>9 DEF GlueEthernetInput, TaskInv, UserInv, Live
<1>10. ASSUME \/ \E e \in Eb : RxInterrupt(e)
              \/ RxOverrun \/ BlobDrop \/ LwipFree \/ UNCHANGED vars
       PROVE  UNCHANGED <<blob, task>>
  BY <1>10 DEF RxInterrupt, RxOverrun, BlobDrop, LwipFree, vars
<1> QED
  BY <1>1, <1>2, <1>4, <1>5, <1>6, <1>7, <1>8, <1>9, <1>10 DEF Next, TaskStep

\* Every step keeps each receive buffer in one place.
LEMMA BufferStep ==
  ASSUME IInv, [Next]_vars
  PROVE  BufferInv'
<1> USE DEF radio, blob, task, lwip
<1>0. /\ TypeOK /\ TaskInv /\ UserInv /\ BufferInv
      /\ NULL \notin Eb /\ NULL \notin Pbuf /\ NULL \notin Frame
      /\ rxQueue \in Seq(Eb) /\ rxFree \subseteq Eb /\ Range(rxQueue) \subseteq Eb
      /\ bytes \in [Eb -> Frame \cup {NULL}] /\ received \in Nat /\ MaxFrames \in Nat
      /\ Live \subseteq Pbuf /\ cur \in Pbuf \cup {NULL}
      /\ \A p \in Live : pbuf[p].eb \in Eb \cup {NULL}
      /\ pc \in {"alloc", "free"} => cur \in Live
  BY Types DEF IInv, TypeOK, TaskInv
<1>1. ASSUME NEW e \in Eb, RxInterrupt(e) PROVE BufferInv'
  <2>1. /\ e \in rxFree /\ rxFree' = rxFree \ {e}
        /\ rxQueue' = Append(rxQueue, e)
        /\ bytes' = [bytes EXCEPT ![e] = received + 1]
        /\ received + 1 \in Frame
        /\ UNCHANGED <<pbuf, pc, cur>>
    BY <1>0, <1>1 DEF RxInterrupt, Frame, TypeOK
  <2>2. e \notin Range(rxQueue) /\ e \notin InHand /\ IsInjective(rxQueue)
    BY <1>0, <2>1 DEF BufferInv
  <2>3. Range(rxQueue') = Range(rxQueue) \cup {e} /\ IsInjective(rxQueue')
    BY <1>0, <2>1, <2>2, AppendFacts
  <2>4. InHand' = InHand /\ Live' = Live
    BY <2>1 DEF InHand, Live
  <2>5. \A d \in Eb : bytes'[d] = IF d = e THEN received + 1 ELSE bytes[d]
    BY <1>0, <2>1
  <2> QED BY <1>0, <2>1, <2>2, <2>3, <2>4, <2>5 DEF BufferInv
<1>2. ASSUME UNCHANGED <<rxFree, rxQueue, bytes, pbuf, cur, InHand>> PROVE BufferInv'
  BY <1>0, <1>2 DEF BufferInv, Live
<1>3. ASSUME RxOverrun \/ AllocForRecv \/ LwipFree \/ UNCHANGED vars PROVE BufferInv'
  <2>1. UNCHANGED <<rxFree, rxQueue, bytes, pbuf, cur>>
    BY <1>3 DEF RxOverrun, AllocForRecv, LwipFree, vars
  <2>2. UNCHANGED InHand
    BY <1>3 DEF RxOverrun, AllocForRecv, LwipFree, vars, InHand
  <2> QED BY <1>2, <2>1, <2>2
<1>4. ASSUME NEW p \in Pbuf, BlobAlloc(p) PROVE BufferInv'
  <2>1. PbufAlloc(p, "RAM", NULL) /\ UNCHANGED <<rxFree, rxQueue, bytes, pc, cur>>
    BY <1>4 DEF BlobAlloc
  <2>2. /\ p \notin Live /\ Live' = Live \cup {p}
        /\ \A q \in Live : pbuf'[q] = pbuf[q]
        /\ pbuf'[p] = [type |-> "RAM", ref |-> 1, eb |-> NULL]
    BY <1>0, <2>1, AllocFacts
  <2>3. InHand' = InHand
    BY <1>0, <2>1, <2>2 DEF InHand
  <2> QED BY <1>0, <2>1, <2>2, <2>3 DEF BufferInv
<1>5. ASSUME NEW p \in Pbuf, BlobFree(p) PROVE BufferInv'
  <2>1. /\ PbufFree(p) /\ users[p] > 0 /\ p \in Live /\ p # cur
        /\ UNCHANGED <<rxQueue, bytes, pc, cur>>
    BY <1>0, <1>5 DEF BlobFree, UserInv
  <2>2. pbuf[p].eb = NULL
    BY <1>0, <2>1 DEF BufferInv
  <2>3. /\ rxFree' = rxFree /\ Live \ {p} \subseteq Live' /\ Live' \subseteq Live
        /\ \A q \in Live' : pbuf'[q] = pbuf[q]
    BY <1>0, <2>1, <2>2, FreeFacts
  <2>4. InHand' = InHand
    BY <1>0, <2>1, <2>3 DEF InHand
  <2> QED BY <1>0, <2>1, <2>3, <2>4 DEF BufferInv
<1>6. ASSUME NEW p \in Pbuf, PbufRef(p) PROVE BufferInv'
  <2>1. /\ p \in Live /\ p # cur /\ pbuf[p] \in PbufType
        /\ pbuf' = [pbuf EXCEPT ![p] = [pbuf[p] EXCEPT !.ref = @ + 1]]
        /\ UNCHANGED <<rxFree, rxQueue, bytes, pc, cur>>
    BY <1>0, <1>6, Types DEF PbufRef, UserInv
  <2>2. \A q \in Pbuf : pbuf'[q].eb = pbuf[q].eb
    BY <1>0, <2>1 DEF TypeOK, PbufType
  <2>3. Live' \subseteq Live
    BY <1>0, <2>1, Types DEF Live, TypeOK
  <2>4. InHand' = InHand
    BY <1>0, <2>1, <2>2 DEF InHand
  <2> QED BY <1>0, <2>1, <2>2, <2>3, <2>4 DEF BufferInv
<1>7. ASSUME rxQueue # <<>>, rxQueue' = Tail(rxQueue)
      PROVE  /\ Head(rxQueue) \in Eb /\ IsInjective(rxQueue')
             /\ Head(rxQueue) \notin Range(rxQueue')
             /\ Range(rxQueue) = {Head(rxQueue)} \cup Range(rxQueue')
  BY <1>0, <1>7, PopFacts DEF BufferInv
<1>8. ASSUME NEW p \in Pbuf, BlobInput(p) PROVE BufferInv'
  <2>1. /\ PbufAlloc(p, "REF", Head(rxQueue))
        /\ rxQueue # <<>> /\ rxQueue' = Tail(rxQueue)
        /\ pc = "idle" /\ pc' = "alloc" /\ cur' = p
        /\ UNCHANGED <<rxFree, bytes>>
    BY <1>8 DEF BlobInput
  <2>2. /\ p \notin Live /\ Live' = Live \cup {p}
        /\ \A q \in Live : pbuf'[q] = pbuf[q]
        /\ pbuf'[p] = [type |-> "REF", ref |-> 1, eb |-> Head(rxQueue)]
    BY <1>0, <1>7, <2>1, AllocFacts
  <2>3. InHand' = {Head(rxQueue)} /\ InHand = {}
    BY <2>1, <2>2 DEF InHand
  <2>4. \A q \in Live : pbuf[q].eb = NULL
    BY <1>0, <2>3 DEF BufferInv
  <2> QED BY <1>0, <1>7, <2>1, <2>2, <2>3, <2>4 DEF BufferInv
<1>9. ASSUME BlobDrop PROVE BufferInv'
  <2>1. /\ rxQueue # <<>> /\ rxQueue' = Tail(rxQueue)
        /\ rxFree' = rxFree \cup {Head(rxQueue)}
        /\ UNCHANGED <<bytes, pbuf, pc, cur>>
    BY <1>9 DEF BlobDrop
  <2>2. InHand' = InHand /\ Live' = Live
    BY <2>1 DEF InHand, Live
  <2> QED BY <1>0, <1>7, <2>1, <2>2 DEF BufferInv
<1>10. ASSUME ReleaseBlobBuffer PROVE BufferInv'
  <2>1. /\ PbufFree(cur) /\ cur \in Live /\ users[cur] > 0 /\ pbuf[cur].ref = 1
        /\ pc = "free" /\ pc' \in {"idle", "input"}
        /\ UNCHANGED <<rxQueue, bytes>>
    BY <1>0, <1>10 DEF ReleaseBlobBuffer, TaskInv, UserInv
  <2>2. InHand = {pbuf[cur].eb} /\ InHand' = {}
    BY <2>1 DEF InHand
  <2>3. pbuf[cur].eb \in Eb
    BY <1>0, <2>2 DEF BufferInv
  <2>4. /\ rxFree' = rxFree \cup InHand /\ Live' = Live \ {cur}
        /\ \A q \in Live' : pbuf'[q] = pbuf[q]
    BY <1>0, <2>1, <2>2, <2>3, FreeFacts
  <2>5. \A q \in Live' : pbuf'[q].eb = NULL
    BY <1>0, <2>4 DEF BufferInv
  <2> QED BY <1>0, <2>1, <2>2, <2>4, <2>5 DEF BufferInv
<1>11. ASSUME GlueEthernetInput PROVE BufferInv'
  <2>1. /\ UNCHANGED <<rxFree, rxQueue, bytes, pbuf>>
        /\ pc = "input" /\ pc' = "idle"
    BY <1>11 DEF GlueEthernetInput
  <2>2. InHand = {} /\ InHand' = {} /\ Live' = Live
    BY <2>1 DEF InHand, Live
  <2>3. \A q \in Live : pbuf[q].eb = NULL
    BY <1>0, <2>2 DEF BufferInv
  <2> QED BY <1>0, <2>1, <2>2, <2>3 DEF BufferInv
<1> QED
  BY <1>1, <1>3, <1>4, <1>5, <1>6, <1>8, <1>9, <1>10, <1>11 DEF Next, TaskStep

-----------------------------------------------------------------------------
(* 4. The theorems.                                                        *)

\* The inductive invariant holds in every state of every behaviour.
THEOREM IInvAlways == SafetySpec => []IInv
<1>1. IInv /\ [Next]_vars => IInv'
  BY TypeStep, TaskUserStep, BufferStep DEF IInv
<1> QED BY InitIInv, <1>1, PTL DEF SafetySpec

\* Every variable has its type; a reference count stays 1 or 2.
THEOREM TypeCorrect == SafetySpec => []TypeOK
<1>1. IInv => TypeOK
  BY DEF IInv
<1> QED BY IInvAlways, <1>1, PTL

\* pbuf_free takes no pbuf away that the blob has a pointer to, references
\* included, and the heap is never overdrawn by either side.
THEOREM HeapNeverBreaks == SafetySpec => []HeapIsSound
<1>1. IInv => HeapIsSound
  BY DEF IInv, HeapInv, UserInv, HeapIsSound
<1> QED BY IInvAlways, <1>1, PTL

\* No pbuf of the blob has a second reference.
SingleRefs == \A p \in Live : pbuf[p].ref = 1

\* While the blob does not call pbuf_ref on a pbuf of its own, the count is the
\* number of users, and the pbuf goes with the last of them: what pbuf_free's
\* comment promises, and what the run with such references finds broken.
THEOREM CountsWithoutRefs ==
  ASSUME ~BlobRefs
  PROVE  SafetySpec => []RefCountIsUsers
<1>1. Init => SingleRefs
  BY DEF Init, SingleRefs, Live
<1>2. ASSUME IInv, SingleRefs, [Next]_vars PROVE SingleRefs'
  <2> USE DEF radio, blob, task, lwip
  <2>0. TypeOK /\ TaskInv /\ UserInv
    BY <1>2 DEF IInv
  <2>1. ASSUME UNCHANGED pbuf PROVE SingleRefs'
    BY <1>2, <2>1 DEF SingleRefs, Live
  <2>2. ASSUME NEW p \in Pbuf, NEW type \in {"RAM", "REF"}, NEW e \in Eb \cup {NULL},
               PbufAlloc(p, type, e)
        PROVE  SingleRefs'
    <3>1. /\ Live' = Live \cup {p} /\ \A q \in Live : pbuf'[q] = pbuf[q]
          /\ pbuf'[p] = [type |-> type, ref |-> 1, eb |-> e]
      BY <2>0, <2>2, AllocFacts
    <3> QED BY <1>2, <3>1 DEF SingleRefs
  <2>3. ASSUME NEW p \in Live, users[p] > 0, PbufFree(p) PROVE SingleRefs'
    <3>1. Live' \subseteq Live /\ \A q \in Live' : pbuf'[q] = pbuf[q]
      BY <2>0, <2>3, FreeFacts
    <3> QED BY <1>2, <3>1 DEF SingleRefs
  <2>4. ASSUME NEW p \in Pbuf, BlobAlloc(p) PROVE SingleRefs'
    BY <2>2, <2>4 DEF BlobAlloc
  <2>5. ASSUME NEW p \in Pbuf, BlobFree(p) PROVE SingleRefs'
    BY <2>0, <2>3, <2>5 DEF BlobFree, UserInv
  <2>6. ASSUME NEW p \in Pbuf, PbufRef(p) PROVE SingleRefs'
    BY <2>6 DEF PbufRef
  <2>7. ASSUME NEW p \in Pbuf, BlobInput(p) PROVE SingleRefs'
    <3>1. PbufAlloc(p, "REF", Head(rxQueue)) /\ Head(rxQueue) \in Eb
      BY <2>0, <2>7 DEF BlobInput, TypeOK
    <3> QED BY <2>2, <3>1
  <2>8. ASSUME ReleaseBlobBuffer PROVE SingleRefs'
    BY <2>0, <2>3, <2>8 DEF ReleaseBlobBuffer, TaskInv, UserInv
  <2>9. ASSUME \/ \E e \in Eb : RxInterrupt(e)
               \/ RxOverrun \/ BlobDrop \/ AllocForRecv \/ GlueEthernetInput
               \/ LwipFree \/ UNCHANGED vars
        PROVE  UNCHANGED pbuf
    BY <2>9 DEF RxInterrupt, RxOverrun, BlobDrop, AllocForRecv, GlueEthernetInput, LwipFree, vars
  <2> QED BY <1>2, <2>1, <2>4, <2>5, <2>6, <2>7, <2>8, <2>9 DEF Next, TaskStep
<1>3. IInv /\ SingleRefs => RefCountIsUsers
  <2> SUFFICES ASSUME IInv, SingleRefs, NEW p \in Pbuf
               PROVE  IF p \in Live THEN pbuf[p].ref = users[p] /\ users[p] > 0
                                    ELSE users[p] = 0
    BY DEF RefCountIsUsers
  <2>1. users[p] \in 0 .. 2
    BY DEF IInv, TypeOK
  <2> QED BY <2>1 DEF IInv, UserInv, SingleRefs
<1> QED BY <1>1, <1>2, <1>3, IInvAlways, PTL DEF SafetySpec

\* ethernet_input and the blob lose no receive buffer and double none.
THEOREM BuffersKept == SafetySpec => []BuffersConserved
<1> DEFINE holders == {p \in Live : pbuf[p].eb # NULL}
           waiting == Range(rxQueue)
<1>1. IInv => BuffersConserved
  <2> SUFFICES ASSUME IInv PROVE BuffersConserved
    OBVIOUS
  <2>0. /\ TypeOK /\ TaskInv /\ BufferInv
        /\ IsFiniteSet(Eb) /\ rxFree \subseteq Eb /\ waiting \subseteq Eb
        /\ NULL \notin Eb /\ rxQueue \in Seq(Eb)
    BY Types DEF IInv, TypeOK
  <2> DEFINE Held == {pbuf[p].eb : p \in Live} \ {NULL} = InHand
             Counted == IsFiniteSet(InHand) /\ Cardinality(InHand) = Cardinality(holders)
  <2>1. ASSUME pc \in {"alloc", "free"} PROVE Held /\ Counted
    <3>1. InHand = {pbuf[cur].eb} /\ pbuf[cur].eb \in Eb /\ cur \in Live
      BY <2>0, <2>1 DEF InHand, TaskInv, BufferInv
    <3>2. holders = {cur}
      BY <2>0, <3>1 DEF BufferInv
    <3>3. Held
      BY <2>0, <3>1 DEF BufferInv
    <3>4. Counted
      BY <3>1, <3>2, FS_Singleton
    <3> QED BY <3>3, <3>4
  <2>2. ASSUME pc \notin {"alloc", "free"} PROVE Held /\ Counted
    <3>1. InHand = {} /\ holders = {}
      BY <2>0, <2>2 DEF InHand, BufferInv
    <3>2. Held
      BY <2>0, <3>1 DEF BufferInv
    <3> QED BY <3>1, <3>2, FS_EmptySet
  <2>3. Held /\ Counted
    BY <2>1, <2>2
  <2>4. /\ Cardinality(waiting) = Len(rxQueue) /\ IsFiniteSet(waiting)
        /\ IsFiniteSet(rxFree) /\ rxFree \cap waiting = {}
    BY <2>0, RangeCardinality, FS_Subset DEF BufferInv
  <2> DEFINE apart == rxFree \cup waiting
  <2>5. IsFiniteSet(apart) /\ Cardinality(apart) = Cardinality(rxFree) + Len(rxQueue)
    <3>1. Cardinality(rxFree \cap waiting) = 0
      BY <2>4, FS_EmptySet
    <3>2. /\ IsFiniteSet(apart)
          /\ Cardinality(apart) = Cardinality(rxFree) + Cardinality(waiting)
                                    - Cardinality(rxFree \cap waiting)
      BY <2>4, FS_Union
    <3>3. Cardinality(rxFree) \in Nat /\ Len(rxQueue) \in Nat
      BY <2>0, <2>4, FS_CardinalityType, LenProperties
    <3> QED BY <2>4, <3>1, <3>2, <3>3
  <2>6. Cardinality(Eb) = Cardinality(rxFree) + Len(rxQueue) + Cardinality(holders)
    <3>1. Eb = apart \cup InHand /\ apart \cap InHand = {}
      BY <2>0 DEF BufferInv
    <3> HIDE DEF apart, holders
    <3>2. Cardinality(apart \cap InHand) = 0
      BY <3>1, FS_EmptySet
    <3>3. Cardinality(Eb) = Cardinality(apart) + Cardinality(InHand)
                              - Cardinality(apart \cap InHand)
      BY <2>3, <2>5, <3>1, FS_Union
    <3>4. Cardinality(apart) \in Nat /\ Cardinality(InHand) \in Nat
      BY <2>3, <2>5, FS_CardinalityType
    <3> QED BY <2>3, <2>5, <3>2, <3>3, <3>4
  <2> QED BY <2>0, <2>3, <2>6 DEF BuffersConserved, BufferInv
<1> QED BY IInvAlways, <1>1, PTL

-----------------------------------------------------------------------------
(* 5. RxPath implements RxLossyQueue.                                      *)

QueueSafety == Queue!SafetySpec

\* The frames whose buffers wait for the task, and all that are on their way.
Waiting == [i \in DOMAIN rxQueue |-> bytes[rxQueue[i]]]
Pending == OnItsWay \o Waiting

\* The frame the task has in hand.
InTransit ==
  /\ pc = "alloc" => /\ OnItsWay = <<bytes[pbuf[cur].eb]>>
                     /\ pbuf[cur].eb \in Eb \ rxFree
                     /\ pbuf[cur].eb \notin Range(rxQueue)
                     /\ bytes[pbuf[cur].eb] \in Frame
  /\ pc \in {"free", "input"} /\ glue # NULL => OnItsWay = <<glue>> /\ glue \in Frame
  /\ pc = "idle" \/ (pc = "free" /\ glue = NULL) => OnItsWay = <<>>

\* The frames on their way, and those that the buffers of the queue hold.
AllWaiting ==
  /\ OnItsWay \in Seq(Frame) /\ Waiting \in Seq(Frame)
  /\ Len(Waiting) = Len(rxQueue) /\ Pending \in Seq(Frame)
  /\ \A i \in 1 .. Len(rxQueue) : /\ rxQueue[i] \in Eb \ rxFree
                                  /\ rxQueue[i] \in Range(rxQueue)
                                  /\ Waiting[i] = bytes[rxQueue[i]]
                                  /\ bytes[rxQueue[i]] \in Frame

\* The invariant says which frame is in hand in which state of the task.
LEMMA OnItsWayFacts == IInv => InTransit
<1> SUFFICES ASSUME IInv PROVE InTransit
  OBVIOUS
<1>1. ASSUME pc = "alloc"
      PROVE  /\ pbuf[cur].eb \in Eb /\ bytes[pbuf[cur].eb] \in Frame
             /\ pbuf[cur].eb \notin Range(rxQueue) /\ pbuf[cur].eb \notin rxFree
  BY <1>1 DEF IInv, TypeOK, BufferInv, InHand
<1>2. pc = "alloc" => OnItsWay = <<bytes[pbuf[cur].eb]>>
  BY DEF OnItsWay
<1>3. pc \in {"free", "input"} /\ glue # NULL => OnItsWay = <<glue>> /\ glue \in Frame
  BY DEF OnItsWay, IInv, TypeOK
<1>4. pc = "idle" \/ (pc = "free" /\ glue = NULL) => OnItsWay = <<>>
  BY DEF OnItsWay
<1> QED BY <1>1, <1>2, <1>3, <1>4 DEF InTransit

\* What is on its way are frames, and the buffers that wait hold one each.
LEMMA PendingFacts == IInv => AllWaiting
<1> SUFFICES ASSUME IInv PROVE AllWaiting
  OBVIOUS
<1>1. rxQueue \in Seq(Eb) /\ Len(rxQueue) \in Nat /\ DOMAIN rxQueue = 1 .. Len(rxQueue)
  BY LenProperties DEF IInv, TypeOK
<1>2. ASSUME NEW i \in 1 .. Len(rxQueue)
      PROVE  /\ rxQueue[i] \in Eb \ rxFree /\ rxQueue[i] \in Range(rxQueue)
             /\ bytes[rxQueue[i]] \in Frame
  <2>1. rxQueue[i] \in Range(rxQueue) /\ rxQueue[i] \in Eb
    BY <1>1, ElementOfSeq DEF Range
  <2> QED BY <2>1 DEF IInv, TypeOK, BufferInv
<1>3. Waiting \in Seq(Frame) /\ Len(Waiting) = Len(rxQueue)
  <2>1. Waiting \in [1 .. Len(rxQueue) -> Frame]
    BY <1>1, <1>2 DEF Waiting
  <2> QED BY <2>1, <1>1
<1>4. OnItsWay \in Seq(Frame)
  <2>0. <<>> \in Seq(Frame) /\ \A f \in Frame : <<f>> \in Seq(Frame)
    OBVIOUS
  <2>1. CASE pc = "alloc"
    BY <2>0, <2>1, OnItsWayFacts DEF InTransit
  <2>2. CASE pc \in {"free", "input"} /\ glue # NULL
    BY <2>0, <2>2, OnItsWayFacts DEF InTransit
  <2>3. CASE pc = "idle" \/ (pc = "free" /\ glue = NULL)
    BY <2>0, <2>3, OnItsWayFacts DEF InTransit
  <2> QED BY <2>1, <2>2, <2>3 DEF IInv, TypeOK, TaskInv
<1>5. Pending \in Seq(Frame)
  BY <1>3, <1>4, ConcatProperties DEF Pending
<1>6. \A i \in 1 .. Len(rxQueue) : Waiting[i] = bytes[rxQueue[i]]
  BY <1>1 DEF Waiting
<1> QED BY <1>2, <1>3, <1>4, <1>5, <1>6 DEF AllWaiting

\* Before the first frame nothing is on its way.
LEMMA QueueInit == Init => Queue!Init
<1> SUFFICES ASSUME Init PROVE Queue!Init
  OBVIOUS
<1>1. OnItsWay = <<>>
  BY DEF Init, OnItsWay
<1>2. Waiting = <<>>
  BY DEF Init, Waiting
<1>3. Pending = <<>>
  BY <1>1, <1>2 DEF Pending
<1> QED BY <1>3 DEF Init, Queue!Init, Pending, Waiting

\* The oldest frame that waits, and the others.
LEMMA WaitingHead ==
  ASSUME IInv, rxQueue # <<>>, rxQueue' = Tail(rxQueue), bytes' = bytes
  PROVE  /\ Head(rxQueue) \in Eb /\ bytes[Head(rxQueue)] \in Frame
         /\ Waiting' \in Seq(Frame)
         /\ Waiting = <<bytes[Head(rxQueue)]>> \o Waiting'
<1> DEFINE f == bytes[Head(rxQueue)]
           rest == Waiting'
<1>1. /\ rxQueue \in Seq(Eb) /\ Len(rxQueue) \in Nat /\ Len(rxQueue) > 0
      /\ Head(rxQueue) = rxQueue[1]
      /\ Tail(rxQueue) \in Seq(Eb) /\ Len(Tail(rxQueue)) = Len(rxQueue) - 1
      /\ \A i \in 1 .. Len(Tail(rxQueue)) : Tail(rxQueue)[i] = rxQueue[i + 1]
  BY LenProperties, EmptySeq, HeadTailProperties DEF IInv, TypeOK
<1>2. DOMAIN rxQueue' = 1 .. Len(rxQueue) - 1
  BY <1>1, LenProperties
<1>3. /\ Len(Waiting) = Len(rxQueue) /\ Waiting \in Seq(Frame)
      /\ \A i \in 1 .. Len(rxQueue) : /\ Waiting[i] = bytes[rxQueue[i]]
                                      /\ bytes[rxQueue[i]] \in Frame
                                      /\ rxQueue[i] \in Eb
  BY PendingFacts DEF AllWaiting
<1>4. f \in Frame /\ Head(rxQueue) \in Eb
  BY <1>1, <1>3
<1>5. \A i \in 1 .. Len(rxQueue) - 1 : rest[i] = Waiting[i + 1] /\ rest[i] \in Frame
  BY <1>1, <1>2, <1>3 DEF Waiting
<1>6. rest \in Seq(Frame) /\ Len(rest) = Len(rxQueue) - 1
  <2>1. rest = [i \in 1 .. Len(rxQueue) - 1 |-> rest[i]]
    BY <1>2 DEF Waiting
  <2>2. rest \in [1 .. Len(rxQueue) - 1 -> Frame]
    BY <1>5, <2>1
  <2>3. Len(rxQueue) - 1 \in Nat
    BY <1>1
  <2> HIDE DEF rest
  <2> QED BY <2>2, <2>3
<1>7. Waiting = <<f>> \o rest
  <2> DEFINE u == <<f>>
             t == u \o rest
  <2>1. u \in Seq(Frame) /\ Len(u) = 1 /\ u[1] = f
    BY <1>4
  <2> HIDE DEF u, f, rest
  <2>2. /\ t \in Seq(Frame) /\ Len(t) = 1 + Len(rest)
        /\ \A i \in 1 .. 1 + Len(rest) : t[i] = IF i <= 1 THEN u[i] ELSE rest[i - 1]
    BY <1>6, <2>1, ConcatProperties
  <2>3. Waiting[1] = f
    BY <1>1, <1>3 DEF f
  <2>4. \A i \in 1 .. Len(Waiting) : Waiting[i] = t[i]
    <3>1. ASSUME NEW i \in 1 .. Len(Waiting) PROVE Waiting[i] = t[i]
      <4>1. CASE i = 1
        BY <4>1, <1>1, <1>3, <1>6, <2>1, <2>2, <2>3
      <4>2. CASE i # 1
        <5>1. i - 1 \in 1 .. Len(rxQueue) - 1 /\ (i - 1) + 1 = i
          BY <3>1, <4>2, <1>1, <1>3
        <5>2. rest[i - 1] = Waiting[i]
          BY <1>5, <5>1
        <5> QED BY <5>2, <4>2, <3>1, <1>1, <1>3, <1>6, <2>2
      <4> QED BY <4>1, <4>2
    <3> QED BY <3>1
  <2>5. Len(Waiting) = Len(t)
    BY <1>1, <1>3, <1>6, <2>2
  <2>6. Waiting = t
    BY <1>3, <2>2, <2>4, <2>5, SeqEqual
  <2> QED BY <2>6 DEF t, u
<1> QED BY <1>4, <1>6, <1>7

\* A step of the radio, the blob or the task receives, delivers or loses a
\* frame as the queue may, or changes nothing that the queue sees.
LEMMA QueueStep ==
  ASSUME IInv, IInv', [Next]_vars
  PROVE  [Queue!Next]_Queue!vars
<1> USE DEF radio, blob, task, lwip
<1>a. InTransit' /\ AllWaiting'
  BY OnItsWayFacts, PendingFacts, PTL
<1>0. /\ OnItsWay \in Seq(Frame) /\ Waiting \in Seq(Frame)
      /\ OnItsWay' \in Seq(Frame)
      /\ rxQueue \in Seq(Eb) /\ NULL \notin Frame
      /\ TypeOK /\ TaskInv /\ BufferInv /\ UserInv
  BY <1>a, PendingFacts, Types DEF AllWaiting, IInv, TypeOK
<1>1. ASSUME UNCHANGED <<received, Pending, delivered>> PROVE UNCHANGED Queue!vars
  BY <1>1 DEF Queue!vars, Pending, Waiting
<1>2. ASSUME NEW f \in Frame, Pending = <<f>> \o Pending', Pending' \in Seq(Frame),
             UNCHANGED <<received, delivered>>
      PROVE  Queue!Lose
  <2>1. Pending # <<>> /\ Tail(Pending) = Pending'
    BY <1>2, FrontFacts
  <2> QED BY <1>2, <2>1 DEF Queue!Lose, Pending, Waiting
<1>3. ASSUME NEW e \in Eb, RxInterrupt(e) PROVE Queue!Receive
  <2>1. /\ e \in rxFree /\ rxQueue' = Append(rxQueue, e)
        /\ bytes' = [bytes EXCEPT ![e] = received + 1]
        /\ received' = received + 1 /\ received + 1 \in Frame
        /\ UNCHANGED <<pbuf, pc, cur, glue, delivered>>
    BY <1>0, <1>3, RxConstants DEF RxInterrupt, Frame, TypeOK
  <2>2. OnItsWay' = OnItsWay
    <3>1. pc = "alloc" => bytes'[pbuf[cur].eb] = bytes[pbuf[cur].eb]
      BY <1>0, <2>1, <1>a, OnItsWayFacts DEF InTransit, TypeOK
    <3> QED BY <2>1, <3>1 DEF OnItsWay
  <2>3. Waiting' = Append(Waiting, received + 1)
    <3>1. /\ Waiting' \in Seq(Frame) /\ Len(Waiting') = Len(rxQueue')
          /\ \A i \in 1 .. Len(rxQueue') : Waiting'[i] = bytes'[rxQueue'[i]]
      BY <1>a, PendingFacts DEF AllWaiting
    <3>2. /\ Len(Waiting) = Len(rxQueue)
          /\ \A i \in 1 .. Len(rxQueue) : /\ Waiting[i] = bytes[rxQueue[i]]
                                          /\ rxQueue[i] \in Eb \ rxFree
      BY <1>a, PendingFacts DEF AllWaiting
    <3>3. /\ Len(rxQueue') = Len(rxQueue) + 1 /\ Len(rxQueue) \in Nat
          /\ rxQueue'[Len(rxQueue) + 1] = e
          /\ \A i \in 1 .. Len(rxQueue) : rxQueue'[i] = rxQueue[i]
      BY <1>0, <2>1, AppendProperties, LenProperties
    <3>4. bytes'[e] = received + 1 /\ \A d \in Eb \ rxFree : bytes'[d] = bytes[d]
      BY <1>0, <2>1 DEF TypeOK
    <3> DEFINE t == Append(Waiting, received + 1)
    <3>5. /\ t \in Seq(Frame) /\ Len(t) = Len(rxQueue) + 1
          /\ t[Len(rxQueue) + 1] = received + 1
          /\ \A i \in 1 .. Len(rxQueue) : t[i] = Waiting[i]
      BY <1>0, <2>1, <3>2, AppendProperties
    <3> HIDE DEF t
    <3>6. \A i \in 1 .. Len(Waiting') : Waiting'[i] = t[i]
      BY <3>1, <3>2, <3>3, <3>4, <3>5
    <3>7. Len(Waiting') = Len(t)
      BY <3>1, <3>3, <3>5
    <3>8. Waiting' = t
      BY <3>1, <3>5, <3>6, <3>7, SeqEqual
    <3> QED BY <3>8 DEF t
  <2>4. Pending' = Append(Pending, received + 1)
    <3>1. \A f \in Frame : <<f>> \in Seq(Frame)
      OBVIOUS
    <3>2. Append(Waiting, received + 1) = Waiting \o <<received + 1>>
      BY <1>0, <2>1, AppendIsConcat
    <3>3. Append(Pending, received + 1) = Pending \o <<received + 1>>
      BY <2>1, <1>a, PendingFacts, AppendIsConcat DEF AllWaiting
    <3>4. Pending \o <<received + 1>> = OnItsWay \o (Waiting \o <<received + 1>>)
      BY <1>0, <2>1, <3>1, ConcatAssociative DEF Pending
    <3> QED BY <2>2, <2>3, <3>2, <3>3, <3>4 DEF Pending
  <2> QED BY <2>1, <2>4 DEF Queue!Receive, Pending, Waiting
<1>4. ASSUME RxOverrun PROVE Queue!Receive
  <2>1. /\ received' = received + 1
        /\ UNCHANGED <<rxQueue, bytes, pbuf, pc, cur, glue, delivered>>
    BY <1>4 DEF RxOverrun
  <2>2. Pending' = Pending
    BY <2>1 DEF Pending, Waiting, OnItsWay
  <2> QED BY <2>1, <2>2 DEF Queue!Receive, Pending, Waiting
<1>5. ASSUME UNCHANGED <<received, rxQueue, bytes, pc, cur, glue, delivered>>,
             pc = "alloc" => pbuf'[cur].eb = pbuf[cur].eb
      PROVE  UNCHANGED Queue!vars
  <2>1. Pending' = Pending
    BY <1>5 DEF Pending, Waiting, OnItsWay
  <2> QED BY <1>1, <1>5, <2>1
<1>6. ASSUME NEW p \in Pbuf, BlobAlloc(p) \/ BlobFree(p) \/ PbufRef(p)
      PROVE  UNCHANGED Queue!vars
  <2>1. UNCHANGED <<received, rxQueue, bytes, pc, cur, glue, delivered>>
    BY <1>6 DEF BlobAlloc, BlobFree, PbufRef
  <2>2. \/ pbuf' = pbuf
        \/ \E b : pbuf' = [pbuf EXCEPT ![p] = b]
    BY <1>6 DEF BlobAlloc, BlobFree, PbufRef, PbufAlloc, PbufFree
  <2>3. pc = "alloc" => p # cur
    BY <1>0, <1>6 DEF BlobAlloc, BlobFree, PbufRef, PbufAlloc, TaskInv, Live
  <2>4. pc = "alloc" => pbuf'[cur] = pbuf[cur]
    <3>1. ASSUME NEW b, pbuf' = [pbuf EXCEPT ![p] = b], p # cur, cur \in Pbuf
          PROVE  pbuf'[cur] = pbuf[cur]
      BY <1>0, <3>1 DEF TypeOK
    <3>2. pc = "alloc" => cur \in Pbuf
      BY <1>0, Types DEF TaskInv
    <3> QED BY <2>2, <2>3, <3>1, <3>2
  <2> QED BY <1>5, <2>1, <2>4
<1>7. ASSUME NEW p \in Pbuf, BlobInput(p) PROVE UNCHANGED Queue!vars
  <2>1. /\ PbufAlloc(p, "REF", Head(rxQueue))
        /\ rxQueue # <<>> /\ rxQueue' = Tail(rxQueue) /\ bytes' = bytes
        /\ pc = "idle" /\ pc' = "alloc" /\ cur' = p
        /\ UNCHANGED <<received, glue, delivered>>
    BY <1>7 DEF BlobInput
  <2>2. /\ Head(rxQueue) \in Eb /\ bytes[Head(rxQueue)] \in Frame
        /\ Waiting = <<bytes[Head(rxQueue)]>> \o Waiting'
    BY <2>1, WaitingHead
  <2>3. OnItsWay = <<>> /\ OnItsWay' = <<bytes'[pbuf'[cur'].eb]>>
    BY <2>1, <1>a, OnItsWayFacts DEF InTransit
  <2>4. pbuf'[p] = [type |-> "REF", ref |-> 1, eb |-> Head(rxQueue)]
    BY <1>0, <2>1, <2>2, AllocFacts
  <2>5. OnItsWay' = <<bytes[Head(rxQueue)]>>
    BY <2>1, <2>3, <2>4
  <2>6. Pending = Waiting
    BY <1>0, <2>3, ConcatEmptySeq DEF Pending
  <2>7. Pending' = Pending
    BY <2>2, <2>5, <2>6 DEF Pending
  <2> QED BY <1>1, <2>1, <2>7
<1>8. ASSUME BlobDrop PROVE Queue!Lose
  <2>1. /\ rxQueue # <<>> /\ rxQueue' = Tail(rxQueue) /\ bytes' = bytes
        /\ pc = "idle" /\ UNCHANGED <<received, pc, glue, delivered>>
    BY <1>8 DEF BlobDrop
  <2>2. /\ bytes[Head(rxQueue)] \in Frame /\ Waiting' \in Seq(Frame)
        /\ Waiting = <<bytes[Head(rxQueue)]>> \o Waiting'
    BY <2>1, WaitingHead
  <2>3. OnItsWay = <<>> /\ OnItsWay' = <<>>
    BY <2>1, <1>a, OnItsWayFacts DEF InTransit
  <2>4. Pending = Waiting /\ Pending' = Waiting'
    BY <1>0, <2>2, <2>3, ConcatEmptySeq DEF Pending
  <2> QED BY <1>2, <2>1, <2>2, <2>4
<1>9. ASSUME AllocForRecv PROVE Queue!Lose \/ UNCHANGED Queue!vars
  <2>1. /\ pc = "alloc" /\ pc' = "free"
        /\ UNCHANGED <<received, rxQueue, bytes, delivered>>
        /\ glue' \in {bytes[pbuf[cur].eb], NULL}
    BY <1>9 DEF AllocForRecv
  <2>2. OnItsWay = <<bytes[pbuf[cur].eb]>> /\ bytes[pbuf[cur].eb] \in Frame
    BY <2>1, <1>a, OnItsWayFacts DEF InTransit
  <2>3. Waiting' = Waiting
    BY <2>1 DEF Waiting
  <2>4. CASE glue' = NULL
    <3>1. OnItsWay' = <<>>
      BY <2>1, <2>4, <1>a, OnItsWayFacts DEF InTransit
    <3>2. Pending' = Waiting
      BY <1>0, <2>3, <3>1, ConcatEmptySeq DEF Pending
    <3>3. Pending = <<bytes[pbuf[cur].eb]>> \o Pending'
      BY <2>2, <3>2 DEF Pending
    <3> QED BY <1>0, <1>2, <2>1, <2>2, <3>2, <3>3
  <2>5. CASE glue' = bytes[pbuf[cur].eb]
    <3>1. OnItsWay' = OnItsWay
      BY <1>0, <2>1, <2>2, <2>5, <1>a, OnItsWayFacts DEF InTransit
    <3>2. Pending' = Pending
      BY <2>3, <3>1 DEF Pending
    <3> QED BY <1>1, <2>1, <3>2
  <2> QED BY <2>1, <2>4, <2>5
<1>10. ASSUME ReleaseBlobBuffer PROVE UNCHANGED Queue!vars
  <2>1. /\ pc = "free" /\ UNCHANGED <<received, rxQueue, bytes, glue, delivered>>
        /\ IF glue = NULL THEN pc' = "idle" ELSE pc' = "input"
    BY <1>10 DEF ReleaseBlobBuffer
  <2>2. OnItsWay' = OnItsWay
    BY <2>1, <1>a, OnItsWayFacts DEF InTransit
  <2>3. Pending' = Pending
    BY <2>1, <2>2 DEF Pending, Waiting
  <2> QED BY <1>1, <2>1, <2>3
<1>11. ASSUME GlueEthernetInput PROVE Queue!Deliver
  <2>1. /\ pc = "input" /\ pc' = "idle" /\ glue # NULL
        /\ delivered' = Append(delivered, glue)
        /\ UNCHANGED <<received, rxQueue, bytes>>
    BY <1>0, <1>11 DEF GlueEthernetInput, TaskInv
  <2>2. OnItsWay = <<glue>> /\ glue \in Frame /\ OnItsWay' = <<>>
    BY <2>1, <1>a, OnItsWayFacts DEF InTransit
  <2>3. Waiting' = Waiting
    BY <2>1 DEF Waiting
  <2>4. Pending = <<glue>> \o Waiting
    BY <2>2 DEF Pending
  <2>5. Pending' = Waiting
    BY <1>0, <2>2, <2>3, ConcatEmptySeq DEF Pending
  <2>6. Pending # <<>> /\ Head(Pending) = glue /\ Tail(Pending) = Waiting
    BY <1>0, <2>2, <2>4, FrontFacts
  <2> QED BY <2>1, <2>5, <2>6 DEF Queue!Deliver, Pending, Waiting
<1>12. ASSUME LwipFree \/ UNCHANGED vars PROVE UNCHANGED Queue!vars
  <2>1. UNCHANGED <<received, rxQueue, bytes, pbuf, pc, cur, glue, delivered>>
    BY <1>12 DEF LwipFree, vars
  <2> QED BY <1>5, <2>1
<1> QED
  BY <1>3, <1>4, <1>6, <1>7, <1>8, <1>9, <1>10, <1>11, <1>12
     DEF Next, TaskStep, Queue!Next

\* Frames reach lwIP-2 in the order the radio received them, each at most
\* once, although the radio refills a buffer while its frame is on its way.
THEOREM ImplementsQueue == SafetySpec => QueueSafety
<1>1. IInv /\ IInv' /\ [Next]_vars => [Queue!Next]_Queue!vars
  BY QueueStep
<1> QED BY QueueInit, <1>1, IInvAlways, PTL
        DEF SafetySpec, QueueSafety, Queue!SafetySpec

=============================================================================
