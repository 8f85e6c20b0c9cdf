--------------------------- MODULE DoPrintProofs ----------------------------
(* What doprint.c's ring buffer keeps and counts, for a buffer of any      *)
(* length and any number of messages.                                      *)
EXTENDS DoPrint, SequenceTheorems, TLAPS

\* The count last told is never ahead, and up to date while the ring buffer
\* is printed.
ToldInv == told <= rotsmall /\ (at = "flush" => told = rotsmall)

\* Nothing is kept while characters go out directly.
DirectInv == at = "PUTC" => rotbuf = NULL

IInv == TypeOK /\ Accounted /\ ToldInv /\ DirectInv

\* The arithmetic of the ring.
LEMMA RingFacts ==
  ASSUME NEW i \in Slot, NEW o \in Slot
  PROVE  /\ Inc(i) \in Slot
         /\ Distance(i, o) \in Slot
         /\ Distance(i, o) \in Nat /\ Distance(i, o) < ROTBUFLEN
         /\ i = o <=> Distance(i, o) = 0
         /\ Inc(o) = i <=> Distance(i, o) = ROTBUFLEN - 1
         /\ i # o => Distance(Inc(i), o) = Distance(i, o) - 1
         /\ Inc(o) # i => Distance(i, Inc(o)) = Distance(i, o) + 1
         /\ Inc(o) = i => Distance(Inc(i), Inc(o)) = Distance(i, o)
BY DoPrintConstants DEF Slot, Distance, Inc

LEMMA PlaceFacts ==
  ASSUME NEW i \in Slot, NEW k \in 1..ROTBUFLEN
  PROVE  /\ Place(i, k) \in Slot
         /\ Place(i, 1) = i
         /\ k < ROTBUFLEN => Place(Inc(i), k) = Place(i, k + 1)
         /\ \A o \in Slot : Place(i, k) = o <=> k = Distance(i, o) + 1
BY DoPrintConstants DEF Slot, Distance, Inc, Place

LEMMA UsedFacts ==
  ASSUME TypeOK
  PROVE  /\ rotin \in Slot /\ rotout \in Slot /\ rotsmall \in Nat
         /\ Used \in Slot /\ Used \in Nat /\ Len(shown) \in Nat
<1>1. rotin \in Slot /\ rotout \in Slot /\ rotsmall \in Nat /\ shown \in Seq(Char)
  BY DEF TypeOK
<1>2. Used \in Slot
  BY <1>1, RingFacts DEF Used
<1>3. Slot \subseteq Nat
  BY DoPrintConstants DEF Slot
<1> QED BY <1>1, <1>2, <1>3

LEMMA InitIInv == Init => IInv
<1> SUFFICES ASSUME Init PROVE IInv OBVIOUS
<1>1. shown \in Seq(Char) /\ Len(shown) = 0
  BY DEF Init
<1>2. rotin \in Slot /\ rotout \in Slot /\ printed \in 0..MaxChars
  BY DoPrintConstants DEF Init, Slot
<1>4. TypeOK
  BY <1>1, <1>2, Zenon DEF Init, TypeOK
<1>3. Used = 0
  BY DEF Init, Used, Distance
<1> QED
  BY <1>1, <1>3, <1>4 DEF Init, IInv, Accounted, ToldInv, DirectInv

\* One step per action; only bufputc moves both ends of the ring.
LEMMA NextIInv == IInv /\ [Next]_vars => IInv'
<1> SUFFICES ASSUME TypeOK, Accounted, ToldInv, DirectInv, [Next]_vars
             PROVE  IInv'
  BY DEF IInv
<1>0. /\ rotin \in Slot /\ rotout \in Slot /\ rotsmall \in Nat
      /\ Used \in Nat /\ Len(shown) \in Nat
  BY UsedFacts
<1>1. CASE UNCHANGED vars
  BY <1>1 DEF vars, ring, IInv, TypeOK, Accounted, ToldInv, DirectInv, Used
<1>2. CASE Allow
  BY <1>2 DEF Allow, ring, IInv, TypeOK, Accounted, ToldInv, DirectInv, Used
<1>3. CASE DoprintAllowed
  BY <1>3 DEF DoprintAllowed, ring, IInv, TypeOK, Accounted, ToldInv, DirectInv, Used
<1>4. CASE DoprintBuffered
  <2>1. rotbuf' \in [Slot -> Char] /\ rotbuf' # NULL
    BY <1>4, DoPrintConstants DEF DoprintBuffered, TypeOK, Slot
  <2> QED
    BY <1>4, <2>1
       DEF DoprintBuffered, IInv, TypeOK, Accounted, ToldInv, DirectInv, Used
<1>5. CASE Flush
  <2>1. shown' = Append(shown, rotbuf[rotin]) /\ rotbuf[rotin] \in Char
    BY <1>5 DEF Flush, TypeOK
  <2>2. shown' \in Seq(Char) /\ Len(shown') = Len(shown) + 1
    BY <2>1 DEF TypeOK
  <2>3. rotin' \in Slot /\ Used' = Used - 1
    BY <1>0, <1>5, RingFacts DEF Flush, Used
  <2>4. TypeOK'
    BY <1>5, <2>2, <2>3 DEF Flush, TypeOK
  <2>5. Accounted'
    BY <1>0, <1>5, <2>2, <2>3 DEF Flush, Accounted
  <2>6. ToldInv'
    BY <1>5 DEF Flush, ToldInv
  <2> QED BY <1>5, <2>4, <2>5, <2>6 DEF Flush, IInv, DirectInv
<1>6. CASE FlushEnd
  BY <1>6 DEF FlushEnd, IInv, TypeOK, Accounted, ToldInv, DirectInv, Used
<1>7. ASSUME NEW c \in Char, nl_putc(c) PROVE IInv'
  <2>1. shown' \in Seq(Char) /\ Len(shown') = Len(shown) + 1
    BY <1>7 DEF nl_putc, TypeOK
  <2>2. printed' = printed + 1 /\ printed' \in 0..MaxChars /\ Used' = Used
    BY <1>7, DoPrintConstants DEF nl_putc, ring, TypeOK, Used
  <2>3. TypeOK'
    BY <1>7, <2>1, <2>2 DEF nl_putc, ring, TypeOK
  <2>4. Accounted'
    BY <1>0, <1>7, <2>1, <2>2 DEF nl_putc, ring, Accounted
  <2>5. ToldInv'
    BY <1>7 DEF nl_putc, ring, ToldInv
  <2> QED BY <1>7, <2>3, <2>4, <2>5 DEF nl_putc, ring, IInv, DirectInv
<1>8. ASSUME NEW c \in Char, bufputc(c) PROVE IInv'
  <2>1. rotbuf' \in [Slot -> Char] /\ rotbuf' # NULL
    BY <1>8, DoPrintConstants DEF bufputc, TypeOK, Slot
  <2>2. /\ rotout' = Inc(rotout)
        /\ Inc(rotout) = rotin => rotin' = Inc(rotin) /\ rotsmall' = rotsmall + 1
        /\ Inc(rotout) # rotin => rotin' = rotin /\ rotsmall' = rotsmall
    BY <1>8 DEF bufputc
  <2>3. rotin' \in Slot /\ rotout' \in Slot /\ rotsmall' \in Nat
    BY <1>0, <2>2, RingFacts
  <2>4. Used' + rotsmall' = Used + rotsmall + 1
    <3>1. CASE Inc(rotout) = rotin
      <4>1. Distance(rotin', rotout') = Distance(rotin, rotout)
        BY <1>0, <2>2, <3>1, RingFacts
      <4>2. Used' = Used /\ rotsmall' = rotsmall + 1
        BY <2>2, <3>1, <4>1 DEF Used
      <4> QED BY <1>0, <4>2
    <3>2. CASE Inc(rotout) # rotin
      <4>0. Distance(rotin, Inc(rotout)) = Distance(rotin, rotout) + 1
        BY <1>0, <3>2, RingFacts
      <4>1. Distance(rotin', rotout') = Distance(rotin, rotout) + 1
        BY <2>2, <3>2, <4>0
      <4>2. Used' = Used + 1 /\ rotsmall' = rotsmall
        BY <2>2, <3>2, <4>1 DEF Used
      <4> QED BY <1>0, <4>2
    <3> QED BY <3>1, <3>2
  <2>5. Used' \in Nat
    BY <2>3, RingFacts, DoPrintConstants DEF Used, Slot
  <2>6. printed' = printed + 1 /\ printed' \in 0..MaxChars
    BY <1>8, DoPrintConstants DEF bufputc, TypeOK
  <2>7. shown' = shown /\ told' = told /\ at' = "bufputc" /\ at = "bufputc"
    BY <1>8 DEF bufputc
  <2>8. TypeOK'
    BY <1>8, <2>1, <2>3, <2>6, <2>7 DEF bufputc, TypeOK
  <2>9. printed' = Len(shown') + Used' + rotsmall'
    <3>1. printed = Len(shown) + Used + rotsmall
      BY DEF Accounted
    <3> HIDE DEF Used
    <3>2. printed + 1 = Len(shown) + (Used' + rotsmall')
      BY <3>1, <1>0, <2>4
    <3>3. Len(shown) + (Used' + rotsmall') = Len(shown) + Used' + rotsmall'
      BY <1>0, <2>3, <2>5
    <3> QED BY <3>2, <3>3, <2>6, <2>7
  <2>10. ToldInv'
    BY <1>8 DEF bufputc, TypeOK, ToldInv
  <2> QED BY <2>7, <2>8, <2>9, <2>10 DEF IInv, Accounted, DirectInv
<1>9. CASE Return
  BY <1>9 DEF Return, ring, IInv, TypeOK, Accounted, ToldInv, DirectInv, Used
<1> QED
  BY <1>1, <1>2, <1>3, <1>4, <1>5, <1>6, <1>7, <1>8, <1>9 DEF Next

\* The inductive invariant of the ring buffer.
THEOREM IInvAlways == Spec => []IInv
<1> QED BY InitIInv, NextIInv, PTL DEF Spec

\* No index of the ring buffer leaves it, and it is never used unallocated.
THEOREM RingTypeCorrect == Spec => []TypeOK
<1>1. IInv => TypeOK BY DEF IInv
<1> QED BY IInvAlways, <1>1, PTL

\* Every character printed is shown, kept or counted as lost.
THEOREM NoCharacterUncounted == Spec => []Accounted
<1>1. IInv => Accounted BY DEF IInv
<1> QED BY IInvAlways, <1>1, PTL

\* The count the reader is told is what is missing.
THEOREM LossIsTold == Spec => []LossTold
<1>1. IInv => LossTold
  <2> SUFFICES ASSUME TypeOK, Accounted, ToldInv PROVE LossTold
    BY DEF IInv
  <2>1. Used \in Nat /\ Len(shown) \in Nat /\ rotsmall \in Nat
    BY UsedFacts
  <2> QED BY <2>1 DEF Accounted, ToldInv, LossTold
<1> QED BY IInvAlways, <1>1, PTL

-----------------------------------------------------------------------------
(* DoPrint implements LossyLog.                                            *)

LEMMA ContentFacts ==
  ASSUME NEW i \in Slot, NEW o \in Slot, NEW buf \in [Slot -> Char]
  PROVE  /\ Content(buf, i, o) \in Seq(Char)
         /\ Len(Content(buf, i, o)) = Distance(i, o)
         /\ \A k \in 1..Distance(i, o) :
              Content(buf, i, o)[k] = buf[Place(i, k)]
<1>1. Distance(i, o) \in Nat /\ Distance(i, o) < ROTBUFLEN
  BY RingFacts
<1>2. \A k \in 1..Distance(i, o) : Place(i, k) \in Slot
  BY <1>1, PlaceFacts, DoPrintConstants
<1>3. Content(buf, i, o) \in [1..Distance(i, o) -> Char]
  BY <1>2 DEF Content
<1>4. Content(buf, i, o) \in Seq(Char) /\ Len(Content(buf, i, o)) = Distance(i, o)
  BY <1>1, <1>3
<1> QED BY <1>4 DEF Content

\* The same if there is nothing in it, whatever buf is.
LEMMA ContentEmpty ==
  ASSUME NEW i \in Slot, NEW buf
  PROVE  Content(buf, i, i) = <<>>
<1>1. Distance(i, i) = 0
  BY RingFacts
<1> QED BY <1>1 DEF Content

\* The ring buffer is a queue: the character at rotin is its head ...
LEMMA RingDrain ==
  ASSUME NEW i \in Slot, NEW o \in Slot, NEW buf \in [Slot -> Char], i # o
  PROVE  /\ Content(buf, i, o) # <<>>
         /\ Head(Content(buf, i, o)) = buf[i]
         /\ Content(buf, Inc(i), o) = Tail(Content(buf, i, o))
<1> DEFINE s == Content(buf, i, o)
           t == Content(buf, Inc(i), o)
           n == Distance(i, o)
<1>1. /\ n \in Nat \ {0} /\ n < ROTBUFLEN
      /\ Inc(i) \in Slot /\ Distance(Inc(i), o) = n - 1
  BY RingFacts
<1>2. s \in Seq(Char) /\ Len(s) = n /\ \A k \in 1..n : s[k] = buf[Place(i, k)]
  BY ContentFacts
<1>3. /\ t \in Seq(Char) /\ Len(t) = n - 1
      /\ \A k \in 1..n - 1 : t[k] = buf[Place(Inc(i), k)]
  BY <1>1, ContentFacts
<1>4. \A k \in 1..n - 1 : Place(Inc(i), k) = Place(i, k + 1)
  BY <1>1, PlaceFacts, DoPrintConstants
<1>5. Place(i, 1) = i
  BY PlaceFacts, DoPrintConstants
<1> HIDE DEF s, t, n
<1>6. s # <<>> /\ Head(s) = buf[i]
  BY <1>1, <1>2, <1>5
<1>7. Tail(s) \in Seq(Char) /\ Len(Tail(s)) = n - 1
      /\ \A k \in 1..n - 1 : Tail(s)[k] = s[k + 1]
  BY <1>2, <1>6, HeadTailProperties
<1>8. \A k \in 1..n - 1 : t[k] = Tail(s)[k]
  BY <1>1, <1>2, <1>3, <1>4, <1>7
<1>9. t = Tail(s)
  BY <1>3, <1>7, <1>8, SeqEqual
<1> QED BY <1>6, <1>9 DEF s, t

\* ... and the one put at rotout its last,
LEMMA RingKeep ==
  ASSUME NEW i \in Slot, NEW o \in Slot, NEW buf \in [Slot -> Char],
         NEW c \in Char, Inc(o) # i
  PROVE  Content([buf EXCEPT ![o] = c], i, Inc(o))
           = Append(Content(buf, i, o), c)
<1> DEFINE b == [buf EXCEPT ![o] = c]
           s == Content(buf, i, o)
           t == Content(b, i, Inc(o))
           n == Distance(i, o)
<1>1. /\ n \in Nat /\ n + 1 < ROTBUFLEN
      /\ Inc(o) \in Slot /\ Distance(i, Inc(o)) = n + 1
  <2>1. Inc(o) \in Slot /\ Distance(i, Inc(o)) = n + 1 /\ n \in Nat
    BY RingFacts
  <2>2. Distance(i, Inc(o)) < ROTBUFLEN
    BY <2>1, RingFacts
  <2> QED BY <2>1, <2>2
<1>2. s \in Seq(Char) /\ Len(s) = n /\ \A k \in 1..n : s[k] = buf[Place(i, k)]
  BY ContentFacts
<1>3. b \in [Slot -> Char]
  OBVIOUS
<1>4. /\ t \in Seq(Char) /\ Len(t) = n + 1
      /\ \A k \in 1..n + 1 : t[k] = b[Place(i, k)]
  <2> HIDE DEF b
  <2>1. /\ t \in Seq(Char) /\ Len(t) = Distance(i, Inc(o))
        /\ \A k \in 1..Distance(i, Inc(o)) : t[k] = b[Place(i, k)]
    BY <1>1, <1>3, ContentFacts
  <2> QED BY <1>1, <2>1
<1>5. \A k \in 1..n + 1 : Place(i, k) \in Slot /\ (Place(i, k) = o <=> k = n + 1)
  <2>1. \A k \in 1..n + 1 : k \in 1..ROTBUFLEN
    BY <1>1, DoPrintConstants
  <2> QED BY <2>1, PlaceFacts
<1>6. \A k \in 1..n + 1 : b[Place(i, k)] = IF k = n + 1 THEN c ELSE buf[Place(i, k)]
  BY <1>5
<1> HIDE DEF s, t, n, b
<1>7. /\ Append(s, c) \in Seq(Char) /\ Len(Append(s, c)) = n + 1
      /\ \A k \in 1..n : Append(s, c)[k] = s[k]
      /\ Append(s, c)[n + 1] = c
  BY <1>1, <1>2, AppendProperties
<1>8. \A k \in 1..n + 1 : t[k] = Append(s, c)[k]
  BY <1>1, <1>2, <1>4, <1>6, <1>7
<1>9. t = Append(s, c)
  BY <1>4, <1>7, <1>8, SeqEqual
<1> QED BY <1>9 DEF s, t, b

\* which when the ring is full takes the place of the head.
LEMMA RingReplace ==
  ASSUME NEW i \in Slot, NEW o \in Slot, NEW buf \in [Slot -> Char],
         NEW c \in Char, Inc(o) = i
  PROVE  Content([buf EXCEPT ![o] = c], Inc(i), Inc(o))
           = Append(Tail(Content(buf, i, o)), c)
<1>1. i # o /\ Inc(i) \in Slot
  <2>1. i # o
    BY DoPrintConstants DEF Inc, Slot
  <2> QED BY <2>1, RingFacts
<1>2. Content(buf, Inc(i), o) = Tail(Content(buf, i, o))
  BY <1>1, RingDrain
<1>3. Inc(o) # Inc(i)
  BY <1>1, DoPrintConstants DEF Inc, Slot
<1>4. Content([buf EXCEPT ![o] = c], Inc(i), Inc(o))
        = Append(Content(buf, Inc(i), o), c)
  BY <1>1, <1>3, RingKeep
<1> QED BY <1>2, <1>4

LEMMA LogInit == Init => Log!Init
<1> SUFFICES ASSUME Init PROVE Log!Init OBVIOUS
<1>1. rotin \in Slot /\ rotin = rotout
  BY DoPrintConstants DEF Init, Slot
<1>2. Kept = <<>>
  BY <1>1, ContentEmpty DEF Kept
<1> QED BY <1>2 DEF Init, Log!Init

\* One step per action: doprint_minus and its return change nothing the reader
\* of the log could see, but for the count it prints.
LEMMA LogStep == IInv /\ [Next]_vars => [Log!Next]_Log!vars
<1> SUFFICES ASSUME TypeOK, DirectInv, ToldInv, [Next]_vars
             PROVE  [Log!Next]_Log!vars
  BY DEF IInv
<1>0. rotin \in Slot /\ rotout \in Slot /\ rotsmall \in Nat
  BY UsedFacts
<1>1. CASE UNCHANGED vars
  BY <1>1 DEF vars, ring, Kept, Log!vars
<1>2. CASE Allow
  BY <1>2 DEF Allow, ring, Kept, Log!vars
<1>3. CASE DoprintAllowed
  <2>1. Kept' = Kept /\ rotsmall' = rotsmall /\ shown' = shown
    BY <1>3 DEF DoprintAllowed, ring, Kept
  <2>2. told' = told \/ told' = rotsmall
    BY <1>3 DEF DoprintAllowed
  <2> QED BY <2>1, <2>2 DEF Log!vars, Log!Next, Log!Tell
<1>4. CASE DoprintBuffered
  <2>1. /\ rotin' = rotin /\ rotout' = rotout /\ rotsmall' = rotsmall
        /\ shown' = shown /\ told' = told
        /\ rotbuf # NULL => rotbuf' = rotbuf
    BY <1>4 DEF DoprintBuffered
  <2>2. Kept' = Kept
    <3>1. CASE rotbuf # NULL
      BY <2>1, <3>1 DEF Kept
    <3>2. CASE rotbuf = NULL
      <4>1. rotin = rotout
        BY <3>2 DEF TypeOK
      <4>2. Content(rotbuf', rotin, rotin) = <<>> /\ Content(rotbuf, rotin, rotin) = <<>>
        BY <1>0, ContentEmpty
      <4> QED BY <2>1, <4>1, <4>2 DEF Kept
    <3> QED BY <3>1, <3>2
  <2> QED BY <2>1, <2>2 DEF Log!vars
<1>5. CASE Flush
  <2>1. /\ rotin # rotout /\ rotin' = Inc(rotin) /\ rotbuf' = rotbuf
        /\ rotout' = rotout /\ shown' = Append(shown, rotbuf[rotin])
        /\ rotsmall' = rotsmall /\ told' = told
    BY <1>5 DEF Flush
  <2>2. rotbuf \in [Slot -> Char]
    BY <2>1 DEF TypeOK
  <2>3. /\ Kept # <<>> /\ Head(Kept) = rotbuf[rotin]
        /\ Content(rotbuf, Inc(rotin), rotout) = Tail(Kept)
    BY <1>0, <2>1, <2>2, RingDrain DEF Kept
  <2>4. Kept' = Tail(Kept)
    BY <2>1, <2>3 DEF Kept
  <2> QED BY <2>1, <2>3, <2>4 DEF Log!Next, Log!Drain
<1>6. CASE FlushEnd
  <2>1. /\ rotin = rotout /\ rotin' = rotin /\ rotout' = rotout
        /\ rotsmall' = rotsmall /\ shown' = shown /\ told' = told
    BY <1>6 DEF FlushEnd
  <2>2. Content(rotbuf', rotin, rotin) = <<>> /\ Content(rotbuf, rotin, rotin) = <<>>
    BY <1>0, ContentEmpty
  <2>3. Kept' = Kept
    BY <2>1, <2>2 DEF Kept
  <2> QED BY <2>1, <2>3 DEF Log!vars
<1>7. ASSUME NEW c \in Char, nl_putc(c) PROVE Log!Next
  <2>1. at = "PUTC" /\ shown' = Append(shown, c)
        /\ rotbuf' = rotbuf /\ rotin' = rotin /\ rotout' = rotout
        /\ rotsmall' = rotsmall /\ told' = told
    BY <1>7 DEF nl_putc, ring
  <2>2. rotin = rotout
    BY <2>1 DEF DirectInv, TypeOK
  <2>3. Kept = <<>>
    BY <1>0, <2>2, ContentEmpty DEF Kept
  <2>4. Kept' = Kept
    BY <2>1 DEF Kept
  <2> QED BY <2>1, <2>3, <2>4 DEF Log!Next, Log!Show
<1>8. ASSUME NEW c \in Char, bufputc(c) PROVE Log!Next
  <2>1. /\ rotbuf' = [rotbuf EXCEPT ![rotout] = c] /\ rotout' = Inc(rotout)
        /\ shown' = shown /\ told' = told
    BY <1>8 DEF bufputc
  <2>2. rotbuf \in [Slot -> Char]
    BY <1>8 DEF bufputc, TypeOK
  <2>3. Kept \in Seq(Char) /\ Len(Kept) = Distance(rotin, rotout)
    BY <1>0, <2>2, ContentFacts DEF Kept
  <2>4. CASE Inc(rotout) = rotin
    <3>1. rotin' = Inc(rotin) /\ rotsmall' = rotsmall + 1
      BY <1>8, <2>4 DEF bufputc
    <3>2. Content([rotbuf EXCEPT ![rotout] = c], Inc(rotin), Inc(rotout))
            = Append(Tail(Kept), c)
      BY <1>0, <2>2, <2>4, RingReplace DEF Kept
    <3>3. Kept' = Append(Tail(Kept), c)
      BY <2>1, <3>1, <3>2 DEF Kept
    <3>4. Len(Kept) = ROTBUFLEN - 1
      BY <1>0, <2>3, <2>4, RingFacts
    <3> QED BY <2>1, <3>1, <3>3, <3>4 DEF Log!Next, Log!Replace
  <2>5. CASE Inc(rotout) # rotin
    <3>1. rotin' = rotin /\ rotsmall' = rotsmall
      BY <1>8, <2>5 DEF bufputc
    <3>2. Content([rotbuf EXCEPT ![rotout] = c], rotin, Inc(rotout))
            = Append(Kept, c)
      BY <1>0, <2>2, <2>5, RingKeep DEF Kept
    <3>3. Kept' = Append(Kept, c)
      BY <2>1, <3>1, <3>2 DEF Kept
    <3>4. Len(Kept) < ROTBUFLEN - 1
      <4>1. Distance(rotin, rotout) \in Nat /\ Distance(rotin, rotout) < ROTBUFLEN
        BY <1>0, RingFacts
      <4>2. Distance(rotin, rotout) # ROTBUFLEN - 1
        BY <1>0, <2>5, RingFacts
      <4> QED BY <2>3, <4>1, <4>2, DoPrintConstants
    <3> QED BY <2>1, <3>1, <3>3, <3>4 DEF Log!Next, Log!Keep
  <2> QED BY <2>4, <2>5
<1>9. CASE Return
  BY <1>9 DEF Return, ring, Kept, Log!vars
<1> QED
  BY <1>1, <1>2, <1>3, <1>4, <1>5, <1>6, <1>7, <1>8, <1>9 DEF Next

\* Characters come out in the order they were printed, the oldest lost first,
\* and none overtakes one that is kept: doprint.c keeps LossyLog's promise.
THEOREM ImplementsLog == Spec => LogSpec
<1> QED
  BY IInvAlways, LogInit, LogStep, PTL DEF Spec, LogSpec, Log!Spec

=============================================================================
