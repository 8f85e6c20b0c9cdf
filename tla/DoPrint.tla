------------------------------ MODULE DoPrint -------------------------------
(* doprint.c: debug output goes to the serial line once the application    *)
(* allows it, and to a ring buffer before.  The first message after that   *)
(* prints what the ring buffer holds, and gives its memory back.           *)
(*                                                                         *)
(* The characters of a message, and those of the ring buffer, go out one   *)
(* at a time; the calls follow each other.  Line numbers and the words     *)
(* around what is kept are left out, the count of lost characters is not.  *)
EXTENDS Naturals, Sequences

CONSTANTS
  Char,       \* characters
  ROTBUFLEN,  \* a power of two: `& ROTBUFLEN_MASK' wraps an index
  MaxChars,   \* bound: characters printed
  NULL

ASSUME DoPrintConstants ==
  /\ ROTBUFLEN \in Nat \ {0, 1}
  /\ MaxChars \in Nat
  /\ NULL \notin [0..ROTBUFLEN - 1 -> Char]

Slot == 0..ROTBUFLEN - 1

VARIABLES
  doprint_allow,
  rotbuf,    \* the ring buffer, or NULL
  rotin,     \* the oldest character kept
  rotout,    \* where the next is put
  rotsmall,  \* the characters overwritten
  at,        \* where the program is: "idle", in the loop that prints the ring
             \*   buffer ("flush"), or in ets_vprintf with one of the two
             \*   putc: "PUTC", "bufputc"
  shown,     \* what the serial line got
  told,      \* the last count in "(%dcharslost):", or 0
  printed    \* the characters given to one of the two putc

ring == <<rotbuf, rotin, rotout, rotsmall>>
vars == <<doprint_allow, ring, at, shown, told, printed>>

Inc(i) == IF i = ROTBUFLEN - 1 THEN 0 ELSE i + 1

\* From the place i to the place o, and the k-th place from i.
Distance(i, o) == IF i <= o THEN o - i ELSE o + ROTBUFLEN - i

Place(i, k) ==
  IF i + k <= ROTBUFLEN THEN i + k - 1 ELSE i + k - 1 - ROTBUFLEN

\* The characters of buf from the place i to the place o.
Content(buf, i, o) == [k \in 1..Distance(i, o) |-> buf[Place(i, k)]]

\* The characters in the ring buffer, the oldest first.
Used == Distance(rotin, rotout)
Kept == Content(rotbuf, rotin, rotout)

Init ==
  /\ doprint_allow = FALSE
  /\ rotbuf = NULL
  /\ rotin = 0
  /\ rotout = 0
  /\ rotsmall = 0
  /\ at = "idle"
  /\ shown = <<>>
  /\ told = 0
  /\ printed = 0

\* The application opens the serial line, or closes it.
Allow ==
  /\ at = "idle"
  /\ doprint_allow' = ~doprint_allow
  /\ UNCHANGED <<ring, at, shown, told, printed>>

\* (A mistake the runs must find: the new message goes before the old ones.)
DoprintAllowed_NoFlush ==
  /\ at = "idle"
  /\ doprint_allow
  /\ at' = "PUTC"
  /\ UNCHANGED <<doprint_allow, ring, shown, told, printed>>

\* (The count is told only once.)
DoprintAllowed_TellOnce ==
  /\ at = "idle"
  /\ doprint_allow
  /\ IF rotbuf # NULL
     THEN at' = "flush" /\ told' = IF told = 0 THEN rotsmall ELSE told
     ELSE at' = "PUTC" /\ UNCHANGED told
  /\ UNCHANGED <<doprint_allow, ring, shown, printed>>

\* doprint_minus, with leave to print: what is kept goes first.
DoprintAllowed ==
  /\ at = "idle"
  /\ doprint_allow
  /\ IF rotbuf # NULL
     THEN at' = "flush" /\ told' = IF rotsmall # 0 THEN rotsmall ELSE told
     ELSE at' = "PUTC" /\ UNCHANGED told
  /\ UNCHANGED <<doprint_allow, ring, shown, printed>>

\* doprint_minus, without leave: there is a ring buffer, or memory for one,
\* with anything in it.  (Without memory the call returns, and its message
\* is not counted anywhere.)
DoprintBuffered ==
  /\ at = "idle"
  /\ ~doprint_allow
  /\ IF rotbuf # NULL THEN UNCHANGED rotbuf
                      ELSE \E garbage \in [Slot -> Char] : rotbuf' = garbage
  /\ at' = "bufputc"
  /\ UNCHANGED <<doprint_allow, rotin, rotout, rotsmall, shown, told, printed>>

Flush ==
  /\ at = "flush"
  /\ rotin # rotout
  /\ shown' = Append(shown, rotbuf[rotin])
  /\ rotin' = Inc(rotin)
  /\ UNCHANGED <<doprint_allow, rotbuf, rotout, rotsmall, at, told, printed>>

FlushEnd ==
  /\ at = "flush"
  /\ rotin = rotout
  /\ rotbuf' = NULL
  /\ at' = "PUTC"
  /\ UNCHANGED <<doprint_allow, rotin, rotout, rotsmall, shown, told, printed>>

nl_putc(c) ==
  /\ at = "PUTC"
  /\ printed < MaxChars
  /\ shown' = Append(shown, c)
  /\ printed' = printed + 1
  /\ UNCHANGED <<doprint_allow, ring, at, told>>

\* (Mistakes: a full buffer looks empty; the oldest index does not wrap.)
bufputc_Full(c) ==
  /\ at = "bufputc"
  /\ printed < MaxChars
  /\ rotbuf' = [rotbuf EXCEPT ![rotout] = c]
  /\ rotout' = Inc(rotout)
  /\ printed' = printed + 1
  /\ UNCHANGED <<doprint_allow, rotin, rotsmall, at, shown, told>>

bufputc_NoWrap(c) ==
  /\ at = "bufputc"
  /\ printed < MaxChars
  /\ rotbuf' = [rotbuf EXCEPT ![rotout] = c]
  /\ rotout' = Inc(rotout)
  /\ IF Inc(rotout) = rotin
     THEN rotin' = rotin + 1 /\ rotsmall' = rotsmall + 1
     ELSE UNCHANGED <<rotin, rotsmall>>
  /\ printed' = printed + 1
  /\ UNCHANGED <<doprint_allow, at, shown, told>>

bufputc(c) ==
  /\ at = "bufputc"
  /\ printed < MaxChars
  /\ rotbuf' = [rotbuf EXCEPT ![rotout] = c]
  /\ rotout' = Inc(rotout)
  /\ IF Inc(rotout) = rotin
     THEN rotin' = Inc(rotin) /\ rotsmall' = rotsmall + 1
     ELSE UNCHANGED <<rotin, rotsmall>>
  /\ printed' = printed + 1
  /\ UNCHANGED <<doprint_allow, at, shown, told>>

Return ==
  /\ at \in {"PUTC", "bufputc"}
  /\ at' = "idle"
  /\ UNCHANGED <<doprint_allow, ring, shown, told, printed>>

Next ==
  \/ Allow
  \/ DoprintAllowed
  \/ DoprintBuffered
  \/ Flush
  \/ FlushEnd
  \/ \E c \in Char : nl_putc(c) \/ bufputc(c)
  \/ Return

Spec == Init /\ [][Next]_vars

-----------------------------------------------------------------------------
(* Properties.                                                             *)

\* Indices stay in the ring buffer, and nothing is kept when there is none.
TypeOK ==
  /\ doprint_allow \in BOOLEAN
  /\ rotbuf \in [Slot -> Char] \cup {NULL}
  /\ rotin \in Slot /\ rotout \in Slot
  /\ rotbuf = NULL => rotin = rotout
  /\ rotsmall \in Nat
  /\ at \in {"idle", "flush", "PUTC", "bufputc"}
  /\ at \in {"flush", "bufputc"} => rotbuf # NULL
  /\ shown \in Seq(Char)
  /\ told \in Nat
  /\ printed \in 0..MaxChars

\* Every character is on the serial line, in the ring buffer or counted as
\* lost, however often the buffer fills, wraps, drains and is freed.
Accounted == printed = Len(shown) + Used + rotsmall

\* While the ring buffer is printed the reader knows how many characters were
\* lost before it, unless none ever was.
LossTold == at = "flush" => told = printed - Len(shown) - Used

\* The promise.
Log == INSTANCE LossyLog WITH
  Size <- ROTBUFLEN - 1, kept <- Kept, lost <- rotsmall

LogSpec == Log!Spec

=============================================================================
