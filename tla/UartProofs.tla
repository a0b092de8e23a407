----------------------------- MODULE UartProofs -----------------------------
(***************************************************************************)
(* The copy loops of adv_uart_xmit and adv_uart_recv_chars, for rings and  *)
(* serial core's buffers of every size: no piece runs past the end of a    *)
(* memory, three rounds are enough, and nothing is lost, repeated or left  *)
(* without a reason.                                                       *)
(***************************************************************************)
EXTENDS UartRecv, RingBufProofs

(***************************************************************************)
(* The inductive invariants, one for each loop.                            *)
(***************************************************************************)

\* How many bytes adv_uart_xmit has to copy, and how many it has copied.
ToCopy == least(given.pending, get_rb_room(given.rb))
Copied == ToCopy - count

\* The numbers of the first c pending bytes.
Numbers(c) == [i \in 1 .. c |-> i]

\* How often what remains has still to wrap around, in the ring and in the serial
\* core's buffer.  One more round than that is enough.
WrapsLeft ==
    (IF rb.tail + count > Size THEN 1 ELSE 0) + (IF xtail + count > XmitSize THEN 1 ELSE 0)

LoopInv ==
    /\ count \in 1 .. ToCopy
    /\ get_rb_length(rb) = get_rb_length(given.rb) + Copied
    /\ xtail = (given.xtail + Copied) % XmitSize
    /\ Unread(rb, mem) = Unread(given.rb, OldMem) \o Numbers(Copied)
    /\ tx_lsize = get_rb_lroom(rb)
    /\ max_retry \in Nat /\ max_retry > WrapsLeft

XmitInv ==
    at \in {"entry", "loop", "return"} =>
        /\ given.rb \in Ring /\ given.xtail \in XPos /\ given.pending \in XPos
        /\ rb \in Ring /\ mem \in [Pos -> Int]
        /\ at = "entry" => /\ rb = given.rb /\ mem = OldMem
                           /\ xtail = given.xtail /\ max_retry = MaxRetry
        /\ at = "loop" => LoopInv
        /\ AllCopied

\* A ring has two pieces at most: while the tty layer refuses nothing, the first
\* round takes all up to the end of the memory and the second the rest.
RoundsSuffice ==
    \/ max_retry = MaxRetry
    \/ max_retry = MaxRetry - 1 /\ rb.head = 0
    \/ get_rb_length(rb) = 0

RecvInv ==
    at \in {"recv", "hand", "push", "done"} =>
        /\ given.rb \in Ring
        /\ rb \in Ring /\ ~rb.clean /\ mem = OldMem /\ max_retry \in Int
        /\ throttled \in BOOLEAN /\ refused \in BOOLEAN /\ tty \in Seq(Int)
        /\ NoByteLost
        /\ get_rb_length(rb) <= get_rb_length(given.rb)
        /\ at = "recv" => rb = given.rb /\ max_retry = MaxRetry /\ ~refused /\ ~pushed
        /\ at \in {"hand", "push"} => count = get_rb_length(rb)
        /\ at = "hand" => refused \/ RoundsSuffice
        /\ at = "push" => refused \/ count = 0
        /\ RoomIsAnnounced

\* One of the two loops is running.
Places == at \in {"entry", "loop", "return", "recv", "hand", "push", "done"}

CallInv == Places /\ XmitInv /\ RecvInv
----------------------------------------------------------------------------
(* The serial core's buffer wraps around as the ring does.                 *)

\* A number below twice the buffer's size is wrapped around at most once.
LEMMA XmitWrap ==
    ASSUME NEW x \in Nat, x < 2 * XmitSize
    PROVE  x % XmitSize = IF x < XmitSize THEN x ELSE x - XmitSize
  BY XmitAssumption

\* The distance of two places of the buffer is wrapped upwards once if it is negative.
LEMMA XmitWrapDown ==
    ASSUME NEW x \in Int, -XmitSize < x, x < XmitSize
    PROVE  x % XmitSize = IF x >= 0 THEN x ELSE x + XmitSize
  BY XmitAssumption

\* What is b places behind the place a places behind g is a + b places behind g, and
\* has that distance from g.
LEMMA XmitAround ==
    ASSUME NEW g \in XPos, NEW a \in Nat, NEW b \in Nat, a + b < XmitSize
    PROVE  /\ (g + a) % XmitSize \in XPos
           /\ (((g + a) % XmitSize) + b) % XmitSize = (g + (a + b)) % XmitSize
           /\ (((g + (a + b)) % XmitSize) - g) % XmitSize = a + b
<1>1. /\ g \in Nat /\ g < XmitSize /\ XmitSize \in Nat /\ a < XmitSize
      /\ g + a \in Nat /\ g + (a + b) \in Nat
  BY XmitAssumption DEF XPos
<1>2. /\ (g + a) % XmitSize = IF g + a < XmitSize THEN g + a ELSE g + a - XmitSize
      /\ (g + (a + b)) % XmitSize
            = IF g + (a + b) < XmitSize THEN g + (a + b) ELSE g + (a + b) - XmitSize
  <2>1. \A x \in Nat : x < 2 * XmitSize =>
            x % XmitSize = IF x < XmitSize THEN x ELSE x - XmitSize
    BY XmitWrap
  <2>2. g + a < 2 * XmitSize /\ g + (a + b) < 2 * XmitSize
    BY <1>1
  <2> QED
    BY <1>1, <2>1, <2>2
<1>3. (g + a) % XmitSize \in XPos
  BY <1>1, <1>2 DEF XPos
<1>4. (((g + a) % XmitSize) + b) % XmitSize = (g + (a + b)) % XmitSize
  <2>1. CASE g + a < XmitSize
    <3>1. g + a + b = g + (a + b)
      BY <1>1
    <3> QED
      BY <1>2, <2>1, <3>1
  <2>2. CASE g + a >= XmitSize
    <3>1. g + a - XmitSize + b \in Nat /\ g + a - XmitSize + b < XmitSize
      BY <1>1, <2>2
    <3>2. (g + a - XmitSize + b) % XmitSize = g + a - XmitSize + b
      BY <1>1, <3>1, XmitWrap
    <3> QED
      BY <1>1, <1>2, <2>2, <3>2
  <2> QED
    BY <1>1, <2>1, <2>2
<1>5. (((g + (a + b)) % XmitSize) - g) % XmitSize = a + b
  <2>1. CASE g + (a + b) < XmitSize
    <3>1. g + (a + b) - g = a + b /\ -XmitSize < a + b
      BY <1>1
    <3>2. (a + b) % XmitSize = a + b
      BY <1>1, XmitWrap
    <3> QED
      BY <1>1, <1>2, <2>1, <3>1, <3>2
  <2>2. CASE g + (a + b) >= XmitSize
    <3>1. /\ g + (a + b) - XmitSize - g \in Int
          /\ -XmitSize < g + (a + b) - XmitSize - g
          /\ g + (a + b) - XmitSize - g < 0
      BY <1>1, <2>2
    <3>2. (g + (a + b) - XmitSize - g) % XmitSize = g + (a + b) - XmitSize - g + XmitSize
      BY <1>1, <3>1, XmitWrapDown
    <3> QED
      BY <1>1, <1>2, <2>2, <3>2
  <2> QED
    BY <1>1, <2>1, <2>2
<1> QED
  BY <1>3, <1>4, <1>5

\* Memories and the pending bytes.
LEMMA MemoryTypes ==
    /\ OldMem \in [Pos -> Int]
    /\ \A c \in Nat : Numbers(c) \in Seq(Int) /\ Len(Numbers(c)) = c
<1>1. OldMem \in [Pos -> Int]
  BY SizeAssumption DEF OldMem, Pos
<1>2. ASSUME NEW c \in Nat
      PROVE  Numbers(c) \in Seq(Int) /\ Len(Numbers(c)) = c
  <2>1. Numbers(c) \in [1 .. c -> Int]
    BY DEF Numbers
  <2> QED
    BY <2>1 DEF Numbers
<1> QED
  BY <1>1, <1>2

----------------------------------------------------------------------------
(* adv_uart_xmit.                                                          *)

\* What the loop's invariant says of the numbers the code computes with: the piece is
\* what remains, or ends where one of the two memories ends, whichever comes first.
LEMMA PieceLength ==
    ASSUME XmitInv, at = "loop"
    PROVE  /\ mcplen \in Nat /\ 0 < mcplen /\ mcplen <= count
           /\ mcplen <= Size - rb.tail /\ mcplen <= XmitSize - xtail
           /\ mcplen \in {count, Size - rb.tail, XmitSize - xtail}
           /\ count <= get_rb_room(rb) /\ count <= ToCopy /\ ToCopy <= given.pending
           /\ ToCopy <= get_rb_room(given.rb)
           /\ count \in Nat /\ Copied \in Nat /\ ToCopy \in Nat
           /\ rb.tail \in Pos /\ rb.head \in Pos /\ xtail \in XPos
           /\ given.pending < XmitSize /\ get_rb_room(rb) < Size
<1>1. /\ given.rb \in Ring /\ given.xtail \in XPos /\ given.pending \in XPos
      /\ rb \in Ring /\ LoopInv
  BY DEF XmitInv
<1>2. /\ rb.tail \in Pos /\ rb.head \in Pos /\ given.rb.tail \in Pos /\ given.rb.head \in Pos
  BY <1>1 DEF Ring
<1>3. get_rb_room(given.rb) \in Pos /\ get_rb_room(rb) \in Pos
  BY <1>2, RoomType
<1>4. /\ given.pending \in Nat /\ given.pending < XmitSize
      /\ get_rb_room(given.rb) \in Nat /\ get_rb_room(given.rb) < Size
      /\ get_rb_room(rb) \in Nat /\ get_rb_room(rb) < Size
      /\ rb.tail \in Nat /\ rb.tail < Size /\ Size \in Nat /\ XmitSize \in Nat
  BY <1>1, <1>2, <1>3, SizeAssumption, XmitAssumption DEF Pos, XPos
<1>5. ToCopy \in Nat /\ ToCopy <= given.pending /\ ToCopy <= get_rb_room(given.rb)
  BY <1>4 DEF ToCopy, least
<1>6. count \in Nat /\ 0 < count /\ count <= ToCopy /\ Copied \in Nat
  BY <1>1, <1>5 DEF LoopInv, Copied
<1>7. count <= get_rb_room(rb)
  <2>1. get_rb_length(given.rb) \in Nat /\ get_rb_length(rb) \in Nat
    BY <1>2, LengthType, SizeAssumption DEF Pos
  <2>2. get_rb_length(rb) = get_rb_length(given.rb) + (ToCopy - count)
    BY <1>1 DEF LoopInv, Copied
  <2> QED
    BY <1>4, <1>5, <1>6, <2>1, <2>2 DEF get_rb_room
<1>8. xtail \in XPos
  <2>1. Copied + 0 < XmitSize
    BY <1>4, <1>5, <1>6 DEF Copied
  <2>2. (given.xtail + Copied) % XmitSize \in XPos
    BY <1>1, <1>6, <2>1, XmitAround
  <2> QED
    BY <1>1, <2>2 DEF LoopInv
<1>9. xtail \in Nat /\ xtail < XmitSize
  BY <1>4, <1>8 DEF XPos
<1> DEFINE m == least(count, tx_lsize)
<1>10. /\ m \in Nat /\ 0 < m /\ m <= count /\ m <= Size - rb.tail
       /\ m = count \/ m = Size - rb.tail
  <2>1. tx_lsize = IF Size - rb.tail < get_rb_room(rb) THEN Size - rb.tail ELSE get_rb_room(rb)
    BY <1>1 DEF LoopInv, get_rb_lroom, least
  <2>2. m = IF count < tx_lsize THEN count ELSE tx_lsize
    BY DEF least
  <2> QED
    BY <1>4, <1>6, <1>7, <2>1, <2>2
<1> HIDE DEF m
<1>11. mcplen = IF (xtail + m) % XmitSize < xtail THEN XmitSize - xtail ELSE m
  BY DEF mcplen, m
<1>12. m < XmitSize /\ xtail + m < 2 * XmitSize /\ xtail + m \in Nat
  BY <1>4, <1>5, <1>6, <1>9, <1>10
<1>13. (xtail + m) % XmitSize = IF xtail + m < XmitSize THEN xtail + m ELSE xtail + m - XmitSize
  BY <1>4, <1>9, <1>10, <1>12, XmitAssumption
<1>14. mcplen = IF xtail + m <= XmitSize THEN m ELSE XmitSize - xtail
  BY <1>4, <1>9, <1>10, <1>11, <1>12, <1>13
<1>15. /\ mcplen \in Nat /\ 0 < mcplen /\ mcplen <= count
       /\ mcplen <= Size - rb.tail /\ mcplen <= XmitSize - xtail
       /\ mcplen \in {count, Size - rb.tail, XmitSize - xtail}
  BY <1>4, <1>6, <1>9, <1>10, <1>14
<1> QED
  BY <1>2, <1>4, <1>5, <1>6, <1>7, <1>8, <1>15

\* The bytes of the piece are the pending bytes that follow those already copied.
LEMMA PieceBytes ==
    ASSUME XmitInv, at = "loop"
    PROVE  [i \in 1 .. mcplen |-> XmitByte((xtail + i - 1) % XmitSize)]
              = [i \in 1 .. mcplen |-> Copied + i]
<1>1. /\ given.xtail \in XPos /\ xtail = (given.xtail + Copied) % XmitSize
      /\ given.pending \in Nat /\ XmitSize \in Nat
  BY XmitAssumption DEF XmitInv, LoopInv, XPos
<1>2. /\ mcplen \in Nat /\ mcplen <= count /\ count \in Nat /\ Copied \in Nat /\ ToCopy \in Nat
      /\ Copied + count <= given.pending /\ given.pending < XmitSize
      /\ xtail \in Nat
  <2>1. /\ mcplen \in Nat /\ mcplen <= count /\ count \in Nat /\ Copied \in Nat
        /\ ToCopy \in Nat /\ ToCopy <= given.pending /\ given.pending < XmitSize
        /\ xtail \in XPos
    BY PieceLength
  <2> QED
    BY <1>1, <2>1 DEF Copied, XPos
<1>3. ASSUME NEW i \in 1 .. mcplen
      PROVE  XmitByte((xtail + i - 1) % XmitSize) = Copied + i
  <2> DEFINE b == i - 1
             p == (xtail + i - 1) % XmitSize
  <2>1. b \in Nat /\ Copied + b < given.pending /\ Copied + b < XmitSize /\ Copied + b + 1 = Copied + i
        /\ xtail + i - 1 = xtail + b /\ Copied + b \in Nat
    BY <1>1, <1>2
  <2>2. p = (xtail + b) % XmitSize
    BY <2>1
  <2> HIDE DEF b, p
  <2>3. (p - given.xtail) % XmitSize = Copied + b
    <3>1. /\ (((given.xtail + Copied) % XmitSize) + b) % XmitSize
                = (given.xtail + (Copied + b)) % XmitSize
          /\ (((given.xtail + (Copied + b)) % XmitSize) - given.xtail) % XmitSize = Copied + b
      BY <1>1, <1>2, <2>1, XmitAround
    <3> QED
      BY <1>1, <2>2, <3>1
  <2>4. XmitByte(p) = Copied + b + 1
    BY <2>1, <2>3 DEF XmitByte
  <2> QED
    BY <2>1, <2>4 DEF p
<1> QED
  BY <1>3

\* Appending the next numbers to the first c gives the first c + m.
LEMMA NumbersAppend ==
    ASSUME NEW c \in Nat, NEW m \in Nat
    PROVE  /\ [i \in 1 .. m |-> c + i] \in Seq(Int)
           /\ Len([i \in 1 .. m |-> c + i]) = m
           /\ Numbers(c) \o [i \in 1 .. m |-> c + i] = Numbers(c + m)
<1> DEFINE s == [i \in 1 .. m |-> c + i]
<1>1. s \in Seq(Int) /\ Len(s) = m /\ \A i \in 1 .. m : s[i] = c + i
  <2>1. s \in [1 .. m -> Int]
    OBVIOUS
  <2> QED
    BY <2>1
<1>2. /\ Numbers(c) \in Seq(Int) /\ Len(Numbers(c)) = c
      /\ Numbers(c + m) \in Seq(Int) /\ Len(Numbers(c + m)) = c + m
  BY MemoryTypes
<1>3. /\ \A i \in 1 .. c : Numbers(c)[i] = i
      /\ \A i \in 1 .. c + m : Numbers(c + m)[i] = i
  BY DEF Numbers
<1> HIDE DEF s
<1>4. /\ Numbers(c) \o s \in Seq(Int) /\ Len(Numbers(c) \o s) = c + m
      /\ \A i \in 1 .. c + m : (Numbers(c) \o s)[i] = IF i <= c THEN Numbers(c)[i] ELSE s[i - c]
  <2>1. /\ Numbers(c) \o s \in Seq(Int) /\ Len(Numbers(c) \o s) = Len(Numbers(c)) + Len(s)
        /\ \A i \in 1 .. Len(Numbers(c)) + Len(s) :
              (Numbers(c) \o s)[i] = IF i <= Len(Numbers(c)) THEN Numbers(c)[i]
                                     ELSE s[i - Len(Numbers(c))]
    BY <1>1, <1>2, ConcatProperties
  <2>2. Len(Numbers(c)) = c /\ Len(s) = m
    BY <1>1, <1>2
  <2> QED
    BY <2>1, <2>2
<1>5. \A i \in 1 .. c + m : (Numbers(c) \o s)[i] = Numbers(c + m)[i]
  <2> SUFFICES ASSUME NEW i \in 1 .. c + m
               PROVE  (Numbers(c) \o s)[i] = Numbers(c + m)[i]
    OBVIOUS
  <2>1. CASE i <= c
    BY <1>3, <1>4, <2>1
  <2>2. CASE i > c
    <3>1. i - c \in 1 .. m /\ c + (i - c) = i
      BY <2>2
    <3> QED
      BY <1>1, <1>3, <1>4, <2>2, <3>1
  <2>3. i <= c \/ i > c
    OBVIOUS
  <2> QED
    BY <2>1, <2>2, <2>3
<1>6. Numbers(c) \o s = Numbers(c + m)
  BY <1>2, <1>4, <1>5, SeqEqual
<1> QED
  BY <1>1, <1>6 DEF s

\* A piece shorter than what remains ends where one of the memories ends, and what
\* remains then does not wrap around there again.
LEMMA WrapsDecrease ==
    ASSUME XmitInv, CopyPiece, count' > 0
    PROVE  WrapsLeft \in Nat /\ WrapsLeft' \in Nat /\ WrapsLeft' < WrapsLeft
<1> DEFINE m == mcplen
<1>1. at = "loop" /\ count' = count - m /\ rb' = move_rb_tail(rb, m)
      /\ xtail' = (xtail + m) % XmitSize
  BY DEF CopyPiece
<1>2. /\ m \in Nat /\ 0 < m /\ m <= count /\ m <= Size - rb.tail /\ m <= XmitSize - xtail
      /\ m \in {count, Size - rb.tail, XmitSize - xtail}
      /\ count <= get_rb_room(rb) /\ count <= ToCopy /\ ToCopy <= given.pending
      /\ count \in Nat /\ ToCopy \in Nat /\ rb.tail \in Pos /\ rb.head \in Pos /\ xtail \in XPos
      /\ given.pending < XmitSize /\ get_rb_room(rb) < Size
  BY <1>1, PieceLength
<1>3. /\ rb \in Ring /\ given.pending \in XPos /\ get_rb_room(rb) \in Pos
  BY <1>2, RoomType DEF XmitInv, CopyPiece
<1>4. /\ rb.tail \in Nat /\ xtail \in Nat /\ Size \in Nat /\ XmitSize \in Nat
      /\ rb.tail < Size /\ xtail < XmitSize /\ given.pending \in Nat /\ get_rb_room(rb) \in Nat
  BY <1>2, <1>3, SizeAssumption, XmitAssumption DEF Pos, XPos
<1> HIDE DEF m
<1>5. rb'.tail = IF rb.tail + m < Size THEN rb.tail + m ELSE 0
  <2>1. rb'.tail = (rb.tail + m) % Size
    BY <1>1, <1>3 DEF move_rb_tail, Ring
  <2>2. rb.tail + m \in Nat /\ rb.tail + m <= Size /\ rb.tail + m < 2 * Size
    BY <1>2, <1>4, SizeAssumption
  <2>3. (rb.tail + m) % Size = IF rb.tail + m < Size THEN rb.tail + m ELSE rb.tail + m - Size
    BY <1>2, <1>4, <2>2, Wrap
  <2> QED
    BY <1>2, <1>4, <2>1, <2>2, <2>3
<1>6. xtail' = IF xtail + m < XmitSize THEN xtail + m ELSE 0
  <2>1. xtail + m \in Nat /\ xtail + m <= XmitSize /\ xtail + m < 2 * XmitSize
    BY <1>2, <1>4, XmitAssumption
  <2>2. (xtail + m) % XmitSize
          = IF xtail + m < XmitSize THEN xtail + m ELSE xtail + m - XmitSize
    BY <1>2, <1>4, <2>1, XmitAssumption
  <2> QED
    BY <1>1, <1>2, <1>4, <2>1, <2>2
<1>7. count' \in Nat /\ count' < Size /\ count' < XmitSize /\ count' = count - m
  BY <1>1, <1>2, <1>4
<1>8. /\ rb'.tail + count' > Size => rb.tail + count > Size
      /\ xtail' + count' > XmitSize => xtail + count > XmitSize
      /\ m = Size - rb.tail => rb.tail + count > Size /\ ~(rb'.tail + count' > Size)
      /\ m = XmitSize - xtail => xtail + count > XmitSize /\ ~(xtail' + count' > XmitSize)
      /\ m = Size - rb.tail \/ m = XmitSize - xtail
  BY <1>2, <1>4, <1>5, <1>6, <1>7
<1> QED
  BY <1>8 DEF WrapsLeft

\* A round of the loop.
LEMMA CopyPieceStep ==
    ASSUME XmitInv, CopyPiece
    PROVE  XmitInv'
<1> DEFINE m == mcplen
           s == [i \in 1 .. mcplen |-> Copied + i]
<1>1. /\ at = "loop" /\ given' = given /\ count' = count - m /\ rb' = move_rb_tail(rb, m)
      /\ xtail' = (xtail + m) % XmitSize /\ tx_lsize' = get_rb_lroom(rb')
      /\ max_retry' = max_retry - 1
      /\ at' = IF count' > 0 /\ max_retry' > 0 THEN "loop" ELSE "return"
      /\ mem' = Poke(rb, mem, [i \in 1 .. mcplen |-> XmitByte((xtail + i - 1) % XmitSize)])
  BY DEF CopyPiece, Again
<1>2. /\ given.rb \in Ring /\ given.xtail \in XPos /\ given.pending \in XPos
      /\ rb \in Ring /\ mem \in [Pos -> Int] /\ LoopInv
  BY <1>1 DEF XmitInv
<1>3. /\ m \in Nat /\ 0 < m /\ m <= count /\ count <= get_rb_room(rb)
      /\ count <= ToCopy /\ count \in Nat /\ Copied \in Nat /\ ToCopy \in Nat
      /\ ToCopy <= given.pending /\ given.pending < XmitSize
      /\ get_rb_room(rb) \in Nat /\ given.pending \in Nat
  <2>1. get_rb_room(rb) \in Pos
    BY <1>2, RoomType DEF Ring
  <2>2. get_rb_room(rb) \in Nat /\ given.pending \in Nat
    BY <1>2, <2>1, SizeAssumption, XmitAssumption DEF Pos, XPos
  <2>3. /\ mcplen \in Nat /\ 0 < mcplen /\ mcplen <= count /\ count <= get_rb_room(rb)
        /\ count <= ToCopy /\ count \in Nat /\ Copied \in Nat /\ ToCopy \in Nat
        /\ ToCopy <= given.pending /\ given.pending < XmitSize
    BY <1>1, PieceLength
  <2> QED
    BY <2>2, <2>3
<1>4. s \in Seq(Int) /\ Len(s) = m /\ Numbers(Copied) \o s = Numbers(Copied + m)
  BY <1>3, NumbersAppend
<1>5. mem' = Poke(rb, mem, s)
  BY <1>1, PieceBytes
<1> HIDE DEF m, s
<1>6. ToCopy' = ToCopy /\ Copied' = Copied + m
  BY <1>1, <1>3 DEF ToCopy, Copied
<1>7. /\ rb' \in Ring /\ mem' \in [Pos -> Int]
      /\ get_rb_length(rb') = get_rb_length(rb) + m
  <2>1. m <= get_rb_room(rb)
    BY <1>3
  <2>2. rb' \in Ring /\ get_rb_length(rb') = get_rb_length(rb) + m
    BY <1>1, <1>2, <1>3, <2>1, MoveTailType, MoveTailLength
  <2>3. rb.tail \in Pos
    BY <1>2 DEF Ring
  <2>4. mem' \in [Pos -> Int]
    BY <1>2, <1>4, <1>5, <2>3, PokeType
  <2> QED
    BY <2>2, <2>4
<1>8. Unread(rb', mem') = Unread(given.rb, OldMem) \o Numbers(Copied')
  <2> DEFINE u == Unread(given.rb, OldMem)
             c == Numbers(Copied)
  <2>1. u \in Seq(Int) /\ c \in Seq(Int)
    BY <1>2, <1>3, MemoryTypes, UnreadType DEF Ring
  <2>2. Len(s) <= get_rb_room(rb)
    BY <1>3, <1>4
  <2>3. Unread(rb', mem') = Unread(rb, mem) \o s
    <3>1. s \in Seq(Int) /\ Len(s) <= get_rb_room(rb) /\ rb \in Ring /\ mem \in [Pos -> Int]
      BY <1>2, <1>4, <2>2
    <3>2. Unread(move_rb_tail(rb, Len(s)), Poke(rb, mem, s)) = Unread(rb, mem) \o s
      BY <3>1, UnreadPut
    <3> QED
      BY <1>1, <1>4, <1>5, <3>2
  <2>4. Unread(rb, mem) = u \o c
    BY <1>2 DEF LoopInv
  <2> HIDE DEF u, c
  <2>5. (u \o c) \o s = u \o (c \o s)
    <3>1. u \in Seq(Int) /\ c \in Seq(Int) /\ s \in Seq(Int)
      BY <1>4, <2>1
    <3>2. \A x, y, z \in Seq(Int) : (x \o y) \o z = x \o (y \o z)
      BY ConcatAssociative, SMTT(30)
    <3> QED
      BY <3>1, <3>2
  <2> QED
    BY <1>4, <1>6, <2>3, <2>4, <2>5 DEF u, c
<1>9. OldMem' = OldMem
  BY DEF OldMem
<1>10. xtail' = (given.xtail + Copied') % XmitSize
  <2>1. Copied + m < XmitSize
    BY <1>3, XmitAssumption DEF Copied
  <2>2. (((given.xtail + Copied) % XmitSize) + m) % XmitSize
            = (given.xtail + (Copied + m)) % XmitSize
    BY <1>2, <1>3, <2>1, XmitAround
  <2>3. xtail = (given.xtail + Copied) % XmitSize
    BY <1>2 DEF LoopInv
  <2> QED
    BY <1>1, <1>6, <2>2, <2>3
<1>11. CASE count' > 0
  <2>1. WrapsLeft \in Nat /\ WrapsLeft' \in Nat /\ WrapsLeft' < WrapsLeft
    BY <1>11, WrapsDecrease
  <2>2. max_retry' \in Nat /\ max_retry' > WrapsLeft' /\ max_retry' > 0
    BY <1>1, <1>2, <2>1 DEF LoopInv
  <2>3. at' = "loop"
    BY <1>1, <1>11, <2>2
  <2>4. count' \in 1 .. ToCopy'
    BY <1>1, <1>3, <1>6, <1>11
  <2>5. get_rb_length(rb') = get_rb_length(given'.rb) + Copied'
    <3>1. get_rb_length(given.rb) \in Nat
      BY <1>2, LengthType, SizeAssumption DEF Ring, Pos
    <3> QED
      BY <1>1, <1>2, <1>3, <1>6, <1>7, <3>1 DEF LoopInv
  <2>6. LoopInv'
    BY <1>1, <1>8, <1>9, <1>10, <2>2, <2>4, <2>5 DEF LoopInv
  <2>7. AllCopied'
    BY <2>3 DEF AllCopied
  <2> QED
    BY <1>1, <1>2, <1>7, <2>3, <2>6, <2>7 DEF XmitInv
<1>12. CASE ~(count' > 0)
  <2>1. at' = "return" /\ Copied' = ToCopy
    <3>1. count' = 0
      BY <1>1, <1>3, <1>12
    <3> QED
      BY <1>1, <1>3, <1>6, <1>12, <3>1 DEF Copied
  <2>2. ToCopy = least(given'.pending, get_rb_room(given'.rb))
    BY <1>1 DEF ToCopy
  <2>3. AllCopied'
    BY <1>1, <1>8, <1>9, <1>10, <2>1, <2>2 DEF AllCopied, Numbers
  <2> QED
    BY <1>1, <1>2, <1>7, <2>1, <2>3 DEF XmitInv
<1> QED
  BY <1>11, <1>12

\* The return at the entry, for want of bytes or of room, has nothing to copy.
LEMMA NothingToCopyStep ==
    ASSUME XmitInv, NothingToCopy
    PROVE  XmitInv'
<1>1. /\ at = "entry" /\ at' = "return" /\ given' = given /\ rb' = rb /\ mem' = mem
      /\ xtail' = xtail /\ (given.pending = 0 \/ get_rb_room(rb) = 0)
  BY DEF NothingToCopy
<1>2. /\ given.rb \in Ring /\ given.xtail \in XPos /\ given.pending \in XPos
      /\ rb \in Ring /\ mem \in [Pos -> Int]
      /\ rb = given.rb /\ mem = OldMem /\ xtail = given.xtail
  BY <1>1 DEF XmitInv
<1>3. least(given.pending, get_rb_room(given.rb)) = 0
  <2>1. get_rb_room(given.rb) \in Pos
    BY <1>2, RoomType DEF Ring
  <2>2. get_rb_room(given.rb) \in Nat /\ given.pending \in Nat
    BY <1>2, <2>1, SizeAssumption, XmitAssumption DEF Pos, XPos
  <2> QED
    BY <1>1, <1>2, <2>2 DEF least
<1>4. xtail = (given.xtail + 0) % XmitSize
  <2>1. given.xtail \in Nat /\ given.xtail < XmitSize
    BY <1>2, XmitAssumption DEF XPos
  <2> QED
    BY <1>2, <2>1, XmitAssumption
<1>5. Unread(rb, mem) = Unread(given.rb, OldMem) \o [i \in 1 .. 0 |-> i]
  <2>1. Unread(given.rb, OldMem) \in Seq(Int)
    BY <1>2, MemoryTypes, UnreadType DEF Ring
  <2>2. [i \in 1 .. 0 |-> i] = <<>>
    OBVIOUS
  <2> QED
    BY <1>2, <2>1, <2>2, ConcatEmptySeq
<1>6. AllCopied'
  <2>1. OldMem' = OldMem
    BY DEF OldMem
  <2> QED
    BY <1>1, <1>3, <1>4, <1>5, <2>1 DEF AllCopied
<1> QED
  BY <1>1, <1>2, <1>6 DEF XmitInv

\* Entering the loop: what is to be copied wraps around once at most in each memory.
LEMMA PrepareStep ==
    ASSUME XmitInv, Prepare
    PROVE  XmitInv'
<1>1. /\ at = "entry" /\ at' = "loop" /\ given' = given /\ rb' = rb /\ mem' = mem
      /\ xtail' = xtail /\ max_retry' = max_retry /\ given.pending > 0 /\ get_rb_room(rb) > 0
      /\ count' = least(given.pending, get_rb_room(rb)) /\ tx_lsize' = get_rb_lroom(rb)
  BY DEF Prepare
<1>2. /\ given.rb \in Ring /\ given.xtail \in XPos /\ given.pending \in XPos
      /\ rb \in Ring /\ mem \in [Pos -> Int] /\ max_retry = 3
      /\ rb = given.rb /\ mem = OldMem /\ xtail = given.xtail
  BY <1>1 DEF XmitInv, MaxRetry
<1>3. /\ get_rb_room(rb) \in Nat /\ given.pending \in Nat /\ get_rb_length(rb) \in Nat
      /\ xtail \in Nat /\ xtail < XmitSize
  <2>1. get_rb_room(rb) \in Pos /\ get_rb_length(rb) \in Pos
    BY <1>2, RoomType, LengthType DEF Ring
  <2> QED
    BY <1>2, <2>1, SizeAssumption, XmitAssumption DEF Pos, XPos
<1>4. ToCopy' = count' /\ count' \in 1 .. ToCopy' /\ Copied' = 0
  BY <1>1, <1>2, <1>3 DEF ToCopy, Copied, least
<1>5. xtail' = (given'.xtail + Copied') % XmitSize
  BY <1>1, <1>2, <1>3, <1>4, XmitAssumption
<1>6. Unread(rb', mem') = Unread(given'.rb, OldMem') \o Numbers(Copied')
  <2>1. Unread(given.rb, OldMem) \in Seq(Int)
    BY <1>2, MemoryTypes, UnreadType DEF Ring
  <2>2. Numbers(0) = <<>>
    BY DEF Numbers
  <2>3. OldMem' = OldMem
    BY DEF OldMem
  <2> QED
    BY <1>1, <1>2, <1>4, <2>1, <2>2, <2>3, ConcatEmptySeq
<1>7. max_retry' \in Nat /\ max_retry' > WrapsLeft'
  BY <1>1, <1>2 DEF WrapsLeft
<1>8. get_rb_length(rb') = get_rb_length(given'.rb) + Copied'
  BY <1>1, <1>2, <1>3, <1>4
<1>9. LoopInv'
  BY <1>1, <1>4, <1>5, <1>6, <1>7, <1>8 DEF LoopInv
<1>10. AllCopied'
  BY <1>1 DEF AllCopied
<1> QED
  BY <1>1, <1>2, <1>9, <1>10 DEF XmitInv

----------------------------------------------------------------------------
(* adv_uart_recv_chars.                                                    *)

\* The piece that is handed on is the front of what is unread, up to the end of the
\* ring's memory; taking all of it leaves nothing, or leaves the head at the start.
LEMMA PieceIsFront ==
    ASSUME rb \in Ring, ~rb.clean, mem = OldMem
    PROVE  /\ Len(Piece) \in Nat /\ Len(Piece) <= get_rb_length(rb)
           /\ get_rb_length(rb) \in Nat
           /\ get_rb_length(rb) > 0 => Len(Piece) > 0
           /\ \A n \in 0 .. Len(Piece) : SubSeq(Piece, 1, n) = Peek(rb, mem, n)
           /\ Len(Piece) = get_rb_length(rb) \/ move_rb_head(rb, Len(Piece)).head = 0
           /\ rb.head = 0 => Len(Piece) = get_rb_length(rb)
<1> DEFINE len == get_rb_length(rb)
           n0 == get_rb_llength(rb)
<1>1. rb.head \in Pos /\ rb.tail \in Pos /\ mem \in [Pos -> Int]
  BY MemoryTypes DEF Ring
<1>2. len \in Nat /\ len < Size /\ rb.head \in Nat /\ rb.head < Size /\ Size \in Nat
  BY <1>1, LengthType, SizeAssumption DEF Pos
<1>3. /\ n0 \in Nat /\ n0 <= len /\ n0 <= Size - rb.head /\ (len > 0 => n0 > 0)
      /\ n0 = len \/ n0 = Size - rb.head
      /\ rb.head = 0 => n0 = len
  BY <1>2 DEF get_rb_llength, least
<1> HIDE DEF n0
<1>4. \A i \in 1 .. n0 : rb.head + i - 1 \in Pos /\ Around(rb.head, i - 1) = rb.head + i - 1
  <2> SUFFICES ASSUME NEW i \in 1 .. n0
               PROVE  rb.head + i - 1 \in Pos /\ Around(rb.head, i - 1) = rb.head + i - 1
    OBVIOUS
  <2>1. /\ rb.head + i - 1 \in Nat /\ rb.head + i - 1 < Size
        /\ rb.head + (i - 1) = rb.head + i - 1
    BY <1>2, <1>3
  <2>2. (rb.head + i - 1) % Size = rb.head + i - 1
    BY <2>1, SizeAssumption
  <2>3. rb.head + i - 1 \in Pos
    BY <1>2, <2>1 DEF Pos
  <2>4. Around(rb.head, i - 1) = (rb.head + i - 1) % Size
    BY <2>1 DEF Around
  <2> QED
    BY <2>2, <2>3, <2>4
<1>5. Piece = [i \in 1 .. n0 |-> mem[rb.head + i - 1]]
  BY DEF Piece, n0
<1>6. Piece \in Seq(Int) /\ Len(Piece) = n0 /\ \A i \in 1 .. n0 : Piece[i] = mem[rb.head + i - 1]
  <2>1. Piece \in [1 .. n0 -> Int]
    BY <1>1, <1>4, <1>5
  <2> QED
    BY <1>3, <1>5, <2>1
<1>7. ASSUME NEW n \in 0 .. n0
      PROVE  SubSeq(Piece, 1, n) = Peek(rb, mem, n)
  <2>1. n \in Nat /\ n <= n0
    BY <1>3
  <2>2. \A i \in 1 .. n : Piece[i] \in Int
    BY <1>3, <1>6, <2>1, ElementOfSeq
  <2>3. /\ SubSeq(Piece, 1, n) \in Seq(Int) /\ Len(SubSeq(Piece, 1, n)) = n
        /\ \A i \in 1 .. n : SubSeq(Piece, 1, n)[i] = Piece[i]
    BY <2>1, <2>2, SubSeqProperties
  <2>4. /\ Peek(rb, mem, n) \in Seq(Int) /\ Len(Peek(rb, mem, n)) = n
        /\ \A i \in 1 .. n : Peek(rb, mem, n)[i] = mem[Around(rb.head, i - 1)]
    <3>1. Peek(rb, mem, n) \in Seq(Int) /\ Len(Peek(rb, mem, n)) = n
      BY <1>1, <2>1, PeekType
    <3>2. \A i \in 1 .. n : Peek(rb, mem, n)[i] = mem[Around(rb.head, i - 1)]
      BY UnreadAt
    <3> QED
      BY <3>1, <3>2
  <2>5. \A i \in 1 .. n : SubSeq(Piece, 1, n)[i] = Peek(rb, mem, n)[i]
    <3> SUFFICES ASSUME NEW i \in 1 .. n PROVE SubSeq(Piece, 1, n)[i] = Peek(rb, mem, n)[i]
      OBVIOUS
    <3>1. i \in 1 .. n0
      BY <1>3, <2>1
    <3> QED
      BY <1>4, <1>6, <2>3, <2>4, <3>1
  <2> QED
    BY <2>3, <2>4, <2>5, SeqEqual
<1>8. n0 = len \/ move_rb_head(rb, n0).head = 0
  <2>1. CASE n0 = Size - rb.head
    <3>1. move_rb_head(rb, n0).head = (rb.head + n0) % Size
      BY DEF move_rb_head, Ring
    <3>2. rb.head + n0 = Size
      BY <1>2, <2>1
    <3>3. Size % Size = 0
      BY SizeAssumption
    <3> QED
      BY <3>1, <3>2, <3>3
  <2> QED
    BY <1>3, <2>1
<1> QED
  BY <1>2, <1>3, <1>6, <1>7, <1>8

\* A round of the loop, whatever part of the piece the tty layer takes.
LEMMA HandPieceStep ==
    ASSUME RecvInv, HandPiece
    PROVE  RecvInv'
<1>1. PICK n \in 0 .. Len(Piece) :
        /\ at = "hand" /\ MoreToHand
        /\ tty' = tty \o SubSeq(Piece, 1, n)
        /\ refused' = (refused \/ n < Len(Piece))
        /\ IF n > 0
           THEN /\ count' = count - n /\ rb' = Taken(n) /\ max_retry' = max_retry - 1
                /\ UNCHANGED at
           ELSE at' = "push" /\ UNCHANGED <<count, rb, max_retry>>
        /\ UNCHANGED <<mem, xtail, tx_lsize, given, throttled, pushed>>
  BY DEF HandPiece
<1>2. /\ given.rb \in Ring /\ rb \in Ring /\ ~rb.clean /\ mem = OldMem /\ max_retry \in Int
      /\ throttled \in BOOLEAN /\ refused \in BOOLEAN /\ tty \in Seq(Int)
      /\ get_rb_length(rb) <= get_rb_length(given.rb)
      /\ count = get_rb_length(rb) /\ (refused \/ RoundsSuffice)
      /\ tty \o Unread(rb, mem) = Unread(given.rb, OldMem)
  BY <1>1 DEF RecvInv, NoByteLost
<1>3. /\ Len(Piece) \in Nat /\ Len(Piece) <= get_rb_length(rb) /\ get_rb_length(rb) \in Nat
      /\ get_rb_length(rb) > 0 => Len(Piece) > 0
      /\ SubSeq(Piece, 1, n) = Peek(rb, mem, n)
      /\ Len(Piece) = get_rb_length(rb) \/ move_rb_head(rb, Len(Piece)).head = 0
      /\ rb.head = 0 => Len(Piece) = get_rb_length(rb)
      /\ n \in Nat /\ n <= Len(Piece) /\ n <= get_rb_length(rb)
  BY <1>1, <1>2, PieceIsFront
<1>4. /\ mem \in [Pos -> Int] /\ rb.head \in Pos /\ rb.tail \in Pos
      /\ get_rb_length(given.rb) \in Nat
  <2>1. given.rb.head \in Pos /\ given.rb.tail \in Pos /\ rb.head \in Pos /\ rb.tail \in Pos
    BY <1>2 DEF Ring
  <2>2. get_rb_length(given.rb) \in Pos
    BY <2>1, LengthType
  <2>3. mem \in [Pos -> Int]
    BY <1>2, MemoryTypes
  <2> QED
    BY <2>1, <2>2, <2>3, SizeAssumption DEF Pos
<1>5. given' = given /\ mem' = mem /\ OldMem' = OldMem /\ throttled' = throttled
  BY <1>1 DEF OldMem
<1>6. refused' \in BOOLEAN /\ (refused \/ n < Len(Piece) <=> refused')
  BY <1>1, <1>2
<1>7. CASE n > 0
  <2>1. /\ at' = "hand" /\ count' = count - n /\ rb' = move_rb_head(rb, n)
        /\ max_retry' = max_retry - 1
    BY <1>1, <1>7 DEF Taken
  <2>2. /\ rb' \in Ring /\ ~rb'.clean
        /\ get_rb_length(rb') = get_rb_length(rb) - n
    BY <1>2, <1>3, <2>1, MoveHeadType, MoveHeadLength DEF move_rb_head, Ring
  <2>3. /\ Peek(rb, mem, n) \in Seq(Int) /\ Unread(rb', mem) \in Seq(Int)
        /\ Peek(rb, mem, n) \o Unread(rb', mem) = Unread(rb, mem)
    <3>1. rb'.head \in Pos /\ rb'.tail \in Pos
      BY <2>2 DEF Ring
    <3>2. Unread(rb', mem) \in Seq(Int)
      BY <1>4, <3>1, UnreadType
    <3>3. Peek(rb, mem, n) \in Seq(Int)
      <4>1. \A k \in Nat : Peek(rb, mem, k) \in Seq(Int)
        BY <1>4, PeekType
      <4> QED
        BY <1>3, <4>1
    <3>4. Peek(rb, mem, n) \o Unread(move_rb_head(rb, n), mem) = Unread(rb, mem)
      BY <1>2, <1>3, <1>4, UnreadGet
    <3> QED
      BY <2>1, <3>2, <3>3, <3>4
  <2>4. tty' \in Seq(Int) /\ tty' \o Unread(rb', mem) = Unread(given.rb, OldMem)
    <3>1. tty' = tty \o Peek(rb, mem, n)
      BY <1>1, <1>3
    <3>2. (tty \o Peek(rb, mem, n)) \o Unread(rb', mem)
              = tty \o (Peek(rb, mem, n) \o Unread(rb', mem))
      <4> DEFINE p == Peek(rb, mem, n)
                 v == Unread(rb', mem)
      <4>1. p \in Seq(Int) /\ v \in Seq(Int) /\ tty \in Seq(Int)
        BY <1>2, <2>3
      <4> HIDE DEF p, v
      <4>2. (tty \o p) \o v = tty \o (p \o v)
        BY <4>1, ConcatAssociative, SMTT(30)
      <4> QED
        BY <4>2 DEF p, v
    <3>3. tty \o Peek(rb, mem, n) \in Seq(Int)
      BY <1>2, <2>3, ConcatProperties
    <3> QED
      BY <1>2, <2>3, <3>1, <3>2, <3>3
  <2>5. refused' \/ RoundsSuffice'
    <3> SUFFICES ASSUME ~refused' PROVE RoundsSuffice'
      OBVIOUS
    <3>1. n = Len(Piece) /\ RoundsSuffice
      BY <1>2, <1>3, <1>6
    <3>2. CASE n = get_rb_length(rb)
      <4>1. get_rb_length(rb') = 0
        BY <1>3, <2>2, <3>2
      <4> QED
        BY <4>1 DEF RoundsSuffice
    <3>3. CASE n # get_rb_length(rb)
      <4>1. rb'.head = 0 /\ rb.head # 0
        BY <1>3, <2>1, <3>1, <3>3
      <4>2. get_rb_length(rb) # 0
        BY <1>3, <1>7
      <4>3. max_retry = MaxRetry
        BY <3>1, <4>1, <4>2 DEF RoundsSuffice
      <4> QED
        BY <2>1, <4>1, <4>3 DEF RoundsSuffice
    <3> QED
      BY <3>2, <3>3
  <2>6. NoByteLost'
    BY <1>5, <2>4 DEF NoByteLost
  <2>7. RoomIsAnnounced'
    BY <2>1 DEF RoomIsAnnounced
  <2>8. get_rb_length(rb') <= get_rb_length(given'.rb) /\ count' = get_rb_length(rb')
    BY <1>2, <1>3, <1>4, <1>5, <2>1, <2>2
  <2>9. max_retry' \in Int
    BY <1>2, <2>1
  <2> QED
    BY <1>2, <1>5, <1>6, <2>1, <2>2, <2>4, <2>5, <2>6, <2>7, <2>8, <2>9 DEF RecvInv
<1>8. CASE ~(n > 0)
  <2>1. /\ at' = "push" /\ count' = count /\ rb' = rb /\ max_retry' = max_retry /\ n = 0
    BY <1>1, <1>3, <1>8
  <2>2. tty' = tty
    <3>1. SubSeq(Piece, 1, 0) = <<>>
      BY SubSeqEmpty
    <3>2. tty \o <<>> = tty
      BY <1>2, ConcatEmptySeq
    <3> QED
      BY <1>1, <2>1, <3>1, <3>2
  <2>3. refused'
    <3>1. Len(Piece) > 0
      BY <1>1, <1>2, <1>3 DEF MoreToHand
    <3> QED
      BY <1>6, <2>1, <3>1
  <2>4. NoByteLost'
    BY <1>2, <1>5, <2>1, <2>2 DEF NoByteLost
  <2>5. RoomIsAnnounced'
    BY <2>1 DEF RoomIsAnnounced
  <2> QED
    BY <1>2, <1>5, <1>6, <2>1, <2>2, <2>3, <2>4, <2>5 DEF RecvInv
<1> QED
  BY <1>7, <1>8

\* The other steps of a call of adv_uart_recv_chars.
LEMMA RecvStep ==
    ASSUME RecvInv, RecvNext
    PROVE  RecvInv'
<1>1. OldMem' = OldMem
  BY DEF OldMem
<1>2. at \in {"recv", "hand", "push", "done"}
  BY DEF RecvNext, NothingToHand, Enter, HandPiece, EndLoop, Push, Done
<1>3. /\ given.rb \in Ring /\ rb \in Ring /\ ~rb.clean /\ mem = OldMem /\ max_retry \in Int
      /\ throttled \in BOOLEAN /\ refused \in BOOLEAN /\ tty \in Seq(Int)
      /\ get_rb_length(rb) <= get_rb_length(given.rb)
      /\ tty \o Unread(rb, mem) = Unread(given.rb, OldMem)
      /\ at = "recv" => rb = given.rb /\ max_retry = MaxRetry /\ ~refused /\ ~pushed
      /\ at \in {"hand", "push"} => count = get_rb_length(rb)
      /\ at = "hand" => refused \/ RoundsSuffice
      /\ at = "push" => refused \/ count = 0
  BY <1>2 DEF RecvInv, NoByteLost
<1>4. get_rb_length(rb) \in Nat /\ get_rb_length(given.rb) \in Nat
  <2>1. /\ given.rb.head \in Pos /\ given.rb.tail \in Pos
        /\ rb.head \in Pos /\ rb.tail \in Pos
    BY <1>3 DEF Ring
  <2>2. get_rb_length(rb) \in Pos /\ get_rb_length(given.rb) \in Pos
    BY <2>1, LengthType
  <2> QED
    BY <2>2, SizeAssumption DEF Pos
<1>5. CASE NothingToHand
  <2>1. /\ at = "recv" /\ Mute /\ at' = "done" /\ rb' = rb /\ mem' = mem /\ given' = given
        /\ throttled' = throttled /\ tty' = tty /\ refused' = refused /\ pushed' = pushed
        /\ max_retry' = max_retry
    BY <1>5 DEF NothingToHand, ttyVars
  <2>2. RoomIsAnnounced'
    <3>1. get_rb_room(rb') = get_rb_room(given'.rb) /\ get_rb_room(rb') \in Int /\ Mute'
      BY <1>3, <1>4, <2>1, SizeAssumption DEF get_rb_room, Mute
    <3>2. ~(get_rb_room(rb') > get_rb_room(given'.rb))
      BY <3>1
    <3> QED
      BY <1>3, <2>1, <3>1, <3>2 DEF RoomIsAnnounced
  <2>3. NoByteLost'
    BY <1>1, <1>3, <2>1 DEF NoByteLost
  <2> QED
    BY <1>1, <1>3, <2>1, <2>2, <2>3 DEF RecvInv
<1>6. CASE Enter
  <2>1. /\ at = "recv" /\ at' = "hand" /\ rb' = rb /\ mem' = mem /\ given' = given
        /\ throttled' = throttled /\ tty' = tty /\ refused' = refused /\ pushed' = pushed
        /\ max_retry' = max_retry /\ count' = get_rb_length(rb)
    BY <1>6 DEF Enter, ttyVars
  <2>2. RoomIsAnnounced' /\ NoByteLost' /\ RoundsSuffice'
    BY <1>1, <1>3, <2>1 DEF NoByteLost, RoomIsAnnounced, RoundsSuffice
  <2> QED
    BY <1>1, <1>3, <2>1, <2>2 DEF RecvInv
<1>7. CASE EndLoop
  <2>1. /\ at = "hand" /\ at' = "push" /\ rb' = rb /\ mem' = mem /\ given' = given
        /\ throttled' = throttled /\ tty' = tty /\ refused' = refused /\ pushed' = pushed
        /\ max_retry' = max_retry /\ count' = count /\ ~MoreToHand
    BY <1>7 DEF EndLoop, ttyVars
  <2>2. refused \/ count = 0
    <3>1. RoundsSuffice => count = 0
      BY <1>3, <1>4, <2>1 DEF MoreToHand, RoundsSuffice, MaxRetry
    <3> QED
      BY <1>3, <2>1, <3>1
  <2>3. RoomIsAnnounced' /\ NoByteLost'
    BY <1>1, <1>3, <2>1 DEF NoByteLost, RoomIsAnnounced
  <2> QED
    BY <1>1, <1>3, <2>1, <2>2, <2>3 DEF RecvInv
<1>8. CASE Push
  <2>1. /\ at = "push" /\ at' = "done" /\ rb' = rb /\ mem' = mem /\ given' = given
        /\ throttled' = throttled /\ tty' = tty /\ refused' = refused
        /\ max_retry' = max_retry /\ pushed' = (count # get_rb_length(given.rb))
    BY <1>8 DEF Push, Some
  <2>2. RoomIsAnnounced'
    <3>1. count # get_rb_length(given.rb) <=> get_rb_room(rb) > get_rb_room(given.rb)
      BY <1>3, <1>4, <2>1, SizeAssumption DEF get_rb_room
    <3>2. get_rb_length(rb) > 0 => refused
      BY <1>3, <1>4, <2>1
    <3> QED
      BY <2>1, <3>1, <3>2 DEF RoomIsAnnounced
  <2>3. NoByteLost'
    BY <1>1, <1>3, <2>1 DEF NoByteLost
  <2> QED
    BY <1>1, <1>3, <2>1, <2>2, <2>3 DEF RecvInv
<1>9. CASE Done
  BY <1>9 DEF Done, recvVars, xmitVars, ttyVars, RecvInv, NoByteLost, RoomIsAnnounced, Mute,
        RoundsSuffice, OldMem
<1> QED
  BY <1>5, <1>6, <1>7, <1>8, <1>9, HandPieceStep DEF RecvNext

----------------------------------------------------------------------------
(* The theorems.                                                           *)

\* A call starts in one of the two loops' entries.
LEMMA CallStart == CallInit => CallInv
<1>1. ASSUME RecvInit PROVE CallInv
  <2>1. /\ at = "recv" /\ rb \in Ring /\ ~rb.clean /\ given.rb = rb /\ mem = OldMem
        /\ max_retry = MaxRetry /\ throttled \in BOOLEAN /\ tty = <<>> /\ ~pushed /\ ~refused
        /\ refused \in BOOLEAN
    BY <1>1 DEF RecvInit, Ring
  <2>2. rb.head \in Pos /\ rb.tail \in Pos /\ mem \in [Pos -> Int]
    BY <2>1, MemoryTypes DEF Ring
  <2>3. Unread(rb, mem) \in Seq(Int) /\ get_rb_length(rb) \in Nat
    BY <2>2, UnreadType, LengthType, SizeAssumption DEF Pos
  <2>4. tty \o Unread(rb, mem) = Unread(given.rb, OldMem) /\ tty \in Seq(Int)
    BY <2>1, <2>3, ConcatEmptySeq
  <2> QED
    BY <2>1, <2>3, <2>4
       DEF CallInv, Places, XmitInv, RecvInv, NoByteLost, RoomIsAnnounced, MaxRetry
<1>2. ASSUME Init PROVE CallInv
  <2>1. /\ at = "entry" /\ rb \in Ring /\ given.rb = rb /\ mem = OldMem
        /\ max_retry = MaxRetry /\ given.xtail = xtail /\ xtail \in XPos /\ given.pending \in XPos
    <3>1. PICK n \in XPos : given = [rb |-> rb, xtail |-> xtail, pending |-> n]
      BY <1>2 DEF Init
    <3>2. at = "entry" /\ mem = OldMem /\ max_retry = MaxRetry /\ xtail \in XPos
      BY <1>2 DEF Init
    <3>3. rb \in Ring
      BY <1>2 DEF Init, Ring
    <3> QED
      BY <3>1, <3>2, <3>3
  <2> QED
    BY <2>1, MemoryTypes DEF CallInv, Places, XmitInv, RecvInv, AllCopied
<1> QED
  BY <1>1, <1>2 DEF CallInit

\* Every step of a call keeps the invariant of its loop, and leaves it at one of that
\* loop's places, where the other's says nothing.
LEMMA CallStep == CallInv /\ [CallNext]_recvVars => CallInv'
<1> SUFFICES ASSUME CallInv, [CallNext]_recvVars PROVE CallInv'
  OBVIOUS
<1>1. XmitInv /\ RecvInv /\ Places
  BY DEF CallInv
<1>2. CASE RecvNext
  <2>1. RecvInv'
    BY <1>1, <1>2, RecvStep
  <2>2. at' \in {"recv", "hand", "push", "done"}
    BY <1>2 DEF RecvNext, NothingToHand, Enter, HandPiece, EndLoop, Push, Done, recvVars, xmitVars
  <2> QED
    BY <2>1, <2>2 DEF CallInv, Places, XmitInv
<1>3. CASE Next /\ UNCHANGED ttyVars
  <2>1. CASE NothingToCopy
    BY <1>1, <2>1, NothingToCopyStep DEF CallInv, Places, RecvInv, NothingToCopy
  <2>2. CASE Prepare
    BY <1>1, <2>2, PrepareStep DEF CallInv, Places, RecvInv, Prepare
  <2>3. CASE CopyPiece
    <3>1. at' \in {"loop", "return"}
      BY <2>3 DEF CopyPiece
    <3>2. XmitInv'
      BY <1>1, <2>3, CopyPieceStep
    <3> QED
      BY <3>1, <3>2 DEF CallInv, Places, RecvInv
  <2>4. CASE Return
    <3>1. at' = "return" /\ XmitInv'
      BY <1>1, <2>4
         DEF Return, xmitVars, XmitInv, AllCopied, OldMem
    <3> QED
      BY <3>1 DEF CallInv, Places, RecvInv
  <2> QED
    BY <1>3, <2>1, <2>2, <2>3, <2>4 DEF Next
<1>4. CASE UNCHANGED recvVars
  <2>1. CASE at \in {"entry", "loop", "return"}
    <3>1. XmitInv' /\ at' = at
      BY <1>1, <1>4, <2>1
         DEF recvVars, xmitVars, XmitInv, AllCopied, OldMem, LoopInv, Copied, ToCopy, WrapsLeft
    <3> QED
      BY <2>1, <3>1 DEF CallInv, Places, RecvInv
  <2>2. CASE at \in {"recv", "hand", "push", "done"}
    <3>1. RecvInv' /\ at' = at
      BY <1>1, <1>4, <2>2
         DEF recvVars, xmitVars, ttyVars, RecvInv, NoByteLost, RoomIsAnnounced, Mute,
             RoundsSuffice, OldMem
    <3> QED
      BY <2>2, <3>1 DEF CallInv, Places, XmitInv
  <2> QED
    BY <1>1, <2>1, <2>2 DEF Places
<1> QED
  BY <1>2, <1>3, <1>4 DEF CallNext

\* CallInv holds throughout.
THEOREM CallInvariant == CallSpec => []CallInv
  BY CallStart, CallStep, PTL DEF CallSpec

\* No memcpy of adv_uart_xmit runs past the end of the ring's page or of the serial
\* core's buffer, none is empty, and none writes more than there is room for.
THEOREM PieceCorrect == CallSpec => []PieceInBounds
<1>1. CallInv => PieceInBounds
  <2> SUFFICES ASSUME CallInv, at = "loop" PROVE PieceInBounds
    BY DEF PieceInBounds
  <2>1. /\ mcplen \in Nat /\ 0 < mcplen /\ mcplen <= count
        /\ mcplen <= Size - rb.tail /\ mcplen <= XmitSize - xtail
        /\ count <= get_rb_room(rb) /\ rb.tail \in Pos /\ xtail \in XPos
    BY PieceLength DEF CallInv
  <2>2. rb.tail \in Nat /\ xtail \in Nat /\ Size \in Nat /\ XmitSize \in Nat
    BY <2>1, SizeAssumption, XmitAssumption DEF Pos, XPos
  <2> QED
    BY <2>1, <2>2 DEF PieceInBounds
<1> QED
  BY <1>1, CallInvariant, PTL

\* The limit of three rounds never ends adv_uart_xmit's loop: it returns with all the
\* bytes there were, or as many as there was room for, behind the old ones.
THEOREM CopiedCorrect == CallSpec => []AllCopied
<1>1. CallInv => AllCopied
  BY DEF CallInv, XmitInv, AllCopied
<1> QED
  BY <1>1, CallInvariant, PTL

\* Whatever the tty layer takes of what adv_uart_recv_chars offers it, what it has and
\* what the ring holds are the bytes of the entry, in order.
THEOREM HandedCorrect == CallSpec => []NoByteLost
<1>1. CallInv => NoByteLost
  BY DEF CallInv, RecvInv, NoByteLost
<1> QED
  BY <1>1, CallInvariant, PTL

\* adv_uart_recv_chars wakes the daemon exactly when the ring has new room, and leaves
\* bytes in it only in a muted port or because the tty layer refused some.
THEOREM RoomCorrect == CallSpec => []RoomIsAnnounced
<1>1. CallInv => RoomIsAnnounced
  BY DEF CallInv, RecvInv, RoomIsAnnounced
<1> QED
  BY <1>1, CallInvariant, PTL

----------------------------------------------------------------------------
(***************************************************************************)
(* The loops as single steps.  VcomDriver takes either loop in one step,   *)
(* with one move of a cursor and one copy.  What follows shows that the    *)
(* rounds add up to exactly that step.                                     *)
(***************************************************************************)

\* adv_uart_xmit returns with the ring and the memory of VcomDriver's adv_uart_xmit:
\* as many bytes as there were, or as there was room for, copied at once.
XmitIsOneStep ==
    at = "return" =>
        LET n == least(given.pending, get_rb_room(given.rb))
        IN  /\ rb = move_rb_tail(given.rb, n)
            /\ mem = Poke(given.rb, OldMem, [i \in 1 .. n |-> i])

\* adv_uart_recv_chars returns with the ring and the bytes of VcomDriver's
\* adv_uart_recv_chars, for one of the numbers of bytes that it may take.
RecvIsOneStep ==
    at = "done" =>
        \E n \in IF throttled \/ ~given.rb.on THEN {0} ELSE 0 .. get_rb_length(given.rb) :
            /\ rb = move_rb_head(given.rb, n)
            /\ mem = OldMem
            /\ tty = Peek(given.rb, OldMem, n)

\* The first c bytes have been copied at once.
After(c) == rb = move_rb_tail(given.rb, c) /\ mem = Poke(given.rb, OldMem, Numbers(c))

XmitOnce ==
    /\ at \in {"entry", "loop", "return"} => ~given.rb.clean
    /\ at = "entry" => After(0)
    /\ at = "loop" => After(Copied)
    /\ at = "return" => After(ToCopy)

Silent == throttled \/ ~given.rb.on

RecvOnce ==
    at \in {"recv", "hand", "push", "done"} =>
        /\ ~given.rb.clean
        /\ rb = move_rb_head(given.rb, Len(tty))
        /\ Silent => tty = <<>>
        /\ at \in {"hand", "push"} => ~Silent

\* A round of adv_uart_xmit's loop extends the one copy.
LEMMA CopyPieceOnce ==
    ASSUME XmitInv, XmitOnce, CopyPiece
    PROVE  XmitOnce'
<1> DEFINE m == mcplen
           s == [i \in 1 .. mcplen |-> Copied + i]
<1>1. /\ at = "loop" /\ given' = given /\ count' = count - m /\ rb' = move_rb_tail(rb, m)
      /\ at' = IF count' > 0 /\ max_retry' > 0 THEN "loop" ELSE "return"
      /\ mem' = Poke(rb, mem, [i \in 1 .. mcplen |-> XmitByte((xtail + i - 1) % XmitSize)])
  BY DEF CopyPiece, Again
<1>2. /\ given.rb \in Ring /\ given.pending \in XPos /\ rb \in Ring
      /\ ~given.rb.clean /\ After(Copied)
  BY <1>1 DEF XmitInv, XmitOnce
<1>3. /\ m \in Nat /\ 0 < m /\ m <= count /\ count \in Nat /\ count <= ToCopy
      /\ Copied \in Nat /\ ToCopy \in Nat /\ ToCopy < Size
  <2>1. get_rb_room(given.rb) \in Pos
    BY <1>2, RoomType DEF Ring
  <2>2. /\ mcplen \in Nat /\ 0 < mcplen /\ mcplen <= count /\ count \in Nat /\ count <= ToCopy
        /\ Copied \in Nat /\ ToCopy \in Nat /\ ToCopy <= get_rb_room(given.rb)
    BY <1>1, PieceLength
  <2> QED
    BY <2>1, <2>2, SizeAssumption DEF Pos
<1>4. s \in Seq(Int) /\ Len(s) = m /\ Numbers(Copied) \o s = Numbers(Copied + m)
      /\ Numbers(Copied) \in Seq(Int) /\ Len(Numbers(Copied)) = Copied
  BY <1>3, NumbersAppend, MemoryTypes
<1>5. mem' = Poke(rb, mem, s)
  BY <1>1, PieceBytes
<1> HIDE DEF m, s
<1>6. ToCopy' = ToCopy /\ Copied' = Copied + m /\ Copied + m <= ToCopy /\ Copied + m < Size
  <2>1. ToCopy' = ToCopy
    BY <1>1 DEF ToCopy
  <2>2. Copied' = ToCopy' - count' /\ Copied = ToCopy - count
    BY DEF Copied
  <2> DEFINE total == ToCopy
             done == Copied
             next == Copied'
  <2>3. /\ next = total - (count - m) /\ done = total - count
        /\ m \in Nat /\ m <= count /\ count \in Nat /\ total \in Nat /\ total < Size
    BY <1>1, <1>3, <2>1, <2>2
  <2> HIDE DEF total, done, next
  <2>4. next = done + m /\ done + m <= total /\ done + m < Size
    BY <2>3, SizeAssumption
  <2> QED
    BY <2>1, <2>4 DEF total, done, next
<1>7. OldMem' = OldMem /\ OldMem \in [Pos -> Int]
  BY MemoryTypes DEF OldMem
<1>8. rb' = move_rb_tail(given.rb, Copied + m)
  BY <1>1, <1>2, <1>3, <1>6, MoveTwice DEF After
<1>9. mem' = Poke(given.rb, OldMem, Numbers(Copied + m))
  <2> DEFINE c == Numbers(Copied)
  <2>1. c \in Seq(Int) /\ Len(c) = Copied
    BY <1>4
  <2>2. rb = move_rb_tail(given.rb, Len(c)) /\ mem = Poke(given.rb, OldMem, c)
    BY <1>2, <2>1 DEF After
  <2>3. Len(c) + Len(s) < Size
    BY <1>4, <1>6, <2>1
  <2> HIDE DEF c
  <2>4. Poke(move_rb_tail(given.rb, Len(c)), Poke(given.rb, OldMem, c), s)
          = Poke(given.rb, OldMem, c \o s)
    BY <1>2, <1>4, <1>7, <2>1, <2>3, PokeTwice
  <2> QED
    BY <1>4, <1>5, <2>2, <2>4 DEF c
<1>10. After(Copied)'
  BY <1>1, <1>6, <1>7, <1>8, <1>9 DEF After, Numbers
<1>11. CASE at' = "loop"
  BY <1>1, <1>2, <1>10, <1>11 DEF XmitOnce
<1>12. CASE at' = "return"
  <2>1. AllCopied' /\ rb' \in Ring /\ mem' \in [Pos -> Int]
    BY <1>12, CopyPieceStep DEF XmitInv
  <2>2. Copied' = ToCopy'
    <3>1. /\ Unread(rb', mem') = Unread(given.rb, OldMem) \o Numbers(ToCopy)
      BY <1>1, <1>7, <1>12, <2>1 DEF AllCopied, Numbers, ToCopy
    <3>2. /\ Len(Unread(rb', mem')) = get_rb_length(rb')
          /\ Len(Unread(given.rb, OldMem)) = get_rb_length(given.rb)
          /\ Unread(given.rb, OldMem) \in Seq(Int)
      BY <1>2, <1>7, <2>1, UnreadType DEF Ring
    <3>3. Numbers(ToCopy) \in Seq(Int) /\ Len(Numbers(ToCopy)) = ToCopy
      BY <1>3, MemoryTypes
    <3>4. get_rb_length(rb') = get_rb_length(given.rb) + ToCopy
      <4> DEFINE u == Unread(given.rb, OldMem)
                 c == Numbers(ToCopy)
      <4>1. u \in Seq(Int) /\ c \in Seq(Int)
        BY <3>2, <3>3
      <4> HIDE DEF u, c
      <4>2. Len(u \o c) = Len(u) + Len(c)
        BY <4>1, ConcatProperties
      <4> QED
        BY <3>1, <3>2, <3>3, <4>2 DEF u, c
    <3>5. get_rb_length(rb') = get_rb_length(given.rb) + (Copied + m)
      <4>1. get_rb_room(given.rb) \in Pos /\ ToCopy <= get_rb_room(given.rb)
        BY <1>1, <1>2, RoomType, PieceLength DEF Ring
      <4>2. Copied + m \in Nat /\ Copied + m <= get_rb_room(given.rb)
        BY <1>3, <1>6, <4>1, SizeAssumption DEF Pos
      <4> QED
        BY <1>2, <1>8, <4>2, MoveTailLength
    <3>6. get_rb_length(given.rb) \in Nat
      BY <1>2, LengthType, SizeAssumption DEF Ring, Pos
    <3> QED
      BY <1>3, <1>6, <3>4, <3>5, <3>6
  <2>3. After(ToCopy)'
    BY <1>10, <2>2 DEF After
  <2> QED
    BY <1>1, <1>2, <1>12, <2>3 DEF XmitOnce
<1> QED
  BY <1>1, <1>11, <1>12

\* A round of adv_uart_recv_chars's loop extends the one move.
LEMMA HandPieceOnce ==
    ASSUME RecvInv, RecvOnce, HandPiece
    PROVE  RecvOnce'
<1>1. PICK n \in 0 .. Len(Piece) :
        /\ at = "hand" /\ given' = given /\ throttled' = throttled
        /\ tty' = tty \o SubSeq(Piece, 1, n)
        /\ IF n > 0 THEN rb' = Taken(n) /\ at' = at ELSE at' = "push" /\ rb' = rb
  BY DEF HandPiece
<1>2. /\ given.rb \in Ring /\ rb \in Ring /\ ~rb.clean /\ mem = OldMem /\ mem \in [Pos -> Int]
      /\ tty \in Seq(Int) /\ tty \o Unread(rb, mem) = Unread(given.rb, OldMem)
      /\ ~given.rb.clean /\ rb = move_rb_head(given.rb, Len(tty)) /\ ~Silent
  BY <1>1, MemoryTypes DEF RecvInv, NoByteLost, RecvOnce
<1>3. /\ n \in Nat /\ n <= get_rb_length(rb) /\ SubSeq(Piece, 1, n) = Peek(rb, mem, n)
  <2>1. /\ Len(Piece) \in Nat /\ Len(Piece) <= get_rb_length(rb) /\ get_rb_length(rb) \in Nat
        /\ SubSeq(Piece, 1, n) = Peek(rb, mem, n)
    BY <1>1, <1>2, PieceIsFront
  <2> QED
    BY <1>1, <2>1
<1>4. Peek(rb, mem, n) \in Seq(Int) /\ Len(Peek(rb, mem, n)) = n
  <2>1. rb.head \in Pos
    BY <1>2 DEF Ring
  <2>2. \A j \in Nat : Peek(rb, mem, j) \in Seq(Int) /\ Len(Peek(rb, mem, j)) = j
    BY <1>2, <2>1, PeekType
  <2> QED
    BY <1>3, <2>2
<1>5. Len(tty') = Len(tty) + n /\ Len(tty) \in Nat
  BY <1>1, <1>2, <1>3, <1>4, ConcatProperties, LenProperties
<1>6. Len(tty) + n < Size
  <2>1. /\ rb.head \in Pos /\ rb.tail \in Pos /\ given.rb.head \in Pos /\ given.rb.tail \in Pos
    BY <1>2 DEF Ring
  <2>2. /\ Unread(rb, mem) \in Seq(Int) /\ Len(Unread(rb, mem)) = get_rb_length(rb)
        /\ Len(Unread(given.rb, OldMem)) = get_rb_length(given.rb)
        /\ get_rb_length(rb) \in Pos /\ get_rb_length(given.rb) \in Pos
    BY <1>2, <2>1, UnreadType, LengthType, MemoryTypes
  <2>3. Len(tty) + get_rb_length(rb) = get_rb_length(given.rb)
    <3> DEFINE u == Unread(rb, mem)
    <3>1. u \in Seq(Int) /\ tty \in Seq(Int)
      BY <1>2, <2>2
    <3> HIDE DEF u
    <3>2. Len(tty \o u) = Len(tty) + Len(u)
      BY <3>1, ConcatProperties
    <3> QED
      BY <1>2, <2>2, <3>2 DEF u
  <2> QED
    BY <1>3, <1>5, <2>2, <2>3, SizeAssumption DEF Pos
<1>7. rb' = move_rb_head(given.rb, Len(tty) + n)
  <2>1. CASE n > 0
    <3>1. move_rb_head(move_rb_head(given.rb, Len(tty)), n) = move_rb_head(given.rb, Len(tty) + n)
      BY <1>2, <1>3, <1>5, <1>6, MoveTwice
    <3> QED
      BY <1>1, <1>2, <2>1, <3>1 DEF Taken
  <2>2. CASE ~(n > 0)
    <3>1. Len(tty) + n = Len(tty)
      BY <1>3, <1>5, <2>2
    <3> QED
      BY <1>1, <1>2, <2>2, <3>1
  <2> QED
    BY <2>1, <2>2
<1>8. ~Silent'
  BY <1>1, <1>2 DEF Silent
<1> QED
  BY <1>1, <1>2, <1>5, <1>7, <1>8 DEF RecvOnce

\* A call of either loop starts with nothing moved.
LEMMA OnceStart == CallInit => XmitOnce /\ RecvOnce
<1>1. ASSUME RecvInit PROVE XmitOnce /\ RecvOnce
  <2>1. at = "recv" /\ rb \in Ring /\ ~rb.clean /\ given.rb = rb /\ tty = <<>>
    BY <1>1 DEF RecvInit, Ring
  <2>2. move_rb_head(rb, 0) = rb /\ Len(<<>>) = 0
    BY <2>1, MemoryTypes, MoveNothing
  <2> QED
    BY <2>1, <2>2 DEF XmitOnce, RecvOnce
<1>2. ASSUME Init PROVE XmitOnce /\ RecvOnce
  <2>1. at = "entry" /\ rb \in Ring /\ ~rb.clean /\ given.rb = rb /\ mem = OldMem
    <3>1. PICK n \in XPos : given = [rb |-> rb, xtail |-> xtail, pending |-> n]
      BY <1>2 DEF Init
    <3>2. given.rb = rb
      BY <3>1
    <3> QED
      BY <1>2, <3>2 DEF Init, Ring
  <2>2. move_rb_tail(rb, 0) = rb /\ Poke(rb, OldMem, <<>>) = OldMem
    BY <2>1, MemoryTypes, MoveNothing
  <2>3. Numbers(0) = <<>>
    BY DEF Numbers
  <2>4. After(0)
    BY <2>1, <2>2, <2>3 DEF After
  <2> QED
    BY <2>1, <2>4 DEF XmitOnce, RecvOnce
<1> QED
  BY <1>1, <1>2 DEF CallInit

\* Every step of a call keeps what has been moved so far a single move and copy.
LEMMA OnceStep ==
    CallInv /\ XmitOnce /\ RecvOnce /\ [CallNext]_recvVars => (XmitOnce /\ RecvOnce)'
<1> SUFFICES ASSUME CallInv, XmitOnce, RecvOnce, [CallNext]_recvVars
             PROVE  (XmitOnce /\ RecvOnce)'
  OBVIOUS
<1>1. XmitInv /\ RecvInv /\ OldMem' = OldMem
  BY DEF CallInv, OldMem
<1>2. CASE RecvNext
  <2>1. CASE NothingToHand
    <3>1. /\ at = "recv" /\ at' = "done" /\ UNCHANGED <<rb, mem, given, tty, throttled>>
          /\ rb = given.rb
      BY <1>1, <2>1 DEF NothingToHand, ttyVars, RecvInv
    <3>2. tty = <<>>
      BY <1>1, <2>1, <3>1 DEF NothingToHand, Mute, RecvOnce, Silent
    <3> QED
      BY <3>1, <3>2 DEF XmitOnce, RecvOnce, Silent
  <2>2. CASE Enter
    <3>1. /\ at = "recv" /\ at' = "hand" /\ UNCHANGED <<rb, mem, given, tty, throttled>>
          /\ rb = given.rb /\ ~Silent
      BY <1>1, <2>2 DEF Enter, ttyVars, RecvInv, Mute, Silent
    <3> QED
      BY <3>1 DEF XmitOnce, RecvOnce, Silent
  <2>3. CASE HandPiece
    <3>1. at' \in {"hand", "push"}
      BY <2>3 DEF HandPiece
    <3> QED
      BY <1>1, <2>3, <3>1, HandPieceOnce DEF XmitOnce
  <2>4. CASE EndLoop \/ Push
    <3>1. /\ at \in {"hand", "push"} /\ at' \in {"push", "done"}
          /\ UNCHANGED <<rb, mem, given, tty, throttled>>
      BY <2>4 DEF EndLoop, Push, ttyVars
    <3> QED
      BY <3>1 DEF XmitOnce, RecvOnce, Silent
  <2>5. CASE Done
    <3>1. at = "done" /\ at' = at /\ UNCHANGED <<rb, mem, given, tty, throttled>>
      BY <2>5 DEF Done, recvVars, xmitVars, ttyVars
    <3> QED
      BY <3>1 DEF XmitOnce, RecvOnce, Silent
  <2> QED
    BY <1>2, <2>1, <2>2, <2>3, <2>4, <2>5 DEF RecvNext
<1>3. CASE Next /\ UNCHANGED ttyVars
  <2>1. CASE NothingToCopy
    <3>1. /\ at = "entry" /\ at' = "return" /\ UNCHANGED <<rb, mem, given>>
          /\ (given.pending = 0 \/ get_rb_room(rb) = 0)
          /\ given.rb \in Ring /\ given.pending \in XPos /\ rb = given.rb
      BY <1>1, <2>1 DEF NothingToCopy, XmitInv
    <3>2. get_rb_room(given.rb) \in Pos
      BY <3>1, RoomType DEF Ring
    <3>3. get_rb_room(given.rb) \in Nat /\ given.pending \in Nat
      BY <3>1, <3>2, SizeAssumption, XmitAssumption DEF Pos, XPos
    <3>4. ToCopy = 0
      BY <3>1, <3>3 DEF ToCopy, least
    <3>5. After(ToCopy) /\ ToCopy' = ToCopy
      BY <3>1, <3>4 DEF XmitOnce, ToCopy
    <3> QED
      BY <1>1, <3>1, <3>5 DEF XmitOnce, RecvOnce, After
  <2>2. CASE Prepare
    <3>1. /\ at = "entry" /\ at' = "loop" /\ UNCHANGED <<rb, mem, given>>
          /\ After(0) /\ ~given.rb.clean
      BY <2>2 DEF Prepare, XmitOnce
    <3>2. Copied' = 0
      <4>1. /\ rb = given.rb /\ count' = least(given.pending, get_rb_room(rb))
            /\ given.rb \in Ring /\ given.pending \in XPos
        BY <1>1, <2>2 DEF XmitInv, Prepare
      <4>2. get_rb_room(given.rb) \in Pos
        BY <4>1, RoomType DEF Ring
      <4>3. get_rb_room(given.rb) \in Nat /\ given.pending \in Nat
        BY <4>1, <4>2, SizeAssumption, XmitAssumption DEF Pos, XPos
      <4> QED
        BY <3>1, <4>1, <4>3 DEF ToCopy, Copied, least
    <3>3. After(Copied)'
      BY <1>1, <3>1, <3>2 DEF After
    <3> QED
      BY <3>1, <3>3 DEF XmitOnce, RecvOnce
  <2>3. CASE CopyPiece
    <3>1. at' \in {"loop", "return"}
      BY <2>3 DEF CopyPiece
    <3> QED
      BY <1>1, <2>3, <3>1, CopyPieceOnce DEF RecvOnce
  <2>4. CASE Return
    <3>1. at = "return" /\ at' = at /\ UNCHANGED <<rb, mem, given>>
      BY <2>4 DEF Return, xmitVars
    <3>2. ToCopy' = ToCopy
      BY <3>1 DEF ToCopy
    <3> QED
      BY <1>1, <3>1, <3>2 DEF XmitOnce, RecvOnce, After
  <2> QED
    BY <1>3, <2>1, <2>2, <2>3, <2>4 DEF Next
<1>4. CASE UNCHANGED recvVars
  <2>1. at' = at /\ UNCHANGED <<rb, mem, given, count, tty, throttled>>
    BY <1>4 DEF recvVars, xmitVars, ttyVars
  <2>2. ToCopy' = ToCopy /\ Copied' = Copied
    BY <2>1 DEF ToCopy, Copied
  <2> QED
    BY <1>1, <2>1, <2>2 DEF XmitOnce, RecvOnce, Silent, After
<1> QED
  BY <1>2, <1>3, <1>4 DEF CallNext

\* What has been moved so far is, throughout, a single move and a single copy.
THEOREM OnceInvariant == CallSpec => [](XmitOnce /\ RecvOnce)
  BY CallInvariant, OnceStart, OnceStep, PTL DEF CallSpec

\* The rounds of adv_uart_xmit's loop add up to the one step of VcomDriver.
THEOREM XmitOneStep == CallSpec => []XmitIsOneStep
<1>1. XmitOnce => XmitIsOneStep
  BY DEF XmitOnce, XmitIsOneStep, After, Numbers, ToCopy
<1> QED
  BY <1>1, OnceInvariant, PTL

\* The rounds of adv_uart_recv_chars's loop add up to the one step of VcomDriver.
THEOREM RecvOneStep == CallSpec => []RecvIsOneStep
<1>1. CallInv /\ RecvOnce => RecvIsOneStep
  <2> SUFFICES ASSUME CallInv, RecvOnce, at = "done" PROVE RecvIsOneStep
    BY DEF RecvIsOneStep
  <2> DEFINE n == Len(tty)
             g == given.rb
             old == Unread(given.rb, OldMem)
             new == Unread(rb, OldMem)
  <2>1. /\ given.rb \in Ring /\ rb \in Ring /\ mem = OldMem /\ tty \in Seq(Int)
        /\ tty \o Unread(rb, mem) = Unread(given.rb, OldMem)
        /\ rb = move_rb_head(given.rb, Len(tty)) /\ (Silent => tty = <<>>)
    BY DEF CallInv, RecvInv, NoByteLost, RecvOnce
  <2>2. rb.head \in Pos /\ rb.tail \in Pos /\ g.head \in Pos /\ g.tail \in Pos
    BY <2>1 DEF Ring
  <2>3. /\ OldMem \in [Pos -> Int]
        /\ old \in Seq(Int) /\ Len(old) = get_rb_length(g)
        /\ new \in Seq(Int) /\ Len(new) = get_rb_length(rb)
        /\ get_rb_length(g) \in Nat /\ get_rb_length(rb) \in Nat
    <3>1. OldMem \in [Pos -> Int]
      BY MemoryTypes
    <3>2. get_rb_length(g) \in Pos /\ get_rb_length(rb) \in Pos
      BY <2>2, LengthType
    <3>3. /\ old \in Seq(Int) /\ Len(old) = get_rb_length(g)
          /\ new \in Seq(Int) /\ Len(new) = get_rb_length(rb)
      BY <2>2, <3>1, UnreadType
    <3> HIDE DEF old, new, g
    <3> QED
      BY <3>1, <3>2, <3>3, SizeAssumption DEF Pos
  <2>4. /\ n \in Nat /\ n + Len(new) = Len(old)
        /\ \A i \in 1 .. n : old[i] = tty[i]
    <3>1. tty \o new = old /\ tty \in Seq(Int) /\ new \in Seq(Int)
      BY <2>1, <2>3
    <3> HIDE DEF old, new
    <3>2. /\ Len(tty \o new) = Len(tty) + Len(new) /\ Len(tty) \in Nat /\ Len(new) \in Nat
          /\ \A i \in 1 .. Len(tty) + Len(new) :
                (tty \o new)[i] = IF i <= Len(tty) THEN tty[i] ELSE new[i - Len(tty)]
      BY <3>1, ConcatProperties, LenProperties
    <3> QED
      BY <3>1, <3>2
  <2>5. n <= get_rb_length(g)
    BY <2>3, <2>4
  <2> HIDE DEF old, new, n
  <2>6. tty = Peek(g, OldMem, n)
    <3>1. /\ Peek(g, OldMem, n) \in Seq(Int) /\ Len(Peek(g, OldMem, n)) = n
      <4>0. g.head \in Pos /\ OldMem \in [Pos -> Int]
        BY <2>2, <2>3
      <4> HIDE DEF g
      <4>1. \A j \in Nat : Peek(g, OldMem, j) \in Seq(Int)
        BY <4>0, PeekType
      <4>2. \A j \in Nat : Len(Peek(g, OldMem, j)) = j
        BY <4>0, PeekType
      <4> QED
        BY <2>4, <4>1, <4>2
    <3>2. \A i \in 1 .. n : Peek(g, OldMem, n)[i] = tty[i]
      <4> SUFFICES ASSUME NEW i \in 1 .. n PROVE Peek(g, OldMem, n)[i] = tty[i]
        OBVIOUS
      <4>1. i \in 1 .. get_rb_length(g)
        BY <2>3, <2>4, <2>5
      <4>2. /\ Peek(g, OldMem, n)[i] = OldMem[Around(g.head, i - 1)]
            /\ old[i] = OldMem[Around(g.head, i - 1)]
        BY <4>1, UnreadAt DEF old
      <4> QED
        BY <2>4, <4>2
    <3>3. Len(tty) = n
      BY DEF n
    <3> QED
      BY <2>1, <3>1, <3>2, <3>3, SeqEqual
  <2>7. n \in IF throttled \/ ~given.rb.on THEN {0} ELSE 0 .. get_rb_length(given.rb)
    <3>1. Silent => n = 0
      BY <2>1 DEF n
    <3> QED
      BY <2>3, <2>4, <2>5, <3>1 DEF Silent
  <2> QED
    BY <2>1, <2>6, <2>7 DEF RecvIsOneStep, n
<1> QED
  BY <1>1, CallInvariant, OnceInvariant, PTL

=============================================================================
