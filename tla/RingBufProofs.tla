--------------------------- MODULE RingBufProofs ---------------------------
(***************************************************************************)
(* What the operations of module RingBuf return and preserve, for rings of *)
(* every size.                                                             *)
(***************************************************************************)
EXTENDS RingBuf, SequenceTheorems, TLAPS

\* A number below twice the size is wrapped around at most once, as by the
\* % buf->size of move_rb_head and move_rb_tail.
LEMMA Wrap ==
    ASSUME NEW x \in Nat, x < 2 * Size
    PROVE  x % Size = IF x < Size THEN x ELSE x - Size
  BY SizeAssumption

\* Every wrapped-around number is a position.
LEMMA ModRange ==
    ASSUME NEW x \in Int
    PROVE  x % Size \in Pos
  BY SizeAssumption DEF Pos

\* The distance of two positions is wrapped upwards once if it is negative.
LEMMA WrapDown ==
    ASSUME NEW x \in Int, -Size < x, x < Size
    PROVE  x % Size = IF x >= 0 THEN x ELSE x + Size
  BY SizeAssumption

----------------------------------------------------------------------------
(* Types.  The daemon's copy of a ring has a head and a tail too.          *)

\* get_rb_length is between 0 and Size - 1 for every pair of cursors.
LEMMA LengthType ==
    ASSUME NEW rb, rb.head \in Pos, rb.tail \in Pos
    PROVE  get_rb_length(rb) \in Pos
  BY SizeAssumption DEF get_rb_length, Pos

\* get_rb_room is between 0 and Size - 1 too.
LEMMA RoomType ==
    ASSUME NEW rb, rb.head \in Pos, rb.tail \in Pos
    PROVE  get_rb_room(rb) \in Pos
  BY SizeAssumption, LengthType DEF get_rb_room, Pos

\* move_rb_head returns a ring, whether the ring was marked CLEAN or not.
LEMMA MoveHeadType ==
    ASSUME NEW rb \in Ring, NEW n \in Nat
    PROVE  move_rb_head(rb, n) \in Ring
<1>1. (rb.head + n) % Size \in Pos
  BY ModRange DEF Ring, Pos
<1> QED
  BY <1>1 DEF move_rb_head, Ring

\* move_rb_tail returns a ring.
LEMMA MoveTailType ==
    ASSUME NEW rb \in Ring, NEW n \in Nat
    PROVE  move_rb_tail(rb, n) \in Ring
<1>1. (rb.tail + n) % Size \in Pos
  BY ModRange DEF Ring, Pos
<1> QED
  BY <1>1 DEF move_rb_tail, Ring

\* Peek returns as many bytes as it is asked for, all from the memory.
LEMMA PeekType ==
    ASSUME NEW S, NEW rb, rb.head \in Pos, NEW d \in [Pos -> S], NEW n \in Nat
    PROVE  Peek(rb, d, n) \in Seq(S) /\ Len(Peek(rb, d, n)) = n
<1>1. ASSUME NEW i \in 1 .. n PROVE Around(rb.head, i - 1) \in Pos
  <2>1. rb.head + (i - 1) \in Int
    BY SizeAssumption DEF Pos
  <2> QED
    BY <2>1, ModRange DEF Around
<1>2. Peek(rb, d, n) \in [1 .. n -> S]
  BY <1>1 DEF Peek
<1> QED
  BY <1>2 DEF Peek

\* Poke returns a memory, whatever the length of what is copied.
LEMMA PokeType ==
    ASSUME NEW S, NEW rb, rb.tail \in Pos, NEW d \in [Pos -> S], NEW s \in Seq(S)
    PROVE  Poke(rb, d, s) \in [Pos -> S]
<1>1. ASSUME NEW p \in Pos PROVE (p - rb.tail) % Size \in Pos
  <2>1. p - rb.tail \in Int
    BY SizeAssumption DEF Pos
  <2> QED
    BY <2>1, ModRange
<1>2. \A k \in Pos : k < Len(s) => s[k + 1] \in S
  BY DEF Pos
<1> QED
  BY <1>1, <1>2 DEF Poke

----------------------------------------------------------------------------
(* Moving a cursor changes the length by as much, as long as no more is    *)
(* put in than there is room for and no more taken out than there is.      *)

\* Moving the tail by at most the room makes the ring longer by as much,
\* and leaves the head alone.
LEMMA MoveTailLength ==
    ASSUME NEW rb \in Ring, NEW n \in Nat, n <= get_rb_room(rb)
    PROVE  /\ get_rb_length(move_rb_tail(rb, n)) = get_rb_length(rb) + n
           /\ move_rb_tail(rb, n).head = rb.head
<1>1. rb.head \in Pos /\ rb.tail \in Pos
  BY DEF Ring
<1>2. n \in Pos
  BY <1>1, RoomType, SizeAssumption DEF Pos
<1>3. rb.tail + n < 2 * Size
  BY <1>1, <1>2, SizeAssumption DEF Pos
<1>4. (rb.tail + n) % Size = IF rb.tail + n < Size THEN rb.tail + n ELSE rb.tail + n - Size
  BY <1>1, <1>3, Wrap, SizeAssumption DEF Pos
<1>5. /\ move_rb_tail(rb, n).head = rb.head
      /\ move_rb_tail(rb, n).tail = (rb.tail + n) % Size
  BY DEF move_rb_tail, Ring
<1>6. CASE rb.tail + n < Size
  BY <1>1, <1>2, <1>4, <1>5, <1>6, SizeAssumption DEF get_rb_room, get_rb_length, Pos
<1>7. CASE rb.tail + n >= Size
  <2>1. rb.tail >= rb.head
    BY <1>1, <1>2, <1>7, SizeAssumption DEF get_rb_room, get_rb_length, Pos
  <2>2. rb.tail + n - Size < rb.head
    BY <1>1, <1>2, <1>7, <2>1, SizeAssumption DEF get_rb_room, get_rb_length, Pos
  <2> QED
    BY <1>1, <1>2, <1>4, <1>5, <1>7, <2>1, <2>2, SizeAssumption DEF get_rb_length, Pos
<1> QED
  BY <1>1, <1>2, <1>6, <1>7, SizeAssumption DEF Pos

\* Moving the head of a ring not marked CLEAN by at most its length makes
\* it shorter by as much, and leaves the tail alone.
LEMMA MoveHeadLength ==
    ASSUME NEW rb \in Ring, ~rb.clean, NEW n \in Nat, n <= get_rb_length(rb)
    PROVE  /\ get_rb_length(move_rb_head(rb, n)) = get_rb_length(rb) - n
           /\ move_rb_head(rb, n).tail = rb.tail
<1>1. rb.head \in Pos /\ rb.tail \in Pos
  BY DEF Ring
<1>2. n \in Pos
  BY <1>1, LengthType, SizeAssumption DEF Pos
<1>3. rb.head + n < 2 * Size
  BY <1>1, <1>2, SizeAssumption DEF Pos
<1>4. (rb.head + n) % Size = IF rb.head + n < Size THEN rb.head + n ELSE rb.head + n - Size
  BY <1>1, <1>3, Wrap, SizeAssumption DEF Pos
<1>5. /\ move_rb_head(rb, n).tail = rb.tail
      /\ move_rb_head(rb, n).head = (rb.head + n) % Size
  BY DEF move_rb_head, Ring
<1> QED
  BY <1>1, <1>2, <1>4, <1>5, SizeAssumption DEF get_rb_length, Pos

----------------------------------------------------------------------------
(* Copying to the tail disturbs nothing that is still to be read: what is  *)
(* i places behind the head is at least m places before the tail.          *)

\* With no more than the room to be copied, no unread position is among
\* the m positions from the tail on.
LEMMA Apart ==
    ASSUME NEW h \in Pos, NEW t \in Pos, NEW len \in Nat, NEW i \in Nat, NEW m \in Nat,
           len = IF t >= h THEN t - h ELSE Size - h + t,
           i < len, m <= Size - len - 1
    PROVE  /\ (h + i) % Size \in Pos
           /\ (((h + i) % Size) - t) % Size >= m
<1>1. h \in Nat /\ t \in Nat /\ h < Size /\ t < Size /\ Size \in Nat
  BY SizeAssumption DEF Pos
<1>2. h + i < 2 * Size
  BY <1>1
<1>3. CASE h + i < Size
  <2>1. (h + i) % Size = h + i
    BY <1>1, <1>2, <1>3, Wrap
  <2>2. -Size < h + i - t /\ h + i - t < Size
    BY <1>1, <1>3
  <2>3. (h + i - t) % Size = IF h + i - t >= 0 THEN h + i - t ELSE h + i - t + Size
    BY <1>1, <2>2, WrapDown
  <2> QED
    BY <1>1, <1>3, <2>1, <2>3 DEF Pos
<1>4. CASE h + i >= Size
  <2>1. (h + i) % Size = h + i - Size
    BY <1>1, <1>2, <1>4, Wrap
  <2>2. -Size < h + i - Size - t /\ h + i - Size - t < 0
    BY <1>1, <1>4
  <2>3. (h + i - Size - t) % Size = h + i - t
    BY <1>1, <2>2, WrapDown
  <2> QED
    BY <1>1, <1>4, <2>1, <2>3 DEF Pos
<1> QED
  BY <1>1, <1>3, <1>4

\* The copies of adv_uart_xmit and vc_common_recv leave every unread byte
\* as it was.
THEOREM PokeKeeps ==
    ASSUME NEW S, NEW rb, rb.head \in Pos, rb.tail \in Pos,
           NEW d \in [Pos -> S], NEW s \in Seq(S), Len(s) <= get_rb_room(rb),
           NEW i \in Nat, i < get_rb_length(rb)
    PROVE  Poke(rb, d, s)[Around(rb.head, i)] = d[Around(rb.head, i)]
<1> DEFINE p == (rb.head + i) % Size
<1>1. get_rb_length(rb) \in Nat
  BY LengthType, SizeAssumption DEF Pos
<1>2. Len(s) \in Nat
  OBVIOUS
<1>3. p \in Pos /\ (p - rb.tail) % Size >= Len(s)
  BY <1>1, <1>2, Apart DEF get_rb_room, get_rb_length
<1>4. (p - rb.tail) % Size \in Nat
  <2>1. p - rb.tail \in Int
    BY <1>3, SizeAssumption DEF Pos
  <2>2. (p - rb.tail) % Size \in Pos
    BY <2>1, ModRange
  <2> QED
    BY <2>2, SizeAssumption DEF Pos
<1>5. Poke(rb, d, s)[p] = d[p]
  <2> HIDE DEF p
  <2> QED
    BY <1>2, <1>3, <1>4 DEF Poke
<1> QED
  BY <1>5 DEF Around

----------------------------------------------------------------------------
(* What a ring holds, as a sequence: the operations append to it and take  *)
(* from its front.                                                         *)

\* Unread is a sequence of get_rb_length bytes.
LEMMA UnreadType ==
    ASSUME NEW S, NEW rb, rb.head \in Pos, rb.tail \in Pos, NEW d \in [Pos -> S]
    PROVE  Unread(rb, d) \in Seq(S) /\ Len(Unread(rb, d)) = get_rb_length(rb)
<1>1. get_rb_length(rb) \in Nat
  BY LengthType, SizeAssumption DEF Pos
<1>2. ASSUME NEW n \in Nat PROVE Peek(rb, d, n) \in Seq(S)
  BY PeekType
<1>3. ASSUME NEW n \in Nat PROVE Len(Peek(rb, d, n)) = n
  BY PeekType
<1> QED
  BY <1>1, <1>2, <1>3 DEF Unread

\* The i-th byte that Peek or Unread returns lies i - 1 places behind the head.
LEMMA UnreadAt ==
    ASSUME NEW rb, NEW d, NEW n, NEW i \in 1 .. n
    PROVE  /\ Peek(rb, d, n)[i] = d[Around(rb.head, i - 1)]
           /\ n = get_rb_length(rb) => Unread(rb, d)[i] = d[Around(rb.head, i - 1)]
  BY DEF Peek, Unread

\* The first n bytes of a ring are the first n of what is unread.
LEMMA PeekIsFront ==
    ASSUME NEW S, NEW rb, rb.head \in Pos, rb.tail \in Pos, NEW d \in [Pos -> S],
           NEW n \in Nat, n <= get_rb_length(rb)
    PROVE  Peek(rb, d, n) = SubSeq(Unread(rb, d), 1, n)
<1> DEFINE u == Unread(rb, d)
<1>1. u \in Seq(S) /\ Len(u) = get_rb_length(rb)
  BY UnreadType
<1>2. Peek(rb, d, n) \in Seq(S) /\ Len(Peek(rb, d, n)) = n
  <2>1. \A m \in Nat : Len(Peek(rb, d, m)) = m /\ Peek(rb, d, m) \in Seq(S)
    BY PeekType
  <2> QED
    BY <2>1
<1>3. get_rb_length(rb) \in Nat
  BY LengthType, SizeAssumption DEF Pos
<1>4. \A i \in 1 .. n : Peek(rb, d, n)[i] = u[i]
  <2> TAKE i \in 1 .. n
  <2>1. i \in 1 .. get_rb_length(rb)
    BY <1>3
  <2>2. u[i] = d[Around(rb.head, i - 1)]
    BY <2>1, UnreadAt
  <2> QED
    BY <2>2, UnreadAt
<1> HIDE DEF u
<1>5. \A i \in 1 .. n : u[i] \in S
  BY <1>1, <1>3, ElementOfSeq
<1>6. /\ SubSeq(u, 1, n) \in Seq(S) /\ Len(SubSeq(u, 1, n)) = n
      /\ \A i \in 1 .. n : SubSeq(u, 1, n)[i] = u[i]
  BY <1>5, SubSeqProperties
<1>7. \A i \in 1 .. n : Peek(rb, d, n)[i] = SubSeq(u, 1, n)[i]
  BY <1>4, <1>6
<1> QED
  BY <1>2, <1>6, <1>7, SeqEqual DEF u

\* What is j places after the place i after p is i + j places after p.
LEMMA AroundAround ==
    ASSUME NEW p \in Pos, NEW i \in Nat, NEW j \in Nat, i < Size, i + j < Size
    PROVE  Around(Around(p, i), j) = Around(p, i + j)
<1>1. p \in Nat /\ p < Size /\ Size \in Nat /\ p + i \in Nat /\ p + (i + j) \in Nat
  BY SizeAssumption DEF Pos
<1>2. /\ (p + i) % Size = IF p + i < Size THEN p + i ELSE p + i - Size
      /\ (p + (i + j)) % Size = IF p + (i + j) < Size THEN p + (i + j) ELSE p + (i + j) - Size
  BY <1>1, Wrap
<1>3. CASE p + i < Size
  <2>1. (p + i) + j = p + (i + j)
    BY <1>1
  <2> QED
    BY <1>2, <1>3, <2>1 DEF Around
<1>4. CASE p + i >= Size
  <2>1. /\ p + i - Size + j \in Nat /\ p + i - Size + j < Size
    BY <1>1, <1>4
  <2>2. (p + i - Size + j) % Size = p + i - Size + j
    BY <1>1, <2>1, Wrap
  <2> QED
    BY <1>1, <1>2, <1>4, <2>2 DEF Around
<1> QED
  BY <1>1, <1>3, <1>4

\* The tail lies get_rb_length places after the head.
LEMMA TailAround ==
    ASSUME NEW rb, rb.head \in Pos, rb.tail \in Pos
    PROVE  Around(rb.head, get_rb_length(rb)) = rb.tail
<1>1. /\ rb.head \in Nat /\ rb.head < Size /\ rb.tail \in Nat /\ rb.tail < Size
      /\ Size \in Nat
  BY SizeAssumption DEF Pos
<1>2. get_rb_length(rb) \in Nat /\ rb.head + get_rb_length(rb) < 2 * Size
  BY <1>1 DEF get_rb_length
<1>3. (rb.head + get_rb_length(rb)) % Size
        = IF rb.head + get_rb_length(rb) < Size THEN rb.head + get_rb_length(rb)
          ELSE rb.head + get_rb_length(rb) - Size
  BY <1>1, <1>2, Wrap
<1> QED
  BY <1>1, <1>3 DEF Around, get_rb_length

\* Poke writes its bytes to the places from the tail on.
LEMMA PokeWrites ==
    ASSUME NEW S, NEW rb, rb.tail \in Pos, NEW d, NEW s \in Seq(S), Len(s) < Size,
           NEW k \in Nat, k < Len(s)
    PROVE  Poke(rb, d, s)[Around(rb.tail, k)] = s[k + 1]
<1> DEFINE p == Around(rb.tail, k)
<1>1. rb.tail \in Nat /\ rb.tail < Size /\ Size \in Nat /\ Len(s) \in Nat
  BY SizeAssumption DEF Pos
<1>2. p = IF rb.tail + k < Size THEN rb.tail + k ELSE rb.tail + k - Size
  <2>1. rb.tail + k \in Nat /\ rb.tail + k < 2 * Size
    BY <1>1
  <2>2. (rb.tail + k) % Size = IF rb.tail + k < Size THEN rb.tail + k ELSE rb.tail + k - Size
    BY <1>1, <2>1, Wrap, SizeAssumption
  <2> QED
    BY <2>2 DEF Around
<1>3. p \in Pos /\ -Size < p - rb.tail /\ p - rb.tail < Size
  BY <1>1, <1>2 DEF Pos
<1>4. (p - rb.tail) % Size = k
  <2> HIDE DEF p
  <2>0. p - rb.tail \in Int
    BY <1>1, <1>3 DEF Pos
  <2>1. (p - rb.tail) % Size = IF p - rb.tail >= 0 THEN p - rb.tail ELSE p - rb.tail + Size
    BY <1>3, <2>0, WrapDown
  <2> QED
    BY <1>1, <1>2, <2>1
<1> HIDE DEF p
<1>5. Poke(rb, d, s)[p] = s[k + 1]
  BY <1>3, <1>4 DEF Poke
<1> QED
  BY <1>5 DEF p

\* Copying to the tail leaves the first bytes of the ring as they were.
LEMMA PokeKeepsPeek ==
    ASSUME NEW S, NEW rb, rb.head \in Pos, rb.tail \in Pos,
           NEW d \in [Pos -> S], NEW s \in Seq(S), Len(s) <= get_rb_room(rb),
           NEW n \in Nat, n <= get_rb_length(rb)
    PROVE  Peek(rb, Poke(rb, d, s), n) = Peek(rb, d, n)
<1>1. \A i \in 1 .. n :
          Poke(rb, d, s)[Around(rb.head, i - 1)] = d[Around(rb.head, i - 1)]
  <2> SUFFICES ASSUME NEW i \in 1 .. n
               PROVE  Poke(rb, d, s)[Around(rb.head, i - 1)] = d[Around(rb.head, i - 1)]
    OBVIOUS
  <2>1. i - 1 \in Nat /\ i - 1 < get_rb_length(rb)
    BY LengthType, SizeAssumption DEF Pos
  <2> QED
    BY <2>1, PokeKeeps
<1> QED
  BY <1>1 DEF Peek

\* Copying s to the tail and moving the tail by its length appends s to what is
\* unread: nothing before it is disturbed, and nothing lies between.
THEOREM UnreadPut ==
    ASSUME NEW S, NEW rb \in Ring, NEW d \in [Pos -> S], NEW s \in Seq(S),
           Len(s) <= get_rb_room(rb)
    PROVE  Unread(move_rb_tail(rb, Len(s)), Poke(rb, d, s)) = Unread(rb, d) \o s
<1> DEFINE r == move_rb_tail(rb, Len(s))
           e == Poke(rb, d, s)
           n == get_rb_length(rb)
           u == Unread(rb, d)
           v == Unread(r, e)
<1>1. rb.head \in Pos /\ rb.tail \in Pos /\ Len(s) \in Nat
  BY DEF Ring
<1>2. r \in Ring /\ r.head = rb.head /\ get_rb_length(r) = n + Len(s)
  BY <1>1, MoveTailType, MoveTailLength
<1>3. r.head \in Pos /\ r.tail \in Pos /\ e \in [Pos -> S]
  BY <1>1, <1>2, PokeType DEF Ring
<1>4. n \in Nat /\ n + Len(s) < Size /\ Len(s) < Size
  BY <1>1, LengthType, SizeAssumption DEF Pos, get_rb_room
<1>5. /\ u \in Seq(S) /\ Len(u) = n
      /\ \A i \in 1 .. n : u[i] = d[Around(rb.head, i - 1)]
  BY <1>1, UnreadType, UnreadAt
<1>6. /\ v \in Seq(S) /\ Len(v) = n + Len(s)
      /\ \A i \in 1 .. n + Len(s) : v[i] = e[Around(rb.head, i - 1)]
  <2>1. v \in Seq(S) /\ Len(v) = get_rb_length(r)
    BY <1>3, UnreadType
  <2>2. \A i \in 1 .. get_rb_length(r) : v[i] = e[Around(r.head, i - 1)]
    BY UnreadAt
  <2> QED
    BY <1>2, <2>1, <2>2
<1>7. \A i \in 1 .. n : e[Around(rb.head, i - 1)] = d[Around(rb.head, i - 1)]
  <2> SUFFICES ASSUME NEW i \in 1 .. n
               PROVE  e[Around(rb.head, i - 1)] = d[Around(rb.head, i - 1)]
    OBVIOUS
  <2>1. i - 1 \in Nat /\ i - 1 < n
    BY <1>4
  <2> QED
    BY <1>1, <2>1, PokeKeeps
<1>8. \A i \in n + 1 .. n + Len(s) : e[Around(rb.head, i - 1)] = s[i - n]
  <2> SUFFICES ASSUME NEW i \in n + 1 .. n + Len(s)
               PROVE  e[Around(rb.head, i - 1)] = s[i - n]
    OBVIOUS
  <2> DEFINE k == i - 1 - n
  <2> HIDE DEF n, r, e, u, v
  <2>1. k \in Nat /\ k < Len(s) /\ n + k = i - 1 /\ n < Size /\ n + k < Size
        /\ k + 1 = i - n
    BY <1>1, <1>4, SizeAssumption
  <2> HIDE DEF k
  <2>2. Around(Around(rb.head, n), k) = Around(rb.head, n + k)
    BY <1>1, <1>4, <2>1, AroundAround
  <2>3. Around(rb.head, n) = rb.tail
    BY <1>1, TailAround DEF n
  <2>4. e[Around(rb.tail, k)] = s[k + 1]
    BY <1>1, <1>4, <2>1, PokeWrites DEF e
  <2> QED
    BY <2>1, <2>2, <2>3, <2>4
<1> HIDE DEF r, e, n, u, v
<1>9. /\ u \o s \in Seq(S) /\ Len(u \o s) = n + Len(s)
      /\ \A i \in 1 .. n + Len(s) : (u \o s)[i] = IF i <= n THEN u[i] ELSE s[i - n]
  BY <1>5, ConcatProperties
<1>10. \A i \in 1 .. n + Len(s) : v[i] = (u \o s)[i]
  <2> SUFFICES ASSUME NEW i \in 1 .. n + Len(s) PROVE v[i] = (u \o s)[i]
    OBVIOUS
  <2>1. CASE i <= n
    <3>1. /\ v[i] = e[Around(rb.head, i - 1)] /\ (u \o s)[i] = u[i]
          /\ i \in 1 .. n
      BY <1>4, <1>6, <1>9, <2>1
    <3> QED
      BY <1>5, <1>7, <3>1
  <2>2. CASE i > n
    <3>1. /\ v[i] = e[Around(rb.head, i - 1)] /\ (u \o s)[i] = s[i - n]
          /\ i \in n + 1 .. n + Len(s)
      BY <1>1, <1>4, <1>6, <1>9, <2>2
    <3> QED
      BY <1>8, <3>1
  <2> QED
    <3>1. i <= n \/ i > n
      BY <1>1, <1>4
    <3> QED
      BY <2>1, <2>2, <3>1
<1>11. v = u \o s
  BY <1>6, <1>9, <1>10, SeqEqual
<1> QED
  BY <1>11 DEF v, u, r, e

\* Moving the head of a ring not marked CLEAN by n takes the first n bytes from
\* what is unread, and nothing else.
THEOREM UnreadGet ==
    ASSUME NEW S, NEW rb \in Ring, ~rb.clean, NEW d \in [Pos -> S],
           NEW n \in Nat, n <= get_rb_length(rb)
    PROVE  /\ Unread(move_rb_head(rb, n), d)
                = SubSeq(Unread(rb, d), n + 1, get_rb_length(rb))
           /\ Peek(rb, d, n) \o Unread(move_rb_head(rb, n), d) = Unread(rb, d)
<1> DEFINE r == move_rb_head(rb, n)
           len == get_rb_length(rb)
           u == Unread(rb, d)
           v == Unread(r, d)
<1>1. rb.head \in Pos /\ rb.tail \in Pos
  BY DEF Ring
<1>2. r \in Ring /\ get_rb_length(r) = len - n /\ r.head = Around(rb.head, n)
  BY MoveHeadType, MoveHeadLength DEF move_rb_head, Around, Ring
<1>3. r.head \in Pos /\ r.tail \in Pos
  BY <1>2 DEF Ring
<1>4. len \in Nat /\ len < Size /\ n <= len
  BY <1>1, LengthType, SizeAssumption DEF Pos
<1>5. /\ u \in Seq(S) /\ Len(u) = len
      /\ \A i \in 1 .. len : u[i] = d[Around(rb.head, i - 1)]
  BY <1>1, UnreadType, UnreadAt
<1>6. /\ v \in Seq(S) /\ Len(v) = len - n
      /\ \A i \in 1 .. len - n : v[i] = d[Around(r.head, i - 1)]
  <2>1. v \in Seq(S) /\ Len(v) = get_rb_length(r)
    BY <1>3, UnreadType
  <2>2. \A i \in 1 .. get_rb_length(r) : v[i] = d[Around(r.head, i - 1)]
    BY UnreadAt
  <2> QED
    BY <1>2, <2>1, <2>2
<1>7. Peek(rb, d, n) = SubSeq(u, 1, n)
  BY <1>1, PeekIsFront
<1> HIDE DEF len, u, v, r
<1>8. \A i \in 1 .. len - n : v[i] = u[n + i]
  <2> SUFFICES ASSUME NEW i \in 1 .. len - n PROVE v[i] = u[n + i]
    OBVIOUS
  <2>1. i - 1 \in Nat /\ n < Size /\ n + (i - 1) < Size
    BY <1>4, SizeAssumption
  <2>2. Around(r.head, i - 1) = Around(rb.head, n + (i - 1))
    BY <1>1, <1>2, <2>1, AroundAround
  <2>3. n + i \in 1 .. len /\ n + (i - 1) = (n + i) - 1
    BY <1>4
  <2> QED
    BY <1>5, <1>6, <2>2, <2>3
<1>9. \A i \in n + 1 .. len : u[i] \in S
  BY <1>4, <1>5, ElementOfSeq
<1>10. /\ SubSeq(u, n + 1, len) \in Seq(S)
       /\ Len(SubSeq(u, n + 1, len)) = len - n
       /\ \A i \in 1 .. len - n : SubSeq(u, n + 1, len)[i] = u[n + i]
  <2>1. /\ SubSeq(u, n + 1, len) \in Seq(S)
        /\ Len(SubSeq(u, n + 1, len)) = IF n + 1 <= len THEN len - (n + 1) + 1 ELSE 0
        /\ \A i \in 1 .. len - (n + 1) + 1 : SubSeq(u, n + 1, len)[i] = u[n + 1 + i - 1]
    BY <1>4, <1>9, SubSeqProperties
  <2> QED
    BY <1>4, <2>1
<1>11. v = SubSeq(u, n + 1, len)
  BY <1>6, <1>8, <1>10, SeqEqual
<1>12. SubSeq(u, 1, n) \o SubSeq(u, n + 1, len) = u
  <2>1. 1 \in 1 .. Len(u) + 1 /\ n \in 1 - 1 .. Len(u) /\ Len(u) \in n .. Len(u)
    BY <1>4, <1>5
  <2>2. SubSeq(u, 1, n) \o SubSeq(u, n + 1, Len(u)) = SubSeq(u, 1, Len(u))
    BY <1>5, <2>1, ConcatAdjacentSubSeq
  <2> QED
    BY <1>5, <2>2, SubSeqFull
<1> QED
  BY <1>7, <1>11, <1>12 DEF v, u, r, len

----------------------------------------------------------------------------
(* Pieces.  What is moved in two pieces is moved as in one.                *)

\* Moving no byte changes nothing.
LEMMA MoveNothing ==
    ASSUME NEW rb \in Ring, ~rb.clean, NEW d \in [Pos -> Int]
    PROVE  /\ move_rb_tail(rb, 0) = rb
           /\ move_rb_head(rb, 0) = rb
           /\ Poke(rb, d, <<>>) = d
<1>1. rb.head \in Nat /\ rb.head < Size /\ rb.tail \in Nat /\ rb.tail < Size /\ Size \in Nat
  BY SizeAssumption DEF Ring, Pos
<1>2. (rb.tail + 0) % Size = rb.tail /\ (rb.head + 0) % Size = rb.head
  BY <1>1, SizeAssumption
<1>3. move_rb_tail(rb, 0) = rb
  <2>1. [rb EXCEPT !.tail = rb.tail] = rb
    BY DEF Ring
  <2> QED
    BY <1>2, <2>1 DEF move_rb_tail
<1>4. move_rb_head(rb, 0) = rb
  <2>1. [rb EXCEPT !.head = rb.head] = rb
    BY DEF Ring
  <2> QED
    BY <1>2, <2>1 DEF move_rb_head
<1>5. Poke(rb, d, <<>>) = d
  <2>1. ASSUME NEW q \in Pos PROVE ~((q - rb.tail) % Size < 0)
    <3>1. q - rb.tail \in Int
      BY <1>1, SizeAssumption DEF Pos
    <3>2. (q - rb.tail) % Size \in Pos
      BY <3>1, ModRange
    <3> QED
      BY <3>2, SizeAssumption DEF Pos
  <2>2. Len(<<>>) = 0
    OBVIOUS
  <2>3. Poke(rb, d, <<>>) = [q \in Pos |-> d[q]]
    BY <2>1, <2>2 DEF Poke
  <2> QED
    BY <2>3
<1> QED
  BY <1>3, <1>4, <1>5

\* Two moves of a cursor are one move by the sum.
LEMMA MoveTwice ==
    ASSUME NEW rb \in Ring, ~rb.clean, NEW a \in Nat, NEW b \in Nat, a + b < Size
    PROVE  /\ move_rb_tail(move_rb_tail(rb, a), b) = move_rb_tail(rb, a + b)
           /\ move_rb_head(move_rb_head(rb, a), b) = move_rb_head(rb, a + b)
<1>1. rb.head \in Pos /\ rb.tail \in Pos /\ a < Size
  BY SizeAssumption DEF Ring
<1>2. /\ (((rb.tail + a) % Size) + b) % Size = (rb.tail + (a + b)) % Size
      /\ (((rb.head + a) % Size) + b) % Size = (rb.head + (a + b)) % Size
  <2>1. \A q \in Pos : Around(Around(q, a), b) = Around(q, a + b)
    BY <1>1, AroundAround
  <2> QED
    BY <1>1, <2>1 DEF Around
<1>3. /\ move_rb_tail(rb, a).tail = (rb.tail + a) % Size
      /\ move_rb_head(rb, a).head = (rb.head + a) % Size
      /\ ~move_rb_head(rb, a).clean
  BY DEF move_rb_tail, move_rb_head, Ring
<1>4. \A x, y : /\ [[rb EXCEPT !.tail = x] EXCEPT !.tail = y] = [rb EXCEPT !.tail = y]
                /\ [[rb EXCEPT !.head = x] EXCEPT !.head = y] = [rb EXCEPT !.head = y]
  BY DEF Ring
<1> QED
  BY <1>2, <1>3, <1>4 DEF move_rb_tail, move_rb_head

\* How far a place lies behind the place a places after t, from how far it lies
\* behind t.
LEMMA Behind ==
    ASSUME NEW t \in Pos, NEW q \in Pos, NEW a \in Nat, a < Size
    PROVE  /\ (q - t) % Size \in Nat /\ (q - t) % Size < Size
           /\ (q - ((t + a) % Size)) % Size
                = IF (q - t) % Size >= a THEN ((q - t) % Size) - a
                                         ELSE ((q - t) % Size) - a + Size
<1> DEFINE u == (t + a) % Size
           k == (q - t) % Size
           l == (q - u) % Size
<1>1. t \in Nat /\ t < Size /\ q \in Nat /\ q < Size /\ Size \in Nat
  BY SizeAssumption DEF Pos
<1>2. u = IF t + a < Size THEN t + a ELSE t + a - Size
  <2>1. t + a \in Nat /\ t + a < 2 * Size
    BY <1>1
  <2>2. (t + a) % Size = IF t + a < Size THEN t + a ELSE t + a - Size
    BY <1>1, <2>1, Wrap
  <2> QED
    BY <2>2
<1> HIDE DEF u
<1>3. u \in Nat /\ u < Size
  BY <1>1, <1>2
<1>4. k = IF q - t >= 0 THEN q - t ELSE q - t + Size
  <2>1. q - t \in Int /\ -Size < q - t /\ q - t < Size
    BY <1>1
  <2> QED
    BY <2>1, WrapDown
<1>5. l = IF q - u >= 0 THEN q - u ELSE q - u + Size
  <2>1. q - u \in Int /\ -Size < q - u /\ q - u < Size
    BY <1>1, <1>3
  <2> QED
    BY <2>1, WrapDown
<1> HIDE DEF k, l
<1>6. k \in Nat /\ k < Size
  BY <1>1, <1>4
<1>7. l = IF k >= a THEN k - a ELSE k - a + Size
  BY <1>1, <1>2, <1>3, <1>4, <1>5, <1>6
<1> QED
  BY <1>6, <1>7 DEF k, l, u

\* Copying c to the tail and s to where the tail is then is copying c and s at once.
LEMMA PokeTwice ==
    ASSUME NEW rb \in Ring, NEW d \in [Pos -> Int], NEW c \in Seq(Int), NEW s \in Seq(Int),
           Len(c) + Len(s) < Size
    PROVE  Poke(move_rb_tail(rb, Len(c)), Poke(rb, d, c), s) = Poke(rb, d, c \o s)
<1> DEFINE a == Len(c)
           m == Len(s)
           r == move_rb_tail(rb, a)
           k(q) == (q - rb.tail) % Size
           l(q) == (q - r.tail) % Size
<1>1. a \in Nat /\ m \in Nat /\ a + m < Size /\ Size \in Nat
      /\ rb.tail \in Nat /\ rb.tail < Size
  BY SizeAssumption, LenProperties DEF Ring, Pos
<1> HIDE DEF a, m
<1>2. rb.tail \in Pos /\ r.tail = (rb.tail + a) % Size
  BY DEF move_rb_tail, Ring
<1> HIDE DEF r
<1>3. ASSUME NEW q \in Pos
      PROVE  /\ k(q) \in Nat /\ k(q) < Size
             /\ l(q) = IF k(q) >= a THEN k(q) - a ELSE k(q) - a + Size
  <2> DEFINE t == rb.tail
             u == (t + a) % Size
  <2>1. a \in Nat /\ a < Size /\ t \in Pos /\ r.tail = u
    BY <1>1, <1>2
  <2>2. /\ (q - t) % Size \in Nat /\ (q - t) % Size < Size
        /\ (q - u) % Size = IF (q - t) % Size >= a THEN ((q - t) % Size) - a
                                                  ELSE ((q - t) % Size) - a + Size
    <3> HIDE DEF t
    <3> QED
      BY <2>1, Behind
  <2>3. k(q) = (q - t) % Size /\ l(q) = (q - u) % Size
    BY <2>1
  <2> HIDE DEF t, u, k, l
  <2> QED
    BY <2>2, <2>3
<1> HIDE DEF k, l
<1>4. Len(c \o s) = a + m
      /\ \A i \in 1 .. a + m : (c \o s)[i] = IF i <= a THEN c[i] ELSE s[i - a]
  BY ConcatProperties DEF a, m
<1>5. ASSUME NEW q \in Pos
      PROVE  (IF l(q) < m THEN s[l(q) + 1] ELSE IF k(q) < a THEN c[k(q) + 1] ELSE d[q])
                = IF k(q) < a + m THEN (c \o s)[k(q) + 1] ELSE d[q]
  <2> DEFINE x == k(q)
             y == l(q)
  <2>0. x \in Nat /\ x < Size /\ y = IF x >= a THEN x - a ELSE x - a + Size
    BY <1>3
  <2> HIDE DEF x, y
  <2> SUFFICES (IF y < m THEN s[y + 1] ELSE IF x < a THEN c[x + 1] ELSE d[q])
                  = IF x < a + m THEN (c \o s)[x + 1] ELSE d[q]
    BY DEF x, y
  <2>1. CASE x < a
    <3>1. ~(y < m) /\ x < a + m /\ x + 1 \in 1 .. a + m /\ x + 1 <= a
      BY <1>1, <2>0, <2>1
    <3>2. (c \o s)[x + 1] = c[x + 1]
      BY <1>4, <3>1
    <3> QED
      BY <2>1, <3>1, <3>2
  <2>2. CASE a <= x /\ x < a + m
    <3>1. y < m /\ x + 1 \in 1 .. a + m /\ ~(x + 1 <= a) /\ x + 1 - a = y + 1
      BY <1>1, <2>0, <2>2
    <3>2. (c \o s)[x + 1] = s[y + 1]
      <4> DEFINE i == x + 1
      <4>1. i \in 1 .. a + m /\ ~(i <= a) /\ i - a = y + 1
        BY <1>1, <2>0, <3>1
      <4> HIDE DEF i
      <4>2. (c \o s)[i] = s[i - a]
        BY <1>4, <4>1
      <4> QED
        BY <4>1, <4>2 DEF i
    <3> QED
      BY <2>2, <3>1, <3>2
  <2>3. CASE ~(x < a + m)
    <3>1. ~(y < m) /\ ~(x < a)
      BY <1>1, <2>0, <2>3
    <3> QED
      BY <2>3, <3>1
  <2>4. x < a \/ (a <= x /\ x < a + m) \/ ~(x < a + m)
    BY <1>1, <2>0
  <2> QED
    BY <2>1, <2>2, <2>3, <2>4
<1>6. Poke(rb, d, c) = [q \in Pos |-> IF k(q) < a THEN c[k(q) + 1] ELSE d[q]]
  BY DEF Poke, k, a
<1>7. Poke(r, Poke(rb, d, c), s)
        = [q \in Pos |-> IF l(q) < m THEN s[l(q) + 1]
                         ELSE IF k(q) < a THEN c[k(q) + 1] ELSE d[q]]
  <2>1. Poke(r, Poke(rb, d, c), s)
          = [q \in Pos |-> IF l(q) < m THEN s[l(q) + 1] ELSE Poke(rb, d, c)[q]]
    BY DEF Poke, l, m
  <2>2. \A q \in Pos : Poke(rb, d, c)[q] = IF k(q) < a THEN c[k(q) + 1] ELSE d[q]
    BY <1>6
  <2> QED
    BY <2>1, <2>2
<1>8. Poke(rb, d, c \o s) = [q \in Pos |-> IF k(q) < a + m THEN (c \o s)[k(q) + 1] ELSE d[q]]
  BY <1>4 DEF Poke, k
<1> QED
  BY <1>5, <1>7, <1>8 DEF r, a

=============================================================================
