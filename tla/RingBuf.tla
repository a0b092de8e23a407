------------------------------ MODULE RingBuf ------------------------------
(***************************************************************************)
(* The ring buffer of driver/advvcom.h.  One ring is shared by three       *)
(* parties: the tty side of the driver, the ioctl side of the driver and   *)
(* the daemon, which keeps a copy of its two cursors.  A ring is a record  *)
(* with a head, the next position to read, and a tail, the next position   *)
(* to write; the kernel's rings also carry the two status bits of          *)
(* buf->status, ADV_RING_BUF_ENABLED (field on) and ADV_RING_BUF_CLEAN     *)
(* (field clean).  One position always stays free, so that head = tail     *)
(* means empty.  The bytes are a function of the positions.                *)
(***************************************************************************)
EXTENDS Integers, Sequences

CONSTANT Size     \* buf->size; PAGE_SIZE in the driver

ASSUME SizeAssumption == Size \in Nat /\ Size > 1

Pos == 0 .. Size - 1

\* The kernel's rings, and the daemon's copies of them.
Ring == [head : Pos, tail : Pos, on : BOOLEAN, clean : BOOLEAN]
RingCopy == [head : Pos, tail : Pos]

----------------------------------------------------------------------------

least(a, b) == IF a < b THEN a ELSE b

is_rb_empty(rb) == rb.tail = rb.head

get_rb_length(rb) ==
    IF rb.tail >= rb.head THEN rb.tail - rb.head ELSE Size - rb.head + rb.tail

\* How much can be read, or written, without wrapping around.
get_rb_llength(rb) == least(Size - rb.head, get_rb_length(rb))

get_rb_room(rb) == Size - get_rb_length(rb) - 1

get_rb_lroom(rb) == least(Size - rb.tail, get_rb_room(rb))

\* A ring marked CLEAN is emptied by the next move of its head, whatever the
\* length of that move.
move_rb_head(rb, n) ==
    IF rb.clean THEN [rb EXCEPT !.head = rb.tail, !.clean = FALSE]
                ELSE [rb EXCEPT !.head = (rb.head + n) % Size]

move_rb_tail_BUG(rb, n) == [rb EXCEPT !.tail = rb.tail + n]
move_rb_tail(rb, n) == [rb EXCEPT !.tail = (rb.tail + n) % Size]

----------------------------------------------------------------------------

\* The position k places after p.
Around(p, k) == (p + k) % Size

\* The first n bytes a reader of rb finds in the memory d.
Peek(rb, d, n) == [i \in 1 .. n |-> d[Around(rb.head, i - 1)]]

\* Everything that lies between head and tail.
Unread(rb, d) == Peek(rb, d, get_rb_length(rb))

\* The memory d after the bytes s are copied to the tail of rb.
Poke_BUG(rb, d, s) ==
    [p \in Pos |-> LET k == (p - rb.tail - 1) % Size
                   IN  IF k < Len(s) THEN s[k + 1] ELSE d[p]]
Poke(rb, d, s) ==
    [p \in Pos |-> LET k == (p - rb.tail) % Size
                   IN  IF k < Len(s) THEN s[k + 1] ELSE d[p]]

============================================================================
