------------------------------ MODULE UartXmit ------------------------------
(***************************************************************************)
(* The loop of adv_uart_xmit (driver/adv_uart.c), copy by copy.  It moves  *)
(* bytes from the serial core's circular buffer, of XmitSize bytes, to the *)
(* tail of a ring of Size bytes.  Either may wrap around in the middle, so *)
(* the bytes are copied in pieces, at most MaxRetry of them.               *)
(***************************************************************************)
EXTENDS RingBuf

CONSTANT XmitSize      \* UART_XMIT_SIZE, a power of two

MaxRetry == 3

ASSUME XmitAssumption == XmitSize \in Nat /\ XmitSize > 1

VARIABLES
    rb, mem,       \* the ring and its memory
    xtail,         \* xmit->tail
    count,         \* how many bytes remain to be copied
    tx_lsize,      \* the room up to the end of the ring's memory
    max_retry,
    at,            \* "entry", "loop" or "return"
    given          \* the ring, xmit->tail and the bytes pending at the entry

xmitVars == <<rb, mem, xtail, count, tx_lsize, max_retry, at, given>>

XPos == 0 .. XmitSize - 1

\* The pending bytes are numbered 1, 2, ...; the ring's old ones are below 0.
OldMem == [p \in Pos |-> -1 - p]
XmitByte(p) == LET k == (p - given.xtail) % XmitSize
               IN  IF k < given.pending THEN k + 1 ELSE 0

Init ==
    /\ rb \in [head : Pos, tail : Pos, on : {TRUE}, clean : {FALSE}]
    /\ mem = OldMem
    /\ xtail \in XPos
    /\ \E n \in XPos : given = [rb |-> rb, xtail |-> xtail, pending |-> n]
    /\ count = 0 /\ tx_lsize = 0 /\ max_retry = MaxRetry
    /\ at = "entry"

\* Nothing to send, or no room for it.
NothingToCopy ==
    /\ at = "entry" /\ (given.pending = 0 \/ get_rb_room(rb) = 0)
    /\ at' = "return"
    /\ UNCHANGED <<rb, mem, xtail, count, tx_lsize, max_retry, given>>

Prepare ==
    /\ at = "entry" /\ given.pending > 0 /\ get_rb_room(rb) > 0
    /\ count' = least(given.pending, get_rb_room(rb))
    /\ tx_lsize' = get_rb_lroom(rb)
    /\ at' = "loop"
    /\ UNCHANGED <<rb, mem, xtail, max_retry, given>>

\* The length of the next piece: up to the end of the ring's memory, or up to the
\* end of the serial core's buffer if the piece would wrap around there.
mcplen_BUG == least(count, tx_lsize)
mcplen ==
    LET n == least(count, tx_lsize)
    IN  IF (xtail + n) % XmitSize < xtail THEN XmitSize - xtail ELSE n

\* At most three rounds.
Again_BUG == count' > 0 /\ max_retry' > 1
Again == count' > 0 /\ max_retry' > 0

CopyPiece ==
    /\ at = "loop"
    /\ mem' = Poke(rb, mem, [i \in 1 .. mcplen |-> XmitByte((xtail + i - 1) % XmitSize)])
    /\ count' = count - mcplen
    /\ rb' = move_rb_tail(rb, mcplen)
    /\ xtail' = (xtail + mcplen) % XmitSize
    /\ tx_lsize' = get_rb_lroom(rb')
    /\ max_retry' = max_retry - 1
    /\ at' = IF Again THEN "loop" ELSE "return"
    /\ UNCHANGED given

Return == at = "return" /\ UNCHANGED xmitVars

Next == NothingToCopy \/ Prepare \/ CopyPiece \/ Return

Spec == Init /\ [][Next]_xmitVars

----------------------------------------------------------------------------

\* No piece runs past the end of either memory, none is empty, and none is longer
\* than what remains to be copied or than the room of the ring.
PieceInBounds ==
    at = "loop" =>
        /\ 0 < mcplen /\ mcplen <= count
        /\ xtail + mcplen <= XmitSize
        /\ rb.tail + mcplen <= Size
        /\ count <= get_rb_room(rb)

\* Three rounds are always enough: at the return exactly as many bytes as there
\* were, or as there was room for, lie behind the old ones, in order.
AllCopied ==
    at = "return" =>
        LET n == least(given.pending, get_rb_room(given.rb))
        IN  /\ Unread(rb, mem) = Unread(given.rb, OldMem) \o [i \in 1 .. n |-> i]
            /\ xtail = (given.xtail + n) % XmitSize

============================================================================
