------------------------------ MODULE UartRecv ------------------------------
(***************************************************************************)
(* The loop of adv_uart_recv_chars (driver/adv_uart.c), copy by copy.  It  *)
(* hands the bytes between the head and the tail of a ring of Size bytes   *)
(* to the tty layer, in pieces that end where the ring's memory ends.  The *)
(* tty layer may take fewer bytes than it is given, or none.  A behaviour  *)
(* is one call of this loop or of that of UartXmit.                        *)
(***************************************************************************)
EXTENDS UartXmit

VARIABLES
    throttled,     \* attr->throttled
    tty,           \* the bytes the tty layer has taken
    pushed,        \* whether the tty layer was told of them, and the daemon woken
    refused        \* whether the tty layer took fewer bytes than it was given

ttyVars == <<throttled, tty, pushed, refused>>
recvVars == <<xmitVars, ttyVars>>

RecvInit ==
    /\ rb \in [head : Pos, tail : Pos, on : BOOLEAN, clean : {FALSE}]
    /\ mem = OldMem
    /\ given = [rb |-> rb, xtail |-> 0, pending |-> 0]
    /\ throttled \in BOOLEAN
    /\ count = 0 /\ max_retry = MaxRetry
    /\ at = "recv" /\ tty = <<>> /\ pushed = FALSE /\ refused = FALSE
    /\ xtail = 0 /\ tx_lsize = 0

Mute == throttled \/ ~rb.on

\* The application has throttled the port, or the ring is not enabled.
NothingToHand ==
    /\ at = "recv" /\ Mute
    /\ at' = "done"
    /\ UNCHANGED <<rb, mem, xtail, count, tx_lsize, max_retry, given, ttyVars>>

Enter ==
    /\ at = "recv" /\ ~Mute
    /\ count' = get_rb_length(rb)
    /\ at' = "hand"
    /\ UNCHANGED <<rb, mem, xtail, tx_lsize, max_retry, given, ttyVars>>

\* The bytes from the head on that lie in one piece.
Piece == [i \in 1 .. get_rb_llength(rb) |-> mem[rb.head + i - 1]]

\* The ring gives up what the tty layer has taken.
Taken_BUG(n) == move_rb_head(rb, Len(Piece))
Taken(n) == move_rb_head(rb, n)

MoreToHand == count > 0 /\ max_retry > 0

\* tty_insert_flip_string takes n bytes of the piece; none ends the loop.
HandPiece == \E n \in 0 .. Len(Piece) :
    /\ at = "hand" /\ MoreToHand
    /\ tty' = tty \o SubSeq(Piece, 1, n)
    /\ refused' = (refused \/ n < Len(Piece))
    /\ IF n > 0
       THEN /\ count' = count - n /\ rb' = Taken(n) /\ max_retry' = max_retry - 1
            /\ UNCHANGED at
       ELSE at' = "push" /\ UNCHANGED <<count, rb, max_retry>>
    /\ UNCHANGED <<mem, xtail, tx_lsize, given, throttled, pushed>>

EndLoop ==
    /\ at = "hand" /\ ~MoreToHand
    /\ at' = "push"
    /\ UNCHANGED <<rb, mem, xtail, count, tx_lsize, max_retry, given, ttyVars>>

\* tty_flip_buffer_push and the wake-up of the daemon, if anything was taken.
Some_BUG == count = 0
Some == count # get_rb_length(given.rb)

Push ==
    /\ at = "push"
    /\ pushed' = Some
    /\ at' = "done"
    /\ UNCHANGED <<rb, mem, xtail, count, tx_lsize, max_retry, given, throttled, tty, refused>>

Done == at = "done" /\ UNCHANGED recvVars

RecvNext == NothingToHand \/ Enter \/ HandPiece \/ EndLoop \/ Push \/ Done

\* A call of either loop.
CallInit ==
    \/ RecvInit
    \/ Init /\ throttled = FALSE /\ tty = <<>> /\ pushed = FALSE /\ refused = FALSE

CallNext == RecvNext \/ (Next /\ UNCHANGED ttyVars)

CallSpec == CallInit /\ [][CallNext]_recvVars

----------------------------------------------------------------------------

\* Whatever the tty layer takes, no byte is lost or handed on twice: those it has
\* and those still in the ring are the bytes of the entry, in order.
NoByteLost ==
    at \in {"recv", "hand", "push", "done"} =>
        tty \o Unread(rb, mem) = Unread(given.rb, OldMem)

\* At the return the daemon was woken if and only if it has new room, and a byte is
\* left behind only in a muted port or because the tty layer refused it: three
\* rounds are enough for the two pieces of a ring.
RoomIsAnnounced ==
    at = "done" =>
        /\ pushed <=> get_rb_room(rb) > get_rb_room(given.rb)
        /\ get_rb_length(rb) > 0 => Mute \/ refused

============================================================================
