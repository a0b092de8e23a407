----------------------------- MODULE VcomDriver -----------------------------
(***************************************************************************)
(* The kernel driver (driver/adv_main.c, driver/adv_uart.c): one virtual   *)
(* serial port.  Its tty side is called by the kernel's serial core on     *)
(* behalf of the application that has opened /dev/ttyADVn; its proc side   *)
(* is called by the daemon through ioctl and poll on /proc/vcom/advprocn.  *)
(* The two sides meet in the ring rx (tty to device), the ring tx (device  *)
(* to tty) and the port attributes.                                        *)
(*                                                                         *)
(* Every spin-locked section is one step.  The tty actions are complete    *)
(* actions; the ioctls are relations the daemon's handlers are built from. *)
(***************************************************************************)
EXTENDS RingBuf

CONSTANTS
    NLines,      \* number of line settings (baud, parity, stop, byte, flow)
    Budget       \* how often each kind of event below may happen in a run

\* The events of the environment.  Budget bounds them; nothing else does.
Events == {"open", "write", "line", "throttle", "stop",
           "data", "modem", "busy", "fault", "slow", "restart"}

ASSUME DriverAssumption ==
    /\ NLines \in Nat \ {0}
    /\ Budget \in [Events -> Nat]

VARIABLES
    rx, rxd,     \* vcomdata->rx and its page: bytes from the tty
    tx, txd,     \* vcomdata->tx and its page: bytes for the tty
    attr,        \* attr._attr: what the tty side asks for
    usr,         \* the slot of attr.data that usr_ptr names: what the daemon sees
    throttled,   \* attr.throttled
    mctrl,       \* attr.mctrl: the modem input lines
    circ,        \* port.state->xmit: bytes the serial core has not handed over
    flip,        \* the bytes handed to the tty layer so far
    written,     \* how many bytes the application has written so far
    left         \* what remains of Budget

ringVars == <<rx, rxd, tx, txd>>
ttyVars  == <<circ, flip, written>>
attrVars == <<attr, usr, throttled, mctrl>>
driverVars == <<ringVars, ttyVars, attrVars>>

\* Line setting 0 is the zeroed struct adv_port_info; LineUndef stands for the
\* ADV_*_UNDEF values, which the tty never asks for.
Lines == 0 .. NLines - 1
LineUndef == -1
Attr == [open : BOOLEAN, line : Lines, ms : {0, 1}]

\* Bytes are numbered in the order they were produced; 0 is a fresh page.
Byte == Nat

Spend(e) == left[e] > 0 /\ left' = [left EXCEPT ![e] = @ - 1]

adv_main_init ==
    /\ rx = [head |-> 0, tail |-> 0, on |-> FALSE, clean |-> FALSE]
    /\ tx = [head |-> 0, tail |-> 0, on |-> FALSE, clean |-> FALSE]
    /\ rxd = [p \in Pos |-> 0]
    /\ txd = [p \in Pos |-> 0]
    /\ attr = [open |-> FALSE, line |-> 0, ms |-> 0]
    /\ usr = [open |-> FALSE, line |-> 0, ms |-> 0]
    /\ throttled = FALSE
    /\ mctrl \in {0, 1}          \* kmalloc'ed and never initialised
    /\ circ = <<>> /\ flip = <<>> /\ written = 0
    /\ left = Budget

----------------------------------------------------------------------------
(* What the handlers of both sides are built from.                         *)

\* The bytes of the serial core's buffer c go to the tail of the ring r, as many
\* as there is room for.  (The code copies them in at most three pieces.)
adv_uart_xmit(r, c) ==
    LET n == least(Len(c), get_rb_room(r))
    IN  /\ rx'   = move_rb_tail(r, n)
        /\ rxd'  = Poke(r, rxd, SubSeq(c, 1, n))
        /\ circ' = SubSeq(c, n + 1, Len(c))

\* The daemon's poke makes the driver look for bytes only when rx ran empty.
adv_uart_update_xmit_BUG == UNCHANGED <<rx, rxd, circ>>
adv_uart_update_xmit ==
    IF attr.open /\ is_rb_empty(rx) THEN adv_uart_xmit(rx, circ)
                                    ELSE UNCHANGED <<rx, rxd, circ>>

\* The ring t with memory d is drained into the tty, unless the tty is muted
\* (throttled) or its receiver is stopped; the tty layer takes what it has memory for.
adv_uart_recv_chars(t, d, muted) ==
    \E n \in IF muted \/ ~t.on THEN {0} ELSE 0 .. get_rb_length(t) :
        /\ tx' = move_rb_head(t, n)
        /\ flip' = flip \o Peek(t, d, n)

\* ADVVCOM_IOCSCLR on both rings, then ADVVCOM_IOCSRXHEAD with length 0: tx is
\* emptied by the first, rx is only marked by it and emptied by the second.
adv_main_clear ==
    /\ rx' = move_rb_head([rx EXCEPT !.clean = TRUE], 0)
    /\ tx' = move_rb_head([tx EXCEPT !.clean = TRUE], 0)

\* ADVVCOM_IOCGATTRPTR: the daemon's slot receives the current attributes.
flush_attr_info == usr' = attr

\* What poll() reports of the port.
PollIn  == rx.on /\ ~is_rb_empty(rx)
PollOut_BUG == tx.on /\ is_rb_empty(tx) /\ throttled
PollOut == tx.on /\ is_rb_empty(tx) /\ ~throttled
PollPri_CLOSE == attr # usr /\ attr.open
PollPri_LINE == attr.open # usr.open
PollPri == attr # usr /\ (attr.open \/ usr.open)

----------------------------------------------------------------------------
(* The tty side: one action per operation of adv_uart_ops.                 *)

\* The serial core empties its buffer, then starts the port up.
adv_uart_startup ==
    /\ ~attr.open
    /\ Spend("open")
    /\ attr' = [attr EXCEPT !.open = TRUE]
    /\ throttled' = FALSE
    /\ rx' = [rx EXCEPT !.on = TRUE]
    /\ tx' = [tx EXCEPT !.on = TRUE]
    /\ circ' = <<>>
    /\ UNCHANGED <<rxd, txd, usr, mctrl, flip, written>>

\* Closing, the serial core first stops the receiver, then shuts the port down.
adv_uart_stop_rx ==
    /\ attr.open /\ tx.on
    /\ tx' = [tx EXCEPT !.on = FALSE]
    /\ UNCHANGED <<rx, rxd, txd, ttyVars, attrVars, left>>

adv_uart_shutdown ==
    /\ attr.open /\ ~tx.on
    /\ attr' = [attr EXCEPT !.open = FALSE]
    /\ UNCHANGED <<ringVars, ttyVars, usr, throttled, mctrl, left>>

\* The application writes a byte.  It goes to the serial core's buffer, and on
\* to the driver unless the output is stopped.
adv_uart_start_tx ==
    /\ attr.open /\ tx.on
    /\ Spend("write")
    /\ written' = written + 1
    /\ IF rx.on THEN adv_uart_xmit(rx, Append(circ, written + 1))
                ELSE /\ circ' = Append(circ, written + 1)
                     /\ UNCHANGED <<rx, rxd>>
    /\ UNCHANGED <<tx, txd, flip, attrVars>>

\* The terminal's output is stopped (^S), and started again.
adv_uart_stop_tx ==
    /\ attr.open /\ rx.on
    /\ Spend("stop")
    /\ rx' = [rx EXCEPT !.on = FALSE]
    /\ UNCHANGED <<rxd, tx, txd, ttyVars, attrVars>>

adv_uart_restart_tx ==
    /\ attr.open /\ ~rx.on
    /\ adv_uart_xmit([rx EXCEPT !.on = TRUE], circ)
    /\ UNCHANGED <<tx, txd, flip, written, attrVars, left>>

adv_uart_set_termios ==
    \E l \in Lines \ {attr.line} :
        /\ attr.open
        /\ Spend("line")
        /\ attr' = [attr EXCEPT !.line = l]
        /\ UNCHANGED <<ringVars, ttyVars, usr, throttled, mctrl>>

adv_uart_set_mctrl ==
    /\ attr.open
    /\ Spend("line")
    /\ attr' = [attr EXCEPT !.ms = 1 - @]
    /\ UNCHANGED <<ringVars, ttyVars, usr, throttled, mctrl>>

adv_uart_throttle ==
    /\ attr.open /\ ~throttled
    /\ Spend("throttle")
    /\ throttled' = TRUE
    /\ UNCHANGED <<ringVars, ttyVars, attr, usr, mctrl>>

\* The flag is cleared first, so what waits in tx is delivered at once.
adv_uart_unthrottle ==
    /\ attr.open /\ throttled
    /\ throttled' = FALSE
    /\ adv_uart_recv_chars(tx, txd, FALSE)
    /\ UNCHANGED <<rx, rxd, txd, circ, written, attr, usr, mctrl, left>>

TtyStep ==
    \/ adv_uart_startup  \/ adv_uart_stop_rx     \/ adv_uart_shutdown
    \/ adv_uart_start_tx \/ adv_uart_stop_tx     \/ adv_uart_restart_tx
    \/ adv_uart_throttle \/ adv_uart_unthrottle
    \/ adv_uart_set_termios \/ adv_uart_set_mctrl

============================================================================
