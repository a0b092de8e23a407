----------------------------- MODULE VcomDaemon -----------------------------
(***************************************************************************)
(* The daemon (daemon/vcom_client.c and daemon/vc_client_*.c): one process *)
(* per port, a single thread that runs the loop of main() for ever.  One   *)
(* action is one step of a pass of that loop, named after the handler it   *)
(* dispatches to the state on top of the state stack.  Between two steps   *)
(* the tty and the device may do anything.                                 *)
(*                                                                         *)
(* A handler's ioctls are taken in one step with it.  This loses nothing:  *)
(* each cursor is moved by one side only, so reading head and tail in two  *)
(* calls gives the pair that holds at one of the two.                      *)
(***************************************************************************)
EXTENDS VcomDevice

CONSTANT XmitLen      \* XMIT_LEN: the most bytes one WRITE carries

ASSUME DaemonAssumption == XmitLen \in Nat \ {0}

VARIABLES
    pc,             \* the next step of main()'s loop
    stk,            \* the state stack, its bottom first
    sk,             \* whether port.sk is a socket (and not -1)
    eki,            \* port.eki: what the daemon has told the device
    xmit_pending,   \* how many bytes the unanswered WRITE carries
    drx, dtx,       \* port.rx, port.tx: the daemon's copies of the cursors
    want,           \* the events of the proc file the daemon waits for
    ready           \* what select() returned

stateVars == <<stk, sk, eki, xmit_pending>>
copyVars  == <<drx, dtx>>
waitVars  == <<want, ready>>
daemonVars == <<pc, stateVars, copyVars, waitVars>>
vars == <<driverVars, deviceVars, left, daemonVars>>

Steps == {"open", "ioctl", "xmit", "pause", "event", "sinter", "select",
          "efds", "recv", "rfds", "wfds"}
Eki == [open : BOOLEAN, line : Lines \cup {LineUndef}, ms : {0, 1}]
EkiUndef == [open |-> FALSE, line |-> LineUndef, ms |-> 0]

\* The states of the stack: Net Up and Pause talk to the device, Idle waits for a
\* sign of life from it.  (Sync is only on the stack within one handler.)
States == {"netdown", "netup", "pause", "idle"}
Connected == {"netup", "pause"}
Top == stk[Len(stk)]
Replace(state) == [stk EXCEPT ![Len(stk)] = state]
PopStk == SubSeq(stk, 1, Len(stk) - 1)

Goto(step) == pc' = step

\* vc_buf_update of both rings, the init of the states netup and pause.
Cursors(rb) == [head |-> rb.head, tail |-> rb.tail]
vc_netup_init == drx' = Cursors(rx') /\ dtx' = Cursors(tx')

\* The init of the state at the bottom: the socket is closed, so that what was
\* under way on it is gone, and nothing counts as told to the device any more.
vc_netdown_init_EKI ==
    /\ sk' = FALSE
    /\ eki' = eki
    /\ xmit_pending' = 0
    /\ toDev' = <<>> /\ toHost' = <<>> /\ dev' = NoSession
vc_netdown_init_PENDING ==
    /\ sk' = FALSE
    /\ eki' = EkiUndef
    /\ xmit_pending' = xmit_pending
    /\ toDev' = <<>> /\ toHost' = <<>> /\ dev' = NoSession
vc_netdown_init ==
    /\ sk' = FALSE
    /\ eki' = EkiUndef
    /\ xmit_pending' = 0
    /\ toDev' = <<>> /\ toHost' = <<>> /\ dev' = NoSession

\* Where every exception ends: the stack is cut down to its bottom, and the state
\* found there initialised.
stk_excp_BUG == stk' = PopStk /\ vc_netdown_init
stk_excp == stk' = <<"netdown">> /\ vc_netdown_init

\* A packet cannot be sent.  Every handler treats that as an exception.
SendFails == Spend("fault") /\ stk_excp

DaemonInit ==
    /\ pc = "open"
    /\ stk = <<"netdown">>
    /\ sk = FALSE
    /\ eki = EkiUndef
    /\ xmit_pending = 0
    /\ drx = Cursors(rx) /\ dtx = Cursors(tx)
    /\ want = {} /\ ready = {}

----------------------------------------------------------------------------
(* The port is opened or closed by the tty.                                *)

\* The first QUEUEFREE of a connection: room, unless tx still holds bytes.
sync_queue_BUG == Packet("queuefree", 1)
sync_queue == Packet("queuefree", IF is_rb_empty(dtx) THEN 1 ELSE 0)

\* All that vc_sync_init sends; before it goes the CREATE of vc_common_open.
vc_sync_init ==
    <<Packet("ms", usr.ms), Packet("setwmask", 0), Packet("getmodem", 0), sync_queue>>
vc_common_open == <<Packet("create", 0)>> \o vc_sync_init

\* vc_netdown_open connects, pushes a state and opens that; this in turn pushes
\* Sync, which sends the settings and pops itself.  All of it is one call.
vc_netdown_open ==
    /\ pc = "open" /\ usr.open /\ ~eki.open /\ Top = "netdown"
    /\ toDev' = vc_common_open
    /\ stk' = Append(stk, IF is_rb_empty(dtx) THEN "netup" ELSE "pause")
    /\ sk' = TRUE
    /\ eki' = [eki EXCEPT !.open = TRUE, !.ms = usr.ms]
    /\ UNCHANGED <<ringVars, xmit_pending, toHost, dev, left>>
    /\ vc_netup_init
    /\ Goto("ioctl")
    /\ UNCHANGED <<ttyVars, attrVars, portVars, waitVars>>

\* The connection is refused, or a packet of the handshake cannot be sent.
vc_netdown_open_fails ==
    /\ pc = "open" /\ usr.open /\ ~eki.open /\ Top = "netdown"
    /\ SendFails
    /\ Goto("ioctl")
    /\ UNCHANGED <<ringVars, ttyVars, attrVars, portVars, copyVars, waitVars>>

\* vc_netup_close, vc_pause_close and vc_idle_close: the rings are emptied, PURGE
\* and CLOSE are sent if they can be, and the connection is closed.  The copy
\* of rx is refreshed twice, the copy of tx not at all.
vc_common_close ==
    /\ pc = "open" /\ ~usr.open /\ eki.open /\ Top \in Connected \cup {"idle"}
    /\ adv_main_clear
    /\ drx' = Cursors(rx')
    /\ stk_excp
    /\ Goto("ioctl")
    /\ UNCHANGED <<rxd, txd, ttyVars, attrVars, portVars, dtx, waitVars, left>>

NothingToOpen ==
    /\ pc = "open" /\ usr.open = eki.open
    /\ Goto("ioctl")
    /\ UNCHANGED <<driverVars, deviceVars, left, stateVars, copyVars, waitVars>>

----------------------------------------------------------------------------
(* The tty's settings are passed on.                                       *)

SettingsDiffer == usr.line # eki.line \/ usr.ms # eki.ms

\* The line settings first, then the modem outputs, each only if it changed.
Settings_BUG ==
    IF usr.line # eki.line THEN <<Packet("line", usr.line)>> ELSE <<Packet("ms", usr.ms)>>
Settings ==
    (IF usr.line # eki.line THEN <<Packet("line", usr.line)>> ELSE <<>>)
        \o (IF usr.ms # eki.ms THEN <<Packet("ms", usr.ms)>> ELSE <<>>)

vc_common_ioctl ==
    /\ pc = "ioctl" /\ SettingsDiffer /\ Top \in Connected
    /\ \/ /\ toDev' = toDev \o Settings
          /\ eki' = [eki EXCEPT !.line = usr.line, !.ms = usr.ms]
          /\ UNCHANGED <<stk, sk, xmit_pending, toHost, dev, left>>
       \/ SendFails
    /\ Goto("xmit")
    /\ UNCHANGED <<driverVars, portVars, copyVars, waitVars>>

NothingToSet ==
    /\ pc = "ioctl" /\ ~(SettingsDiffer /\ Top \in Connected)
    /\ Goto("xmit")
    /\ UNCHANGED <<driverVars, deviceVars, left, stateVars, copyVars, waitVars>>

----------------------------------------------------------------------------
(* Bytes of the tty are sent; the flow from the device is paused.          *)

\* One WRITE at a time: the next one waits for the answer to the last.
MayXmit_BUG == ~is_rb_empty(drx) /\ Top \in Connected
MayXmit == xmit_pending = 0 /\ ~is_rb_empty(drx) /\ Top \in Connected

vc_common_xmit ==
    /\ pc = "xmit" /\ MayXmit
    /\ \/ LET n == least(get_rb_length(drx), XmitLen)
          IN  /\ toDev' = Append(toDev, [op |-> "write", val |-> n,
                                         data |-> Peek(drx, rxd, n)])
              /\ xmit_pending' = n
              /\ UNCHANGED <<stk, sk, eki, toHost, dev, left>>
       \/ SendFails
    /\ Goto("pause")
    /\ UNCHANGED <<driverVars, portVars, copyVars, waitVars>>

NothingToXmit ==
    /\ pc = "xmit" /\ ~MayXmit
    /\ Goto("pause")
    /\ UNCHANGED <<driverVars, deviceVars, left, stateVars, copyVars, waitVars>>

vc_netup_pause ==
    /\ pc = "pause" /\ ~is_rb_empty(dtx) /\ Top = "netup"
    /\ UNCHANGED ringVars
    /\ \/ /\ toDev' = Append(toDev, Packet("queuefree", 0))
          /\ stk' = Replace("pause")
          /\ vc_netup_init
          /\ UNCHANGED <<sk, eki, xmit_pending, toHost, dev, left>>
       \/ SendFails /\ UNCHANGED copyVars
    /\ Goto("event")
    /\ UNCHANGED <<ttyVars, attrVars, portVars, waitVars>>

NothingToPause ==
    /\ pc = "pause" /\ ~(~is_rb_empty(dtx) /\ Top = "netup")
    /\ Goto("event")
    /\ UNCHANGED <<driverVars, deviceVars, left, stateVars, copyVars, waitVars>>

----------------------------------------------------------------------------
(* The daemon waits.                                                       *)

\* Which events of the proc file to wait for: none while paused with bytes of the
\* socket still to be read (the end of the connection is no byte), none in the
\* states without an event operation.
BytesToRead == toHost # <<>> /\ Head(toHost).op # "eof"

event ==
    /\ pc = "event"
    /\ want' = IF Top = "pause" /\ BytesToRead THEN {}
               ELSE (IF Top \in Connected /\ xmit_pending = 0 THEN {"rx"} ELSE {})
                    \cup (IF Top = "pause" THEN {"tx"} ELSE {})
    /\ Goto("sinter")
    /\ UNCHANGED <<driverVars, deviceVars, left, stateVars, copyVars, ready>>

\* ADVVCOM_IOCSINTER: the driver moves what it can on both rings.
adv_main_interrupt ==
    /\ pc = "sinter"
    /\ adv_uart_update_xmit
    /\ adv_uart_recv_chars(tx, txd, throttled)
    /\ Goto("select")
    /\ UNCHANGED <<txd, written, attrVars, deviceVars, left, stateVars, copyVars,
                   waitVars>>

Ready == (IF PollPri THEN {"attr"} ELSE {})
         \cup (IF sk /\ toHost # <<>> THEN {"sk"} ELSE {})
         \cup (IF "rx" \in want /\ PollIn THEN {"rx"} ELSE {})
         \cup (IF "tx" \in want /\ PollOut THEN {"tx"} ELSE {})

select ==
    /\ pc = "select" /\ Ready # {}
    /\ ready' = Ready
    /\ Goto("efds")
    /\ UNCHANGED <<driverVars, deviceVars, left, stateVars, copyVars, want>>

\* Ten seconds pass without an event.  This counts as slow only while the device
\* still owes an answer.
TimePasses == IF toDev = <<>> THEN UNCHANGED left ELSE Spend("slow")

\* vc_netup_poll and vc_pause_poll: push Idle, which asks for a sign of life.
vc_netup_poll ==
    /\ pc = "select" /\ Ready = {} /\ Top \in Connected
    /\ \/ /\ TimePasses
          /\ toDev' = Append(toDev, Packet("getwmask", 0))
          /\ stk' = Append(stk, "idle")
          /\ UNCHANGED <<sk, eki, xmit_pending, toHost, dev>>
       \/ SendFails
    /\ Goto("open")
    /\ UNCHANGED <<driverVars, portVars, copyVars, waitVars>>

\* The second timeout in a row: the device is given up.
vc_idle_poll ==
    /\ pc = "select" /\ Ready = {} /\ Top = "idle"
    /\ TimePasses
    /\ stk_excp
    /\ Goto("open")
    /\ UNCHANGED <<driverVars, portVars, copyVars, waitVars>>

NothingToPoll ==
    /\ pc = "select" /\ Ready = {} /\ Top = "netdown"
    /\ Goto("open")
    /\ UNCHANGED <<driverVars, deviceVars, left, stateVars, copyVars, waitVars>>

----------------------------------------------------------------------------
(* What select() reported is served: attributes, socket, rx, tx.           *)

AttrEvent ==
    /\ pc = "efds"
    /\ IF "attr" \in ready THEN flush_attr_info ELSE UNCHANGED usr
    /\ Goto("recv")
    /\ UNCHANGED <<ringVars, ttyVars, attr, throttled, mctrl, deviceVars, left,
                   stateVars, copyVars, waitVars>>

\* Nothing to read.  If this has gone on for too long the connection is dropped.
NoPacket ==
    /\ pc = "recv" /\ "sk" \notin ready
    /\ \/ UNCHANGED <<stateVars, linkVars, left>>
       \/ sk /\ SendFails
    /\ Goto("rfds")
    /\ UNCHANGED <<driverVars, portVars, copyVars, waitVars>>

\* The socket holds a packet, which is taken out of it.
Receiving(ops) ==
    pc = "recv" /\ "sk" \in ready /\ toHost # <<>> /\ Head(toHost).op \in ops

\* vc_recv_desp refreshes the copy of tx before it reads the payload of a DATAREADY.
TxSeen_BUG == dtx
TxSeen == IF Head(toHost).op = "data" THEN Cursors(tx) ELSE dtx

\* The connection is gone, or the packet is refused by the check of its answer.
RecvExcp ==
    /\ Receiving({"eof"}) \/ (Receiving({"create", "set", "setwmask", "getmodem",
           "womask", "getwmask", "write", "data"}) /\ Top \in Connected
           /\ Head(toHost).st = "bad")
    /\ stk_excp
    /\ dtx' = TxSeen
    /\ Goto("rfds")
    /\ UNCHANGED <<driverVars, portVars, drx, waitVars, left>>

\* Idle takes any packet for the sign of life it waits for, and drops it.
vc_idle_recv ==
    /\ Receiving({"create", "set", "setwmask", "getmodem", "womask", "getwmask",
                  "write", "data"})
    /\ Top = "idle"
    /\ toHost' = Tail(toHost)
    /\ stk' = PopStk
    /\ UNCHANGED <<ringVars, sk, eki, xmit_pending, toDev, dev>>
    /\ vc_netup_init
    /\ Goto("rfds")
    /\ UNCHANGED <<ttyVars, attrVars, portVars, waitVars, left>>

Good(ops) == Receiving(ops) /\ Top \in Connected /\ Head(toHost).st = "ok"

\* Answers that change nothing.
RecvOther ==
    /\ Good({"create", "set", "getwmask"})
    /\ toHost' = Tail(toHost)
    /\ Goto("rfds")
    /\ UNCHANGED <<driverVars, portVars, toDev, dev, left, stateVars, copyVars, waitVars>>

\* What the answer to an event request makes Sync send.
NextRequest ==
    CASE Head(toHost).op = "womask"   -> <<Packet("setwmask", 0), Packet("getmodem", 0)>>
      [] Head(toHost).op = "setwmask" -> <<Packet("womask", 0)>>
      [] OTHER                        -> <<>>

\* Sync is pushed, served the answer and popped again, in one call.
vc_sync_recv ==
    /\ Good({"womask", "setwmask", "getmodem"})
    /\ UNCHANGED ringVars
    /\ \/ /\ toHost' = Tail(toHost)
          /\ toDev' = toDev \o NextRequest
          /\ mctrl' = IF Head(toHost).op = "getmodem" THEN Head(toHost).val ELSE mctrl
          /\ vc_netup_init
          /\ UNCHANGED <<stateVars, dev, left>>
       \/ /\ NextRequest # <<>> /\ SendFails
          /\ UNCHANGED <<mctrl, copyVars>>
    /\ Goto("rfds")
    /\ UNCHANGED <<ttyVars, attr, usr, throttled, portVars, waitVars>>

\* DATAREADY: into tx if the daemon sees room for it, which the driver then passes
\* on to the tty; otherwise an exception.
RecvData ==
    /\ Good({"data"})
    /\ dtx' = TxSeen
    /\ LET s == Head(toHost).data
       IN  IF get_rb_room(TxSeen) < Len(s)
           THEN stk_excp /\ UNCHANGED <<tx, txd, flip>>
           ELSE /\ toHost' = Tail(toHost)
                /\ txd' = Poke(TxSeen, txd, s)
                /\ adv_uart_recv_chars(move_rb_tail(tx, Len(s)), txd', throttled)
                /\ UNCHANGED <<stateVars, toDev, dev>>
    /\ Goto("rfds")
    /\ UNCHANGED <<rx, rxd, circ, written, attrVars, portVars, drx, waitVars, left>>

\* ADVVCOM_IOCSRXHEAD, then the copy of rx is refreshed.
DropWritten_STALE == rx' = move_rb_head(rx, xmit_pending) /\ drx' = drx
DropWritten_LOST  == rx' = rx /\ drx' = Cursors(rx')
DropWritten == rx' = move_rb_head(rx, xmit_pending) /\ drx' = Cursors(rx')

\* Only an answer that says so has taken the bytes.
Taken_BUG == TRUE
Taken == Head(toHost).st = "ok"

\* The answer to the WRITE.  Only now do its bytes leave rx; if the device was
\* busy they stay there and will be sent again.
RecvWritten ==
    /\ Receiving({"write"}) /\ Top \in Connected /\ Head(toHost).st # "bad"
    /\ IF Head(toHost).val # xmit_pending
       THEN stk_excp /\ UNCHANGED <<rx, drx>>
       ELSE /\ toHost' = Tail(toHost)
            /\ xmit_pending' = 0
            /\ IF Taken THEN DropWritten ELSE UNCHANGED <<rx, drx>>
            /\ UNCHANGED <<stk, sk, eki, toDev, dev>>
    /\ Goto("rfds")
    /\ UNCHANGED <<rxd, tx, txd, dtx, ttyVars, attrVars, portVars, waitVars, left>>

RxEvent ==
    /\ pc = "rfds"
    /\ drx' = IF "rx" \in ready THEN Cursors(rx) ELSE drx
    /\ Goto("wfds")
    /\ UNCHANGED <<driverVars, deviceVars, left, stateVars, dtx, waitVars>>

\* tx has run empty: the device may send again, unless the daemon's own packets
\* have not left yet.
vc_pause_resume ==
    /\ pc = "wfds" /\ "tx" \in ready /\ Top = "pause"
    /\ UNCHANGED ringVars
    /\ \/ /\ toDev' = Append(toDev, Packet("queuefree", 1))
          /\ stk' = Replace("netup")
          /\ vc_netup_init
          /\ UNCHANGED <<sk, eki, xmit_pending, toHost, dev, left>>
       \/ /\ toDev # <<>>
          /\ dtx' = Cursors(tx)
          /\ UNCHANGED <<drx, stateVars, linkVars, left>>
       \/ SendFails /\ dtx' = Cursors(tx) /\ UNCHANGED drx
    /\ Goto("open")
    /\ UNCHANGED <<ttyVars, attrVars, portVars, waitVars>>

NothingToResume ==
    /\ pc = "wfds" /\ ~("tx" \in ready /\ Top = "pause")
    /\ dtx' = IF "tx" \in ready THEN Cursors(tx) ELSE dtx
    /\ Goto("open")
    /\ UNCHANGED <<driverVars, deviceVars, left, stateVars, drx, waitVars>>

----------------------------------------------------------------------------

\* The daemon is killed and started again: main() up to its loop.  The driver
\* keeps its rings and its attributes.
main ==
    /\ Spend("restart")
    /\ flush_attr_info
    /\ stk' = <<"netdown">> /\ vc_netdown_init
    /\ drx' = Cursors(rx) /\ dtx' = Cursors(tx)
    /\ pc' = "open" /\ want' = {} /\ ready' = {}
    /\ UNCHANGED <<ringVars, ttyVars, attr, throttled, mctrl, portVars>>

DaemonStep ==
    \/ vc_netdown_open \/ vc_netdown_open_fails \/ vc_common_close \/ NothingToOpen
    \/ vc_common_ioctl \/ NothingToSet
    \/ vc_common_xmit  \/ NothingToXmit
    \/ vc_netup_pause  \/ NothingToPause
    \/ event \/ adv_main_interrupt
    \/ select \/ vc_netup_poll \/ vc_idle_poll \/ NothingToPoll
    \/ AttrEvent
    \/ NoPacket \/ RecvExcp \/ vc_idle_recv \/ RecvOther \/ vc_sync_recv
    \/ RecvData \/ RecvWritten
    \/ RxEvent
    \/ vc_pause_resume \/ NothingToResume

============================================================================
