----------------------------- MODULE VcomProofs -----------------------------
(***************************************************************************)
(* Theorems about module Vcom that hold for rings of every size, every     *)
(* length of a WRITE, every number of line settings and every budget.      *)
(* Three parts: the types and the two flags of the state machine; the way  *)
(* from the tty to the device; the way back, and what the device has been  *)
(* told.                                                                   *)
(***************************************************************************)
EXTENDS Vcom, RingBufProofs, SequenceTheorems, FiniteSetTheorems, WellFoundedInduction

(***************************************************************************)
(* PART 1.  What the handlers are built from, the types, and the reset.    *)
(***************************************************************************)

(***************************************************************************)
(* What the handlers are built from keeps the types.                       *)
(***************************************************************************)

\* Spending an event leaves a budget.
LEMMA SpendType ==
    ASSUME left \in [Events -> Nat], NEW e \in Events, Spend(e)
    PROVE  left' \in [Events -> Nat]
  BY DEF Spend

\* Handing bytes of a buffer c to a ring r leaves a ring, its memory and what
\* remains of the buffer.
LEMMA XmitType ==
    ASSUME NEW r \in Ring, rxd \in [Pos -> Byte], NEW c \in Seq(Byte),
           adv_uart_xmit(r, c)
    PROVE  /\ rx' \in Ring /\ rxd' \in [Pos -> Byte] /\ circ' \in Seq(Byte)
<1> DEFINE n == least(Len(c), get_rb_room(r))
<1>1. r.head \in Pos /\ r.tail \in Pos
  BY DEF Ring
<1>2. n \in Nat /\ n <= Len(c)
  BY <1>1, RoomType, SizeAssumption DEF least, Pos
<1>3. SubSeq(c, 1, n) \in Seq(Byte) /\ SubSeq(c, n + 1, Len(c)) \in Seq(Byte)
  BY <1>2, SubSeqProperties
<1>4. rx' = move_rb_tail(r, n) /\ rxd' = Poke(r, rxd, SubSeq(c, 1, n))
      /\ circ' = SubSeq(c, n + 1, Len(c))
  BY DEF adv_uart_xmit
<1> HIDE DEF n
<1> QED
  BY <1>1, <1>2, <1>3, <1>4, MoveTailType, PokeType

\* Draining a ring into the tty leaves a ring and a sequence of bytes.
LEMMA RecvCharsType ==
    ASSUME NEW t \in Ring, NEW d \in [Pos -> Byte], NEW muted \in BOOLEAN,
           flip \in Seq(Byte), adv_uart_recv_chars(t, d, muted)
    PROVE  tx' \in Ring /\ flip' \in Seq(Byte)
<1>1. t.head \in Pos /\ t.tail \in Pos
  BY DEF Ring
<1>2. get_rb_length(t) \in Nat
  BY <1>1, LengthType, SizeAssumption DEF Pos
<1>3. (IF muted \/ ~t.on THEN {0} ELSE 0 .. get_rb_length(t)) \subseteq Nat
  BY <1>2
<1>4. PICK n \in Nat : tx' = move_rb_head(t, n) /\ flip' = flip \o Peek(t, d, n)
  BY <1>3 DEF adv_uart_recv_chars
<1>5. Peek(t, d, n) \in Seq(Byte)
  BY <1>1, PeekType
<1> QED
  BY <1>4, <1>5, MoveHeadType, ConcatProperties

\* Emptying both rings leaves rings.
LEMMA ClearType ==
    ASSUME rx \in Ring, tx \in Ring, adv_main_clear
    PROVE  rx' \in Ring /\ tx' \in Ring
<1>1. [rx EXCEPT !.clean = TRUE] \in Ring /\ [tx EXCEPT !.clean = TRUE] \in Ring
  BY DEF Ring
<1> QED
  BY <1>1, MoveHeadType DEF adv_main_clear

\* A copy of a ring's cursors is one.
LEMMA CursorsType ==
    ASSUME NEW r \in Ring
    PROVE  Cursors(r) \in RingCopy
  BY DEF Cursors, Ring, RingCopy

\* The state at the bottom of the stack, once initialised, is well typed.
LEMMA ExcpType ==
    ASSUME stk_excp
    PROVE  LinkOK'
<1>1. EkiUndef \in Eki
  BY DriverAssumption DEF EkiUndef, Eki, LineUndef, Lines
<1>2. NoSession \in Dev
  BY DriverAssumption DEF NoSession, Dev, LineUndef, Lines
<1>3. <<"netdown">> \in Seq(States)
  BY DEF States
<1>4. <<>> \in Seq(ToDev) /\ <<>> \in Seq(ToHost)
  OBVIOUS
<1>5. /\ stk' = <<"netdown">> /\ sk' = FALSE /\ eki' = EkiUndef /\ xmit_pending' = 0
      /\ toDev' = <<>> /\ toHost' = <<>> /\ dev' = NoSession
  BY DEF stk_excp, vc_netdown_init
<1> QED
  BY <1>1, <1>2, <1>3, <1>4, <1>5 DEF LinkOK

\* So is it after a packet that could not be sent.
LEMMA SendFailsType ==
    ASSUME left \in [Events -> Nat], SendFails
    PROVE  LinkOK' /\ left' \in [Events -> Nat]
  BY ExcpType, SpendType DEF SendFails, Events

(***************************************************************************)
(* Each action keeps the types: first those of the tty.                    *)
(***************************************************************************)

\* Every operation of the tty keeps the types.
LEMMA TtyType ==
    ASSUME TypeOK, Tty
    PROVE  TypeOK'
<1> USE DEF ringVars, ttyVars, attrVars
<1>1. RingsOK /\ PortOK
  BY DEF TypeOK
<1>2. LinkOK' /\ LoopOK' /\ UNCHANGED <<lineNow, accepted, produced>>
  BY DEF TypeOK, LinkOK, LoopOK, Tty, deviceVars, linkVars, portVars, daemonVars,
         stateVars, copyVars, waitVars
<1>3. ASSUME UNCHANGED <<ringVars, circ, flip>> PROVE RingsOK'
  BY <1>1, <1>3 DEF RingsOK
<1>4. \A e \in Events : Spend(e) => left' \in [Events -> Nat]
  BY <1>1, SpendType DEF PortOK
<1>5. CASE adv_uart_startup
  <2>1. [rx EXCEPT !.on = TRUE] \in Ring /\ [tx EXCEPT !.on = TRUE] \in Ring
    BY <1>1 DEF RingsOK, Ring
  <2>2. <<>> \in Seq(Byte)
    OBVIOUS
  <2>3. RingsOK'
    BY <1>1, <1>5, <2>1, <2>2 DEF adv_uart_startup, RingsOK
  <2>4. PortOK'
    BY <1>1, <1>2, <1>4, <1>5 DEF adv_uart_startup, PortOK, Attr, Events
  <2> QED
    BY <1>2, <2>3, <2>4 DEF TypeOK
<1>6. CASE adv_uart_stop_rx
  <2>1. RingsOK'
    BY <1>1, <1>6 DEF adv_uart_stop_rx, RingsOK, Ring
  <2>2. PortOK'
    BY <1>1, <1>2, <1>6 DEF adv_uart_stop_rx, PortOK
  <2> QED
    BY <1>2, <2>1, <2>2 DEF TypeOK
<1>7. CASE adv_uart_shutdown
  <2>1. RingsOK'
    BY <1>3, <1>7 DEF adv_uart_shutdown
  <2>2. PortOK'
    BY <1>1, <1>2, <1>7 DEF adv_uart_shutdown, PortOK, Attr
  <2> QED
    BY <1>2, <2>1, <2>2 DEF TypeOK
<1>8. CASE adv_uart_start_tx
  <2>1. written + 1 \in Nat /\ Append(circ, written + 1) \in Seq(Byte)
    BY <1>1, AppendProperties DEF RingsOK, PortOK, Byte
  <2>2. RingsOK'
    <3>1. CASE rx.on
      BY <1>1, <1>8, <2>1, <3>1, XmitType DEF adv_uart_start_tx, RingsOK
    <3>2. CASE ~rx.on
      BY <1>1, <1>8, <2>1, <3>2 DEF adv_uart_start_tx, RingsOK
    <3> QED
      BY <3>1, <3>2
  <2>3. PortOK'
    BY <1>1, <1>2, <1>4, <1>8, <2>1 DEF adv_uart_start_tx, PortOK, Events
  <2> QED
    BY <1>2, <2>2, <2>3 DEF TypeOK
<1>9. CASE adv_uart_stop_tx
  <2>1. RingsOK'
    BY <1>1, <1>9 DEF adv_uart_stop_tx, RingsOK, Ring
  <2>2. PortOK'
    BY <1>1, <1>2, <1>4, <1>9 DEF adv_uart_stop_tx, PortOK, Events
  <2> QED
    BY <1>2, <2>1, <2>2 DEF TypeOK
<1>10. CASE adv_uart_restart_tx
  <2>1. [rx EXCEPT !.on = TRUE] \in Ring
    BY <1>1 DEF RingsOK, Ring
  <2>2. RingsOK'
    BY <1>1, <1>10, <2>1, XmitType DEF adv_uart_restart_tx, RingsOK
  <2>3. PortOK'
    BY <1>1, <1>2, <1>10 DEF adv_uart_restart_tx, PortOK
  <2> QED
    BY <1>2, <2>2, <2>3 DEF TypeOK
<1>11. CASE adv_uart_throttle
  <2>1. RingsOK'
    BY <1>3, <1>11 DEF adv_uart_throttle
  <2>2. PortOK'
    BY <1>1, <1>2, <1>4, <1>11 DEF adv_uart_throttle, PortOK, Events
  <2> QED
    BY <1>2, <2>1, <2>2 DEF TypeOK
<1>12. CASE adv_uart_unthrottle
  <2>1. RingsOK'
    BY <1>1, <1>12, RecvCharsType DEF adv_uart_unthrottle, RingsOK
  <2>2. PortOK'
    BY <1>1, <1>2, <1>12 DEF adv_uart_unthrottle, PortOK
  <2> QED
    BY <1>2, <2>1, <2>2 DEF TypeOK
<1>13. CASE adv_uart_set_termios
  <2>1. RingsOK'
    BY <1>3, <1>13 DEF adv_uart_set_termios
  <2>2. PortOK'
    BY <1>1, <1>2, <1>4, <1>13 DEF adv_uart_set_termios, PortOK, Attr, Events
  <2> QED
    BY <1>2, <2>1, <2>2 DEF TypeOK
<1>14. CASE adv_uart_set_mctrl
  <2>1. RingsOK'
    BY <1>3, <1>14 DEF adv_uart_set_mctrl
  <2>2. attr' \in Attr
    BY <1>1, <1>14 DEF adv_uart_set_mctrl, PortOK, Attr
  <2>3. PortOK'
    BY <1>1, <1>2, <1>4, <1>14, <2>2 DEF adv_uart_set_mctrl, PortOK, Events
  <2> QED
    BY <1>2, <2>1, <2>3 DEF TypeOK
<1> QED
  BY <1>5, <1>6, <1>7, <1>8, <1>9, <1>10, <1>11, <1>12, <1>13, <1>14 DEF Tty, TtyStep

(***************************************************************************)
(* The device.                                                             *)
(***************************************************************************)

\* A packet for the device, and the device's answer to it, are packets.
LEMMA PacketType ==
    ASSUME NEW v \in Int
    PROVE  /\ \A op \in {"create", "line", "ms", "setwmask", "getmodem", "womask",
                         "getwmask", "queuefree"} : Packet(op, v) \in ToDev
           /\ \A op \in {"create", "set", "setwmask", "getmodem", "womask",
                         "getwmask", "write", "eof"}, st \in {"ok", "busy", "bad"} :
                  Answer(op, st, v) \in ToHost
<1>1. <<>> \in Seq(Byte)
  OBVIOUS
<1> QED
  BY <1>1 DEF Packet, Answer, ToDev, ToHost

\* The answers to a packet are at most one packet for the daemon.
LEMMA AnswersType ==
    ASSUME NEW p \in ToDev, lineNow \in {0, 1}
    PROVE  /\ Answers(p) \in Seq(ToHost)
           /\ Answers(p) # <<>> => Answers(p)[1] \in ToHost
<1>1. p.op \in {"create", "line", "ms", "setwmask", "getmodem", "womask",
                "getwmask", "queuefree", "write"} /\ Len(p.data) \in Int
  BY DEF ToDev
<1>2. Answers(p) = <<>> \/ \E a \in ToHost : Answers(p) = <<a>>
  BY <1>1, PacketType DEF Answers
<1>3. ASSUME NEW a \in ToHost, Answers(p) = <<a>>
      PROVE  Answers(p) \in Seq(ToHost) /\ Answers(p)[1] \in ToHost
  BY <1>3
<1>4. ASSUME Answers(p) = <<>>
      PROVE  Answers(p) \in Seq(ToHost)
  BY <1>4
<1> QED
  BY <1>2, <1>3, <1>4

\* What the device makes of a packet is a state of the device.
LEMMA ApplyType ==
    ASSUME NEW p \in ToDev, dev \in Dev
    PROVE  Apply(p) \in Dev
<1>1. p.val \in Int /\ (p.val > 0) \in BOOLEAN
  BY DEF ToDev
<1>2. /\ [dev EXCEPT !.line = p.val] \in Dev
      /\ [dev EXCEPT !.ms = p.val] \in Dev
      /\ [dev EXCEPT !.armed = TRUE] \in Dev
      /\ [dev EXCEPT !.go = p.val > 0] \in Dev
  BY <1>1 DEF Dev
<1> QED
  BY <1>2 DEF Apply

\* The device keeps the types, whether it answers or acts of its own accord.
LEMMA DeviceType ==
    ASSUME TypeOK, DeviceAnswers \/ DeviceActs
    PROVE  TypeOK'
<1> USE DEF linkVars, portVars
<1>1. RingsOK /\ PortOK /\ LinkOK
  BY DEF TypeOK
<1>2. RingsOK' /\ LoopOK' /\ UNCHANGED <<attr, usr, throttled, mctrl, written>>
      /\ UNCHANGED <<sk, eki, xmit_pending, stk>>
  BY DEF TypeOK, RingsOK, LoopOK, DeviceAnswers, DeviceActs, driverVars, ringVars,
         ttyVars, attrVars, daemonVars, stateVars, copyVars, waitVars
<1>3. \A e \in Events : Spend(e) => left' \in [Events -> Nat]
  BY <1>1, SpendType DEF PortOK
<1>4. \A a \in ToHost : Append(toHost, a) \in Seq(ToHost)
  BY <1>1, AppendProperties DEF LinkOK
<1>5. toDev # <<>> => Head(toDev) \in ToDev /\ Tail(toDev) \in Seq(ToDev)
  BY <1>1 DEF LinkOK
<1>6. toDev # <<>> => /\ Answers(Head(toDev)) \in Seq(ToHost)
                      /\ Answers(Head(toDev)) # <<>> => Answers(Head(toDev))[1] \in ToHost
  BY <1>1, <1>5, AnswersType DEF PortOK
<1>7. CASE DeviceServes
  <2>1. Head(toDev).data \in Seq(Byte)
    BY <1>5, <1>7 DEF DeviceServes, ToDev
  <2>2. PortOK'
    BY <1>1, <1>2, <1>7, <2>1, ConcatProperties DEF DeviceServes, PortOK
  <2>3. toHost' \in Seq(ToHost)
    BY <1>1, <1>6, <1>7, ConcatProperties DEF DeviceServes, LinkOK
  <2>4. dev' \in Dev
    BY <1>1, <1>5, <1>7, ApplyType DEF DeviceServes, LinkOK
  <2> QED
    BY <1>1, <1>2, <1>5, <1>7, <2>2, <2>3, <2>4 DEF DeviceServes, LinkOK, TypeOK
<1>8. CASE DeviceBusy
  <2>1. Answer("write", "busy", Len(Head(toDev).data)) \in ToHost
    <3>1. Len(Head(toDev).data) \in Int
      BY <1>5, <1>8 DEF DeviceBusy, ToDev
    <3> QED
      BY <3>1, PacketType
  <2>2. LinkOK'
    BY <1>1, <1>2, <1>4, <1>5, <1>8, <2>1 DEF DeviceBusy, LinkOK
  <2>3. PortOK'
    BY <1>1, <1>2, <1>3, <1>8 DEF DeviceBusy, PortOK, Events
  <2> QED
    BY <1>2, <2>2, <2>3 DEF TypeOK
<1>9. CASE DeviceRefuses
  <2>1. [Answers(Head(toDev))[1] EXCEPT !.st = "bad"] \in ToHost
    BY <1>5, <1>6, <1>9 DEF DeviceRefuses, ToHost
  <2>2. LinkOK'
    BY <1>1, <1>2, <1>4, <1>5, <1>9, <2>1 DEF DeviceRefuses, LinkOK
  <2>3. PortOK'
    BY <1>1, <1>2, <1>3, <1>9 DEF DeviceRefuses, PortOK, Events
  <2> QED
    BY <1>2, <2>2, <2>3 DEF TypeOK
<1>10. CASE DeviceSendsData
  <2>1. <<produced + 1>> \in Seq(Byte)
    BY <1>1 DEF PortOK, Byte
  <2>2. [op |-> "data", st |-> "ok", val |-> 0, data |-> <<produced + 1>>] \in ToHost
    BY <2>1 DEF ToHost
  <2>3. LinkOK'
    BY <1>1, <1>2, <1>4, <1>10, <2>2 DEF DeviceSendsData, LinkOK
  <2>4. PortOK'
    BY <1>1, <1>2, <1>3, <1>10 DEF DeviceSendsData, PortOK, Events
  <2> QED
    BY <1>2, <2>3, <2>4 DEF TypeOK
<1>11. CASE DeviceLineChanges
  <2>1. Answer("womask", "ok", 0) \in ToHost
    BY PacketType
  <2>2. [dev EXCEPT !.armed = FALSE] \in Dev
    BY <1>1 DEF LinkOK, Dev
  <2>3. LinkOK'
    BY <1>1, <1>2, <1>4, <1>11, <2>1, <2>2 DEF DeviceLineChanges, LinkOK
  <2>4. PortOK'
    BY <1>1, <1>2, <1>3, <1>11, 1 - 0 = 1, 1 - 1 = 0 DEF DeviceLineChanges, PortOK, Events
  <2> QED
    BY <1>2, <2>3, <2>4 DEF TypeOK
<1>12. CASE ConnectionBreaks(sk)
  <2>1. Answer("eof", "bad", 0) \in ToHost
    BY PacketType
  <2>2. [dev EXCEPT !.alive = FALSE, !.go = FALSE, !.armed = FALSE] \in Dev
    BY <1>1 DEF LinkOK, Dev
  <2>3. LinkOK'
    BY <1>1, <1>2, <1>4, <1>12, <2>1, <2>2 DEF ConnectionBreaks, LinkOK
  <2>4. PortOK'
    BY <1>1, <1>2, <1>3, <1>12 DEF ConnectionBreaks, PortOK, Events
  <2> QED
    BY <1>2, <2>3, <2>4 DEF TypeOK
<1> QED
  BY <1>7, <1>8, <1>9, <1>10, <1>11, <1>12 DEF DeviceAnswers, DeviceActs

(***************************************************************************)
(* The daemon.                                                             *)
(***************************************************************************)

\* Whatever a handler sends is a sequence of packets.
LEMMA SentType ==
    ASSUME PortOK, LinkOK
    PROVE  /\ vc_common_open \in Seq(ToDev)
           /\ Settings \in Seq(ToDev)
           /\ NextRequest \in Seq(ToDev)
<1>1. /\ usr.line \in Int /\ usr.ms \in Int
  BY DriverAssumption DEF PortOK, Attr, Lines
<1>2. /\ Packet("create", 0) \in ToDev /\ Packet("ms", usr.ms) \in ToDev
      /\ Packet("setwmask", 0) \in ToDev /\ Packet("getmodem", 0) \in ToDev
      /\ Packet("line", usr.line) \in ToDev /\ Packet("womask", 0) \in ToDev
      /\ sync_queue \in ToDev
  BY <1>1, PacketType DEF sync_queue
<1>3. vc_common_open \in Seq(ToDev)
  <2>1. <<Packet("create", 0)>> \in Seq(ToDev) /\ vc_sync_init \in Seq(ToDev)
    BY <1>2 DEF vc_sync_init
  <2> QED
    BY <2>1, ConcatProperties DEF vc_common_open
<1>4. Settings \in Seq(ToDev)
  <2>1. /\ <<Packet("line", usr.line)>> \in Seq(ToDev)
        /\ <<Packet("ms", usr.ms)>> \in Seq(ToDev) /\ <<>> \in Seq(ToDev)
    BY <1>2
  <2>2. PICK a \in Seq(ToDev), b \in Seq(ToDev) : Settings = a \o b
    BY <2>1 DEF Settings
  <2> QED
    BY <2>2, ConcatProperties
<1>5. NextRequest \in Seq(ToDev)
  <2>1. /\ <<Packet("setwmask", 0), Packet("getmodem", 0)>> \in Seq(ToDev)
        /\ <<Packet("womask", 0)>> \in Seq(ToDev) /\ <<>> \in Seq(ToDev)
    BY <1>2
  <2> QED
    BY <2>1 DEF NextRequest
<1> QED
  BY <1>3, <1>4, <1>5

\* What is done to the stack leaves a stack.
LEMMA StackType ==
    ASSUME LinkOK, NEW s \in States
    PROVE  /\ Append(stk, s) \in Seq(States)
           /\ Replace(s) \in Seq(States)
           /\ PopStk \in Seq(States)
<1>1. stk \in Seq(States) /\ Len(stk) \in Nat
  BY DEF LinkOK
<1>2. Append(stk, s) \in Seq(States)
  BY <1>1, AppendProperties
<1>3. CASE Len(stk) = 0
  <2>1. PopStk = <<>>
    BY <1>1, <1>3, SubSeqEmpty DEF PopStk
  <2>2. stk \in [1 .. 0 -> States]
    BY <1>1, <1>3
  <2>3. Replace(s) \in [1 .. 0 -> States]
    BY <2>2 DEF Replace
  <2>4. Replace(s) \in Seq(States)
    BY <2>3, IsASeq
  <2> QED
    BY <1>2, <2>1, <2>4
<1>4. CASE Len(stk) > 0
  <2>1. Replace(s) \in Seq(States)
    BY <1>1, <1>4, ExceptSeq DEF Replace
  <2>2. PopStk \in Seq(States)
    BY <1>1, <1>4, SubSeqProperties DEF PopStk
  <2> QED
    BY <1>2, <2>1, <2>2
<1> QED
  BY <1>1, <1>3, <1>4

\* The steps up to the select() call keep the types.
LEMMA SendingType ==
    ASSUME TypeOK,
           \/ vc_netdown_open \/ vc_netdown_open_fails \/ vc_common_close \/ NothingToOpen
           \/ vc_common_ioctl \/ NothingToSet
           \/ vc_common_xmit  \/ NothingToXmit
           \/ vc_netup_pause  \/ NothingToPause
           \/ event \/ adv_main_interrupt
    PROVE  TypeOK'
<1> USE DEF driverVars, ringVars, ttyVars, attrVars, deviceVars, linkVars, portVars,
            stateVars, copyVars, waitVars, Goto
<1>1. RingsOK /\ PortOK /\ LinkOK /\ LoopOK
  BY DEF TypeOK
<1>2. ASSUME UNCHANGED <<ringVars, circ, flip>> PROVE RingsOK'
  BY <1>1, <1>2 DEF RingsOK
<1>3. ASSUME UNCHANGED <<attrVars, written, portVars>>, left' \in [Events -> Nat]
      PROVE  PortOK'
  BY <1>1, <1>3 DEF PortOK
<1>4. ASSUME UNCHANGED <<stateVars, linkVars>> PROVE LinkOK'
  BY <1>1, <1>4 DEF LinkOK
<1>5. ASSUME pc' \in Steps, drx' \in RingCopy, dtx' \in RingCopy, UNCHANGED waitVars
      PROVE  LoopOK'
  BY <1>1, <1>5 DEF LoopOK
<1>6. ASSUME RingsOK', vc_netup_init PROVE drx' \in RingCopy /\ dtx' \in RingCopy
  BY <1>6, CursorsType DEF RingsOK, vc_netup_init
<1>7. SendFails => LinkOK' /\ left' \in [Events -> Nat]
  BY <1>1, SendFailsType DEF PortOK
<1>8. /\ left \in [Events -> Nat] /\ drx \in RingCopy /\ dtx \in RingCopy
      /\ toDev \in Seq(ToDev) /\ eki \in Eki
  BY <1>1 DEF PortOK, LoopOK, LinkOK
<1>9. CASE vc_netdown_open
  <2>1. Append(stk, IF is_rb_empty(dtx) THEN "netup" ELSE "pause") \in Seq(States)
    BY <1>1, StackType DEF States
  <2>2. [eki EXCEPT !.open = TRUE, !.ms = usr.ms] \in Eki
    BY <1>1 DEF LinkOK, PortOK, Eki, Attr
  <2>3. LinkOK'
    BY <1>1, <1>9, <2>1, <2>2, SentType DEF vc_netdown_open, LinkOK
  <2>4. RingsOK' /\ PortOK'
    BY <1>2, <1>3, <1>8, <1>9 DEF vc_netdown_open
  <2>5. LoopOK'
    BY <1>5, <1>6, <1>9, <2>4 DEF vc_netdown_open, Steps
  <2> QED
    BY <2>3, <2>4, <2>5 DEF TypeOK
<1>10. CASE vc_netdown_open_fails
  <2>1. RingsOK' /\ PortOK' /\ LinkOK'
    BY <1>2, <1>3, <1>7, <1>10 DEF vc_netdown_open_fails
  <2>2. LoopOK'
    BY <1>5, <1>8, <1>10 DEF vc_netdown_open_fails, Steps
  <2> QED
    BY <2>1, <2>2 DEF TypeOK
<1>11. CASE vc_common_close
  <2>1. rx' \in Ring /\ tx' \in Ring
    BY <1>1, <1>11, ClearType DEF vc_common_close, RingsOK
  <2>2. RingsOK'
    BY <1>1, <1>11, <2>1 DEF vc_common_close, RingsOK
  <2>3. PortOK' /\ LinkOK'
    BY <1>3, <1>8, <1>11, ExcpType DEF vc_common_close
  <2>4. LoopOK'
    BY <1>5, <1>8, <1>11, <2>1, CursorsType DEF vc_common_close, Steps
  <2> QED
    BY <2>2, <2>3, <2>4 DEF TypeOK
<1>12. CASE NothingToOpen \/ NothingToSet \/ NothingToXmit \/ NothingToPause
  <2>1. RingsOK' /\ PortOK' /\ LinkOK'
    BY <1>2, <1>3, <1>4, <1>8, <1>12
       DEF NothingToOpen, NothingToSet, NothingToXmit, NothingToPause
  <2>2. LoopOK'
    BY <1>5, <1>8, <1>12
       DEF NothingToOpen, NothingToSet, NothingToXmit, NothingToPause, Steps
  <2> QED
    BY <2>1, <2>2 DEF TypeOK
<1>13. CASE vc_common_ioctl
  <2>1. [eki EXCEPT !.line = usr.line, !.ms = usr.ms] \in Eki
    BY <1>1 DEF LinkOK, PortOK, Eki, Attr
  <2>2. toDev \o Settings \in Seq(ToDev)
    BY <1>1, <1>8, SentType, ConcatProperties
  <2>3. LinkOK' /\ left' \in [Events -> Nat]
    BY <1>1, <1>7, <1>8, <1>13, <2>1, <2>2 DEF vc_common_ioctl, LinkOK
  <2>4. RingsOK' /\ PortOK' /\ LoopOK'
    BY <1>2, <1>3, <1>5, <1>8, <1>13, <2>3 DEF vc_common_ioctl, Steps
  <2> QED
    BY <2>3, <2>4 DEF TypeOK
<1>14. CASE vc_common_xmit
  <2> DEFINE n == least(get_rb_length(drx), XmitLen)
             p == [op |-> "write", val |-> n, data |-> Peek(drx, rxd, n)]
  <2>1. drx.head \in Pos /\ drx.tail \in Pos
    BY <1>8 DEF RingCopy
  <2>2. n \in Nat
    BY <2>1, LengthType, SizeAssumption, DaemonAssumption DEF least, Pos
  <2>3. Peek(drx, rxd, n) \in Seq(Byte)
    BY <1>1, <2>1, <2>2, PeekType DEF RingsOK
  <2>4. p \in ToDev
    BY <2>2, <2>3 DEF ToDev
  <2>5. Append(toDev, p) \in Seq(ToDev)
    BY <1>8, <2>4, AppendProperties
  <2>6. SendFails \/ /\ toDev' = Append(toDev, p) /\ xmit_pending' = n
                     /\ UNCHANGED <<stk, sk, eki, toHost, dev, left>>
    BY <1>14 DEF vc_common_xmit
  <2> HIDE DEF n, p
  <2>7. LinkOK' /\ left' \in [Events -> Nat]
    BY <1>1, <1>7, <1>8, <2>2, <2>5, <2>6 DEF LinkOK
  <2>8. RingsOK' /\ PortOK' /\ LoopOK'
    BY <1>2, <1>3, <1>5, <1>8, <1>14, <2>7 DEF vc_common_xmit, Steps
  <2> QED
    BY <2>7, <2>8 DEF TypeOK
<1>15. CASE vc_netup_pause
  <2>1. Append(toDev, Packet("queuefree", 0)) \in Seq(ToDev)
    BY <1>8, PacketType, AppendProperties
  <2>2. Replace("pause") \in Seq(States)
    BY <1>1, StackType DEF States
  <2>3. LinkOK' /\ left' \in [Events -> Nat]
    BY <1>1, <1>7, <1>8, <1>15, <2>1, <2>2 DEF vc_netup_pause, LinkOK
  <2>4. RingsOK' /\ PortOK'
    BY <1>2, <1>3, <1>15, <2>3 DEF vc_netup_pause
  <2>5. LoopOK'
    BY <1>5, <1>6, <1>8, <1>15, <2>4 DEF vc_netup_pause, Steps
  <2> QED
    BY <2>3, <2>4, <2>5 DEF TypeOK
<1>16. CASE event
  <2>1. RingsOK' /\ PortOK' /\ LinkOK'
    BY <1>2, <1>3, <1>4, <1>8, <1>16 DEF event
  <2>2. want' \subseteq {"rx", "tx"}
    BY <1>16 DEF event
  <2>3. LoopOK'
    BY <1>1, <1>16, <2>2 DEF event, LoopOK, Steps
  <2> QED
    BY <2>1, <2>3 DEF TypeOK
<1>17. CASE adv_main_interrupt
  <2>1. rx' \in Ring /\ rxd' \in [Pos -> Byte] /\ circ' \in Seq(Byte)
    BY <1>1, <1>17, XmitType DEF adv_main_interrupt, adv_uart_update_xmit, RingsOK
  <2>2. RingsOK'
    BY <1>1, <1>17, <2>1, RecvCharsType DEF adv_main_interrupt, RingsOK, PortOK
  <2>3. PortOK' /\ LinkOK' /\ LoopOK'
    BY <1>3, <1>4, <1>5, <1>8, <1>17 DEF adv_main_interrupt, Steps
  <2> QED
    BY <2>2, <2>3 DEF TypeOK
<1> QED
  BY <1>9, <1>10, <1>11, <1>12, <1>13, <1>14, <1>15, <1>16, <1>17

\* The steps from the select() call on, and a restart, keep the types.
LEMMA ServingType ==
    ASSUME TypeOK,
           \/ select \/ vc_netup_poll \/ vc_idle_poll \/ NothingToPoll
           \/ AttrEvent
           \/ NoPacket \/ RecvExcp \/ vc_idle_recv \/ RecvOther \/ vc_sync_recv
           \/ RecvData \/ RecvWritten
           \/ RxEvent
           \/ vc_pause_resume \/ NothingToResume
           \/ main
    PROVE  TypeOK'
<1> USE DEF driverVars, ringVars, ttyVars, attrVars, deviceVars, linkVars, portVars,
            stateVars, copyVars, waitVars, Goto
<1>1. RingsOK /\ PortOK /\ LinkOK /\ LoopOK
  BY DEF TypeOK
<1>2. ASSUME UNCHANGED <<ringVars, circ, flip>> PROVE RingsOK'
  BY <1>1, <1>2 DEF RingsOK
<1>3. ASSUME UNCHANGED <<attrVars, written, portVars>>, left' \in [Events -> Nat]
      PROVE  PortOK'
  BY <1>1, <1>3 DEF PortOK
<1>4. ASSUME UNCHANGED <<stateVars, linkVars>> PROVE LinkOK'
  BY <1>1, <1>4 DEF LinkOK
<1>5. ASSUME pc' \in Steps, drx' \in RingCopy, dtx' \in RingCopy, UNCHANGED waitVars
      PROVE  LoopOK'
  BY <1>1, <1>5 DEF LoopOK
<1>6. ASSUME RingsOK', vc_netup_init PROVE drx' \in RingCopy /\ dtx' \in RingCopy
  BY <1>6, CursorsType DEF RingsOK, vc_netup_init
<1>7. SendFails => LinkOK' /\ left' \in [Events -> Nat]
  BY <1>1, SendFailsType DEF PortOK
<1>8. /\ left \in [Events -> Nat] /\ drx \in RingCopy /\ dtx \in RingCopy
      /\ toDev \in Seq(ToDev) /\ toHost \in Seq(ToHost)
      /\ rx \in Ring /\ tx \in Ring
  BY <1>1 DEF PortOK, LoopOK, LinkOK, RingsOK
<1>9. Cursors(rx) \in RingCopy /\ Cursors(tx) \in RingCopy /\ TxSeen \in RingCopy
  BY <1>8, CursorsType DEF TxSeen
<1>10. TimePasses => left' \in [Events -> Nat]
  BY <1>8, SpendType DEF TimePasses, Events
<1>11. ASSUME toHost # <<>> PROVE Head(toHost) \in ToHost /\ Tail(toHost) \in Seq(ToHost)
  BY <1>8, <1>11
<1>12. CASE select
  <2>1. RingsOK' /\ PortOK' /\ LinkOK'
    BY <1>2, <1>3, <1>4, <1>8, <1>12 DEF select
  <2>2. ready' \subseteq {"attr", "sk", "rx", "tx"}
    BY <1>12 DEF select, Ready
  <2>3. LoopOK'
    BY <1>1, <1>12, <2>2 DEF select, LoopOK, Steps
  <2> QED
    BY <2>1, <2>3 DEF TypeOK
<1>13. CASE vc_netup_poll
  <2>1. Append(toDev, Packet("getwmask", 0)) \in Seq(ToDev)
    BY <1>8, PacketType, AppendProperties
  <2>2. Append(stk, "idle") \in Seq(States)
    BY <1>1, StackType DEF States
  <2>3. LinkOK' /\ left' \in [Events -> Nat]
    BY <1>1, <1>7, <1>10, <1>13, <2>1, <2>2 DEF vc_netup_poll, LinkOK
  <2>4. RingsOK' /\ PortOK' /\ LoopOK'
    BY <1>2, <1>3, <1>5, <1>8, <1>13, <2>3 DEF vc_netup_poll, Steps
  <2> QED
    BY <2>3, <2>4 DEF TypeOK
<1>14. CASE vc_idle_poll
  BY <1>2, <1>3, <1>5, <1>8, <1>10, <1>14, ExcpType DEF vc_idle_poll, Steps, TypeOK
<1>15. CASE NothingToPoll
  BY <1>2, <1>3, <1>4, <1>5, <1>8, <1>15 DEF NothingToPoll, Steps, TypeOK
<1>16. CASE AttrEvent
  <2>1. usr' \in Attr
    BY <1>1, <1>16 DEF AttrEvent, flush_attr_info, PortOK
  <2>2. PortOK'
    BY <1>1, <1>16, <2>1 DEF AttrEvent, PortOK
  <2>3. RingsOK' /\ LinkOK' /\ LoopOK'
    BY <1>2, <1>4, <1>5, <1>8, <1>16 DEF AttrEvent, Steps
  <2> QED
    BY <2>2, <2>3 DEF TypeOK
<1>17. CASE NoPacket
  <2>1. LinkOK' /\ left' \in [Events -> Nat]
    BY <1>4, <1>7, <1>8, <1>17 DEF NoPacket
  <2> QED
    BY <1>2, <1>3, <1>5, <1>8, <1>17, <2>1 DEF NoPacket, Steps, TypeOK
<1>18. CASE RecvExcp
  BY <1>2, <1>3, <1>5, <1>8, <1>9, <1>18, ExcpType DEF RecvExcp, Steps, TypeOK
<1>19. CASE vc_idle_recv
  <2>1. LinkOK'
    BY <1>1, <1>11, <1>19, StackType DEF vc_idle_recv, Receiving, LinkOK, States
  <2>2. RingsOK' /\ PortOK'
    BY <1>2, <1>3, <1>8, <1>19 DEF vc_idle_recv
  <2>3. LoopOK'
    BY <1>5, <1>6, <1>19, <2>2 DEF vc_idle_recv, Steps
  <2> QED
    BY <2>1, <2>2, <2>3 DEF TypeOK
<1>20. CASE RecvOther
  <2>1. LinkOK'
    BY <1>1, <1>11, <1>20 DEF RecvOther, Good, Receiving, LinkOK
  <2> QED
    BY <1>2, <1>3, <1>5, <1>8, <1>20, <2>1 DEF RecvOther, Steps, TypeOK
<1>21. CASE vc_sync_recv
  <2>1. toHost # <<>>
    BY <1>21 DEF vc_sync_recv, Good, Receiving
  <2>2. toDev \o NextRequest \in Seq(ToDev)
    BY <1>1, <1>8, SentType, ConcatProperties
  <2>3. LinkOK' /\ left' \in [Events -> Nat]
    BY <1>1, <1>7, <1>8, <1>11, <1>21, <2>1, <2>2 DEF vc_sync_recv, LinkOK
  <2>4. RingsOK'
    BY <1>2, <1>21 DEF vc_sync_recv
  <2>5. mctrl' \in Int
    BY <1>1, <1>11, <1>21, <2>1 DEF vc_sync_recv, PortOK, ToHost
  <2>6. PortOK'
    BY <1>1, <1>21, <2>3, <2>5 DEF vc_sync_recv, PortOK
  <2>7. LoopOK'
    BY <1>5, <1>6, <1>8, <1>21, <2>4 DEF vc_sync_recv, Steps
  <2> QED
    BY <2>3, <2>4, <2>6, <2>7 DEF TypeOK
<1>22. CASE RecvData
  <2> DEFINE s == Head(toHost).data
  <2>1. toHost # <<>>
    BY <1>22 DEF RecvData, Good, Receiving
  <2>2. s \in Seq(Byte)
    BY <1>11, <2>1 DEF ToHost
  <2>3. LinkOK'
    BY <1>1, <1>11, <1>22, <2>1, ExcpType DEF RecvData, LinkOK
  <2>4. PortOK' /\ LoopOK'
    BY <1>3, <1>5, <1>8, <1>9, <1>22 DEF RecvData, Steps
  <2>5. CASE get_rb_room(TxSeen) < Len(s)
    <3>1. RingsOK'
      BY <1>2, <1>22, <2>5 DEF RecvData
    <3> QED
      BY <2>3, <2>4, <3>1 DEF TypeOK
  <2>6. CASE ~(get_rb_room(TxSeen) < Len(s))
    <3>1. TxSeen.tail \in Pos
      BY <1>9 DEF RingCopy
    <3>2. txd' = Poke(TxSeen, txd, s)
      BY <1>22, <2>6 DEF RecvData
    <3>3. txd' \in [Pos -> Byte]
      BY <1>1, <2>2, <3>1, <3>2, PokeType DEF RingsOK
    <3>4. move_rb_tail(tx, Len(s)) \in Ring
      BY <1>8, <2>2, MoveTailType
    <3>5. adv_uart_recv_chars(move_rb_tail(tx, Len(s)), txd', throttled)
      BY <1>22, <2>6 DEF RecvData
    <3>6. \A t \in Ring, d \in [Pos -> Byte], m \in BOOLEAN :
              adv_uart_recv_chars(t, d, m) => tx' \in Ring /\ flip' \in Seq(Byte)
      BY <1>1, RecvCharsType DEF RingsOK
    <3>7. tx' \in Ring /\ flip' \in Seq(Byte)
      <4>1. throttled \in BOOLEAN
        BY <1>1 DEF PortOK
      <4> QED
        BY <3>3, <3>4, <3>5, <3>6, <4>1
    <3>8. RingsOK'
      BY <1>1, <1>22, <3>3, <3>7 DEF RecvData, RingsOK
    <3> QED
      BY <2>3, <2>4, <3>8 DEF TypeOK
  <2> QED
    BY <2>5, <2>6
<1>23. CASE RecvWritten
  <2>1. toHost # <<>>
    BY <1>23 DEF RecvWritten, Receiving
  <2>2. move_rb_head(rx, xmit_pending) \in Ring
    BY <1>1, <1>8, MoveHeadType DEF LinkOK
  <2>3. /\ rx' \in Ring /\ drx' \in RingCopy
    BY <1>8, <1>23, <2>2, CursorsType DEF RecvWritten, DropWritten
  <2>4. LinkOK'
    BY <1>1, <1>11, <1>23, <2>1, ExcpType DEF RecvWritten, LinkOK
  <2>5. RingsOK'
    BY <1>1, <1>23, <2>3 DEF RecvWritten, RingsOK
  <2>6. PortOK' /\ LoopOK'
    BY <1>3, <1>5, <1>8, <1>23, <2>3 DEF RecvWritten, Steps
  <2> QED
    BY <2>4, <2>5, <2>6 DEF TypeOK
<1>24. CASE RxEvent
  BY <1>2, <1>3, <1>4, <1>5, <1>8, <1>9, <1>24 DEF RxEvent, Steps, TypeOK
<1>25. CASE vc_pause_resume
  <2>1. Append(toDev, Packet("queuefree", 1)) \in Seq(ToDev)
    BY <1>8, PacketType, AppendProperties
  <2>2. Replace("netup") \in Seq(States)
    BY <1>1, StackType DEF States
  <2>3. LinkOK' /\ left' \in [Events -> Nat]
    BY <1>1, <1>4, <1>7, <1>8, <1>25, <2>1, <2>2 DEF vc_pause_resume, LinkOK
  <2>4. RingsOK' /\ PortOK'
    BY <1>2, <1>3, <1>25, <2>3 DEF vc_pause_resume
  <2>5. LoopOK'
    BY <1>5, <1>6, <1>8, <1>9, <1>25, <2>4 DEF vc_pause_resume, Steps
  <2> QED
    BY <2>3, <2>4, <2>5 DEF TypeOK
<1>26. CASE NothingToResume
  BY <1>2, <1>3, <1>4, <1>5, <1>8, <1>9, <1>26 DEF NothingToResume, Steps, TypeOK
<1>27. CASE main
  <2>1. LinkOK'
    BY <1>27, ExcpType DEF main, stk_excp
  <2>2. left' \in [Events -> Nat]
    BY <1>8, <1>27, SpendType DEF main, Events
  <2>3. PortOK'
    BY <1>1, <1>27, <2>2 DEF main, flush_attr_info, PortOK
  <2>4. RingsOK'
    BY <1>1, <1>27 DEF main, RingsOK
  <2>5. LoopOK'
    BY <1>9, <1>27 DEF main, LoopOK, Steps
  <2> QED
    BY <2>1, <2>3, <2>4, <2>5 DEF TypeOK
<1> QED
  BY <1>12, <1>13, <1>14, <1>15, <1>16, <1>17, <1>18, <1>19, <1>20, <1>21, <1>22,
     <1>23, <1>24, <1>25, <1>26, <1>27

(***************************************************************************)
(* Types.                                                                  *)
(***************************************************************************)

\* In every reachable state every variable has its type; in particular no
\* handler moves a cursor out of its ring, whatever the ring's size.
THEOREM TypeCorrect == Spec => []TypeOK
<1>1. Init => TypeOK
  <2> SUFFICES ASSUME Init PROVE TypeOK
    OBVIOUS
  <2>1. RingsOK
    BY SizeAssumption DEF Init, adv_main_init, RingsOK, Ring, Pos, Byte
  <2>2. PortOK
    <3>1. 0 \in Lines /\ <<>> \in Seq(Byte)
      BY DriverAssumption DEF Lines
    <3>2. attr \in Attr /\ usr \in Attr
      BY <3>1 DEF Init, adv_main_init, Attr
    <3>3. left \in [Events -> Nat]
      BY DriverAssumption DEF Init, adv_main_init
    <3>4. throttled \in BOOLEAN
      BY Zenon DEF Init, adv_main_init
    <3>5. mctrl \in Int /\ written \in Nat
      BY DEF Init, adv_main_init
    <3> QED
      BY <3>1, <3>2, <3>3, <3>4, <3>5 DEF Init, DeviceInit, PortOK
  <2>3. LinkOK
    <3>1. NoSession \in Dev /\ EkiUndef \in Eki
      BY DriverAssumption DEF NoSession, Dev, EkiUndef, Eki, LineUndef, Lines
    <3>2. <<"netdown">> \in Seq(States)
      BY DEF States
    <3>3. <<>> \in Seq(ToDev) /\ <<>> \in Seq(ToHost)
      OBVIOUS
    <3> QED
      BY <3>1, <3>2, <3>3 DEF Init, DeviceInit, DaemonInit, LinkOK
  <2>4. LoopOK
    BY <2>1, CursorsType DEF Init, DaemonInit, LoopOK, RingsOK, Steps
  <2> QED
    BY <2>1, <2>2, <2>3, <2>4 DEF TypeOK
<1>2. TypeOK /\ [Next]_vars => TypeOK'
  <2> SUFFICES ASSUME TypeOK, [Next]_vars PROVE TypeOK'
    OBVIOUS
  <2>1. CASE Tty
    BY <2>1, TtyType
  <2>2. CASE DeviceAnswers \/ DeviceActs
    BY <2>2, DeviceType
  <2>3. CASE DaemonStep
    BY <2>3, SendingType, ServingType DEF DaemonStep
  <2>4. CASE main
    BY <2>4, ServingType
  <2>5. CASE UNCHANGED vars
    BY <2>5 DEF vars, driverVars, ringVars, ttyVars, attrVars, deviceVars, linkVars,
       portVars, daemonVars, stateVars, copyVars, waitVars,
       TypeOK, RingsOK, PortOK, LinkOK, LoopOK
  <2> QED
    BY <2>1, <2>2, <2>3, <2>4, <2>5 DEF Next
<1> QED
  BY <1>1, <1>2, PTL DEF Spec

(***************************************************************************)
(* The state stack.                                                        *)
(***************************************************************************)

\* The shapes of the stack, and what the stack operations make of them.
LEMMA Shapes ==
    ASSUME StackSound
    PROVE  /\ Len(stk) \in {1, 2, 3}
           /\ Len(stk) = 1 => stk = <<"netdown">> /\ Top = "netdown"
           /\ Len(stk) = 2 => Top \in Connected /\ stk = <<"netdown", Top>>
           /\ Len(stk) = 3 => Top = "idle" /\ PopStk \in {<<"netdown", s>> : s \in Connected}
<1>1. ASSUME stk = <<"netdown">>
      PROVE  Len(stk) = 1 /\ Top = "netdown"
  BY <1>1 DEF Top
<1>2. ASSUME NEW s \in Connected, stk = <<"netdown", s>>
      PROVE  Len(stk) = 2 /\ Top = s
  BY <1>2 DEF Top
<1>3. ASSUME NEW s \in Connected, stk = <<"netdown", s, "idle">>
      PROVE  Len(stk) = 3 /\ Top = "idle" /\ PopStk = <<"netdown", s>>
  <2>1. Len(stk) = 3 /\ Top = "idle"
    BY <1>3 DEF Top
  <2>2. PopStk = <<"netdown", s>>
    <3>1. PopStk = SubSeq(stk, 1, 2)
      BY <2>1 DEF PopStk
    <3>2. \A i \in 1 .. 2 : stk[i] = <<"netdown", s>>[i] /\ stk[i] \in States
      BY <1>3 DEF States, Connected
    <3>3. /\ SubSeq(stk, 1, 2) \in Seq(States) /\ Len(SubSeq(stk, 1, 2)) = 2
          /\ \A i \in 1 .. 2 : SubSeq(stk, 1, 2)[i] = stk[i]
      BY <3>2, SubSeqProperties
    <3>4. <<"netdown", s>> \in Seq(States) /\ Len(<<"netdown", s>>) = 2
      BY DEF States, Connected
    <3> QED
      BY <3>1, <3>2, <3>3, <3>4, SeqEqual
  <2> QED
    BY <2>1, <2>2
<1>4. \/ stk = <<"netdown">>
      \/ \E s \in Connected : stk = <<"netdown", s>>
      \/ \E s \in Connected : stk = <<"netdown", s, "idle">>
  BY DEF StackSound
<1>5. CASE \E s \in Connected : stk = <<"netdown", s>>
  BY <1>2, <1>5
<1>6. CASE \E s \in Connected : stk = <<"netdown", s, "idle">>
  BY <1>3, <1>6
<1> QED
  BY <1>1, <1>4, <1>5, <1>6

\* Pushing a state on one of the stacks of the shorter shapes.
LEMMA Pushed ==
    ASSUME NEW s \in States, NEW t \in States, NEW u \in States
    PROVE  /\ Append(<<s>>, t) = <<s, t>>
           /\ Append(<<s, t>>, u) = <<s, t, u>>
<1>1. /\ <<s>> \in Seq(States) /\ <<s, t>> \in Seq(States) /\ <<s, t, u>> \in Seq(States)
      /\ Len(<<s>>) = 1 /\ Len(<<s, t>>) = 2 /\ Len(<<s, t, u>>) = 3
  OBVIOUS
<1>2. Append(<<s>>, t) = <<s, t>>
  <2>1. /\ Append(<<s>>, t) \in Seq(States) /\ Len(Append(<<s>>, t)) = 2
        /\ Append(<<s>>, t)[1] = s /\ Append(<<s>>, t)[2] = t
    BY <1>1, AppendProperties
  <2>2. \A i \in 1 .. Len(<<s, t>>) : <<s, t>>[i] = Append(<<s>>, t)[i]
    BY <1>1, <2>1
  <2> QED
    BY <1>1, <2>1, <2>2, SeqEqual
<1>3. Append(<<s, t>>, u) = <<s, t, u>>
  <2>1. /\ Append(<<s, t>>, u) \in Seq(States) /\ Len(Append(<<s, t>>, u)) = 3
        /\ Append(<<s, t>>, u)[1] = s /\ Append(<<s, t>>, u)[2] = t
        /\ Append(<<s, t>>, u)[3] = u
    BY <1>1, AppendProperties
  <2>2. \A i \in 1 .. Len(<<s, t, u>>) : <<s, t, u>>[i] = Append(<<s, t>>, u)[i]
    BY <1>1, <2>1
  <2> QED
    BY <1>1, <2>1, <2>2, SeqEqual
<1> QED
  BY <1>2, <1>3

\* However a handler gives up, the stack it leaves is the one of a fresh start.
LEMMA ExcpStack ==
    ASSUME stk_excp
    PROVE  StackSound'
<1>1. /\ stk' = <<"netdown">> /\ sk' = FALSE /\ eki'.open = FALSE /\ xmit_pending' = 0
      /\ toDev' = <<>> /\ toHost' = <<>> /\ dev' = NoSession
  BY DEF stk_excp, vc_netdown_init, EkiUndef
<1>2. Len(stk') = 1
  BY <1>1
<1> QED
  BY <1>1, <1>2 DEF StackSound

\* While a connection stands, what travels on it does not matter.
LEMMA ConnectedStack ==
    ASSUME StackSound, sk, UNCHANGED <<stk, sk>>, eki'.open = eki.open
    PROVE  StackSound'
  BY DEF StackSound

\* Nothing but the daemon touches the stack; and without a connection the device
\* has nothing to answer and no leave to speak.
LEMMA DeviceStack ==
    ASSUME StackSound, DeviceAnswers \/ DeviceActs
    PROVE  StackSound'
<1>1. UNCHANGED <<stk, sk, eki, xmit_pending>>
  BY DEF DeviceAnswers, DeviceActs, daemonVars, stateVars
<1>2. CASE sk
  BY <1>1, <1>2, ConnectedStack
<1>3. CASE ~sk
  <2>1. toDev = <<>> /\ toHost = <<>> /\ dev = NoSession
    BY <1>3 DEF StackSound
  <2>2. ~dev.go /\ ~dev.armed
    BY <2>1 DEF NoSession
  <2>3. ~DeviceAnswers /\ ~DeviceSendsData /\ ~ConnectionBreaks(sk)
    BY <1>3, <2>1, <2>2 DEF DeviceAnswers, DeviceServes, DeviceBusy, DeviceRefuses,
       DeviceSendsData, ConnectionBreaks
  <2>4. UNCHANGED <<toDev, toHost, dev>>
    BY <2>2, <2>3 DEF DeviceActs, DeviceLineChanges
  <2> QED
    BY <1>1, <2>4 DEF StackSound
<1> QED
  BY <1>2, <1>3

\* Every step of the daemon leaves the stack sound.
LEMMA DaemonStack ==
    ASSUME TypeOK, StackSound, DaemonStep
    PROVE  StackSound'
<1> USE DEF deviceVars, linkVars, stateVars
<1>1. eki \in Eki
  BY DEF TypeOK, LinkOK
<1>2. SendFails => StackSound'
  BY ExcpStack DEF SendFails
<1>3. ASSUME UNCHANGED <<stateVars, linkVars>> PROVE StackSound'
  BY <1>3 DEF StackSound
<1>4. ASSUME Top \in Connected \/ Top = "idle" PROVE sk
  BY <1>4, Shapes DEF StackSound, Connected
<1>5. CASE \/ NothingToOpen \/ NothingToSet \/ NothingToXmit \/ NothingToPause
           \/ event \/ adv_main_interrupt \/ select \/ NothingToPoll \/ AttrEvent
           \/ RxEvent \/ NothingToResume
  BY <1>3, <1>5 DEF NothingToOpen, NothingToSet, NothingToXmit, NothingToPause, event,
     adv_main_interrupt, select, NothingToPoll, AttrEvent, RxEvent, NothingToResume
<1>6. CASE vc_netdown_open_fails \/ vc_common_close \/ vc_idle_poll \/ RecvExcp
  BY <1>2, <1>6, ExcpStack DEF vc_netdown_open_fails, vc_common_close, vc_idle_poll, RecvExcp
<1>7. CASE vc_netdown_open
  <2>1. stk = <<"netdown">>
    BY <1>7, Shapes DEF vc_netdown_open, Connected
  <2>2. PICK s \in Connected : stk' = Append(stk, s)
    BY <1>7 DEF vc_netdown_open, Connected
  <2>3. stk' = <<"netdown", s>>
    BY <2>1, <2>2, Pushed DEF Connected, States
  <2>4. sk' = TRUE /\ eki'.open = TRUE
    BY <1>1, <1>7 DEF vc_netdown_open, Eki
  <2>5. Len(stk') = 2
    BY <2>3
  <2> QED
    BY <2>3, <2>4, <2>5 DEF StackSound
<1>8. CASE vc_common_ioctl
  <2>1. ASSUME ~SendFails PROVE StackSound'
    BY <1>1, <1>4, <1>8, <2>1, ConnectedStack DEF vc_common_ioctl, Eki
  <2> QED
    BY <1>2, <2>1
<1>9. CASE vc_common_xmit
  <2>1. ASSUME ~SendFails PROVE StackSound'
    BY <1>4, <1>9, <2>1, ConnectedStack DEF vc_common_xmit, MayXmit
  <2> QED
    BY <1>2, <2>1
<1>10. ASSUME NEW s \in Connected, Top \in Connected, stk' = Replace(s),
              UNCHANGED <<sk, eki>>
       PROVE  StackSound'
  <2>1. Len(stk) = 2 /\ stk = <<"netdown", Top>>
    BY <1>10, Shapes DEF Connected
  <2>2. stk' = <<"netdown", s>>
    BY <1>10, <2>1 DEF Replace
  <2>3. Len(stk') = 2
    BY <2>2
  <2>4. sk' /\ (eki'.open <=> sk')
    BY <1>4, <1>10 DEF StackSound
  <2> QED
    BY <2>2, <2>3, <2>4 DEF StackSound
<1>11. CASE vc_netup_pause
  BY <1>2, <1>10, <1>11 DEF vc_netup_pause, Connected
<1>12. CASE vc_pause_resume
  BY <1>2, <1>3, <1>10, <1>12 DEF vc_pause_resume, Connected
<1>13. CASE vc_netup_poll
  <2>1. ASSUME stk' = Append(stk, "idle"), UNCHANGED <<sk, eki>> PROVE StackSound'
    <3>1. Top \in Connected /\ stk = <<"netdown", Top>>
      BY <1>13, Shapes DEF vc_netup_poll, Connected
    <3>2. stk' = <<"netdown", Top, "idle">>
      BY <2>1, <3>1, Pushed DEF Connected, States
    <3>3. Len(stk') = 3
      BY <3>2
    <3>4. sk' /\ (eki'.open <=> sk')
      BY <1>4, <2>1, <3>1 DEF StackSound
    <3> QED
      BY <3>1, <3>2, <3>3, <3>4 DEF StackSound
  <2> QED
    BY <1>2, <1>13, <2>1 DEF vc_netup_poll
<1>14. CASE vc_idle_recv
  <2>1. Top = "idle" /\ stk' = PopStk /\ UNCHANGED <<sk, eki>>
    BY <1>14 DEF vc_idle_recv
  <2>2. PICK s \in Connected : stk' = <<"netdown", s>>
    BY <2>1, Shapes DEF Connected
  <2>3. Len(stk') = 2
    BY <2>2
  <2>4. sk' /\ (eki'.open <=> sk')
    BY <1>4, <2>1 DEF StackSound
  <2> QED
    BY <2>2, <2>3, <2>4 DEF StackSound
<1>15. CASE NoPacket
  BY <1>2, <1>3, <1>15 DEF NoPacket
<1>16. CASE RecvOther \/ vc_sync_recv \/ RecvData \/ RecvWritten
  <2>1. sk
    BY <1>4, <1>16 DEF RecvOther, vc_sync_recv, RecvData, RecvWritten, Good
  <2>2. stk_excp \/ UNCHANGED <<stk, sk, eki>>
    BY <1>16 DEF RecvOther, vc_sync_recv, RecvData, RecvWritten, SendFails
  <2> QED
    BY <2>1, <2>2, ExcpStack, ConnectedStack
<1> QED
  BY <1>5, <1>6, <1>7, <1>8, <1>9, <1>11, <1>12, <1>13, <1>14, <1>15, <1>16
     DEF DaemonStep

\* The stack is always sound: the socket exists exactly above Net Down, the port
\* counts as open exactly then, and nothing is under way without a socket.
THEOREM StackCorrect == Spec => []StackSound
<1>1. Init => StackSound
  <2> SUFFICES ASSUME Init PROVE StackSound
    OBVIOUS
  <2>1. Len(stk) = 1
    BY DEF Init, DaemonInit
  <2> QED
    BY <2>1 DEF Init, DeviceInit, DaemonInit, EkiUndef, StackSound
<1>2. TypeOK /\ StackSound /\ [Next]_vars => StackSound'
  <2> SUFFICES ASSUME TypeOK, StackSound, [Next]_vars PROVE StackSound'
    OBVIOUS
  <2>1. CASE Tty \/ UNCHANGED vars
    BY <2>1 DEF Tty, vars, deviceVars, linkVars, daemonVars, stateVars, StackSound
  <2>2. CASE DeviceAnswers \/ DeviceActs
    BY <2>2, DeviceStack
  <2>3. CASE DaemonStep
    BY <2>3, DaemonStack
  <2>4. CASE main
    BY <2>4, ExcpStack DEF main, stk_excp
  <2> QED
    BY <2>1, <2>2, <2>3, <2>4 DEF Next
<1> QED
  BY <1>1, <1>2, TypeCorrect, PTL DEF Spec

\* So main() dispatches open only in Net Down and close only above it, and the
\* operations of Sync that exit the daemon are never reached.
THEOREM OpenCloseCorrect == Spec => []OpenCloseMatched
<1>1. TypeOK /\ StackSound => OpenCloseMatched
  <2> SUFFICES ASSUME TypeOK, StackSound, usr.open # eki.open
               PROVE  usr.open <=> Top = "netdown"
    BY DEF OpenCloseMatched
  <2>1. usr.open \in BOOLEAN /\ eki.open \in BOOLEAN
    BY DEF TypeOK, PortOK, LinkOK, Attr, Eki
  <2>2. eki.open <=> Len(stk) > 1
    BY DEF StackSound
  <2>3. Len(stk) > 1 <=> Top # "netdown"
    <3>1. Len(stk) = 1 => Top = "netdown"
      BY Shapes
    <3>2. Len(stk) = 2 => Top # "netdown"
      BY Shapes DEF Connected
    <3>3. Len(stk) = 3 => Top # "netdown"
      BY Shapes
    <3>4. Len(stk) = 1 \/ Len(stk) = 2 \/ Len(stk) = 3
      BY Shapes
    <3> QED
      BY <3>1, <3>2, <3>3, <3>4
  <2> QED
    BY <2>1, <2>2, <2>3
<1> QED
  BY <1>1, TypeCorrect, StackCorrect, PTL

(***************************************************************************)
(* PART 2.  The way from the tty to the device: what the daemon believes   *)
(* of rx, what an unanswered WRITE carries, and what the device accepts, in *)
(* order, with nothing skipped, and as the pipe of module TtyPipe.         *)
(***************************************************************************)

(***************************************************************************)
(* Sequences.                                                              *)
(***************************************************************************)

\* The front of a sequence does not change when something is appended to it.
LEMMA FrontOfConcat ==
    ASSUME NEW S, NEW u \in Seq(S), NEW s \in Seq(S), NEW m \in 0 .. Len(u)
    PROVE  SubSeq(u \o s, 1, m) = SubSeq(u, 1, m)
<1>1. CASE m = 0
  BY <1>1, SubSeqEmpty
<1>2. CASE m > 0
  BY <1>2, SubSeqOfConcat1
<1> QED
  BY <1>1, <1>2

\* The places of a queue after its head has been taken.
LEMMA InTail ==
    ASSUME NEW S, NEW q \in Seq(S), q # <<>>
    PROVE  /\ 1 \in DOMAIN q /\ q[1] = Head(q)
           /\ \A i \in DOMAIN Tail(q) : i + 1 \in DOMAIN q /\ Tail(q)[i] = q[i + 1]
           /\ \A i \in DOMAIN q \ {1} : i - 1 \in DOMAIN Tail(q) /\ Tail(q)[i - 1] = q[i]
<1>1. Len(q) \in Nat \ {0} /\ DOMAIN q = 1 .. Len(q)
  BY EmptySeq, LenProperties
<1>2. /\ Tail(q) \in Seq(S) /\ Len(Tail(q)) = Len(q) - 1
      /\ \A i \in 1 .. Len(Tail(q)) : Tail(q)[i] = q[i + 1]
  BY HeadTailProperties
<1>3. DOMAIN Tail(q) = 1 .. Len(q) - 1
  BY <1>1, <1>2, LenProperties
<1>4. Head(q) = q[1]
  BY <1>1
<1>5. \A i \in DOMAIN q \ {1} : i - 1 \in 1 .. Len(q) - 1 /\ (i - 1) + 1 = i
  BY <1>1
<1> QED
  BY <1>1, <1>2, <1>3, <1>4, <1>5

\* The places of a queue r that is q with s put behind it.
LEMMA InConcat ==
    ASSUME NEW S, NEW q \in Seq(S), NEW s \in Seq(S), NEW r, r = q \o s
    PROVE  /\ \A i \in DOMAIN q : i \in DOMAIN r /\ r[i] = q[i]
           /\ \A i \in DOMAIN r :
                  \/ i \in DOMAIN q /\ r[i] = q[i]
                  \/ i \in Int /\ i - Len(q) \in DOMAIN s /\ r[i] = s[i - Len(q)]
<1>1. /\ Len(q) \in Nat /\ DOMAIN q = 1 .. Len(q)
      /\ Len(s) \in Nat /\ DOMAIN s = 1 .. Len(s)
  BY LenProperties
<1>2. /\ r \in Seq(S) /\ Len(r) = Len(q) + Len(s)
      /\ \A i \in 1 .. Len(q) + Len(s) :
             r[i] = IF i <= Len(q) THEN q[i] ELSE s[i - Len(q)]
  BY ConcatProperties
<1>3. DOMAIN r = 1 .. Len(q) + Len(s)
  BY <1>2, LenProperties
<1>4. ASSUME NEW i \in DOMAIN q
      PROVE  i \in DOMAIN r /\ r[i] = q[i]
  BY <1>1, <1>2, <1>3
<1>5. ASSUME NEW i \in DOMAIN r
      PROVE  \/ i \in DOMAIN q /\ r[i] = q[i]
             \/ i \in Int /\ i - Len(q) \in DOMAIN s /\ r[i] = s[i - Len(q)]
  BY <1>1, <1>2, <1>3
<1> QED
  BY <1>4, <1>5

(***************************************************************************)
(* What the steps do to rx.                                                *)
(***************************************************************************)

\* A ring is marked CLEAN only within vc_common_close, so that a move of the head
\* elsewhere is a move; and the daemon's copy of rx has its head, and no more bytes.
CopyInv ==
    /\ ~rx.clean
    /\ drx.head = rx.head
    /\ get_rb_length(drx) <= get_rb_length(rx)

\* rx keeps its bytes, and perhaps gets more behind them.
Grown ==
    /\ rx'.head = rx.head /\ rx'.clean = rx.clean
    /\ \E s \in Seq(Byte) : Unread(rx', rxd') = Unread(rx, rxd) \o s

\* What the application has written and the device may still be sent.
Stream == Unread(rx, rxd) \o circ

\* The cursors, the length and the bytes of a ring.
LEMMA RingFacts ==
    ASSUME NEW r \in Ring, NEW d \in [Pos -> Byte]
    PROVE  /\ r.head \in Pos /\ r.tail \in Pos
           /\ get_rb_length(r) \in Nat /\ get_rb_length(r) < Size
           /\ Unread(r, d) \in Seq(Byte) /\ Len(Unread(r, d)) = get_rb_length(r)
<1>1. r.head \in Pos /\ r.tail \in Pos
  BY DEF Ring
<1>2. get_rb_length(r) \in Pos
  BY <1>1, LengthType
<1> QED
  BY <1>1, <1>2, UnreadType, SizeAssumption DEF Pos

\* What is handed to rx, from whichever buffer c, is appended to its bytes, and
\* what there is no room for stays behind.
LEMMA XmitAppends ==
    ASSUME RingsOK, NEW r \in Ring, NEW c \in Seq(Byte),
           r.head = rx.head, r.tail = rx.tail, r.clean = rx.clean,
           adv_uart_xmit(r, c)
    PROVE  Grown /\ Stream' = Unread(rx, rxd) \o c
<1> DEFINE n == least(Len(c), get_rb_room(r))
           s == SubSeq(c, 1, n)
           u == Unread(rx, rxd)
<1>1. r.head \in Pos /\ r.tail \in Pos /\ rxd \in [Pos -> Byte] /\ rx \in Ring
  BY DEF Ring, RingsOK
<1>2. n \in 0 .. Len(c) /\ n <= get_rb_room(r) /\ Len(c) \in Nat
  BY <1>1, RoomType, SizeAssumption DEF least, Pos
<1>3. rx' = move_rb_tail(r, n) /\ rxd' = Poke(r, rxd, s)
      /\ circ' = SubSeq(c, n + 1, Len(c))
  BY DEF adv_uart_xmit
<1> HIDE DEF n
<1>4. \A i \in 1 .. Len(c) : c[i] \in Byte
  BY <1>2, ElementOfSeq
<1>5. s \in Seq(Byte) /\ Len(s) = n /\ circ' \in Seq(Byte)
  BY <1>2, <1>3, <1>4, SubSeqProperties
<1>6. s \o circ' = c
  <2>1. 1 \in 1 .. Len(c) + 1 /\ n \in 1 - 1 .. Len(c) /\ Len(c) \in n .. Len(c)
    BY <1>2
  <2>2. SubSeq(c, 1, n) \o SubSeq(c, n + 1, Len(c)) = SubSeq(c, 1, Len(c))
    BY <2>1, ConcatAdjacentSubSeq
  <2> QED
    BY <1>3, <2>2, SubSeqFull
<1> HIDE DEF s, u
<1>7. Unread(rx', rxd') = u \o s
  <2>1. Unread(rx', rxd') = Unread(r, rxd) \o s
    BY <1>1, <1>2, <1>3, <1>5, UnreadPut
  <2>2. Unread(r, rxd) = u
    BY DEF Unread, Peek, get_rb_length, u
  <2> QED
    BY <2>1, <2>2
<1>8. rx'.head = rx.head /\ rx'.clean = rx.clean
  BY <1>3 DEF move_rb_tail, Ring
<1>9. u \in Seq(Byte)
  BY <1>1, RingFacts DEF u
<1>10. (u \o s) \o circ' = u \o c
  <2>1. (u \o s) \o circ' = u \o (s \o circ')
    BY <1>5, <1>9, ConcatAssociative
  <2> QED
    BY <1>6, <2>1
<1> QED
  BY <1>5, <1>7, <1>8, <1>10 DEF Grown, Stream, u

\* A ring that has grown is no shorter, and its first bytes are the same.
LEMMA GrownKeeps ==
    ASSUME RingsOK, RingsOK', Grown
    PROVE  /\ get_rb_length(rx) <= get_rb_length(rx')
           /\ \A m \in 0 .. get_rb_length(rx) : Peek(rx', rxd', m) = Peek(rx, rxd, m)
<1> DEFINE u == Unread(rx, rxd)
           v == Unread(rx', rxd')
<1>1. PICK s \in Seq(Byte) : v = u \o s
  BY DEF Grown
<1>2. /\ rx.head \in Pos /\ rx.tail \in Pos /\ rxd \in [Pos -> Byte]
      /\ get_rb_length(rx) \in Nat /\ u \in Seq(Byte) /\ Len(u) = get_rb_length(rx)
  BY RingFacts DEF RingsOK
<1>3. /\ rx'.head \in Pos /\ rx'.tail \in Pos /\ rxd' \in [Pos -> Byte]
      /\ v \in Seq(Byte) /\ Len(v) = get_rb_length(rx')
  <2>1. rx' \in Ring /\ rxd' \in [Pos -> Byte]
    BY DEF RingsOK
  <2> QED
    BY <2>1, RingFacts
<1> HIDE DEF u, v
<1>4. Len(v) = Len(u) + Len(s) /\ Len(s) \in Nat
  <2>1. Len(u \o s) = Len(u) + Len(s)
    BY <1>2, ConcatProperties
  <2> QED
    BY <1>1, <2>1
<1>5. ASSUME NEW m \in 0 .. get_rb_length(rx)
      PROVE  Peek(rx', rxd', m) = Peek(rx, rxd, m)
  <2>1. m \in Nat /\ m <= get_rb_length(rx) /\ m <= get_rb_length(rx')
    BY <1>2, <1>3, <1>4
  <2>2. Peek(rx, rxd, m) = SubSeq(u, 1, m)
    BY <1>2, <2>1, PeekIsFront DEF u
  <2>3. Peek(rx', rxd', m) = SubSeq(v, 1, m)
    BY <1>3, <2>1, PeekIsFront DEF v
  <2>4. SubSeq(v, 1, m) = SubSeq(u, 1, m)
    BY <1>1, <1>2, FrontOfConcat
  <2> QED
    BY <2>2, <2>3, <2>4
<1> QED
  BY <1>2, <1>3, <1>4, <1>5

\* An unchanged ring has grown by nothing.
LEMMA RxUnchanged ==
    ASSUME RingsOK, UNCHANGED rxd, rx'.head = rx.head, rx'.tail = rx.tail,
           rx'.clean = rx.clean
    PROVE  Grown /\ Unread(rx', rxd') = Unread(rx, rxd)
<1>1. Unread(rx', rxd') = Unread(rx, rxd)
  BY DEF Unread, Peek, get_rb_length
<1>2. Unread(rx, rxd) \in Seq(Byte)
  BY RingFacts DEF RingsOK
<1>3. Unread(rx, rxd) = Unread(rx, rxd) \o <<>> /\ <<>> \in Seq(Byte)
  BY <1>2, ConcatEmptySeq
<1> QED
  BY <1>1, <1>3 DEF Grown

\* What the tty does to the stream: it appends the next byte, or moves bytes on into
\* rx, or, opening the port, empties the serial core's buffer.
LEMMA TtyStream ==
    ASSUME TypeOK, Tty
    PROVE  /\ Grown
           /\ \/ Stream' = Stream /\ written' = written
              \/ /\ adv_uart_start_tx
                 /\ written' = written + 1 /\ Stream' = Stream \o <<written + 1>>
              \/ /\ adv_uart_startup
                 /\ written' = written /\ Stream' = Unread(rx, rxd)
<1> USE DEF ringVars, ttyVars
<1>1. RingsOK /\ rx \in Ring /\ circ \in Seq(Byte) /\ written + 1 \in Byte
  BY DEF TypeOK, RingsOK, PortOK, Byte
<1>2. Unread(rx, rxd) \in Seq(Byte)
  BY <1>1, RingFacts DEF RingsOK
<1>3. ASSUME UNCHANGED <<rx, rxd, circ, written>>
      PROVE  Grown /\ Stream' = Stream /\ written' = written
  BY <1>1, <1>3, RxUnchanged DEF Stream
<1>4. CASE adv_uart_startup
  <2>1. rx'.head = rx.head /\ rx'.tail = rx.tail /\ rx'.clean = rx.clean
    BY <1>1, <1>4 DEF adv_uart_startup, Ring
  <2>2. Grown /\ Unread(rx', rxd') = Unread(rx, rxd)
    BY <1>1, <1>4, <2>1, RxUnchanged DEF adv_uart_startup
  <2>3. Stream' = Unread(rx, rxd)
    BY <1>2, <1>4, <2>2, ConcatEmptySeq DEF adv_uart_startup, Stream
  <2> QED
    BY <1>4, <2>2, <2>3 DEF adv_uart_startup
<1>5. CASE adv_uart_start_tx
  <2> DEFINE c == Append(circ, written + 1)
  <2>1. c \in Seq(Byte) /\ c = circ \o <<written + 1>>
    BY <1>1, AppendProperties, AppendIsConcat
  <2>2. Stream \o <<written + 1>> = Unread(rx, rxd) \o c
    <3>1. <<written + 1>> \in Seq(Byte)
      BY <1>1
    <3> QED
      BY <1>1, <1>2, <2>1, <3>1, ConcatAssociative DEF Stream
  <2>3. Grown /\ Stream' = Unread(rx, rxd) \o c
    <3>1. CASE rx.on
      BY <1>1, <1>5, <2>1, <3>1, XmitAppends DEF adv_uart_start_tx
    <3>2. CASE ~rx.on
      BY <1>1, <1>5, <3>2, RxUnchanged DEF adv_uart_start_tx, Stream
    <3> QED
      BY <3>1, <3>2
  <2> QED
    BY <1>5, <2>2, <2>3 DEF adv_uart_start_tx
<1>6. CASE adv_uart_stop_tx
  <2>1. rx'.head = rx.head /\ rx'.tail = rx.tail /\ rx'.clean = rx.clean
    BY <1>1, <1>6 DEF adv_uart_stop_tx, Ring
  <2> QED
    BY <1>1, <1>6, <2>1, RxUnchanged DEF adv_uart_stop_tx, Stream
<1>7. CASE adv_uart_restart_tx
  <2> DEFINE r == [rx EXCEPT !.on = TRUE]
  <2>1. r \in Ring /\ r.head = rx.head /\ r.tail = rx.tail /\ r.clean = rx.clean
    BY <1>1 DEF Ring
  <2> QED
    BY <1>1, <1>7, <2>1, XmitAppends DEF adv_uart_restart_tx, Stream
<1>8. CASE \/ adv_uart_stop_rx \/ adv_uart_shutdown \/ adv_uart_throttle
           \/ adv_uart_unthrottle \/ adv_uart_set_termios \/ adv_uart_set_mctrl
  BY <1>3, <1>8 DEF adv_uart_stop_rx, adv_uart_shutdown, adv_uart_throttle,
     adv_uart_unthrottle, adv_uart_set_termios, adv_uart_set_mctrl
<1> QED
  BY <1>4, <1>5, <1>6, <1>7, <1>8 DEF Tty, TtyStep

\* The answer that drops its bytes from rx.
Dropped ==
    /\ RecvWritten /\ Head(toHost).val = xmit_pending /\ Head(toHost).st = "ok"
    /\ toHost' = Tail(toHost) /\ xmit_pending' = 0 /\ toDev' = toDev
    /\ DropWritten

\* The daemon moves bytes on into rx, and takes them from it only at an answer to a
\* WRITE and when it closes the port.
LEMMA DaemonStream ==
    ASSUME TypeOK, DaemonStep
    PROVE  \/ Grown /\ Stream' = Stream
           \/ vc_common_close
           \/ Dropped
<1> USE DEF driverVars, ringVars, ttyVars
<1>1. RingsOK /\ rx \in Ring /\ circ \in Seq(Byte)
  BY DEF TypeOK, RingsOK
<1>2. ASSUME UNCHANGED <<rx, rxd, circ>>
      PROVE  Grown /\ Stream' = Stream
  BY <1>1, <1>2, RxUnchanged DEF Stream
<1>3. CASE adv_main_interrupt
  BY <1>1, <1>2, <1>3, XmitAppends DEF adv_main_interrupt, adv_uart_update_xmit, Stream
<1>4. CASE RecvWritten
  BY <1>2, <1>4, Zenon DEF RecvWritten, Taken, Dropped
<1>5. CASE \/ vc_netdown_open \/ vc_netdown_open_fails \/ NothingToOpen
           \/ vc_common_ioctl \/ NothingToSet \/ vc_common_xmit \/ NothingToXmit
           \/ vc_netup_pause \/ NothingToPause \/ event \/ select
           \/ vc_netup_poll \/ vc_idle_poll \/ NothingToPoll
  BY <1>2, <1>5 DEF vc_netdown_open, vc_netdown_open_fails, NothingToOpen,
     vc_common_ioctl, NothingToSet, vc_common_xmit, NothingToXmit, vc_netup_pause,
     NothingToPause, event, select, vc_netup_poll, vc_idle_poll, NothingToPoll
<1>6. CASE \/ AttrEvent \/ NoPacket \/ RecvExcp \/ vc_idle_recv \/ RecvOther
           \/ vc_sync_recv \/ RecvData \/ RxEvent \/ vc_pause_resume \/ NothingToResume
  BY <1>2, <1>6 DEF AttrEvent, NoPacket, RecvExcp, vc_idle_recv, RecvOther, vc_sync_recv,
     RecvData, RxEvent, vc_pause_resume, NothingToResume
<1> QED
  BY <1>3, <1>4, <1>5, <1>6 DEF DaemonStep

(***************************************************************************)
(* The daemon's copy of rx.                                                *)
(***************************************************************************)

\* The copy of rx is refreshed as a whole or not at all.
LEMMA CopySteps ==
    ASSUME DaemonStep \/ main
    PROVE  drx' = drx \/ (drx'.head = rx'.head /\ drx'.tail = rx'.tail)
<1> USE DEF copyVars, ringVars, driverVars
<1>1. ASSUME NEW r, drx' = Cursors(r), r = rx'
      PROVE  drx'.head = rx'.head /\ drx'.tail = rx'.tail
  BY <1>1 DEF Cursors
<1>2. vc_netup_init => drx'.head = rx'.head /\ drx'.tail = rx'.tail
  BY <1>1 DEF vc_netup_init
<1>3. CASE \/ vc_netdown_open_fails \/ NothingToOpen
           \/ vc_common_ioctl \/ NothingToSet \/ vc_common_xmit \/ NothingToXmit
           \/ NothingToPause \/ event \/ select \/ adv_main_interrupt
           \/ vc_netup_poll \/ vc_idle_poll \/ NothingToPoll
  BY <1>3 DEF vc_netdown_open_fails, NothingToOpen, adv_main_interrupt,
     vc_common_ioctl, NothingToSet, vc_common_xmit, NothingToXmit,
     NothingToPause, event, select, vc_netup_poll, vc_idle_poll, NothingToPoll
<1>4. CASE \/ AttrEvent \/ NoPacket \/ RecvExcp \/ RecvOther \/ RecvData \/ NothingToResume
  BY <1>4 DEF AttrEvent, NoPacket, RecvExcp, RecvOther, RecvData, NothingToResume
<1>5. CASE vc_netdown_open \/ vc_netup_pause \/ vc_idle_recv \/ vc_sync_recv \/ vc_pause_resume
  BY <1>2, <1>5 DEF vc_netdown_open, vc_netup_pause, vc_idle_recv, vc_sync_recv, vc_pause_resume
<1>6. CASE vc_common_close \/ RecvWritten \/ RxEvent \/ main
  BY <1>1, <1>6 DEF vc_common_close, RecvWritten, DropWritten, RxEvent, main
<1> QED
  BY <1>3, <1>4, <1>5, <1>6 DEF DaemonStep

\* A close leaves rx empty, with the mark taken away again.
LEMMA CloseEmpties ==
    ASSUME RingsOK, vc_common_close
    PROVE  /\ rx'.head = rx'.tail /\ ~rx'.clean /\ get_rb_length(rx') = 0
           /\ Unread(rx', rxd') = <<>>
<1>1. rx' = [[rx EXCEPT !.clean = TRUE] EXCEPT !.head = rx.tail, !.clean = FALSE]
  BY DEF vc_common_close, adv_main_clear, move_rb_head, RingsOK, Ring
<1>2. rx \in Ring /\ rx.tail \in Pos
  BY DEF RingsOK, Ring
<1>3. rx'.head = rx'.tail /\ ~rx'.clean /\ rx'.tail \in Pos
  BY <1>1, <1>2 DEF Ring
<1>4. get_rb_length(rx') = 0
  BY <1>3, SizeAssumption DEF get_rb_length, Pos
<1>5. Unread(rx', rxd') = <<>>
  BY <1>4 DEF Unread, Peek
<1> QED
  BY <1>3, <1>4, <1>5

\* CopyInv is inductive.
LEMMA CopyStep ==
    ASSUME TypeOK, TypeOK', CopyInv, [Next]_vars
    PROVE  CopyInv'
<1>1. RingsOK /\ RingsOK' /\ rx \in Ring
  BY DEF TypeOK, RingsOK
<1>2. ASSUME Grown PROVE ~rx'.clean /\ rx'.head = rx.head
  BY <1>2 DEF Grown, CopyInv
<1>3. ASSUME ~rx'.clean, drx'.head = rx'.head, drx'.tail = rx'.tail PROVE CopyInv'
  <2>1. get_rb_length(drx') = get_rb_length(rx')
    BY <1>3 DEF get_rb_length
  <2>2. get_rb_length(rx') \in Nat
    BY <1>1, RingFacts DEF RingsOK
  <2> QED
    BY <1>3, <2>1, <2>2 DEF CopyInv
<1>4. ASSUME Grown, drx' = drx PROVE CopyInv'
  <2>1. get_rb_length(rx) <= get_rb_length(rx')
    BY <1>1, <1>4, GrownKeeps
  <2>2. drx.head \in Pos /\ drx.tail \in Pos
    BY DEF TypeOK, LoopOK, RingCopy
  <2>3. get_rb_length(drx) \in Nat /\ get_rb_length(rx) \in Nat /\ get_rb_length(rx') \in Nat
    BY <1>1, <2>2, LengthType, RingFacts, SizeAssumption DEF RingsOK, Pos
  <2>4. get_rb_length(drx) <= get_rb_length(rx')
    BY <2>1, <2>3 DEF CopyInv
  <2> QED
    BY <1>2, <1>4, <2>4 DEF CopyInv
<1>5. CASE Tty
  <2>1. drx' = drx
    BY <1>5 DEF Tty, daemonVars, copyVars
  <2> QED
    BY <1>4, <1>5, <2>1, TtyStream
<1>6. CASE DeviceAnswers \/ DeviceActs \/ UNCHANGED vars
  BY <1>6 DEF DeviceAnswers, DeviceActs, driverVars, ringVars, daemonVars, copyVars,
     vars, CopyInv
<1>7. CASE main
  <2>1. rx' = rx /\ ~rx'.clean
    BY <1>7 DEF main, ringVars, CopyInv
  <2>2. drx'.head = rx'.head /\ drx'.tail = rx'.tail
    BY <1>7, <2>1 DEF main, Cursors
  <2> QED
    BY <1>3, <2>1, <2>2
<1>8. CASE DaemonStep
  <2>1. CASE Grown
    BY <1>2, <1>3, <1>4, <1>8, <2>1, CopySteps
  <2>2. CASE vc_common_close
    <3>1. drx'.head = rx'.head /\ drx'.tail = rx'.tail
      BY <2>2 DEF vc_common_close, Cursors
    <3> QED
      BY <1>1, <1>3, <2>2, <3>1, CloseEmpties
  <2>3. CASE Dropped
    <3>1. drx'.head = rx'.head /\ drx'.tail = rx'.tail
      BY <2>3 DEF Dropped, DropWritten, Cursors
    <3>2. ~rx'.clean
      BY <1>1, <2>3 DEF Dropped, DropWritten, move_rb_head, CopyInv, Ring
    <3> QED
      BY <1>3, <3>1, <3>2
  <2> QED
    BY <1>8, <2>1, <2>2, <2>3, DaemonStream
<1> QED
  BY <1>5, <1>6, <1>7, <1>8 DEF Next

\* CopyInv holds throughout.
THEOREM CopyInvariant == Spec => []CopyInv
<1>1. Init => CopyInv
  <2> SUFFICES ASSUME Init PROVE CopyInv
    OBVIOUS
  <2>1. rx = [head |-> 0, tail |-> 0, on |-> FALSE, clean |-> FALSE] /\ drx = Cursors(rx)
    BY DEF Init, adv_main_init, DaemonInit
  <2>2. /\ ~rx.clean /\ drx.head = rx.head /\ get_rb_length(drx) = 0
        /\ get_rb_length(rx) = 0
    BY <2>1, SizeAssumption DEF Cursors, get_rb_length
  <2> QED
    BY <2>2 DEF CopyInv
<1>2. TypeOK /\ TypeOK' /\ CopyInv /\ [Next]_vars => CopyInv'
  BY CopyStep
<1> QED
  BY <1>1, <1>2, TypeCorrect, PTL DEF Spec

\* The bytes the daemon believes to be in rx are there, at the place it believes them
\* to be: whatever the tty has appended since, vc_common_xmit sends the oldest bytes.
THEOREM CopyCorrect == Spec => []CopySound
<1>1. TypeOK /\ CopyInv => CopySound
  <2> SUFFICES ASSUME TypeOK, CopyInv PROVE CopySound
    OBVIOUS
  <2>1. rx \in Ring /\ rxd \in [Pos -> Byte] /\ drx.head \in Pos /\ drx.tail \in Pos
    BY DEF TypeOK, RingsOK, LoopOK, RingCopy
  <2>2. get_rb_length(drx) \in Nat
    BY <2>1, LengthType, SizeAssumption DEF Pos
  <2>3. Unread(drx, rxd) = Peek(rx, rxd, get_rb_length(drx))
    BY DEF Unread, Peek, CopyInv
  <2>4. rx.head \in Pos /\ rx.tail \in Pos
    BY <2>1, RingFacts
  <2>5. Peek(rx, rxd, get_rb_length(drx)) = SubSeq(Unread(rx, rxd), 1, get_rb_length(drx))
    BY <2>1, <2>2, <2>4, PeekIsFront DEF CopyInv
  <2> QED
    BY <2>3, <2>5 DEF CopyInv, CopySound
<1> QED
  BY <1>1, TypeCorrect, CopyInvariant, PTL

(***************************************************************************)
(* The WRITE under way.                                                    *)
(***************************************************************************)

\* There is at most one WRITE or answer under way.  The WRITE carries the first
\* bytes of rx, as many as the daemon remembers, and other packets carry none.
OneWrite ==
    /\ xmit_pending <= get_rb_length(rx)
    /\ \A i \in DOMAIN toDev : toDev[i].op # "write" => toDev[i].data = <<>>
    /\ \A i \in WritesSent :
           xmit_pending > 0 /\ toDev[i].data = Peek(rx, rxd, xmit_pending)
    /\ \A i \in WriteAnswers : xmit_pending > 0 /\ toHost[i].val = xmit_pending
    /\ \A i, j \in WritesSent : i = j
    /\ \A i, j \in WriteAnswers : i = j
    /\ WritesSent = {} \/ WriteAnswers = {}

\* The daemon sends packets other than WRITE, or none.
SendsOther ==
    \E s \in Seq(ToDev) :
        /\ toDev' = toDev \o s
        /\ \A i \in DOMAIN s : s[i].op # "write" /\ s[i].data = <<>>

\* The daemon takes a packet out of its socket, or none.  In Idle this may be any, but
\* otherwise no answer to a WRITE, and nowhere the end of the connection.
TakesOther ==
    \/ toHost' = toHost
    \/ /\ toHost # <<>> /\ toHost' = Tail(toHost)
       /\ Head(toHost).op # "eof"
       /\ Head(toHost).op = "write" => Top = "idle"

\* The daemon sends a WRITE, or takes the answer to one.
SendsWrite ==
    /\ vc_common_xmit
    /\ LET n == least(get_rb_length(drx), XmitLen)
       IN  /\ xmit_pending' = n
           /\ toDev' = Append(toDev, [op |-> "write", val |-> n,
                                      data |-> Peek(drx, rxd, n)])
    /\ UNCHANGED <<stk, sk, eki, toHost, dev, left>>
TakesWritten ==
    /\ RecvWritten /\ toHost # <<>> /\ Head(toHost).op = "write"
    /\ Head(toHost).val = xmit_pending
    /\ toHost' = Tail(toHost) /\ xmit_pending' = 0
    /\ UNCHANGED <<stk, sk, eki, toDev, dev>>

\* What a step of the daemon does to the packets under way.
LEMMA DaemonLink ==
    ASSUME TypeOK, StackSound, DaemonStep
    PROVE  \/ stk_excp
           \/ SendsOther /\ TakesOther /\ xmit_pending' = xmit_pending
           \/ SendsWrite
           \/ TakesWritten
<1> USE DEF deviceVars, linkVars, stateVars
<1>1. PortOK /\ LinkOK /\ toDev \in Seq(ToDev)
  BY DEF TypeOK, LinkOK
<1>2. ASSUME NEW s \in Seq(ToDev), toDev' = toDev \o s,
             \A i \in DOMAIN s : s[i].op # "write" /\ s[i].data = <<>>
      PROVE  SendsOther
  BY <1>2 DEF SendsOther
<1>3. toDev' = toDev => SendsOther
  <2>1. <<>> \in Seq(ToDev) /\ toDev = toDev \o <<>>
    BY <1>1, ConcatEmptySeq
  <2>2. \A i \in DOMAIN <<>> : <<>>[i].op # "write" /\ <<>>[i].data = <<>>
    OBVIOUS
  <2> QED
    BY <2>1, <2>2 DEF SendsOther
<1>4. ASSUME \/ toDev' = Append(toDev, Packet("queuefree", 0))
             \/ toDev' = Append(toDev, Packet("queuefree", 1))
             \/ toDev' = Append(toDev, Packet("getwmask", 0))
      PROVE  SendsOther
  <2>1. PICK op \in {"getwmask", "queuefree"}, v \in {0, 1} :
            toDev' = Append(toDev, Packet(op, v))
    BY <1>4
  <2>2. Packet(op, v) \in ToDev /\ <<Packet(op, v)>> \in Seq(ToDev)
    BY PacketType
  <2>3. toDev' = toDev \o <<Packet(op, v)>>
    BY <1>1, <2>1, <2>2, AppendIsConcat
  <2>4. \A i \in DOMAIN <<Packet(op, v)>> :
            <<Packet(op, v)>>[i].op # "write" /\ <<Packet(op, v)>>[i].data = <<>>
    BY DEF Packet
  <2> QED
    BY <1>2, <2>2, <2>3, <2>4
<1>5. SendFails => stk_excp
  BY DEF SendFails
<1>6. CASE \/ NothingToOpen \/ NothingToSet \/ NothingToXmit \/ NothingToPause
           \/ event \/ adv_main_interrupt \/ select \/ NothingToPoll \/ AttrEvent
           \/ RxEvent \/ NothingToResume \/ NoPacket
  BY <1>3, <1>5, <1>6 DEF NothingToOpen, NothingToSet, NothingToXmit, NothingToPause, event,
     adv_main_interrupt, select, NothingToPoll, AttrEvent, RxEvent, NothingToResume,
     NoPacket, TakesOther
<1>7. CASE vc_netdown_open_fails \/ vc_common_close \/ vc_idle_poll \/ RecvExcp
  BY <1>5, <1>7 DEF vc_netdown_open_fails, vc_common_close, vc_idle_poll, RecvExcp
<1>8. CASE vc_common_ioctl
  <2>1. Settings \in Seq(ToDev)
    BY <1>1, SentType
  <2>2. \A i \in DOMAIN Settings : Settings[i].op # "write" /\ Settings[i].data = <<>>
    BY DEF Settings, Packet
  <2> QED
    BY <1>2, <1>5, <1>8, <2>1, <2>2 DEF vc_common_ioctl, TakesOther
<1>9. CASE vc_common_xmit
  <2>1. SendFails \/ LET n == least(get_rb_length(drx), XmitLen)
                     IN  /\ toDev' = Append(toDev, [op |-> "write", val |-> n,
                                                     data |-> Peek(drx, rxd, n)])
                         /\ xmit_pending' = n
                         /\ UNCHANGED <<stk, sk, eki, toHost, dev, left>>
    BY <1>9 DEF vc_common_xmit
  <2> QED
    BY <1>5, <1>9, <2>1 DEF SendsWrite
<1>10. CASE vc_netup_pause \/ vc_pause_resume
  <2>1. CASE vc_netup_pause
    <3>1. SendFails \/ /\ toDev' = Append(toDev, Packet("queuefree", 0))
                       /\ UNCHANGED <<xmit_pending, toHost>>
      BY <2>1 DEF vc_netup_pause
    <3> QED
      BY <1>4, <1>5, <3>1 DEF TakesOther
  <2>2. CASE vc_pause_resume
    <3>1. \/ SendFails
          \/ toDev' = Append(toDev, Packet("queuefree", 1)) /\ UNCHANGED <<xmit_pending, toHost>>
          \/ UNCHANGED <<toDev, xmit_pending, toHost>>
      BY <2>2 DEF vc_pause_resume
    <3> QED
      BY <1>3, <1>4, <1>5, <3>1 DEF TakesOther
  <2> QED
    BY <1>10, <2>1, <2>2
<1>11. CASE vc_netup_poll
  BY <1>4, <1>5, <1>11 DEF vc_netup_poll, TakesOther
<1>12. CASE vc_idle_recv \/ RecvOther \/ RecvData
  BY <1>3, <1>12 DEF vc_idle_recv, RecvOther, RecvData, Good, Receiving, TakesOther
<1>13. CASE vc_sync_recv
  <2>1. NextRequest \in Seq(ToDev)
    BY <1>1, SentType
  <2>2. \A i \in DOMAIN NextRequest :
            NextRequest[i].op # "write" /\ NextRequest[i].data = <<>>
    BY DEF NextRequest, Packet
  <2> QED
    BY <1>2, <1>5, <1>13, <2>1, <2>2 DEF vc_sync_recv, Good, Receiving, TakesOther
<1>14. CASE RecvWritten
  <2>1. stk_excp \/ /\ Head(toHost).val = xmit_pending
                    /\ toHost' = Tail(toHost) /\ xmit_pending' = 0
                    /\ UNCHANGED <<stk, sk, eki, toDev, dev>>
    BY <1>14 DEF RecvWritten
  <2>2. toHost # <<>> /\ Head(toHost).op = "write"
    BY <1>14 DEF RecvWritten, Receiving
  <2> QED
    BY <1>14, <2>1, <2>2 DEF TakesWritten
<1>15. CASE vc_netdown_open
  <2>1. vc_common_open \in Seq(ToDev)
    BY <1>1, SentType
  <2>2. \A i \in DOMAIN vc_common_open :
            vc_common_open[i].op # "write" /\ vc_common_open[i].data = <<>>
    BY DEF vc_common_open, vc_sync_init, sync_queue, Packet
  <2>3. toDev = <<>>
    BY <1>15, Shapes DEF vc_netdown_open, StackSound, Connected
  <2>4. toDev' = toDev \o vc_common_open
    BY <1>15, <2>1, <2>3, ConcatEmptySeq DEF vc_netdown_open
  <2> QED
    BY <1>2, <1>15, <2>1, <2>2, <2>4 DEF vc_netdown_open, TakesOther
<1> QED
  BY <1>6, <1>7, <1>8, <1>9, <1>10, <1>11, <1>12, <1>13, <1>14, <1>15 DEF DaemonStep

\* s answers packet p.  A WRITE is answered in any case; its bytes are accepted if
\* the answer says so.
IsAnswer(s, p) ==
    /\ \A i \in DOMAIN s : s[i].op = "write" <=> p.op = "write"
    /\ \A i \in DOMAIN s : s[i].op \notin {"eof", "data"}
    /\ \/ accepted' = accepted \o p.data /\ \A i \in DOMAIN s : s[i].st = "ok"
       \/ accepted' = accepted /\ \A i \in DOMAIN s : s[i].st # "ok"
    /\ p.op = "write" => Len(s) = 1 /\ s[1].val = Len(p.data)

\* The device answers the first packet it was sent.
AnswersFirst ==
    /\ toDev # <<>> /\ dev.alive /\ toDev' = Tail(toDev)
    /\ \E s \in Seq(ToHost) : toHost' = toHost \o s /\ IsAnswer(s, Head(toDev))

\* The device puts a packet of its own accord behind its answers, or none.
SendsUnasked ==
    /\ UNCHANGED <<toDev, accepted>>
    /\ \E s \in Seq(ToHost) :
           toHost' = toHost \o s /\ \A i \in DOMAIN s : s[i].op # "write"

\* What a step of the device does to the packets under way.
LEMMA DeviceLink ==
    ASSUME TypeOK
    PROVE  /\ DeviceAnswers => AnswersFirst
           /\ DeviceActs => SendsUnasked
<1> USE DEF linkVars, portVars
<1>1. LinkOK /\ toDev \in Seq(ToDev) /\ toHost \in Seq(ToHost) /\ lineNow \in {0, 1}
  BY DEF TypeOK, LinkOK, PortOK
<1>2. toDev # <<>> => Head(toDev) \in ToDev
  BY <1>1
<1>3. \A a \in ToHost : Append(toHost, a) = toHost \o <<a>>
  BY <1>1, AppendIsConcat
<1>4. ASSUME NEW a \in ToHost, toHost' = Append(toHost, a), a.op # "write",
             UNCHANGED <<toDev, accepted>>
      PROVE  SendsUnasked
  <2>1. <<a>> \in Seq(ToHost) /\ toHost' = toHost \o <<a>>
    BY <1>3, <1>4
  <2>2. \A i \in DOMAIN <<a>> : <<a>>[i].op # "write"
    BY <1>4
  <2> QED
    BY <1>4, <2>1, <2>2 DEF SendsUnasked
<1>5. ASSUME UNCHANGED <<toDev, toHost, accepted>> PROVE SendsUnasked
  <2>1. <<>> \in Seq(ToHost) /\ toHost' = toHost \o <<>>
    BY <1>1, <1>5, ConcatEmptySeq
  <2>2. \A i \in DOMAIN <<>> : <<>>[i].op # "write"
    OBVIOUS
  <2> QED
    BY <1>5, <2>1, <2>2 DEF SendsUnasked
<1>6. ASSUME DeviceServes PROVE AnswersFirst
  <2> DEFINE p == Head(toDev)
             s == Answers(p)
  <2>1. p \in ToDev /\ s \in Seq(ToHost)
    BY <1>1, <1>2, <1>6, AnswersType DEF DeviceServes
  <2>2. p.op \in {"create", "line", "ms", "setwmask", "getmodem", "womask",
                  "getwmask", "queuefree", "write"}
    BY <2>1 DEF ToDev
  <2>3. p.op = "write" => s = <<Answer("write", "ok", Len(p.data))>>
    BY DEF Answers
  <2>4. p.op # "write" =>
            s = <<>> \/ \E op \in {"set", "getmodem", "create", "setwmask", "getwmask"}, v \in {0, lineNow} :
                           s = <<Answer(op, "ok", v)>>
    BY <2>2 DEF Answers
  <2> HIDE DEF s
  <2>5. /\ \A i \in DOMAIN s : s[i].op = "write" <=> p.op = "write"
        /\ \A i \in DOMAIN s : s[i].op \notin {"eof", "data"}
        /\ \A i \in DOMAIN s : s[i].st = "ok"
        /\ p.op = "write" => Len(s) = 1 /\ s[1].val = Len(p.data)
    BY <2>3, <2>4 DEF Answer
  <2>6. /\ toDev # <<>> /\ dev.alive /\ toDev' = Tail(toDev)
        /\ toHost' = toHost \o s /\ accepted' = accepted \o p.data
    BY <1>6 DEF DeviceServes, s
  <2>7. IsAnswer(s, p)
    BY <2>5, <2>6 DEF IsAnswer
  <2> QED
    BY <2>1, <2>6, <2>7 DEF AnswersFirst
<1>7. ASSUME DeviceBusy PROVE AnswersFirst
  <2> DEFINE p == Head(toDev)
             a == Answer("write", "busy", Len(p.data))
  <2>1. /\ toDev # <<>> /\ dev.alive /\ toDev' = Tail(toDev) /\ p.op = "write"
        /\ toHost' = Append(toHost, a) /\ accepted' = accepted
    BY <1>7 DEF DeviceBusy
  <2>2. a \in ToHost
    <3>1. Len(p.data) \in Int
      BY <1>2, <2>1 DEF ToDev
    <3> QED
      BY <3>1, PacketType
  <2>3. a.op = "write" /\ a.st = "busy" /\ a.val = Len(p.data)
    BY DEF Answer
  <2> HIDE DEF a
  <2>4. <<a>> \in Seq(ToHost) /\ toHost' = toHost \o <<a>>
    BY <1>3, <2>1, <2>2
  <2>5. IsAnswer(<<a>>, p)
    BY <2>1, <2>3 DEF IsAnswer
  <2> QED
    BY <2>1, <2>4, <2>5 DEF AnswersFirst
<1>8. ASSUME DeviceRefuses PROVE AnswersFirst
  <2> DEFINE p == Head(toDev)
             b == Answers(p)[1]
             a == [b EXCEPT !.st = "bad"]
  <2>1. /\ toDev # <<>> /\ dev.alive /\ toDev' = Tail(toDev) /\ Answers(p) # <<>>
        /\ toHost' = Append(toHost, a) /\ accepted' = accepted
    BY <1>8 DEF DeviceRefuses
  <2>2. p \in ToDev /\ b \in ToHost
    BY <1>1, <1>2, <2>1, AnswersType
  <2>3. /\ b.op = "write" <=> p.op = "write"
        /\ b.op \notin {"eof", "data"}
        /\ p.op = "write" => b.val = Len(p.data)
    <3>1. p.op \in {"create", "line", "ms", "setwmask", "getmodem", "womask",
                    "getwmask", "queuefree", "write"}
      BY <2>2 DEF ToDev
    <3> QED
      BY <2>1, <3>1 DEF Answers, Answer
  <2>4. a \in ToHost /\ a.st = "bad" /\ a.op = b.op /\ a.val = b.val
    BY <2>2 DEF ToHost
  <2> HIDE DEF a, b
  <2>5. <<a>> \in Seq(ToHost) /\ toHost' = toHost \o <<a>>
    BY <1>3, <2>1, <2>4
  <2>6. IsAnswer(<<a>>, p)
    BY <2>1, <2>3, <2>4 DEF IsAnswer
  <2> QED
    BY <2>1, <2>5, <2>6 DEF AnswersFirst
<1>9. ASSUME DeviceSendsData PROVE SendsUnasked
  <2> DEFINE a == [op |-> "data", st |-> "ok", val |-> 0, data |-> <<produced + 1>>]
  <2>1. <<produced + 1>> \in Seq(Byte)
    BY DEF TypeOK, PortOK, Byte
  <2>2. a \in ToHost /\ a.op # "write"
    BY <2>1 DEF ToHost
  <2>3. toHost' = Append(toHost, a) /\ UNCHANGED <<toDev, accepted>>
    BY <1>9 DEF DeviceSendsData
  <2> HIDE DEF a
  <2> QED
    BY <1>4, <2>2, <2>3
<1>10. ASSUME DeviceLineChanges PROVE SendsUnasked
  <2> DEFINE a == Answer("womask", "ok", 0)
  <2>1. a \in ToHost /\ a.op # "write"
    <3>1. a \in ToHost
      BY PacketType
    <3> QED
      BY <3>1 DEF Answer
  <2>2. /\ UNCHANGED <<toDev, accepted>>
        /\ toHost' = toHost \/ toHost' = Append(toHost, a)
    BY <1>10 DEF DeviceLineChanges
  <2> HIDE DEF a
  <2> QED
    BY <1>4, <1>5, <2>1, <2>2
<1>11. ASSUME ConnectionBreaks(sk) PROVE SendsUnasked
  <2>1. Answer("eof", "bad", 0) \in ToHost /\ Answer("eof", "bad", 0).op # "write"
    <3>1. Answer("eof", "bad", 0) \in ToHost
      BY PacketType
    <3> QED
      BY <3>1 DEF Answer
  <2> QED
    BY <1>4, <1>11, <2>1 DEF ConnectionBreaks
<1> QED
  BY <1>6, <1>7, <1>8, <1>9, <1>10, <1>11 DEF DeviceAnswers, DeviceActs

\* The answer to a WRITE is the end of the connection, or ends the WRITE.
LEMMA WrittenLink ==
    ASSUME RecvWritten
    PROVE  stk_excp \/ TakesWritten
<1>1. stk_excp \/ /\ Head(toHost).val = xmit_pending
                  /\ toHost' = Tail(toHost) /\ xmit_pending' = 0
                  /\ UNCHANGED <<stk, sk, eki, toDev, dev>>
  BY DEF RecvWritten
<1>2. toHost # <<>> /\ Head(toHost).op = "write"
  BY DEF RecvWritten, Receiving
<1> QED
  BY <1>1, <1>2 DEF TakesWritten

\* Packets put behind the others, none a WRITE, are not WRITEs under way.
LEMMA OtherSent ==
    ASSUME toDev \in Seq(ToDev), SendsOther
    PROVE  /\ WritesSent' = WritesSent
           /\ \A i \in WritesSent : toDev'[i] = toDev[i]
           /\ \A i \in DOMAIN toDev' :
                  (i \in DOMAIN toDev /\ toDev'[i] = toDev[i]) \/ toDev'[i].data = <<>>
<1>1. PICK s \in Seq(ToDev) :
          /\ toDev' = toDev \o s
          /\ \A i \in DOMAIN s : s[i].op # "write" /\ s[i].data = <<>>
  BY DEF SendsOther
<1>2. /\ \A i \in DOMAIN toDev : i \in DOMAIN toDev' /\ toDev'[i] = toDev[i]
      /\ \A i \in DOMAIN toDev' :
             \/ i \in DOMAIN toDev /\ toDev'[i] = toDev[i]
             \/ /\ i \in Int /\ i - Len(toDev) \in DOMAIN s
                /\ toDev'[i] = s[i - Len(toDev)]
  BY <1>1, InConcat
<1>4. ASSUME NEW i \in DOMAIN toDev'
      PROVE  \/ i \in DOMAIN toDev /\ toDev'[i] = toDev[i]
             \/ toDev'[i].op # "write" /\ toDev'[i].data = <<>>
  BY <1>1, <1>2
<1>5. WritesSent' = WritesSent
  BY <1>2, <1>4 DEF WritesSent
<1> QED
  BY <1>2, <1>4, <1>5 DEF WritesSent

\* Taking a packet leaves the answers to WRITEs behind it.
LEMMA OtherTaken ==
    ASSUME toHost \in Seq(ToHost), toHost' = toHost \/ (toHost # <<>> /\ toHost' = Tail(toHost)),
           NEW i \in WriteAnswers'
    PROVE  \E j \in WriteAnswers :
               /\ toHost'[i] = toHost[j]
               /\ j = IF toHost' = toHost THEN i ELSE i + 1
<1>1. CASE toHost' = toHost
  BY <1>1 DEF WriteAnswers
<1>2. CASE toHost # <<>> /\ toHost' = Tail(toHost) /\ toHost' # toHost
  <2>1. i \in DOMAIN Tail(toHost) /\ Tail(toHost)[i].op = "write"
    BY <1>2 DEF WriteAnswers
  <2>2. i + 1 \in DOMAIN toHost /\ Tail(toHost)[i] = toHost[i + 1]
    BY <1>2, <2>1, InTail
  <2> QED
    BY <1>2, <2>1, <2>2 DEF WriteAnswers
<1> QED
  BY <1>1, <1>2

\* Appended to rx, sent, or taken out of the socket: what does not concern the
\* WRITE under way leaves it as it was.
LEMMA OtherKeeps ==
    ASSUME TypeOK, TypeOK', OneWrite, Grown, SendsOther, TakesOther,
           xmit_pending' = xmit_pending
    PROVE  OneWrite'
<1>1. /\ RingsOK /\ RingsOK' /\ toDev \in Seq(ToDev) /\ toHost \in Seq(ToHost)
      /\ toHost' \in Seq(ToHost) /\ xmit_pending \in Nat
  BY DEF TypeOK, LinkOK
<1>2. /\ get_rb_length(rx) \in Nat /\ get_rb_length(rx') \in Nat
  BY <1>1, RingFacts DEF RingsOK
<1>3. /\ xmit_pending <= get_rb_length(rx')
      /\ Peek(rx', rxd', xmit_pending) = Peek(rx, rxd, xmit_pending)
  <2>1. xmit_pending \in 0 .. get_rb_length(rx)
    BY <1>1, <1>2 DEF OneWrite
  <2> QED
    BY <1>1, <1>2, <2>1, GrownKeeps
<1>4. /\ WritesSent' = WritesSent
      /\ \A i \in WritesSent : toDev'[i] = toDev[i]
      /\ \A i \in DOMAIN toDev' :
             (i \in DOMAIN toDev /\ toDev'[i] = toDev[i]) \/ toDev'[i].data = <<>>
  BY <1>1, OtherSent
<1>5. \A i \in WriteAnswers' : \E j \in WriteAnswers :
          toHost'[i] = toHost[j] /\ j = IF toHost' = toHost THEN i ELSE i + 1
  BY <1>1, OtherTaken DEF TakesOther
<1>6. \A i \in DOMAIN toDev' : toDev'[i].op # "write" => toDev'[i].data = <<>>
  BY <1>4 DEF OneWrite
<1>7. \A i \in WritesSent' :
          xmit_pending' > 0 /\ toDev'[i].data = Peek(rx', rxd', xmit_pending')
  BY <1>3, <1>4 DEF OneWrite
<1>8. \A i \in WriteAnswers' : xmit_pending' > 0 /\ toHost'[i].val = xmit_pending'
  BY <1>5 DEF OneWrite
<1>9. \A i, j \in WriteAnswers' : i = j
  <2>1. DOMAIN toHost' \subseteq Int
    BY <1>1, LenProperties
  <2>2. WriteAnswers' \subseteq Int
    BY <2>1 DEF WriteAnswers
  <2> QED
    BY <1>5, <2>2 DEF OneWrite
<1>10. WritesSent' = {} \/ WriteAnswers' = {}
  BY <1>4, <1>5 DEF OneWrite
<1>11. \A i, j \in WritesSent' : i = j
  BY <1>4 DEF OneWrite
<1> QED
  BY <1>3, <1>6, <1>7, <1>8, <1>9, <1>10, <1>11 DEF OneWrite

\* With nothing under way there is no WRITE.
LEMMA ResetKeeps ==
    ASSUME TypeOK', stk_excp \/ main
    PROVE  OneWrite'
<1>1. xmit_pending' = 0 /\ toDev' = <<>> /\ toHost' = <<>>
  BY DEF stk_excp, main, vc_netdown_init
<1>2. get_rb_length(rx') \in Nat
  <2>1. rx' \in Ring /\ rxd' \in [Pos -> Byte]
    BY DEF TypeOK, RingsOK
  <2> QED
    BY <2>1, RingFacts
<1>3. WritesSent' = {} /\ WriteAnswers' = {} /\ DOMAIN toDev' = {}
  BY <1>1 DEF WritesSent, WriteAnswers
<1> QED
  BY <1>1, <1>2, <1>3 DEF OneWrite

\* The device's answers move the WRITE under way from one queue to the other.
LEMMA DeviceKeeps ==
    ASSUME TypeOK, TypeOK', OneWrite, AnswersFirst \/ SendsUnasked,
           UNCHANGED <<rx, rxd, xmit_pending>>
    PROVE  OneWrite'
<1>1. /\ toDev \in Seq(ToDev) /\ toHost \in Seq(ToHost) /\ xmit_pending \in Nat
      /\ rx.head \in Pos /\ rxd \in [Pos -> Byte]
  BY RingFacts DEF TypeOK, LinkOK, RingsOK
<1>2. ASSUME NEW s \in Seq(ToHost), toHost' = toHost \o s
      PROVE  /\ \A i \in DOMAIN toHost : i \in DOMAIN toHost' /\ toHost'[i] = toHost[i]
             /\ \A i \in DOMAIN toHost' :
                    \/ i \in DOMAIN toHost /\ toHost'[i] = toHost[i]
                    \/ /\ i \in Int /\ i - Len(toHost) \in DOMAIN s
                       /\ toHost'[i] = s[i - Len(toHost)]
  BY <1>1, <1>2, InConcat
<1>3. ASSUME NEW s \in Seq(ToHost), toHost' = toHost \o s,
             \A i \in DOMAIN s : s[i].op # "write"
      PROVE  /\ WriteAnswers' = WriteAnswers
             /\ \A i \in WriteAnswers : toHost'[i] = toHost[i]
  BY <1>2, <1>3 DEF WriteAnswers
<1>4. CASE SendsUnasked
  <2>1. PICK s \in Seq(ToHost) : /\ toHost' = toHost \o s
                                /\ \A i \in DOMAIN s : s[i].op # "write"
    BY <1>4 DEF SendsUnasked
  <2>2. WriteAnswers' = WriteAnswers /\ \A i \in WriteAnswers : toHost'[i] = toHost[i]
    BY <1>3, <2>1
  <2>3. toDev' = toDev /\ WritesSent' = WritesSent
    BY <1>4 DEF SendsUnasked, WritesSent
  <2> QED
    BY <2>2, <2>3 DEF OneWrite
<1>5. CASE AnswersFirst
  <2> DEFINE p == Head(toDev)
  <2>1. PICK s \in Seq(ToHost) : toHost' = toHost \o s /\ IsAnswer(s, p)
    BY <1>5 DEF AnswersFirst
  <2>2. toDev # <<>> /\ toDev' = Tail(toDev)
    BY <1>5 DEF AnswersFirst
  <2>3. /\ 1 \in DOMAIN toDev /\ toDev[1] = p
        /\ \A i \in DOMAIN toDev' : i + 1 \in DOMAIN toDev /\ toDev'[i] = toDev[i + 1]
    BY <1>1, <2>2, InTail
  <2>4. DOMAIN toDev' \subseteq Nat \ {0}
    BY <1>1, <2>2, HeadTailProperties, LenProperties
  <2> HIDE DEF p
  <2>5. \A i \in WritesSent' : i + 1 \in WritesSent /\ toDev'[i] = toDev[i + 1]
    BY <2>3 DEF WritesSent
  <2>6. \A i, j \in WritesSent' : i = j
    <3>1. WritesSent' \subseteq Int
      BY <2>4 DEF WritesSent
    <3> QED
      BY <2>5, <3>1 DEF OneWrite
  <2>7. \A i \in DOMAIN toDev' : toDev'[i].op # "write" => toDev'[i].data = <<>>
    BY <2>3 DEF OneWrite
  <2>8. CASE p.op = "write"
    <3>1. 1 \in WritesSent
      BY <2>3, <2>8 DEF WritesSent
    <3>2. WriteAnswers = {} /\ xmit_pending > 0 /\ p.data = Peek(rx, rxd, xmit_pending)
      BY <2>3, <3>1 DEF OneWrite
    <3>3. WritesSent' = {}
      <4>1. ASSUME NEW i \in WritesSent' PROVE FALSE
        <5>1. i + 1 = 1
          BY <2>5, <3>1, <4>1 DEF OneWrite
        <5>2. i \in Nat \ {0}
          BY <2>4, <4>1 DEF WritesSent
        <5> QED
          BY <5>1, <5>2
      <4> QED
        BY <4>1
    <3>4. Len(p.data) = xmit_pending
      <4>1. \A m \in Nat : Len(Peek(rx, rxd, m)) = m
        BY DEF Peek
      <4> QED
        BY <1>1, <3>2, <4>1
    <3>5. DOMAIN s = {1} /\ s[1].val = xmit_pending
      <4>1. Len(s) = 1 /\ s[1].val = Len(p.data)
        BY <2>1, <2>8 DEF IsAnswer
      <4>2. DOMAIN s = 1 .. 1
        BY <4>1, LenProperties
      <4> QED
        BY <3>4, <4>1, <4>2
    <3>6. \A i \in WriteAnswers' :
              i \in Int /\ i - Len(toHost) = 1 /\ toHost'[i] = s[1]
      BY <1>2, <2>1, <3>2, <3>5 DEF WriteAnswers
    <3>7. Len(toHost) \in Nat
      BY <1>1
    <3>8. \A i, j \in WriteAnswers' : i = j
      BY <3>6, <3>7
    <3> QED
      BY <2>6, <2>7, <3>2, <3>3, <3>5, <3>6, <3>8 DEF OneWrite
  <2>9. CASE p.op # "write"
    <3>1. \A i \in DOMAIN s : s[i].op # "write"
      BY <2>1, <2>9 DEF IsAnswer
    <3>2. WriteAnswers' = WriteAnswers /\ \A i \in WriteAnswers : toHost'[i] = toHost[i]
      BY <1>3, <2>1, <3>1
    <3> QED
      BY <2>5, <2>6, <2>7, <3>2 DEF OneWrite
  <2> QED
    BY <2>8, <2>9
<1> QED
  BY <1>4, <1>5

\* OneWrite is inductive.
LEMMA OneWriteStep ==
    ASSUME TypeOK, TypeOK', StackSound, CopyInv, OneWrite, [Next]_vars
    PROVE  OneWrite'
<1> USE DEF deviceVars, linkVars, daemonVars, stateVars, driverVars, ringVars
<1>1. /\ RingsOK /\ toDev \in Seq(ToDev) /\ toHost \in Seq(ToHost) /\ xmit_pending \in Nat
      /\ drx.head \in Pos /\ drx.tail \in Pos
  BY DEF TypeOK, LinkOK, LoopOK, RingCopy
<1>2. get_rb_length(rx) \in Nat /\ get_rb_length(drx) \in Nat
  BY <1>1, RingFacts, LengthType, SizeAssumption DEF RingsOK, Pos
<1>3. ASSUME UNCHANGED <<toDev, toHost, xmit_pending>>, Grown PROVE OneWrite'
  <2>1. SendsOther
    <3>1. <<>> \in Seq(ToDev) /\ toDev' = toDev \o <<>>
      BY <1>1, <1>3, ConcatEmptySeq
    <3>2. \A i \in DOMAIN <<>> : <<>>[i].op # "write" /\ <<>>[i].data = <<>>
      OBVIOUS
    <3> QED
      BY <3>1, <3>2 DEF SendsOther
  <2> QED
    BY <1>3, <2>1, OtherKeeps DEF TakesOther
<1>4. CASE Tty
  BY <1>3, <1>4, TtyStream DEF Tty
<1>5. CASE DeviceAnswers \/ DeviceActs
  <2>1. UNCHANGED <<rx, rxd, xmit_pending>>
    BY <1>5 DEF DeviceAnswers, DeviceActs
  <2> QED
    BY <1>5, <2>1, DeviceLink, DeviceKeeps
<1>6. CASE main \/ stk_excp
  BY <1>6, ResetKeeps
<1>7. CASE UNCHANGED vars
  BY <1>7 DEF vars, OneWrite, WritesSent, WriteAnswers
<1>8. ASSUME SendsWrite PROVE OneWrite'
  <2> DEFINE n == least(get_rb_length(drx), XmitLen)
             p == [op |-> "write", val |-> n, data |-> Peek(drx, rxd, n)]
  <2>1. /\ toDev' = Append(toDev, p) /\ xmit_pending' = n /\ toHost' = toHost
        /\ rx' = rx /\ rxd' = rxd /\ xmit_pending = 0 /\ ~is_rb_empty(drx)
    BY <1>8 DEF SendsWrite, vc_common_xmit, MayXmit
  <2>2. get_rb_length(drx) > 0
    BY <1>1, <2>1, SizeAssumption DEF is_rb_empty, get_rb_length, Pos
  <2>3. n \in Nat /\ n > 0 /\ n <= get_rb_length(rx)
    BY <1>2, <2>2, DaemonAssumption DEF least, CopyInv
  <2>4. p.data = Peek(rx, rxd, n) /\ p.op = "write"
    BY DEF CopyInv, Peek
  <2>5. WritesSent = {} /\ WriteAnswers = {}
    BY <2>1 DEF OneWrite
  <2>6. p \in ToDev
    <3>1. Peek(drx, rxd, n) \in Seq(Byte)
      BY <1>1, <2>3, PeekType DEF RingsOK
    <3> QED
      BY <2>3, <3>1 DEF ToDev
  <2> HIDE DEF n, p
  <2>7. /\ \A i \in DOMAIN toDev' :
               \/ i \in 1 .. Len(toDev) /\ toDev'[i] = toDev[i]
               \/ i = Len(toDev) + 1 /\ toDev'[i] = p
        /\ DOMAIN toDev = 1 .. Len(toDev)
    <3>1. /\ toDev' \in Seq(ToDev) /\ Len(toDev') = Len(toDev) + 1
          /\ \A i \in 1 .. Len(toDev) : toDev'[i] = toDev[i]
          /\ toDev'[Len(toDev) + 1] = p
      BY <1>1, <2>1, <2>6, AppendProperties
    <3>2. /\ DOMAIN toDev' = 1 .. Len(toDev) + 1 /\ Len(toDev) \in Nat
          /\ DOMAIN toDev = 1 .. Len(toDev)
      BY <1>1, <3>1, LenProperties
    <3>3. ASSUME NEW i \in DOMAIN toDev'
          PROVE  \/ i \in 1 .. Len(toDev) /\ toDev'[i] = toDev[i]
                 \/ i = Len(toDev) + 1 /\ toDev'[i] = p
      <4>1. i \in 1 .. Len(toDev) \/ i = Len(toDev) + 1
        BY <3>2
      <4> QED
        BY <3>1, <4>1
    <3> QED
      BY <3>2, <3>3
  <2>8. \A i \in WritesSent' : i = Len(toDev) + 1 /\ toDev'[i] = p
    BY <2>5, <2>7 DEF WritesSent
  <2>9. WriteAnswers' = {}
    BY <2>1, <2>5 DEF WriteAnswers
  <2>10. \A i \in DOMAIN toDev' : toDev'[i].op # "write" => toDev'[i].data = <<>>
    BY <2>4, <2>7 DEF OneWrite
  <2> QED
    BY <2>1, <2>3, <2>4, <2>8, <2>9, <2>10 DEF OneWrite
<1>9. ASSUME TakesWritten PROVE OneWrite'
  <2>1. /\ toHost # <<>> /\ Head(toHost).op = "write" /\ toHost' = Tail(toHost)
        /\ xmit_pending' = 0 /\ toDev' = toDev
    BY <1>9 DEF TakesWritten
  <2>2. 1 \in WriteAnswers
    BY <1>1, <2>1, InTail DEF WriteAnswers
  <2>3. WritesSent' = {}
    BY <2>1, <2>2 DEF OneWrite, WritesSent
  <2>4. WriteAnswers' = {}
    <3>1. ASSUME NEW i \in WriteAnswers' PROVE FALSE
      <4>1. toHost' # toHost
        <5>1. Len(toHost') = Len(toHost) - 1 /\ Len(toHost) \in Nat
          BY <1>1, <2>1, HeadTailProperties
        <5> QED
          BY <5>1
      <4>2. i + 1 \in WriteAnswers
        BY <1>1, <2>1, <3>1, <4>1, OtherTaken
      <4>3. i \in Nat \ {0}
        <5>1. toHost' \in Seq(ToHost)
          BY <1>1, <2>1, HeadTailProperties
        <5> QED
          BY <3>1, <5>1, LenProperties DEF WriteAnswers
      <4> QED
        BY <2>2, <4>2, <4>3 DEF OneWrite
    <3> QED
      BY <3>1
  <2>5. get_rb_length(rx') \in Nat
    <3>1. rx' \in Ring /\ rxd' \in [Pos -> Byte]
      BY DEF TypeOK, RingsOK
    <3> QED
      BY <3>1, RingFacts
  <2>6. \A i \in DOMAIN toDev' : toDev'[i].op # "write" => toDev'[i].data = <<>>
    BY <2>1 DEF OneWrite
  <2> QED
    BY <2>1, <2>3, <2>4, <2>5, <2>6 DEF OneWrite
<1>10. CASE DaemonStep
  <2>1. CASE RecvWritten
    BY <1>6, <1>9, <2>1, WrittenLink
  <2>2. CASE ~RecvWritten
    <3>1. Grown \/ stk_excp
      BY <1>10, <2>2, DaemonStream DEF Dropped, vc_common_close
    <3>2. stk_excp \/ (SendsOther /\ TakesOther /\ xmit_pending' = xmit_pending) \/ SendsWrite
      BY <1>10, <2>2, DaemonLink DEF TakesWritten
    <3> QED
      BY <1>6, <1>8, <3>1, <3>2, OtherKeeps
  <2> QED
    BY <2>1, <2>2
<1> QED
  BY <1>4, <1>5, <1>6, <1>7, <1>10 DEF Next

\* OneWrite holds throughout.
THEOREM OneWriteInvariant == Spec => []OneWrite
<1>1. Init => OneWrite
  <2> SUFFICES ASSUME Init PROVE OneWrite
    OBVIOUS
  <2>1. /\ xmit_pending = 0 /\ toDev = <<>> /\ toHost = <<>>
        /\ rx = [head |-> 0, tail |-> 0, on |-> FALSE, clean |-> FALSE]
    BY DEF Init, adv_main_init, DaemonInit, DeviceInit
  <2>2. get_rb_length(rx) = 0
    BY <2>1, SizeAssumption DEF get_rb_length
  <2>3. WritesSent = {} /\ WriteAnswers = {} /\ DOMAIN toDev = {}
    BY <2>1 DEF WritesSent, WriteAnswers
  <2> QED
    BY <2>1, <2>2, <2>3 DEF OneWrite
<1>2. TypeOK /\ TypeOK' /\ StackSound /\ CopyInv /\ OneWrite /\ [Next]_vars => OneWrite'
  BY OneWriteStep
<1> QED
  BY <1>1, <1>2, TypeCorrect, StackCorrect, CopyInvariant, PTL DEF Spec

\* The daemon never has two WRITEs under way, each carries exactly the bytes at the
\* head of rx, and the answer names their number: so vc_netup_recv drops from rx what
\* was sent and nothing else, whatever the tty has appended in the meantime.
THEOREM PendingCorrect == Spec => []PendingSound
<1>1. OneWrite => PendingSound
  <2> SUFFICES ASSUME OneWrite PROVE PendingSound
    OBVIOUS
  <2>1. \A S : (\A i, j \in S : i = j) => S = {} \/ \E x : S = {x}
    OBVIOUS
  <2>2. (\A i, j \in WritesSent : i = j) /\ (\A i, j \in WriteAnswers : i = j)
    BY DEF OneWrite
  <2>3. /\ WritesSent = {} \/ \E x : WritesSent = {x}
        /\ WriteAnswers = {} \/ \E x : WriteAnswers = {x}
    BY <2>1, <2>2
  <2>4. \A x : Cardinality({x}) = 1
    BY FS_Singleton
  <2>5. Cardinality({}) = 0
    BY FS_EmptySet
  <2>6. WritesSent = {} \/ WriteAnswers = {}
    BY DEF OneWrite
  <2>7. Cardinality(WritesSent) + Cardinality(WriteAnswers) <= 1
    <3>1. (WritesSent = {} /\ Cardinality(WritesSent) = 0) \/ Cardinality(WritesSent) = 1
      BY <2>3, <2>4, <2>5, Zenon
    <3>2. \/ WriteAnswers = {} /\ Cardinality(WriteAnswers) = 0
          \/ Cardinality(WriteAnswers) = 1
      BY <2>3, <2>4, <2>5, Zenon
    <3> QED
      BY <2>5, <2>6, <3>1, <3>2
  <2> QED
    BY <2>7 DEF OneWrite, PendingSound
<1> QED
  BY <1>1, OneWriteInvariant, PTL

(***************************************************************************)
(* The stream of bytes on their way to the device.                         *)
(***************************************************************************)

\* The places of a sequence w that is q with s put behind it, seen from s.
LEMMA BackOfConcat ==
    ASSUME NEW S, NEW q \in Seq(S), NEW s \in Seq(S), NEW w, w = q \o s
    PROVE  \A i \in DOMAIN s : i + Len(q) \in DOMAIN w /\ s[i] = w[i + Len(q)]
<1>1. /\ Len(q) \in Nat /\ Len(s) \in Nat /\ DOMAIN s = 1 .. Len(s)
      /\ w \in Seq(S) /\ Len(w) = Len(q) + Len(s) /\ DOMAIN w = 1 .. Len(w)
      /\ \A i \in 1 .. Len(q) + Len(s) : w[i] = IF i <= Len(q) THEN q[i] ELSE s[i - Len(q)]
  <2>1. Len(q) \in Nat /\ Len(s) \in Nat /\ DOMAIN s = 1 .. Len(s)
    BY LenProperties
  <2>2. /\ w \in Seq(S) /\ Len(w) = Len(q) + Len(s)
        /\ \A i \in 1 .. Len(q) + Len(s) : w[i] = IF i <= Len(q) THEN q[i] ELSE s[i - Len(q)]
    BY ConcatProperties
  <2> QED
    BY <2>1, <2>2, LenProperties
<1>2. ASSUME NEW i \in DOMAIN s
      PROVE  i + Len(q) \in DOMAIN w /\ s[i] = w[i + Len(q)]
  <2>1. i + Len(q) \in 1 .. Len(q) + Len(s) /\ ~(i + Len(q) <= Len(q))
        /\ (i + Len(q)) - Len(q) = i
    BY <1>1
  <2> QED
    BY <1>1, <2>1
<1> QED
  BY <1>2

\* The stream of a ring r with memory d, and a buffer c behind it: its first bytes
\* are those of the ring.
LEMMA StreamFacts ==
    ASSUME NEW r \in Ring, NEW d \in [Pos -> Byte], NEW c \in Seq(Byte)
    PROVE  /\ Unread(r, d) \o c \in Seq(Byte)
           /\ Len(Unread(r, d) \o c) \in Nat
           /\ DOMAIN (Unread(r, d) \o c) = 1 .. Len(Unread(r, d) \o c)
           /\ get_rb_length(r) \in Nat /\ get_rb_length(r) <= Len(Unread(r, d) \o c)
           /\ \A m \in Nat : m <= get_rb_length(r) =>
                  /\ Peek(r, d, m) \in Seq(Byte) /\ Len(Peek(r, d, m)) = m
                  /\ \A n \in 1 .. m : Peek(r, d, m)[n] = (Unread(r, d) \o c)[n]
<1> DEFINE u == Unread(r, d)
           w == u \o c
<1>1. /\ r.head \in Pos /\ r.tail \in Pos
      /\ get_rb_length(r) \in Nat /\ u \in Seq(Byte) /\ Len(u) = get_rb_length(r)
  BY RingFacts
<1>2. /\ w \in Seq(Byte) /\ Len(w) = Len(u) + Len(c) /\ Len(c) \in Nat
      /\ \A i \in 1 .. Len(u) + Len(c) : w[i] = IF i <= Len(u) THEN u[i] ELSE c[i - Len(u)]
  <2> HIDE DEF u
  <2>1. Len(c) \in Nat
    BY LenProperties
  <2> QED
    BY <1>1, <2>1, ConcatProperties
<1>3. Len(w) \in Nat /\ DOMAIN w = 1 .. Len(w)
  <2> HIDE DEF w
  <2> QED
    BY <1>2, LenProperties
<1>4. \A m \in Nat : Peek(r, d, m) \in Seq(Byte) /\ Len(Peek(r, d, m)) = m
  BY <1>1, PeekType
<1>5. ASSUME NEW m \in Nat, m <= get_rb_length(r), NEW n \in 1 .. m
      PROVE  Peek(r, d, m)[n] = w[n]
  <2>1. n \in 1 .. get_rb_length(r)
    BY <1>1, <1>5
  <2>2. Peek(r, d, m)[n] = d[Around(r.head, n - 1)]
    BY UnreadAt
  <2>3. u[n] = d[Around(r.head, n - 1)]
    BY <2>1, UnreadAt
  <2> HIDE DEF u, w
  <2>4. w[n] = u[n]
    BY <1>1, <1>2, <2>1
  <2> QED
    BY <2>2, <2>3, <2>4
<1>6. get_rb_length(r) <= Len(w)
  BY <1>1, <1>2
<1> HIDE DEF w
<1>7. /\ w \in Seq(Byte) /\ Len(w) \in Nat /\ DOMAIN w = 1 .. Len(w)
      /\ \A m \in Nat : m <= get_rb_length(r) =>
             /\ Peek(r, d, m) \in Seq(Byte) /\ Len(Peek(r, d, m)) = m
             /\ \A n \in 1 .. m : Peek(r, d, m)[n] = w[n]
  BY <1>2, <1>3, <1>4, <1>5
<1> QED
  BY <1>1, <1>6, <1>7 DEF w

\* The stream after the step is the one before it without its first n bytes, and
\* perhaps without some of its last.
Shrunk(n) == \A i \in DOMAIN Stream' : i + n \in DOMAIN Stream /\ Stream'[i] = Stream[i + n]

\* An answer that drops bytes drops the first of the stream.
LEMMA DroppedStream ==
    ASSUME TypeOK, CopyInv, OneWrite, Dropped
    PROVE  /\ Stream = Peek(rx, rxd, xmit_pending) \o Stream'
           /\ Unread(rx', rxd') = SubSeq(Unread(rx, rxd), xmit_pending + 1, get_rb_length(rx))
<1>1. /\ rx \in Ring /\ rxd \in [Pos -> Byte] /\ circ \in Seq(Byte) /\ xmit_pending \in Nat
      /\ rx.head \in Pos /\ rx.tail \in Pos
  BY RingFacts DEF TypeOK, RingsOK, LinkOK
<1>2. rx' = move_rb_head(rx, xmit_pending) /\ rxd' = rxd /\ circ' = circ
  BY DEF Dropped, DropWritten, RecvWritten, ttyVars
<1>3. /\ Unread(rx', rxd') = SubSeq(Unread(rx, rxd), xmit_pending + 1, get_rb_length(rx))
      /\ Peek(rx, rxd, xmit_pending) \o Unread(rx', rxd') = Unread(rx, rxd)
  BY <1>1, <1>2, UnreadGet DEF CopyInv, OneWrite
<1>4. Unread(rx', rxd') \in Seq(Byte)
  <2>1. rx' \in Ring
    BY <1>1, <1>2, MoveHeadType
  <2> QED
    BY <1>1, <1>2, <2>1, RingFacts
<1>5. Peek(rx, rxd, xmit_pending) \in Seq(Byte)
  <2>1. \A m \in Nat : Peek(rx, rxd, m) \in Seq(Byte)
    BY <1>1, PeekType
  <2> QED
    BY <1>1, <2>1
<1>6. (Peek(rx, rxd, xmit_pending) \o Unread(rx', rxd')) \o circ
          = Peek(rx, rxd, xmit_pending) \o (Unread(rx', rxd') \o circ)
  BY <1>1, <1>4, <1>5, ConcatAssociative
<1> QED
  BY <1>2, <1>3, <1>6 DEF Stream

\* The type of the stream after a step.
LEMMA StreamType ==
    ASSUME TypeOK'
    PROVE  /\ Stream' \in Seq(Byte) /\ Len(Stream') \in Nat
           /\ DOMAIN Stream' = 1 .. Len(Stream') /\ DOMAIN Stream' \subseteq Nat \ {0}
<1>1. rx' \in Ring /\ rxd' \in [Pos -> Byte] /\ circ' \in Seq(Byte)
  BY DEF TypeOK, RingsOK
<1>2. Unread(rx', rxd') \in Seq(Byte)
  BY <1>1, RingFacts
<1>3. Stream' \in Seq(Byte)
  BY <1>1, <1>2, ConcatProperties DEF Stream
<1> QED
  BY <1>3, LenProperties

\* Opening the port loses the end of the stream.
LEMMA OpenShrinks ==
    ASSUME TypeOK, TypeOK', Stream' = Unread(rx, rxd)
    PROVE  Shrunk(0)
<1>1. Unread(rx, rxd) \in Seq(Byte) /\ circ \in Seq(Byte)
  BY RingFacts DEF TypeOK, RingsOK
<1>2. Stream = Stream' \o circ
  BY DEF Stream
<1>3. \A i \in DOMAIN Stream' : i \in DOMAIN Stream /\ Stream[i] = Stream'[i]
  BY <1>1, <1>2, StreamType, InConcat
<1>4. \A i \in DOMAIN Stream' : i + 0 = i
  BY StreamType
<1> QED
  BY <1>3, <1>4 DEF Shrunk

\* Closing it drops what is in rx.
LEMMA CloseShrinks ==
    ASSUME TypeOK, TypeOK', vc_common_close
    PROVE  Shrunk(get_rb_length(rx))
<1>1. /\ RingsOK /\ rx \in Ring /\ rxd \in [Pos -> Byte] /\ circ \in Seq(Byte)
      /\ Unread(rx, rxd) \in Seq(Byte) /\ Len(Unread(rx, rxd)) = get_rb_length(rx)
  BY RingFacts DEF TypeOK, RingsOK
<1>2. Unread(rx', rxd') = <<>> /\ circ' = circ
  BY <1>1, CloseEmpties DEF vc_common_close, ttyVars
<1>3. Stream = Unread(rx, rxd) \o Stream'
  BY <1>1, <1>2, ConcatEmptySeq DEF Stream
<1>4. Shrunk(Len(Unread(rx, rxd)))
  BY <1>1, <1>3, StreamType, BackOfConcat DEF Shrunk
<1> QED
  BY <1>1, <1>4

\* An answer drops the bytes of its WRITE.
LEMMA DropShrinks ==
    ASSUME TypeOK, TypeOK', CopyInv, OneWrite, Dropped
    PROVE  Shrunk(xmit_pending) /\ Len(Stream') = Len(Stream) - xmit_pending
<1> DEFINE p == Peek(rx, rxd, xmit_pending)
<1>1. /\ rx \in Ring /\ rxd \in [Pos -> Byte] /\ circ \in Seq(Byte) /\ xmit_pending \in Nat
      /\ xmit_pending <= get_rb_length(rx)
  BY DEF TypeOK, RingsOK, LinkOK, OneWrite
<1>2. p \in Seq(Byte) /\ Len(p) = xmit_pending
  <2>1. \A m \in Nat : m <= get_rb_length(rx) =>
            Peek(rx, rxd, m) \in Seq(Byte) /\ Len(Peek(rx, rxd, m)) = m
    BY <1>1, StreamFacts
  <2> QED
    BY <1>1, <2>1
<1>3. Stream = p \o Stream'
  BY DroppedStream
<1> HIDE DEF p
<1>4. Shrunk(Len(p))
  BY <1>2, <1>3, StreamType, BackOfConcat DEF Shrunk
<1>5. Len(Stream) = Len(p) + Len(Stream')
  <2>1. Len(p \o Stream') = Len(p) + Len(Stream')
    BY <1>2, StreamType, ConcatProperties
  <2> QED
    BY <1>3, <2>1
<1>6. Len(Stream') = Len(Stream) - xmit_pending
  BY <1>1, <1>2, <1>5, StreamType
<1> QED
  BY <1>2, <1>4, <1>6

\* What any step does to the stream.
LEMMA StreamStep ==
    ASSUME TypeOK, TypeOK', CopyInv, OneWrite, [Next]_vars
    PROVE  \/ written' = written /\ Stream' = Stream
           \/ adv_uart_start_tx /\ written' = written + 1 /\ Stream' = Stream \o <<written + 1>>
           \/ adv_uart_startup /\ written' = written /\ Shrunk(0)
              /\ Stream' = Unread(rx, rxd)
           \/ vc_common_close /\ written' = written /\ Shrunk(get_rb_length(rx))
           \/ /\ Dropped /\ written' = written
              /\ Shrunk(xmit_pending) /\ Len(Stream') = Len(Stream) - xmit_pending
<1> USE DEF driverVars, ringVars, ttyVars
<1>1. CASE Tty
  BY <1>1, TtyStream, OpenShrinks
<1>2. CASE DeviceAnswers \/ DeviceActs \/ main \/ UNCHANGED vars
  BY <1>2 DEF DeviceAnswers, DeviceActs, main, vars, Stream
<1>3. CASE DaemonStep
  <2>1. written' = written
    BY <1>3 DEF DaemonStep, vc_netdown_open, vc_netdown_open_fails, vc_common_close, NothingToOpen,
       vc_common_ioctl, NothingToSet, vc_common_xmit, NothingToXmit, vc_netup_pause, NothingToPause,
       event, adv_main_interrupt, select, vc_netup_poll, vc_idle_poll, NothingToPoll, AttrEvent,
       NoPacket, RecvExcp, vc_idle_recv, RecvOther, vc_sync_recv, RecvData, RecvWritten, RxEvent,
       vc_pause_resume, NothingToResume
  <2> QED
    BY <1>3, <2>1, DaemonStream, CloseShrinks, DropShrinks
<1> QED
  BY <1>1, <1>2, <1>3 DEF Next

\* What the device accepts in a step: nothing, or the first bytes of the stream, as many
\* as the WRITE under way carries.
AcceptsNothing == accepted' = accepted
AcceptsFront ==
    /\ xmit_pending \in 1 .. Len(Stream) /\ dev.alive
    /\ xmit_pending <= get_rb_length(rx) /\ xmit_pending \in 1 .. get_rb_length(rx)
    /\ WritesSent # {} /\ accepted' = accepted \o Peek(rx, rxd, xmit_pending)
    /\ \A i \in DOMAIN accepted : i \in DOMAIN accepted' /\ accepted'[i] = accepted[i]
    /\ \A i \in DOMAIN accepted' :
           \/ i \in DOMAIN accepted /\ accepted'[i] = accepted[i]
           \/ /\ i - Len(accepted) \in 1 .. xmit_pending
              /\ accepted'[i] = Stream[i - Len(accepted)]
    /\ \A n \in 1 .. xmit_pending :
           n + Len(accepted) \in DOMAIN accepted' /\ accepted'[n + Len(accepted)] = Stream[n]

\* An answer of the device to the packet p.
LEMMA AnswerAccepts ==
    ASSUME TypeOK, OneWrite, AnswersFirst
    PROVE  AcceptsNothing \/ AcceptsFront
<1> DEFINE p == Head(toDev)
           f == Peek(rx, rxd, xmit_pending)
<1>1. /\ rx \in Ring /\ rxd \in [Pos -> Byte] /\ circ \in Seq(Byte)
      /\ xmit_pending \in Nat /\ toDev \in Seq(ToDev) /\ accepted \in Seq(Byte)
      /\ toDev # <<>> /\ dev.alive
  BY DEF TypeOK, RingsOK, LinkOK, PortOK, AnswersFirst
<1>2. accepted' = accepted \/ accepted' = accepted \o p.data
  BY DEF AnswersFirst, IsAnswer
<1>3. 1 \in DOMAIN toDev /\ toDev[1] = p
  BY <1>1, InTail
<1> HIDE DEF p
<1>4. CASE p.op # "write"
  <2>1. p.data = <<>>
    BY <1>3, <1>4 DEF OneWrite
  <2> QED
    BY <1>1, <1>2, <2>1, ConcatEmptySeq DEF AcceptsNothing
<1>5. CASE p.op = "write" /\ accepted' # accepted
  <2>1. 1 \in WritesSent
    BY <1>3, <1>5 DEF WritesSent
  <2>2. xmit_pending > 0 /\ p.data = f /\ xmit_pending <= get_rb_length(rx)
    BY <1>3, <2>1 DEF OneWrite
  <2> HIDE DEF f
  <2>4. /\ f \in Seq(Byte) /\ Len(f) = xmit_pending
        /\ \A n \in 1 .. xmit_pending : f[n] = Stream[n]
    <3>1. \A m \in Nat : m <= get_rb_length(rx) =>
              /\ Peek(rx, rxd, m) \in Seq(Byte) /\ Len(Peek(rx, rxd, m)) = m
              /\ \A n \in 1 .. m : Peek(rx, rxd, m)[n] = Stream[n]
      BY <1>1, StreamFacts DEF Stream
    <3> QED
      BY <1>1, <2>2, <3>1 DEF f
  <2>5. Len(Stream) \in Nat /\ get_rb_length(rx) <= Len(Stream) /\ get_rb_length(rx) \in Nat
    BY <1>1, StreamFacts DEF Stream
  <2>6. accepted' = accepted \o f
    BY <1>2, <1>5, <2>2
  <2>7. DOMAIN f = 1 .. xmit_pending
    BY <2>4, LenProperties
  <2>8. /\ \A i \in DOMAIN accepted : i \in DOMAIN accepted' /\ accepted'[i] = accepted[i]
        /\ \A i \in DOMAIN accepted' :
               \/ i \in DOMAIN accepted /\ accepted'[i] = accepted[i]
               \/ i - Len(accepted) \in DOMAIN f /\ accepted'[i] = f[i - Len(accepted)]
    BY <1>1, <2>4, <2>6, InConcat
  <2>9. \A n \in DOMAIN f :
            n + Len(accepted) \in DOMAIN accepted' /\ f[n] = accepted'[n + Len(accepted)]
    BY <1>1, <2>4, <2>6, BackOfConcat
  <2>10. xmit_pending \in 1 .. Len(Stream) /\ xmit_pending \in 1 .. get_rb_length(rx)
    BY <1>1, <2>2, <2>5
  <2>11. \A i \in DOMAIN accepted' :
             \/ i \in DOMAIN accepted /\ accepted'[i] = accepted[i]
             \/ /\ i - Len(accepted) \in 1 .. xmit_pending
                /\ accepted'[i] = Stream[i - Len(accepted)]
    BY <2>4, <2>7, <2>8
  <2>12. \A n \in 1 .. xmit_pending :
             n + Len(accepted) \in DOMAIN accepted' /\ accepted'[n + Len(accepted)] = Stream[n]
    BY <2>4, <2>7, <2>9
  <2> QED
    BY <1>1, <2>1, <2>2, <2>6, <2>8, <2>10, <2>11, <2>12 DEF AcceptsFront, f
<1> QED
  BY <1>4, <1>5 DEF AcceptsNothing

\* Only an answer of the device accepts anything, and that leaves the stream alone.
LEMMA AcceptStep ==
    ASSUME TypeOK, OneWrite, [Next]_vars
    PROVE  \/ AcceptsNothing
           \/ /\ AcceptsFront /\ DeviceAnswers /\ AnswersFirst
              /\ Stream' = Stream /\ UNCHANGED <<driverVars, daemonVars>>
<1>1. CASE DeviceAnswers
  <2>1. AnswersFirst
    BY <1>1, DeviceLink
  <2>2. UNCHANGED <<driverVars, daemonVars>>
    BY <1>1 DEF DeviceAnswers
  <2>3. Stream' = Stream
    BY <2>2 DEF Stream, driverVars, ringVars, ttyVars
  <2> QED
    BY <1>1, <2>1, <2>2, <2>3, AnswerAccepts
<1>2. CASE DeviceActs
  BY <1>2, DeviceLink DEF SendsUnasked, AcceptsNothing
<1>3. CASE Tty \/ main \/ UNCHANGED vars
  BY <1>3 DEF Tty, main, vars, deviceVars, portVars, AcceptsNothing
<1>4. CASE DaemonStep
  BY <1>4 DEF DaemonStep, vc_netdown_open, vc_netdown_open_fails, vc_common_close, NothingToOpen,
     vc_common_ioctl, NothingToSet, vc_common_xmit, NothingToXmit, vc_netup_pause, NothingToPause,
     event, adv_main_interrupt, select, vc_netup_poll, vc_idle_poll, NothingToPoll, AttrEvent,
     NoPacket, RecvExcp, vc_idle_recv, RecvOther, vc_sync_recv, RecvData, RecvWritten, RxEvent,
     vc_pause_resume, NothingToResume, deviceVars, portVars, AcceptsNothing
<1> QED
  BY <1>1, <1>2, <1>3, <1>4 DEF Next

\* No more events happen than are budgeted, and opening the port is one only for the tty.
Budgeted == \A e \in Events : left[e] <= Budget[e]
LEMMA Spending ==
    ASSUME TypeOK, [Next]_vars
    PROVE  \/ left' = left
           \/ \E e \in Events \ {"open"} : Spend(e)
           \/ Spend("open") /\ adv_uart_startup /\ Tty
<1>1. ASSUME NEW e \in Events \ {"open"}, Spend(e)
      PROVE  \E f \in Events \ {"open"} : Spend(f)
  BY <1>1
<1>2. SendFails => Spend("fault")
  BY DEF SendFails
<1>3. TimePasses => left' = left \/ Spend("slow")
  BY DEF TimePasses
<1>4. {"write", "line", "throttle", "stop", "data", "modem", "busy", "fault", "slow", "restart"}
          = Events \ {"open"}
  BY DEF Events
<1>5. CASE Tty
  BY <1>4, <1>5 DEF Tty, TtyStep, adv_uart_startup, adv_uart_stop_rx, adv_uart_shutdown,
     adv_uart_start_tx, adv_uart_stop_tx, adv_uart_restart_tx, adv_uart_throttle,
     adv_uart_unthrottle, adv_uart_set_termios, adv_uart_set_mctrl
<1>6. CASE DeviceAnswers \/ DeviceActs
  BY <1>4, <1>6 DEF DeviceAnswers, DeviceActs, DeviceServes, DeviceBusy, DeviceRefuses,
     DeviceSendsData, DeviceLineChanges, ConnectionBreaks
<1>7. CASE main \/ UNCHANGED vars
  BY <1>4, <1>7 DEF main, vars
<1>8. CASE \/ vc_netdown_open \/ vc_netdown_open_fails \/ vc_common_close \/ NothingToOpen
           \/ vc_common_ioctl \/ NothingToSet \/ vc_common_xmit \/ NothingToXmit
           \/ vc_netup_pause \/ NothingToPause \/ event \/ adv_main_interrupt \/ select
           \/ vc_netup_poll \/ vc_idle_poll \/ NothingToPoll \/ AttrEvent
  BY <1>2, <1>3, <1>4, <1>8 DEF vc_netdown_open, vc_netdown_open_fails, vc_common_close,
     NothingToOpen, vc_common_ioctl, NothingToSet, vc_common_xmit, NothingToXmit, vc_netup_pause,
     NothingToPause, event, adv_main_interrupt, select, vc_netup_poll, vc_idle_poll, NothingToPoll,
     AttrEvent
<1>9. CASE \/ NoPacket \/ RecvExcp \/ vc_idle_recv \/ RecvOther \/ vc_sync_recv \/ RecvData
           \/ RecvWritten \/ RxEvent \/ vc_pause_resume \/ NothingToResume
  BY <1>2, <1>4, <1>9 DEF NoPacket, RecvExcp, vc_idle_recv, RecvOther, vc_sync_recv, RecvData,
     RecvWritten, RxEvent, vc_pause_resume, NothingToResume
<1> QED
  BY <1>5, <1>6, <1>7, <1>8, <1>9 DEF Next, DaemonStep

\* Budgeted is inductive.
LEMMA BudgetStep ==
    ASSUME TypeOK, Budgeted, [Next]_vars
    PROVE  /\ Budgeted'
           /\ \A e \in Events : left'[e] <= left[e] /\ left[e] \in Nat /\ left'[e] \in Nat
           /\ \A e \in Events : Never(e)' => Never(e) /\ ~Spend(e)
           /\ left'["open"] = left["open"] \/ (adv_uart_startup /\ left'["open"] = left["open"] - 1)
<1>1. left \in [Events -> Nat] /\ Budget \in [Events -> Nat] /\ "open" \in Events
  BY DriverAssumption DEF TypeOK, PortOK, Events
<1>2. \A e \in Events : Spend(e) => /\ left[e] > 0 /\ left'[e] = left[e] - 1
                                    /\ \A f \in Events \ {e} : left'[f] = left[f]
  BY <1>1 DEF Spend
<1>3. \A e \in Events : /\ left[e] \in Nat /\ Budget[e] \in Nat
                        /\ left'[e] = left[e] \/ (left[e] > 0 /\ left'[e] = left[e] - 1)
  BY <1>1, <1>2, Spending
<1>4. \A e \in Events : left'[e] <= left[e] /\ left'[e] \in Nat /\ left'[e] <= Budget[e]
  BY <1>3 DEF Budgeted
<1>5. \A e \in Events : left'[e] = Budget[e] => left[e] = Budget[e] /\ ~Spend(e)
  BY <1>2, <1>3 DEF Budgeted
<1>6. left'["open"] = left["open"] \/ (adv_uart_startup /\ left'["open"] = left["open"] - 1)
  BY <1>1, <1>2, Spending
<1> QED
  BY <1>3, <1>4, <1>5, <1>6 DEF Budgeted, Never

(***************************************************************************)
(* What is accepted is the application's, in order, with nothing skipped.  *)
(***************************************************************************)

\* The stream ascends, within what has been written.
StreamAscends ==
    /\ \A i \in DOMAIN Stream : Stream[i] \in 1 .. written
    /\ \A i, j \in DOMAIN Stream : i < j => Stream[i] < Stream[j]

\* What was accepted has been written, and a byte accepted after a later one has been
\* accepted before that one.
AcceptedBefore ==
    /\ Elements(accepted) \subseteq 1 .. written
    /\ \A i, j \in DOMAIN accepted :
           i < j /\ accepted[j] < accepted[i]
               => \E k \in 1 .. i : accepted[k] = accepted[j]

\* A byte smaller than one the device has accepted was accepted before that one,
\* or will never be sent.
NoneSkipped ==
    \A i \in DOMAIN accepted, j \in DOMAIN Stream :
        Stream[j] < accepted[i] => \E k \in 1 .. i : accepted[k] = Stream[j]

\* Bytes an answer is about to drop have been accepted.
AnswerMeansAccepted ==
    \A i \in WriteAnswers : toHost[i].st = "ok" =>
        \A n \in 1 .. xmit_pending : \E k \in DOMAIN accepted : accepted[k] = Stream[n]

InOrder == StreamAscends /\ AcceptedBefore /\ NoneSkipped /\ AnswerMeansAccepted

\* The types the lemmas below need.
LEMMA OrderTypes ==
    ASSUME TypeOK
    PROVE  /\ rx \in Ring /\ rxd \in [Pos -> Byte] /\ circ \in Seq(Byte)
           /\ Stream \in Seq(Byte) /\ Len(Stream) \in Nat /\ DOMAIN Stream = 1 .. Len(Stream)
           /\ get_rb_length(rx) \in Nat /\ get_rb_length(rx) <= Len(Stream)
           /\ accepted \in Seq(Byte) /\ Len(accepted) \in Nat
           /\ DOMAIN accepted = 1 .. Len(accepted)
           /\ \A i \in DOMAIN accepted : accepted[i] \in Nat
           /\ written \in Nat /\ xmit_pending \in Nat
<1>1. /\ rx \in Ring /\ rxd \in [Pos -> Byte] /\ circ \in Seq(Byte)
      /\ accepted \in Seq(Byte) /\ written \in Nat /\ xmit_pending \in Nat
  BY DEF TypeOK, RingsOK, PortOK, LinkOK
<1>3. /\ Stream \in Seq(Byte) /\ Len(Stream) \in Nat /\ DOMAIN Stream = 1 .. Len(Stream)
      /\ get_rb_length(rx) \in Nat /\ get_rb_length(rx) <= Len(Stream)
  BY <1>1, StreamFacts DEF Stream
<1>4. Len(accepted) \in Nat /\ DOMAIN accepted = 1 .. Len(accepted)
  BY <1>1, LenProperties
<1>5. \A i \in DOMAIN accepted : accepted[i] \in Nat
  BY <1>1, <1>4, ElementOfSeq DEF Byte
<1> QED
  BY <1>1, <1>3, <1>4, <1>5

\* The stream ascends whatever happens: what is appended is the latest byte.
LEMMA AscendsStep ==
    ASSUME TypeOK, TypeOK', CopyInv, OneWrite, StreamAscends, [Next]_vars
    PROVE  StreamAscends'
<1>1. /\ Stream \in Seq(Byte) /\ Len(Stream) \in Nat /\ DOMAIN Stream = 1 .. Len(Stream)
      /\ written \in Nat
  BY OrderTypes
<1>2. ASSUME NEW n \in Nat, Shrunk(n), written' = written PROVE StreamAscends'
  <2>1. DOMAIN Stream' \subseteq Nat
    <3>1. Stream' \in Seq(Byte)
      <4>1. rx' \in Ring /\ rxd' \in [Pos -> Byte] /\ circ' \in Seq(Byte)
        BY DEF TypeOK, RingsOK
      <4>2. Unread(rx', rxd') \in Seq(Byte)
        BY <4>1, RingFacts
      <4> QED
        BY <4>1, <4>2, ConcatProperties DEF Stream
    <3> QED
      BY <3>1, LenProperties
  <2>2. \A i \in DOMAIN Stream' : Stream'[i] \in 1 .. written'
    BY <1>2 DEF Shrunk, StreamAscends
  <2>3. ASSUME NEW i \in DOMAIN Stream', NEW j \in DOMAIN Stream', i < j
        PROVE  Stream'[i] < Stream'[j]
    <3>1. /\ i + n \in DOMAIN Stream /\ j + n \in DOMAIN Stream /\ i + n < j + n
          /\ Stream'[i] = Stream[i + n] /\ Stream'[j] = Stream[j + n]
      BY <1>2, <2>1, <2>3 DEF Shrunk
    <3> QED
      BY <3>1 DEF StreamAscends
  <2> QED
    BY <2>2, <2>3 DEF StreamAscends
<1>3. ASSUME written' = written, Stream' = Stream PROVE StreamAscends'
  BY <1>3 DEF StreamAscends
<1>4. ASSUME written' = written + 1, Stream' = Stream \o <<written + 1>>
      PROVE  StreamAscends'
  <2>1. <<written + 1>> \in Seq(Byte) /\ DOMAIN <<written + 1>> = {1}
    BY <1>1 DEF Byte
  <2>2. \A i \in DOMAIN Stream' :
            \/ i \in DOMAIN Stream /\ Stream'[i] = Stream[i]
            \/ i \in Int /\ i - Len(Stream) \in {1} /\ Stream'[i] = written'
    <3>1. \A i \in DOMAIN Stream' :
              \/ i \in DOMAIN Stream /\ Stream'[i] = Stream[i]
              \/ /\ i \in Int /\ i - Len(Stream) \in DOMAIN <<written + 1>>
                 /\ Stream'[i] = <<written + 1>>[i - Len(Stream)]
      BY <1>1, <1>4, <2>1, InConcat
    <3> QED
      BY <1>4, <2>1, <3>1
  <2>3. \A i \in DOMAIN Stream' : Stream'[i] \in 1 .. written'
    BY <1>1, <1>4, <2>2 DEF StreamAscends
  <2>4. ASSUME NEW i \in DOMAIN Stream', NEW j \in DOMAIN Stream', i < j
        PROVE  Stream'[i] < Stream'[j]
    <3>1. CASE i \in DOMAIN Stream /\ j \in DOMAIN Stream /\ Stream'[i] = Stream[i]
               /\ Stream'[j] = Stream[j]
      BY <2>4, <3>1 DEF StreamAscends
    <3>2. CASE i \in DOMAIN Stream /\ Stream'[i] = Stream[i] /\ Stream'[j] = written'
      BY <1>1, <1>4, <3>2 DEF StreamAscends
    <3> QED
      BY <1>1, <2>2, <2>4, <3>1, <3>2
  <2> QED
    BY <2>3, <2>4 DEF StreamAscends
<1> QED
  <2>1. xmit_pending \in Nat /\ 0 \in Nat /\ get_rb_length(rx) \in Nat
    BY OrderTypes
  <2> QED
    BY <1>2, <1>3, <1>4, <2>1, StreamStep

\* What the device accepts in a step has been written, comes no later than what it
\* has not accepted, and skips nothing.
LEMMA BeforeStep ==
    ASSUME TypeOK, TypeOK', CopyInv, OneWrite, StreamAscends, AcceptedBefore, NoneSkipped,
           [Next]_vars
    PROVE  AcceptedBefore'
<1>1. /\ accepted \in Seq(Byte) /\ Len(accepted) \in Nat /\ DOMAIN accepted = 1 .. Len(accepted)
      /\ \A i \in DOMAIN accepted : accepted[i] \in Nat
      /\ Len(Stream) \in Nat /\ DOMAIN Stream = 1 .. Len(Stream) /\ written \in Nat
      /\ xmit_pending \in Nat
  BY OrderTypes
<1>2. written' = written \/ written' = written + 1
  BY StreamStep
<1>3. CASE AcceptsNothing
  BY <1>1, <1>2, <1>3 DEF AcceptsNothing, AcceptedBefore, Elements
<1>4. CASE AcceptsFront
  <2>0. xmit_pending \in 1 .. Len(Stream)
    BY <1>4 DEF AcceptsFront
  <2>1. \A n \in 1 .. xmit_pending : n \in DOMAIN Stream /\ Stream[n] \in 1 .. written
    BY <1>1, <2>0 DEF StreamAscends
  <2>2. \A i \in DOMAIN accepted' : accepted'[i] \in 1 .. written
    BY <1>1, <1>4, <2>1 DEF AcceptsFront, AcceptedBefore, Elements
  <2>3. Elements(accepted)' \subseteq 1 .. written'
    BY <1>1, <1>2, <2>2 DEF Elements
  <2>4. DOMAIN accepted' \subseteq Nat
    <3>1. accepted' \in Seq(Byte)
      BY DEF TypeOK, PortOK
    <3> QED
      BY <3>1, LenProperties
  <2>5. ASSUME NEW i \in DOMAIN accepted', NEW j \in DOMAIN accepted', i < j,
               accepted'[j] < accepted'[i]
        PROVE  \E k \in 1 .. i : accepted'[k] = accepted'[j]
    <3>1. CASE j \in DOMAIN accepted
      <4>1. i \in DOMAIN accepted
        <5>1. DOMAIN accepted' = 1 .. Len(accepted')
          <6>1. accepted' \in Seq(Byte)
            BY DEF TypeOK, PortOK
          <6> QED
            BY <6>1, LenProperties
        <5>2. i \in Nat /\ 1 <= i /\ i < j /\ j <= Len(accepted) /\ j \in Nat
          BY <1>1, <2>4, <2>5, <3>1, <5>1
        <5> QED
          BY <1>1, <5>2
      <4>2. accepted'[i] = accepted[i] /\ accepted'[j] = accepted[j]
        BY <1>4, <3>1, <4>1 DEF AcceptsFront
      <4>3. PICK k \in 1 .. i : accepted[k] = accepted[j]
        BY <2>5, <3>1, <4>1, <4>2 DEF AcceptedBefore
      <4>4. k \in DOMAIN accepted
        BY <1>1, <4>1
      <4> QED
        BY <1>4, <4>2, <4>3, <4>4 DEF AcceptsFront
    <3>2. CASE j \notin DOMAIN accepted /\ i \in DOMAIN accepted
      <4> DEFINE n == j - Len(accepted)
      <4>1. n \in 1 .. xmit_pending /\ accepted'[j] = Stream[n] /\ accepted'[i] = accepted[i]
        BY <1>4, <3>2 DEF AcceptsFront
      <4>2. n \in DOMAIN Stream
        BY <2>1, <4>1
      <4> HIDE DEF n
      <4>3. PICK k \in 1 .. i : accepted[k] = Stream[n]
        BY <2>5, <3>2, <4>1, <4>2 DEF NoneSkipped
      <4>4. k \in DOMAIN accepted
        BY <1>1, <3>2
      <4> QED
        BY <1>4, <4>1, <4>3, <4>4 DEF AcceptsFront
    <3>3. CASE j \notin DOMAIN accepted /\ i \notin DOMAIN accepted
      <4> DEFINE n == j - Len(accepted)
                 m == i - Len(accepted)
      <4>1. /\ n \in 1 .. xmit_pending /\ accepted'[j] = Stream[n]
            /\ m \in 1 .. xmit_pending /\ accepted'[i] = Stream[m]
        BY <1>4, <3>3 DEF AcceptsFront
      <4>2. n \in DOMAIN Stream /\ m \in DOMAIN Stream /\ Stream[n] \in Nat /\ Stream[m] \in Nat
        BY <2>1, <4>1
      <4>3. m < n
        BY <1>1, <2>4, <2>5
      <4> HIDE DEF n, m
      <4>4. Stream[m] < Stream[n]
        BY <4>2, <4>3 DEF StreamAscends
      <4> QED
        BY <2>5, <4>1, <4>2, <4>4
    <3> QED
      BY <3>1, <3>2, <3>3
  <2> QED
    BY <2>3, <2>5 DEF AcceptedBefore
<1> QED
  BY <1>3, <1>4, AcceptStep

\* Nothing is skipped: what is appended to the stream is later than all that was accepted,
\* and what is accepted comes from its front.
LEMMA SkipStep ==
    ASSUME TypeOK, TypeOK', CopyInv, OneWrite, StreamAscends, AcceptedBefore, NoneSkipped,
           [Next]_vars
    PROVE  NoneSkipped'
<1>1. /\ Len(accepted) \in Nat /\ DOMAIN accepted = 1 .. Len(accepted)
      /\ \A i \in DOMAIN accepted : accepted[i] \in Nat
      /\ Stream \in Seq(Byte) /\ Len(Stream) \in Nat /\ DOMAIN Stream = 1 .. Len(Stream)
      /\ written \in Nat /\ xmit_pending \in Nat
  BY OrderTypes
<1>2. CASE AcceptsNothing
  <2>1. ASSUME NEW n \in Nat, Shrunk(n) PROVE NoneSkipped'
    BY <1>2, <2>1 DEF AcceptsNothing, Shrunk, NoneSkipped
  <2>2. ASSUME Stream' = Stream PROVE NoneSkipped'
    BY <1>2, <2>2 DEF AcceptsNothing, NoneSkipped
  <2>3. ASSUME Stream' = Stream \o <<written + 1>> PROVE NoneSkipped'
    <3>1. <<written + 1>> \in Seq(Byte) /\ DOMAIN <<written + 1>> = {1}
      BY <1>1 DEF Byte
    <3>2. \A j \in DOMAIN Stream' :
              \/ j \in DOMAIN Stream /\ Stream'[j] = Stream[j]
              \/ /\ j \in Int /\ j - Len(Stream) \in DOMAIN <<written + 1>>
                 /\ Stream'[j] = <<written + 1>>[j - Len(Stream)]
      BY <1>1, <2>3, <3>1, InConcat
    <3>3. ASSUME NEW i \in DOMAIN accepted, NEW j \in DOMAIN Stream', Stream'[j] < accepted[i]
          PROVE  \E k \in 1 .. i : accepted[k] = Stream'[j]
      <4>1. accepted[i] \in 1 .. written
        BY DEF AcceptedBefore, Elements
      <4>2. Stream'[j] # written + 1
        BY <1>1, <3>3, <4>1
      <4>3. j \in DOMAIN Stream /\ Stream'[j] = Stream[j]
        BY <3>1, <3>2, <4>2
      <4> QED
        BY <3>3, <4>3 DEF NoneSkipped
    <3> QED
      BY <1>2, <3>3 DEF AcceptsNothing, NoneSkipped
  <2>4. 0 \in Nat /\ get_rb_length(rx) \in Nat
    BY OrderTypes
  <2> QED
    BY <1>1, <2>1, <2>2, <2>3, <2>4, StreamStep
<1>3. CASE AcceptsFront /\ Stream' = Stream
  <2>1. DOMAIN accepted' \subseteq Nat
    <3>1. accepted' \in Seq(Byte)
      BY DEF TypeOK, PortOK
    <3> QED
      BY <3>1, LenProperties
  <2>2. ASSUME NEW i \in DOMAIN accepted', NEW j \in DOMAIN Stream, Stream[j] < accepted'[i]
        PROVE  \E k \in 1 .. i : accepted'[k] = Stream[j]
    <3>1. CASE i \in DOMAIN accepted
      <4>1. accepted'[i] = accepted[i]
        BY <1>3, <3>1 DEF AcceptsFront
      <4>2. PICK k \in 1 .. i : accepted[k] = Stream[j]
        BY <2>2, <3>1, <4>1 DEF NoneSkipped
      <4>3. k \in DOMAIN accepted
        BY <1>1, <3>1
      <4> QED
        BY <1>3, <4>2, <4>3 DEF AcceptsFront
    <3>2. CASE i \notin DOMAIN accepted
      <4> DEFINE n == i - Len(accepted)
      <4>1. n \in 1 .. xmit_pending /\ accepted'[i] = Stream[n] /\ xmit_pending \in 1 .. Len(Stream)
        BY <1>3, <3>2 DEF AcceptsFront
      <4>2. n \in DOMAIN Stream /\ n + Len(accepted) = i
        BY <1>1, <2>1, <4>1
      <4> HIDE DEF n
      <4>3. Stream[n] \in Nat /\ Stream[j] \in Nat
        BY <1>1, <4>2, ElementOfSeq DEF Byte
      <4>4. j < n
        <5>1. CASE j = n
          BY <2>2, <4>1, <4>3, <5>1
        <5>2. CASE n < j
          <6>1. Stream[n] < Stream[j]
            BY <4>2, <5>2 DEF StreamAscends
          <6> QED
            BY <2>2, <4>1, <4>3, <6>1
        <5> QED
          BY <1>1, <4>2, <5>1, <5>2
      <4>5. j \in 1 .. xmit_pending /\ j + Len(accepted) \in 1 .. i
        BY <1>1, <4>1, <4>2, <4>4
      <4>6. accepted'[j + Len(accepted)] = Stream[j]
        BY <1>3, <4>5 DEF AcceptsFront
      <4> QED
        BY <4>5, <4>6
    <3> QED
      BY <3>1, <3>2
  <2> QED
    BY <1>3, <2>2 DEF NoneSkipped
<1> QED
  BY <1>2, <1>3, AcceptStep

\* What is accepted stays accepted.
LEMMA AcceptedStays ==
    ASSUME TypeOK, OneWrite, [Next]_vars, NEW b, \E k \in DOMAIN accepted : accepted[k] = b
    PROVE  \E k \in DOMAIN accepted' : accepted'[k] = b
<1>1. CASE AcceptsNothing
  BY <1>1 DEF AcceptsNothing
<1>2. CASE AcceptsFront
  BY <1>2 DEF AcceptsFront
<1> QED
  BY <1>1, <1>2, AcceptStep

\* The answers to WRITEs after the device has answered: those before, and that to the
\* WRITE whose bytes it has accepted or not.
LEMMA AnswersAfter ==
    ASSUME TypeOK, TypeOK', OneWrite, AnswersFirst \/ SendsUnasked, NEW i \in WriteAnswers'
    PROVE  \/ i \in WriteAnswers /\ toHost'[i] = toHost[i]
           \/ /\ AnswersFirst /\ WritesSent # {}
              /\ toHost'[i].st = "ok" => AcceptsFront
<1>1. toHost \in Seq(ToHost) /\ toDev \in Seq(ToDev)
  BY DEF TypeOK, LinkOK
<1>2. CASE SendsUnasked
  <2>1. PICK s \in Seq(ToHost) :
            toHost' = toHost \o s /\ \A n \in DOMAIN s : s[n].op # "write"
    BY <1>2 DEF SendsUnasked
  <2>2. \A n \in DOMAIN toHost' :
            \/ n \in DOMAIN toHost /\ toHost'[n] = toHost[n]
            \/ n \in Int /\ n - Len(toHost) \in DOMAIN s /\ toHost'[n] = s[n - Len(toHost)]
    BY <1>1, <2>1, InConcat
  <2> QED
    BY <2>1, <2>2 DEF WriteAnswers
<1>3. CASE AnswersFirst
  <2> DEFINE p == Head(toDev)
  <2>1. PICK s \in Seq(ToHost) : toHost' = toHost \o s /\ IsAnswer(s, p)
    BY <1>3 DEF AnswersFirst
  <2>2. \A n \in DOMAIN toHost' :
            \/ n \in DOMAIN toHost /\ toHost'[n] = toHost[n]
            \/ n \in Int /\ n - Len(toHost) \in DOMAIN s /\ toHost'[n] = s[n - Len(toHost)]
    BY <1>1, <2>1, InConcat
  <2>3. toDev # <<>>
    BY <1>3 DEF AnswersFirst
  <2>4. 1 \in DOMAIN toDev /\ toDev[1] = p
    BY <1>1, <2>3, InTail
  <2> HIDE DEF p
  <2>5. CASE ~(i \in DOMAIN toHost /\ toHost'[i] = toHost[i])
    <3>1. i - Len(toHost) \in DOMAIN s /\ toHost'[i] = s[i - Len(toHost)]
          /\ toHost'[i].op = "write"
      BY <2>2, <2>5 DEF WriteAnswers
    <3>2. p.op = "write"
      BY <2>1, <3>1 DEF IsAnswer
    <3>3. 1 \in WritesSent
      BY <2>4, <3>2 DEF WritesSent
    <3>4. ASSUME toHost'[i].st = "ok" PROVE AcceptsFront
      <4>1. accepted' = accepted \o p.data
        BY <2>1, <3>1, <3>4 DEF IsAnswer
      <4>2. p.data = Peek(rx, rxd, xmit_pending) /\ xmit_pending > 0
            /\ xmit_pending <= get_rb_length(rx)
        BY <2>4, <3>3 DEF OneWrite
      <4>3. ~AcceptsNothing
        <5>1. /\ rx \in Ring /\ rxd \in [Pos -> Byte] /\ circ \in Seq(Byte)
              /\ xmit_pending \in Nat /\ accepted \in Seq(Byte) /\ Len(accepted) \in Nat
          BY OrderTypes
        <5>2. \A m \in Nat : m <= get_rb_length(rx) =>
                  Peek(rx, rxd, m) \in Seq(Byte) /\ Len(Peek(rx, rxd, m)) = m
          BY <5>1, StreamFacts
        <5>3. p.data \in Seq(Byte) /\ Len(p.data) = xmit_pending
          BY <4>2, <5>1, <5>2
        <5>4. Len(accepted \o p.data) = Len(accepted) + Len(p.data)
          BY <5>1, <5>3, ConcatProperties
        <5> QED
          BY <4>1, <4>2, <5>1, <5>3, <5>4 DEF AcceptsNothing
      <4> QED
        BY <1>3, <4>3, AnswerAccepts
    <3> QED
      BY <1>3, <3>3, <3>4
  <2> QED
    BY <2>5 DEF WriteAnswers
<1> QED
  BY <1>2, <1>3

\* An answer follows the acceptance it reports.
LEMMA MeansStep ==
    ASSUME TypeOK, TypeOK', StackSound, CopyInv, OneWrite, AnswerMeansAccepted, [Next]_vars
    PROVE  AnswerMeansAccepted'
<1>1. /\ xmit_pending \in Nat /\ toHost \in Seq(ToHost)
      /\ rx \in Ring /\ rxd \in [Pos -> Byte] /\ circ \in Seq(Byte)
      /\ get_rb_length(rx) \in Nat /\ get_rb_length(rx) <= Len(Stream) /\ Len(Stream) \in Nat
      /\ DOMAIN Stream = 1 .. Len(Stream) /\ Stream \in Seq(Byte)
  BY OrderTypes DEF TypeOK, LinkOK
<1>2. ASSUME UNCHANGED xmit_pending, \A n \in 1 .. get_rb_length(rx) : Stream'[n] = Stream[n],
             \A i \in WriteAnswers' : \E j \in WriteAnswers : toHost'[i] = toHost[j]
      PROVE  AnswerMeansAccepted'
  <2>1. ASSUME NEW i \in WriteAnswers', toHost'[i].st = "ok", NEW n \in 1 .. xmit_pending
        PROVE  \E k \in DOMAIN accepted' : accepted'[k] = Stream'[n]
    <3>1. PICK j \in WriteAnswers : toHost'[i] = toHost[j]
      BY <1>2
    <3>2. \E k \in DOMAIN accepted : accepted[k] = Stream[n]
      BY <2>1, <3>1 DEF AnswerMeansAccepted
    <3>3. n \in 1 .. get_rb_length(rx)
      BY <1>1 DEF OneWrite
    <3> QED
      BY <1>2, <3>2, <3>3, AcceptedStays
  <2> QED
    BY <1>2, <2>1 DEF AnswerMeansAccepted
<1>3. ASSUME WriteAnswers' = {} \/ xmit_pending' = 0 PROVE AnswerMeansAccepted'
  BY <1>3 DEF AnswerMeansAccepted
<1>4. CASE Tty
  <2>1. UNCHANGED <<xmit_pending, toHost>> /\ WriteAnswers' = WriteAnswers
    BY <1>4 DEF Tty, deviceVars, linkVars, daemonVars, stateVars, WriteAnswers
  <2>2. \A n \in 1 .. get_rb_length(rx) : Stream'[n] = Stream[n]
    <3>1. ASSUME written' = written + 1, Stream' = Stream \o <<written + 1>>
          PROVE  \A n \in 1 .. get_rb_length(rx) : Stream'[n] = Stream[n]
      <4>1. <<written + 1>> \in Seq(Byte)
        <5>1. written \in Nat
          BY OrderTypes
        <5> QED
          BY <5>1 DEF Byte
      <4>2. \A n \in DOMAIN Stream : Stream'[n] = Stream[n]
        BY <1>1, <3>1, <4>1, InConcat
      <4> QED
        BY <1>1, <4>2
    <3>2. ASSUME Stream' = Unread(rx, rxd)
          PROVE  \A n \in 1 .. get_rb_length(rx) : Stream'[n] = Stream[n]
      <4>1. Unread(rx, rxd) = Peek(rx, rxd, get_rb_length(rx))
        BY DEF Unread
      <4>2. \A m \in Nat : m <= get_rb_length(rx) =>
                \A n \in 1 .. m : Peek(rx, rxd, m)[n] = Stream[n]
        BY <1>1, StreamFacts DEF Stream
      <4>3. \A n \in 1 .. get_rb_length(rx) : Peek(rx, rxd, get_rb_length(rx))[n] = Stream[n]
        BY <1>1, <4>2
      <4> QED
        BY <3>2, <4>1, <4>3
    <3> QED
      BY <1>4, <3>1, <3>2, TtyStream
  <2> QED
    BY <1>2, <2>1, <2>2
<1>5. CASE DeviceAnswers \/ DeviceActs
  <2>1. UNCHANGED xmit_pending /\ Stream' = Stream
    BY <1>5 DEF DeviceAnswers, DeviceActs, daemonVars, stateVars, driverVars, ringVars, ttyVars,
       Stream
  <2>2. AnswersFirst \/ SendsUnasked
    BY <1>5, DeviceLink
  <2>3. ASSUME NEW i \in WriteAnswers', toHost'[i].st = "ok", NEW n \in 1 .. xmit_pending
        PROVE  \E k \in DOMAIN accepted' : accepted'[k] = Stream[n]
    <3>1. CASE i \in WriteAnswers /\ toHost'[i] = toHost[i]
      <4>1. \E k \in DOMAIN accepted : accepted[k] = Stream[n]
        BY <2>3, <3>1 DEF AnswerMeansAccepted
      <4> QED
        BY <4>1, AcceptedStays
    <3>2. CASE AcceptsFront
      BY <3>2 DEF AcceptsFront
    <3> QED
      BY <2>2, <2>3, <3>1, <3>2, AnswersAfter
  <2> QED
    BY <2>1, <2>3 DEF AnswerMeansAccepted
<1>6. CASE stk_excp \/ main
  <2>1. toHost' = <<>>
    BY <1>6 DEF stk_excp, main, vc_netdown_init
  <2>2. WriteAnswers' = {}
    BY <2>1 DEF WriteAnswers
  <2> QED
    BY <1>3, <2>2
<1>7. CASE UNCHANGED vars
  BY <1>7 DEF vars, driverVars, ringVars, ttyVars, deviceVars, linkVars, portVars, daemonVars,
     stateVars, AnswerMeansAccepted, WriteAnswers, Stream
<1>8. CASE DaemonStep /\ ~stk_excp
  <2>1. CASE SendsOther /\ TakesOther /\ xmit_pending' = xmit_pending
    <3>1. \A i \in WriteAnswers' : \E j \in WriteAnswers : toHost'[i] = toHost[j]
      BY <1>1, <2>1, OtherTaken DEF TakesOther
    <3>2. CASE Stream' = Stream
      BY <1>2, <2>1, <3>1, <3>2
    <3>3. CASE Dropped
      BY <1>3, <3>3 DEF Dropped
    <3> QED
      BY <1>8, <3>2, <3>3, DaemonStream DEF vc_common_close
  <2>2. CASE SendsWrite
    <3>1. xmit_pending = 0 /\ toHost' = toHost
      BY <2>2 DEF SendsWrite, vc_common_xmit, MayXmit
    <3>2. WriteAnswers = {}
      BY <3>1 DEF OneWrite
    <3> QED
      BY <1>3, <3>1, <3>2 DEF WriteAnswers
  <2>3. CASE TakesWritten
    BY <1>3, <2>3 DEF TakesWritten
  <2> QED
    BY <1>8, <2>1, <2>2, <2>3, DaemonLink
<1> QED
  BY <1>4, <1>5, <1>6, <1>7, <1>8 DEF Next

\* InOrder holds throughout.
THEOREM InOrderInvariant == Spec => []InOrder
<1>1. Init => InOrder
  <2> SUFFICES ASSUME Init PROVE InOrder
    OBVIOUS
  <2>1. /\ rx = [head |-> 0, tail |-> 0, on |-> FALSE, clean |-> FALSE] /\ circ = <<>>
        /\ accepted = <<>> /\ toHost = <<>>
    BY DEF Init, adv_main_init, DeviceInit
  <2>2. Unread(rx, rxd) = <<>>
    BY <2>1, SizeAssumption DEF Unread, Peek, get_rb_length
  <2>3. Stream = <<>> /\ DOMAIN <<>> = {} /\ WriteAnswers = {}
    BY <2>1, <2>2 DEF Stream, WriteAnswers
  <2> QED
    BY <2>1, <2>3 DEF InOrder, StreamAscends, AcceptedBefore, NoneSkipped, AnswerMeansAccepted,
       Elements
<1>2. TypeOK /\ TypeOK' /\ StackSound /\ CopyInv /\ OneWrite /\ InOrder /\ [Next]_vars => InOrder'
  BY AscendsStep, BeforeStep, SkipStep, MeansStep DEF InOrder
<1> QED
  BY <1>1, <1>2, TypeCorrect, StackCorrect, CopyInvariant, OneWriteInvariant, PTL DEF Spec

(***************************************************************************)
(* The first time the port is open, the device gets every byte.            *)
(***************************************************************************)

\* Until the port is opened there is nothing.  Until it is closed for the first time
\* the stream has no gap, and begins within, or just behind, what was accepted.
Unopened ==
    left["open"] = Budget["open"] =>
        /\ ~attr.open /\ ~usr.open /\ ~eki.open
        /\ Stream = <<>> /\ accepted = <<>> /\ written = 0
Gapless ==
    /\ \A i \in DOMAIN Stream : Stream[i] = written - Len(Stream) + i
    /\ \E m \in written - Len(Stream) .. written : Elements(accepted) = 1 .. m
FirstOpening ==
    attr.open /\ left["open"] + 1 = Budget["open"] => (eki.open => usr.open) /\ Gapless

\* The daemon leaves what the tty side asks for alone.
LEMMA AttrKept ==
    ASSUME DaemonStep
    PROVE  attr' = attr
  BY DEF DaemonStep, vc_netdown_open, vc_netdown_open_fails, vc_common_close, NothingToOpen,
     vc_common_ioctl, NothingToSet, vc_common_xmit, NothingToXmit, vc_netup_pause, NothingToPause,
     event, adv_main_interrupt, select, vc_netup_poll, vc_idle_poll, NothingToPoll, AttrEvent,
     NoPacket, RecvExcp, vc_idle_recv, RecvOther, vc_sync_recv, RecvData, RecvWritten, RxEvent,
     vc_pause_resume, NothingToResume, driverVars, attrVars

\* What a step does to the two halves of the attributes, and to the daemon's notion of
\* them: the tty opens only with adv_uart_startup, the daemon copies what the tty side
\* says, and opens the device only for a port that it sees open.
LEMMA OpenSteps ==
    ASSUME TypeOK, [Next]_vars
    PROVE  /\ adv_uart_startup \/ (attr'.open => attr.open)
           /\ usr' = usr \/ usr' = attr
           /\ attr' = attr \/ usr' = usr
           /\ eki'.open => eki.open \/ usr.open
           /\ adv_uart_startup => eki' = eki /\ usr' = usr
           /\ eki'.open => eki.open \/ usr' = usr
<1> USE DEF attrVars, driverVars, daemonVars, stateVars
<1>1. attr \in Attr /\ eki \in Eki
  BY DEF TypeOK, PortOK, LinkOK
<1>2. stk_excp => ~eki'.open
  BY DEF stk_excp, vc_netdown_init, EkiUndef
<1>3. SendFails => ~eki'.open
  BY <1>2 DEF SendFails
<1>4. CASE Tty
  <2>1. eki' = eki
    BY <1>4 DEF Tty
  <2>2. adv_uart_startup => usr' = usr
    BY DEF adv_uart_startup
  <2>3. CASE adv_uart_startup
    BY <2>1, <2>2, <2>3
  <2>4. CASE ~adv_uart_startup
    <3>1. usr' = usr /\ (attr'.open => attr.open)
      BY <1>1, <1>4, <2>4 DEF Tty, TtyStep, adv_uart_stop_rx, adv_uart_shutdown, adv_uart_start_tx,
         adv_uart_stop_tx, adv_uart_restart_tx, adv_uart_throttle, adv_uart_unthrottle,
         adv_uart_set_termios, adv_uart_set_mctrl, Attr
    <3> QED
      BY <2>1, <2>4, <3>1
  <2> QED
    BY <2>3, <2>4
<1>5. ASSUME UNCHANGED attr PROVE ~adv_uart_startup
  BY <1>1, <1>5 DEF adv_uart_startup, Attr
<1>6. CASE DeviceAnswers \/ DeviceActs \/ UNCHANGED vars
  <2>1. UNCHANGED <<attr, usr, eki>>
    BY <1>6 DEF DeviceAnswers, DeviceActs, vars
  <2> QED
    BY <1>5, <2>1
<1>7. CASE main
  BY <1>5, <1>7 DEF main, flush_attr_info, vc_netdown_init, EkiUndef
<1>8. CASE DaemonStep
  <2>1. attr' = attr
    BY <1>8, AttrKept
  <2>2. CASE AttrEvent
    BY <1>5, <2>1, <2>2 DEF AttrEvent, flush_attr_info
  <2>3. CASE ~AttrEvent
    <3>1. usr' = usr
      BY <1>8, <2>3 DEF DaemonStep, vc_netdown_open, vc_netdown_open_fails, vc_common_close,
         NothingToOpen, vc_common_ioctl, NothingToSet, vc_common_xmit, NothingToXmit, vc_netup_pause,
         NothingToPause, event, adv_main_interrupt, select, vc_netup_poll, vc_idle_poll,
         NothingToPoll, NoPacket, RecvExcp, vc_idle_recv, RecvOther, vc_sync_recv, RecvData,
         RecvWritten, RxEvent, vc_pause_resume, NothingToResume
    <3>2. eki'.open => eki.open \/ usr.open
      <4>1. CASE \/ vc_netdown_open \/ vc_netdown_open_fails \/ vc_common_close \/ NothingToOpen
                 \/ vc_common_ioctl \/ NothingToSet \/ vc_common_xmit \/ NothingToXmit
                 \/ vc_netup_pause \/ NothingToPause \/ event \/ adv_main_interrupt
        BY <1>1, <1>2, <1>3, <4>1 DEF vc_netdown_open, vc_netdown_open_fails, vc_common_close,
           NothingToOpen, vc_common_ioctl, NothingToSet, vc_common_xmit, NothingToXmit,
           vc_netup_pause, NothingToPause, event, adv_main_interrupt, Eki
      <4>2. CASE \/ select \/ vc_netup_poll \/ vc_idle_poll \/ NothingToPoll \/ NoPacket
                 \/ RecvExcp \/ vc_idle_recv \/ RecvOther \/ vc_sync_recv \/ RecvData
                 \/ RecvWritten \/ RxEvent \/ vc_pause_resume \/ NothingToResume
        BY <1>2, <1>3, <4>2 DEF select, vc_netup_poll, vc_idle_poll, NothingToPoll, NoPacket,
           RecvExcp, vc_idle_recv, RecvOther, vc_sync_recv, RecvData, RecvWritten, RxEvent,
           vc_pause_resume, NothingToResume
      <4> QED
        BY <1>8, <2>3, <4>1, <4>2 DEF DaemonStep
    <3> QED
      BY <1>5, <2>1, <3>1, <3>2
  <2> QED
    BY <2>2, <2>3
<1> QED
  BY <1>4, <1>6, <1>7, <1>8 DEF Next

\* A stream without bytes is empty.
LEMMA EmptyStream ==
    ASSUME NEW s \in Seq(Byte), \A i \in DOMAIN s : FALSE
    PROVE  s = <<>> /\ Len(s) = 0
<1>1. Len(s) \in Nat /\ DOMAIN s = 1 .. Len(s)
  BY LenProperties
<1>2. Len(s) = 0
  <2>1. 1 \notin 1 .. Len(s)
    BY <1>1
  <2> QED
    BY <1>1, <2>1
<1> QED
  BY <1>2, EmptySeq

\* Unopened and FirstOpening are inductive, relative to the invariants before.
LEMMA UnopenedStep ==
    ASSUME TypeOK, TypeOK', StackSound, CopyInv, OneWrite, Budgeted, Unopened, [Next]_vars
    PROVE  Unopened'
<1> SUFFICES ASSUME left'["open"] = Budget["open"] PROVE Unopened'
  BY DEF Unopened
<1>1. "open" \in Events /\ Budget["open"] \in Nat
  BY DriverAssumption DEF Events
<1>2. left["open"] = Budget["open"] /\ ~adv_uart_startup
  <2>1. left["open"] = Budget["open"]
    BY <1>1, BudgetStep DEF Never
  <2>2. adv_uart_startup => left'["open"] = left["open"] - 1
    BY <1>1 DEF adv_uart_startup, Spend, TypeOK, PortOK
  <2> QED
    BY <1>1, <2>1, <2>2
<1>3. ~attr.open /\ ~usr.open /\ ~eki.open /\ Stream = <<>> /\ accepted = <<>> /\ written = 0
  BY <1>2 DEF Unopened
<1>4. ~attr'.open /\ ~usr'.open /\ ~eki'.open
  BY <1>2, <1>3, OpenSteps
<1>5. AcceptsNothing
  BY <1>3, AcceptStep DEF AcceptsFront
<1>6. written' = written /\ (Stream' = Stream \/ \E n \in Nat : Shrunk(n))
  <2>1. ~adv_uart_start_tx /\ ~vc_common_close
    BY <1>3 DEF adv_uart_start_tx, vc_common_close
  <2>2. xmit_pending \in Nat
    BY OrderTypes
  <2> QED
    BY <1>2, <2>1, <2>2, StreamStep
<1>7. Stream' = <<>>
  <2>1. ASSUME NEW n \in Nat, Shrunk(n) PROVE Stream' = <<>>
    <3>1. \A i \in DOMAIN Stream' : FALSE
      BY <1>3, <2>1 DEF Shrunk
    <3>2. Stream' \in Seq(Byte)
      <4>1. rx' \in Ring /\ rxd' \in [Pos -> Byte] /\ circ' \in Seq(Byte)
        BY DEF TypeOK, RingsOK
      <4> QED
        BY <4>1, StreamFacts DEF Stream
    <3> QED
      BY <3>1, <3>2, EmptyStream
  <2> QED
    BY <1>3, <1>6, <2>1
<1> QED
  BY <1>3, <1>4, <1>5, <1>6, <1>7 DEF Unopened, AcceptsNothing

\* Gapless survives what happens while the port is open for the first time.
LEMMA GaplessStep ==
    ASSUME TypeOK, TypeOK', CopyInv, OneWrite, StreamAscends, AnswerMeansAccepted, Gapless,
           [Next]_vars, ~adv_uart_startup, ~vc_common_close
    PROVE  Gapless'
<1>1. /\ Stream \in Seq(Byte) /\ Len(Stream) \in Nat /\ DOMAIN Stream = 1 .. Len(Stream)
      /\ written \in Nat /\ xmit_pending \in Nat /\ DOMAIN accepted = 1 .. Len(accepted)
      /\ get_rb_length(rx) \in Nat /\ get_rb_length(rx) <= Len(Stream) /\ Len(accepted) \in Nat
  BY OrderTypes
<1>2. Stream' \in Seq(Byte) /\ Len(Stream') \in Nat /\ DOMAIN Stream' = 1 .. Len(Stream')
  <2>1. rx' \in Ring /\ rxd' \in [Pos -> Byte] /\ circ' \in Seq(Byte)
    BY DEF TypeOK, RingsOK
  <2> QED
    BY <2>1, StreamFacts DEF Stream
<1>3. PICK m \in written - Len(Stream) .. written : Elements(accepted) = 1 .. m
  BY DEF Gapless
<1>4. \A i \in 1 .. Len(Stream) : Stream[i] = written - Len(Stream) + i
  BY <1>1 DEF Gapless
<1>5. CASE AcceptsNothing /\ Stream' = Stream /\ written' = written
  BY <1>5 DEF AcceptsNothing, Gapless, Elements
<1>6. CASE AcceptsNothing /\ written' = written + 1 /\ Stream' = Stream \o <<written + 1>>
  <2>1. <<written + 1>> \in Seq(Byte) /\ Len(<<written + 1>>) = 1 /\ <<written + 1>>[1] = written + 1
    BY <1>1 DEF Byte
  <2>2. /\ Len(Stream') = Len(Stream) + 1
        /\ \A i \in 1 .. Len(Stream) + 1 :
               Stream'[i] = IF i <= Len(Stream) THEN Stream[i] ELSE <<written + 1>>[i - Len(Stream)]
    BY <1>1, <1>6, <2>1, ConcatProperties
  <2>3. \A i \in 1 .. Len(Stream) + 1 : Stream'[i] = written' - Len(Stream') + i
    <3> SUFFICES ASSUME NEW i \in 1 .. Len(Stream) + 1
                 PROVE  Stream'[i] = written' - Len(Stream') + i
      OBVIOUS
    <3>1. CASE i <= Len(Stream)
      <4>1. Stream'[i] = Stream[i] /\ i \in 1 .. Len(Stream)
        BY <1>1, <2>2, <3>1
      <4> QED
        BY <1>1, <1>4, <1>6, <2>2, <4>1
    <3>2. CASE i = Len(Stream) + 1
      <4>1. i - Len(Stream) = 1 /\ ~(i <= Len(Stream))
        BY <1>1, <3>2
      <4>2. Stream'[i] = written + 1
        BY <2>1, <2>2, <4>1
      <4> QED
        BY <1>1, <1>6, <2>2, <3>2, <4>2
    <3> QED
      BY <1>1, <3>1, <3>2
  <2>4. m \in written' - Len(Stream') .. written' /\ Elements(accepted)' = 1 .. m
    BY <1>1, <1>3, <1>6, <2>2 DEF AcceptsNothing, Elements
  <2> QED
    BY <1>2, <2>2, <2>3, <2>4 DEF Gapless
<1>7. CASE AcceptsNothing /\ Dropped /\ written' = written /\ Shrunk(xmit_pending)
           /\ Len(Stream') = Len(Stream) - xmit_pending
  <2>1. \A i \in DOMAIN Stream' : Stream'[i] = written' - Len(Stream') + i
    BY <1>1, <1>2, <1>4, <1>7 DEF Shrunk
  <2>2. Elements(accepted)' = 1 .. m
    BY <1>3, <1>7 DEF AcceptsNothing, Elements
  <2>3. m \in written' - Len(Stream') .. written'
    <3>1. 1 \in WriteAnswers /\ toHost[1].st = "ok"
      <4>1. toHost \in Seq(ToHost) /\ toHost # <<>> /\ Head(toHost).op = "write"
            /\ Head(toHost).st = "ok"
        BY <1>7 DEF TypeOK, LinkOK, Dropped, RecvWritten, Receiving
      <4> QED
        BY <4>1, InTail DEF WriteAnswers
    <3>2. xmit_pending \in 1 .. xmit_pending /\ xmit_pending \in 1 .. Len(Stream)
      BY <1>1, <3>1 DEF OneWrite
    <3>3. \E k \in DOMAIN accepted : accepted[k] = Stream[xmit_pending]
      BY <3>1, <3>2 DEF AnswerMeansAccepted
    <3>4. Stream[xmit_pending] \in 1 .. m
      BY <1>3, <3>3 DEF Elements
    <3>5. Stream[xmit_pending] = written - Len(Stream) + xmit_pending
      BY <1>4, <3>2
    <3> QED
      BY <1>1, <1>3, <1>7, <3>4, <3>5
  <2> QED
    BY <2>1, <2>2, <2>3 DEF Gapless
<1>8. CASE AcceptsFront /\ Stream' = Stream /\ written' = written
  <2> DEFINE b == written - Len(Stream) + xmit_pending
             n == IF m < b THEN b ELSE m
  <2>1. /\ xmit_pending \in 1 .. Len(Stream)
        /\ \A i \in DOMAIN accepted : i \in DOMAIN accepted' /\ accepted'[i] = accepted[i]
        /\ \A i \in DOMAIN accepted' :
               \/ i \in DOMAIN accepted /\ accepted'[i] = accepted[i]
               \/ /\ i - Len(accepted) \in 1 .. xmit_pending
                  /\ accepted'[i] = Stream[i - Len(accepted)]
        /\ \A i \in 1 .. xmit_pending :
               i + Len(accepted) \in DOMAIN accepted' /\ accepted'[i + Len(accepted)] = Stream[i]
    BY <1>8 DEF AcceptsFront
  <2>3. m \in Int /\ written - Len(Stream) <= m /\ m <= written
        /\ b \in Int /\ b <= written /\ n \in Int /\ n <= written /\ written - Len(Stream) <= n
    BY <1>1, <1>3, <2>1
  <2>4. ASSUME NEW v \in Elements(accepted)' PROVE v \in 1 .. n
    <3>1. PICK i \in DOMAIN accepted' : v = accepted'[i]
      BY <2>4 DEF Elements
    <3>2. CASE i \in DOMAIN accepted /\ accepted'[i] = accepted[i]
      <4>1. v \in 1 .. m
        BY <1>3, <3>1, <3>2 DEF Elements
      <4> QED
        BY <2>3, <4>1
    <3>3. CASE i - Len(accepted) \in 1 .. xmit_pending /\ accepted'[i] = Stream[i - Len(accepted)]
      <4>1. PICK j \in 1 .. xmit_pending : v = Stream[j]
        BY <3>1, <3>3
      <4>2. j \in 1 .. Len(Stream) /\ v = written - Len(Stream) + j
        BY <1>1, <1>4, <2>1, <4>1
      <4>3. v >= 1
        <5>1. \A k \in 1 .. Len(Stream) : Stream[k] \in 1 .. written
          BY <1>1 DEF StreamAscends
        <5>2. Stream[j] \in 1 .. written
          BY <4>2, <5>1
        <5> QED
          BY <1>1, <4>1, <5>2
      <4>4. v <= b
        BY <1>1, <4>1, <4>2
      <4> QED
        BY <1>1, <2>3, <4>2, <4>3, <4>4
    <3> QED
      BY <2>1, <3>1, <3>2, <3>3
  <2>5. ASSUME NEW v \in 1 .. n PROVE v \in Elements(accepted)'
    <3>1. CASE v <= m
      <4>1. v \in Elements(accepted)
        BY <1>3, <2>3, <3>1
      <4>2. PICK i \in DOMAIN accepted : v = accepted[i]
        BY <4>1 DEF Elements
      <4> QED
        BY <2>1, <4>2 DEF Elements
    <3>2. CASE v > m
      <4> DEFINE j == v - (written - Len(Stream))
      <4>1. j \in 1 .. xmit_pending /\ j \in 1 .. Len(Stream)
        BY <1>1, <2>1, <2>3, <3>2
      <4>2. Stream[j] = v
        BY <1>1, <1>4, <4>1
      <4> HIDE DEF j
      <4>3. j + Len(accepted) \in DOMAIN accepted' /\ accepted'[j + Len(accepted)] = v
        BY <2>1, <4>1, <4>2
      <4> QED
        BY <4>3 DEF Elements
    <3> QED
      BY <2>3, <3>1, <3>2
  <2> HIDE DEF n
  <2>6. Elements(accepted)' = 1 .. n
    BY <2>4, <2>5
  <2>7. n \in written' - Len(Stream') .. written'
    BY <1>1, <1>8, <2>3
  <2>8. \A i \in DOMAIN Stream' : Stream'[i] = written' - Len(Stream') + i
    BY <1>1, <1>4, <1>8
  <2> QED
    BY <2>6, <2>7, <2>8 DEF Gapless
<1>9. CASE AcceptsNothing
  BY <1>5, <1>6, <1>7, <1>9, StreamStep
<1>10. CASE AcceptsFront /\ DeviceAnswers /\ Stream' = Stream /\ UNCHANGED <<driverVars, daemonVars>>
  BY <1>8, <1>10 DEF driverVars, ttyVars
<1> QED
  BY <1>9, <1>10, AcceptStep

LEMMA FirstOpeningStep ==
    ASSUME TypeOK, TypeOK', StackSound, CopyInv, OneWrite, StreamAscends,
           AnswerMeansAccepted, Budgeted, Unopened, FirstOpening, [Next]_vars
    PROVE  FirstOpening'
<1> SUFFICES ASSUME attr'.open, left'["open"] + 1 = Budget["open"]
             PROVE  (eki'.open => usr'.open) /\ Gapless'
  BY DEF FirstOpening
<1>1. "open" \in Events /\ Budget["open"] \in Nat /\ left["open"] \in Nat /\ left'["open"] \in Nat
  BY DriverAssumption DEF Events, TypeOK, PortOK
<1>2. CASE adv_uart_startup
  <2>1. left["open"] = Budget["open"]
    <3>1. left'["open"] = left["open"] - 1
      BY <1>1, <1>2 DEF adv_uart_startup, Spend, TypeOK, PortOK
    <3> QED
      BY <1>1, <3>1
  <2>2. ~eki.open /\ Stream = <<>> /\ accepted = <<>> /\ written = 0
    BY <2>1 DEF Unopened
  <2>3. ~eki'.open
    BY <1>2, <2>2, OpenSteps
  <2>4. AcceptsNothing
    BY <2>2, AcceptStep DEF AcceptsFront
  <2>5. written' = written
    BY <1>2 DEF adv_uart_startup
  <2>6. \A i \in DOMAIN Stream' : FALSE
    <3>1. ~adv_uart_start_tx /\ attr' # attr /\ ~DaemonStep
      <4>1. attr'.open # attr.open
        BY <1>2 DEF adv_uart_startup, TypeOK, PortOK, Attr
      <4>2. ~attr.open /\ circ' = <<>> /\ left' # left
        BY <1>1, <1>2 DEF adv_uart_startup, Spend, TypeOK, PortOK
      <4>3. ~adv_uart_start_tx
        BY <4>2 DEF adv_uart_start_tx
      <4> QED
        BY <4>1, <4>3, AttrKept
    <3>2. ~vc_common_close /\ ~Dropped
      BY <3>1 DEF DaemonStep, Dropped
    <3>3. Stream' = Stream \/ Shrunk(0)
      BY <3>1, <3>2, StreamStep
    <3> QED
      BY <2>2, <3>3 DEF Shrunk
  <2>7. Stream' = <<>> /\ Len(Stream') = 0
    <3>1. rx' \in Ring /\ rxd' \in [Pos -> Byte] /\ circ' \in Seq(Byte)
      BY DEF TypeOK, RingsOK
    <3>2. Stream' \in Seq(Byte)
      BY <3>1, StreamFacts DEF Stream
    <3> QED
      BY <2>6, <3>2, EmptyStream
  <2>8. Elements(accepted)' = 1 .. 0
    BY <2>2, <2>4 DEF AcceptsNothing, Elements
  <2>9. 0 \in written' - Len(Stream') .. written'
    BY <2>2, <2>5, <2>7
  <2> QED
    BY <2>3, <2>6, <2>8, <2>9 DEF Gapless
<1>3. CASE ~adv_uart_startup
  <2>1. attr.open /\ left["open"] + 1 = Budget["open"]
    BY <1>1, <1>3, OpenSteps, BudgetStep
  <2>2. (eki.open => usr.open) /\ Gapless
    BY <2>1 DEF FirstOpening
  <2>3. eki'.open => usr'.open
    BY <2>1, <2>2, OpenSteps
  <2>4. ~vc_common_close
    BY <2>2 DEF vc_common_close
  <2> QED
    BY <1>3, <2>2, <2>3, <2>4, GaplessStep
<1> QED
  BY <1>2, <1>3

\* Unopened and FirstOpening hold throughout.
OpeningInv == Budgeted /\ Unopened /\ FirstOpening
THEOREM OpeningInvariant == Spec => []OpeningInv
<1>1. Init => OpeningInv
  <2> SUFFICES ASSUME Init PROVE OpeningInv
    OBVIOUS
  <2>1. /\ rx = [head |-> 0, tail |-> 0, on |-> FALSE, clean |-> FALSE] /\ circ = <<>>
        /\ accepted = <<>> /\ written = 0 /\ ~attr.open /\ ~usr.open /\ ~eki.open
        /\ left = Budget
    BY DEF Init, adv_main_init, DeviceInit, DaemonInit, EkiUndef
  <2>2. Unread(rx, rxd) = <<>>
    BY <2>1, SizeAssumption DEF Unread, Peek, get_rb_length
  <2>3. Stream = <<>>
    BY <2>1, <2>2 DEF Stream
  <2>4. \A e \in Events : Budget[e] \in Nat
    BY DriverAssumption
  <2>5. Budgeted
    BY <2>1, <2>4 DEF Budgeted
  <2> QED
    BY <2>1, <2>3, <2>5 DEF OpeningInv, Unopened, FirstOpening
<1>2. /\ TypeOK /\ TypeOK' /\ StackSound /\ CopyInv /\ OneWrite /\ InOrder /\ OpeningInv
      /\ [Next]_vars
      => OpeningInv'
  BY BudgetStep, UnopenedStep, FirstOpeningStep DEF InOrder, OpeningInv
<1> QED
  BY <1>1, <1>2, TypeCorrect, StackCorrect, CopyInvariant, OneWriteInvariant, InOrderInvariant,
     PTL DEF Spec

\* The device gets bytes of the application only.  It gets them in the order they were
\* written, whatever breaks, is retransmitted or restarted; a byte that arrives after a
\* later one is a repetition.  While the port is open for the first time none is skipped.
THEOREM AcceptedCorrect == Spec => []AcceptedInOrder
<1>1. InOrder /\ OpeningInv => AcceptedInOrder
  <2> SUFFICES ASSUME AcceptedBefore, FirstOpening PROVE AcceptedInOrder
    BY DEF InOrder, OpeningInv
  <2>1. ASSUME attr.open, left["open"] + 1 = Budget["open"]
        PROVE  Elements(accepted) = 1 .. Cardinality(Elements(accepted))
    <3>1. PICK m \in written - Len(Stream) .. written : Elements(accepted) = 1 .. m
      BY <2>1 DEF FirstOpening, Gapless
    <3>2. m \in Int
      OBVIOUS
    <3>3. Cardinality(1 .. m) = IF 1 > m THEN 0 ELSE m - 1 + 1
      BY <3>2, FS_Interval
    <3>4. 1 .. m = 1 .. Cardinality(1 .. m)
      BY <3>2, <3>3
    <3> QED
      BY <3>1, <3>4
  <2> QED
    BY <2>1 DEF AcceptedBefore, AcceptedInOrder
<1> QED
  BY <1>1, InOrderInvariant, OpeningInvariant, PTL

(***************************************************************************)
(* The refinement of TtyPipe.                                              *)
(***************************************************************************)

\* What the ring holds, as the pipe's queue.
LEMMA QueueFacts ==
    ASSUME TypeOK
    PROVE  /\ Unread(rx, rxd) \in Seq(Byte) /\ Len(Unread(rx, rxd)) = get_rb_length(rx)
           /\ get_rb_length(rx) \in Nat /\ eki.open \in BOOLEAN
<1>1. rx \in Ring /\ rxd \in [Pos -> Byte] /\ eki.open \in BOOLEAN
  BY DEF TypeOK, RingsOK, LinkOK, Eki
<1> QED
  BY <1>1, RingFacts

\* Bytes appended to rx are put into the pipe.
LEMMA GrownIsPut ==
    ASSUME TypeOK, Grown, AcceptsNothing, eki'.open = eki.open
    PROVE  Pipe!Put \/ UNCHANGED Pipe!pipeVars
<1> DEFINE u == Unread(rx, rxd)
           v == Unread(rx', rxd')
<1>1. PICK s \in Seq(Byte) : v = u \o s
  BY DEF Grown
<1>2. u \in Seq(Byte) /\ Len(u) \in Nat
  BY QueueFacts
<1> HIDE DEF u, v
<1>3. CASE s = <<>>
  <2>1. v = u
    BY <1>1, <1>2, <1>3, ConcatEmptySeq
  <2> QED
    BY <2>1 DEF Pipe!pipeVars, AcceptsNothing, u, v
<1>4. CASE s # <<>>
  <2>1. Len(s) \in Nat \ {0}
    BY <1>4, EmptySeq
  <2>2. Len(v) = Len(u) + Len(s)
    BY <1>1, <1>2, ConcatProperties
  <2>3. Len(v) > Len(u)
    BY <1>2, <2>1, <2>2
  <2>4. SubSeq(v, 1, Len(u)) = SubSeq(u, 1, Len(u))
    BY <1>1, <1>2, FrontOfConcat
  <2>5. SubSeq(v, 1, Len(u)) = u
    BY <1>2, <2>4, SubSeqFull
  <2> QED
    BY <2>3, <2>5 DEF Pipe!Put, Pipe!Front, AcceptsNothing, u, v
<1> QED
  BY <1>3, <1>4

\* While rx is left alone, the connection is opened or lost, or nothing happens.
LEMMA ConnectionSteps ==
    ASSUME TypeOK, TypeOK', UNCHANGED <<rx, rxd>>, AcceptsNothing
    PROVE  Pipe!Open \/ Pipe!Lose \/ UNCHANGED Pipe!pipeVars
<1>1. eki.open \in BOOLEAN /\ eki'.open \in BOOLEAN
  BY DEF TypeOK, LinkOK, Eki
<1>2. Unread(rx', rxd') = Unread(rx, rxd)
  OBVIOUS
<1>3. CASE eki'.open = eki.open
  BY <1>2, <1>3 DEF Pipe!pipeVars, AcceptsNothing
<1>4. CASE eki.open /\ ~eki'.open
  BY <1>1, <1>2, <1>4 DEF Pipe!Lose, AcceptsNothing
<1>5. CASE ~eki.open /\ eki'.open
  BY <1>1, <1>2, <1>5 DEF Pipe!Open, AcceptsNothing
<1> QED
  BY <1>1, <1>3, <1>4, <1>5

\* What the device accepts is delivered from the front of the pipe.
LEMMA AcceptIsDeliver ==
    ASSUME TypeOK, StackSound, AcceptsFront, UNCHANGED <<driverVars, daemonVars>>
    PROVE  Pipe!Deliver
<1> DEFINE u == Unread(rx, rxd)
<1>1. /\ xmit_pending \in 1 .. Len(u) /\ xmit_pending <= get_rb_length(rx)
      /\ xmit_pending \in Nat /\ accepted' = accepted \o Peek(rx, rxd, xmit_pending)
  BY QueueFacts DEF AcceptsFront
<1>2. rx.head \in Pos /\ rx.tail \in Pos /\ rxd \in [Pos -> Byte]
  BY RingFacts DEF TypeOK, RingsOK
<1>3. Peek(rx, rxd, xmit_pending) = SubSeq(u, 1, xmit_pending)
  BY <1>1, <1>2, PeekIsFront
<1>4. eki.open
  <2>1. toDev # <<>>
    BY DEF AcceptsFront, WritesSent
  <2> QED
    BY <2>1 DEF StackSound
<1>5. UNCHANGED <<rx, rxd, eki>>
  BY DEF driverVars, ringVars, daemonVars, stateVars
<1>6. Unread(rx', rxd') = u /\ eki'.open = eki.open
  BY <1>5
<1> QED
  BY <1>1, <1>3, <1>4, <1>6 DEF Pipe!Deliver, Pipe!Front

\* What an answer drops from rx has been delivered.
LEMMA DroppedIsForget ==
    ASSUME TypeOK, CopyInv, OneWrite, AnswerMeansAccepted, Dropped, AcceptsNothing,
           eki' = eki
    PROVE  Pipe!Forget
<1> DEFINE u == Unread(rx, rxd)
<1>1. u \in Seq(Byte) /\ Len(u) = get_rb_length(rx) /\ get_rb_length(rx) \in Nat
  BY QueueFacts
<1>2. 1 \in WriteAnswers /\ toHost[1].st = "ok"
  <2>1. toHost \in Seq(ToHost) /\ toHost # <<>> /\ Head(toHost).op = "write"
        /\ Head(toHost).st = "ok"
    BY DEF TypeOK, LinkOK, Dropped, RecvWritten, Receiving
  <2> QED
    BY <2>1, InTail DEF WriteAnswers
<1>3. xmit_pending \in 1 .. Len(u) /\ xmit_pending <= get_rb_length(rx) /\ xmit_pending \in Nat
  <2>1. xmit_pending > 0 /\ xmit_pending <= get_rb_length(rx)
    BY <1>2 DEF OneWrite
  <2>2. xmit_pending \in Nat
    BY DEF TypeOK, LinkOK
  <2> QED
    BY <1>1, <2>1, <2>2
<1>4. \A i \in 1 .. xmit_pending : \E k \in DOMAIN accepted : accepted[k] = u[i]
  <2>1. \A i \in 1 .. xmit_pending : \E k \in DOMAIN accepted : accepted[k] = Stream[i]
    BY <1>2 DEF AnswerMeansAccepted
  <2>2. circ \in Seq(Byte) /\ DOMAIN u = 1 .. Len(u)
    BY <1>1, LenProperties DEF TypeOK, RingsOK
  <2>3. \A i \in DOMAIN u : Stream[i] = u[i]
    <3> HIDE DEF u
    <3>1. Stream = u \o circ
      BY DEF Stream, u
    <3> QED
      BY <1>1, <2>2, <3>1, InConcat
  <2> QED
    BY <1>1, <1>3, <2>1, <2>2, <2>3
<1>5. Unread(rx', rxd') = SubSeq(u, xmit_pending + 1, Len(u))
  BY <1>1, DroppedStream
<1> HIDE DEF u
<1> QED
  BY <1>3, <1>4, <1>5 DEF Pipe!Forget, Pipe!Rest, AcceptsNothing, u

\* rx changes only where the driver looks for bytes, at a close, and at an answer.
LEMMA DaemonRx ==
    ASSUME DaemonStep
    PROVE  \/ UNCHANGED <<rx, rxd>>
           \/ adv_main_interrupt
           \/ vc_common_close
           \/ Dropped /\ eki' = eki
<1> USE DEF driverVars, ringVars, stateVars
<1>1. CASE RecvWritten
  BY <1>1, Zenon DEF RecvWritten, Taken, Dropped
<1>2. CASE \/ vc_netdown_open \/ vc_netdown_open_fails \/ NothingToOpen
           \/ vc_common_ioctl \/ NothingToSet \/ vc_common_xmit \/ NothingToXmit
           \/ vc_netup_pause \/ NothingToPause \/ event \/ select
           \/ vc_netup_poll \/ vc_idle_poll \/ NothingToPoll
  BY <1>2 DEF vc_netdown_open, vc_netdown_open_fails, NothingToOpen,
     vc_common_ioctl, NothingToSet, vc_common_xmit, NothingToXmit, vc_netup_pause,
     NothingToPause, event, select, vc_netup_poll, vc_idle_poll, NothingToPoll
<1>3. CASE \/ AttrEvent \/ NoPacket \/ RecvExcp \/ vc_idle_recv \/ RecvOther
           \/ vc_sync_recv \/ RecvData \/ RxEvent \/ vc_pause_resume \/ NothingToResume
  BY <1>3 DEF AttrEvent, NoPacket, RecvExcp, vc_idle_recv, RecvOther, vc_sync_recv,
     RecvData, RxEvent, vc_pause_resume, NothingToResume
<1> QED
  BY <1>1, <1>2, <1>3 DEF DaemonStep

\* Every step is a step of the pipe, or none of its business.
LEMMA PipeStep ==
    ASSUME TypeOK, TypeOK', StackSound, CopyInv, OneWrite, AnswerMeansAccepted, [Next]_vars
    PROVE  [Pipe!Next]_Pipe!pipeVars
<1> USE DEF Pipe!Next
<1>1. CASE Tty
  <2>1. eki' = eki /\ AcceptsNothing
    BY <1>1 DEF Tty, deviceVars, portVars, daemonVars, stateVars, AcceptsNothing
  <2> QED
    BY <1>1, <2>1, TtyStream, GrownIsPut
<1>2. CASE DeviceAnswers \/ DeviceActs \/ main \/ UNCHANGED vars
  <2>1. UNCHANGED <<rx, rxd>>
    BY <1>2 DEF DeviceAnswers, DeviceActs, main, vars, driverVars, ringVars
  <2> QED
    BY <2>1, AcceptStep, AcceptIsDeliver, ConnectionSteps
<1>3. CASE DaemonStep
  <2>1. AcceptsNothing
    BY <1>3 DEF DaemonStep, vc_netdown_open, vc_netdown_open_fails, vc_common_close, NothingToOpen,
       vc_common_ioctl, NothingToSet, vc_common_xmit, NothingToXmit, vc_netup_pause, NothingToPause,
       event, adv_main_interrupt, select, vc_netup_poll, vc_idle_poll, NothingToPoll, AttrEvent,
       NoPacket, RecvExcp, vc_idle_recv, RecvOther, vc_sync_recv, RecvData, RecvWritten, RxEvent,
       vc_pause_resume, NothingToResume, deviceVars, portVars, AcceptsNothing
  <2>2. CASE UNCHANGED <<rx, rxd>>
    BY <2>1, <2>2, ConnectionSteps
  <2>3. CASE adv_main_interrupt
    <3>1. Grown
      <4>1. ~vc_common_close /\ ~Dropped
        BY <2>3 DEF adv_main_interrupt, vc_common_close, Dropped, RecvWritten, Receiving
      <4> QED
        BY <1>3, <4>1, DaemonStream
    <3>2. eki' = eki
      BY <2>3 DEF adv_main_interrupt, stateVars
    <3> QED
      BY <2>1, <3>1, <3>2, GrownIsPut
  <2>4. CASE vc_common_close
    <3>1. Unread(rx', rxd') = <<>>
      BY <2>4, CloseEmpties DEF TypeOK
    <3>2. eki.open /\ eki'.open = FALSE
      BY <2>4 DEF vc_common_close, stk_excp, vc_netdown_init, EkiUndef
    <3>3. Pipe!Close
      BY <2>1, <3>1, <3>2 DEF Pipe!Close, AcceptsNothing
    <3> QED
      BY <3>3
  <2>5. CASE Dropped /\ eki' = eki
    BY <2>1, <2>5, DroppedIsForget
  <2> QED
    BY <1>3, <2>2, <2>3, <2>4, <2>5, DaemonRx
<1> QED
  BY <1>1, <1>2, <1>3 DEF Next

\* The driver, the daemon and the device together implement the pipe: what the
\* application writes leaves the ring only after the device has accepted it, or when the
\* port is closed, and is accepted from the front.
THEOREM PipeCorrect == Spec => PipeImplemented
<1>1. Init => Pipe!Init
  <2> SUFFICES ASSUME Init PROVE Pipe!Init
    OBVIOUS
  <2>1. /\ rx = [head |-> 0, tail |-> 0, on |-> FALSE, clean |-> FALSE]
        /\ accepted = <<>> /\ eki.open = FALSE
    BY DEF Init, adv_main_init, DeviceInit, DaemonInit, EkiUndef
  <2>2. Unread(rx, rxd) = <<>>
    BY <2>1, SizeAssumption DEF Unread, Peek, get_rb_length
  <2> QED
    BY <2>1, <2>2 DEF Pipe!Init
<1>2. /\ TypeOK /\ TypeOK' /\ StackSound /\ CopyInv /\ OneWrite /\ InOrder /\ [Next]_vars
      => [Pipe!Next]_Pipe!pipeVars
  BY PipeStep DEF InOrder
<1> QED
  BY <1>1, <1>2, TypeCorrect, StackCorrect, CopyInvariant, OneWriteInvariant, InOrderInvariant,
     PTL DEF Spec, PipeImplemented, Pipe!Spec

(***************************************************************************)
(* A pending WRITE is under way.                                           *)
(***************************************************************************)

\* The end of a connection is announced behind everything else, and the daemon asks
\* for a sign of life only when nothing is under way.
LostInv ==
    /\ ~dev.alive => toHost # <<>> /\ toHost[Len(toHost)].op = "eof"
    /\ Never("slow") /\ Top = "idle" => xmit_pending = 0
    /\ PendingAnswered

\* What a step of the daemon does to the connection and to the state on top.
LEMMA DaemonTop ==
    ASSUME TypeOK, StackSound, DaemonStep
    PROVE  /\ dev' = dev \/ stk_excp
           /\ stk_excp => Top' = "netdown"
           /\ \/ Top' # "idle"
              \/ Top' = Top
              \/ /\ Ready = {} /\ Top \in Connected /\ TimePasses
                 /\ xmit_pending' = xmit_pending
<1> USE DEF deviceVars, linkVars, stateVars
<1>1. stk \in Seq(States) /\ Len(stk) \in Nat \ {0}
  <2>1. stk \in Seq(States)
    BY DEF TypeOK, LinkOK
  <2>2. Len(stk) \in {1, 2, 3}
    BY Shapes
  <2>3. \A n \in {1, 2, 3} : n \in Nat \ {0}
    OBVIOUS
  <2> QED
    BY <2>1, <2>2, <2>3, Zenon
<1>2. stk_excp => Top' = "netdown"
  BY DEF stk_excp, Top
<1>3. SendFails => stk_excp
  BY DEF SendFails
<1>4. stk' = stk => Top' = Top
  BY DEF Top
<1>5. \A s \in States : stk' = Replace(s) => Top' = s
  <2> SUFFICES ASSUME NEW s \in States, stk' = Replace(s) PROVE Top' = s
    OBVIOUS
  <2>1. Len(stk) \in 1 .. Len(stk)
    BY <1>1
  <2>2. Len(Replace(s)) = Len(stk) /\ Replace(s)[Len(stk)] = s
    BY <1>1, <2>1, ExceptSeq DEF Replace
  <2> QED
    BY <2>2 DEF Top
<1>6. \A s \in States : stk' = Append(stk, s) => Top' = s
  <2> SUFFICES ASSUME NEW s \in States, stk' = Append(stk, s) PROVE Top' = s
    OBVIOUS
  <2>1. Len(Append(stk, s)) = Len(stk) + 1 /\ Append(stk, s)[Len(stk) + 1] = s
    BY <1>1, AppendProperties
  <2> QED
    BY <2>1 DEF Top
<1>7. "netup" \in States /\ "pause" \in States /\ "idle" \in States
  BY DEF States
<1>8. CASE vc_netdown_open
  <2>1. stk' = Append(stk, IF is_rb_empty(dtx) THEN "netup" ELSE "pause") /\ UNCHANGED dev
    BY <1>8 DEF vc_netdown_open
  <2>2. PICK s \in {"netup", "pause"} : stk' = Append(stk, s)
    BY <2>1
  <2>3. s \in States /\ s # "idle"
    BY <2>2, <1>7
  <2>4. Top' # "idle"
    BY <2>2, <2>3, <1>6
  <2> QED
    BY <1>2, <2>1, <2>4
<1>9. CASE vc_netup_pause
  BY <1>2, <1>3, <1>5, <1>7, <1>9 DEF vc_netup_pause
<1>10. CASE vc_pause_resume
  BY <1>2, <1>3, <1>4, <1>5, <1>7, <1>10 DEF vc_pause_resume
<1>11. CASE vc_netup_poll
  BY <1>2, <1>3, <1>6, <1>7, <1>11 DEF vc_netup_poll
<1>12. CASE vc_idle_recv
  <2>1. Top = "idle" /\ stk' = PopStk /\ dev' = dev
    BY <1>12 DEF vc_idle_recv
  <2>2. Len(stk) = 3
    BY <2>1, Shapes DEF Connected
  <2>3. PICK s \in Connected : PopStk = <<"netdown", s>>
    BY <2>2, Shapes
  <2>4. Top' = s
    BY <2>1, <2>3 DEF Top
  <2>5. s # "idle"
    BY DEF Connected
  <2> QED
    BY <1>2, <2>1, <2>4, <2>5
<1>13. CASE \/ vc_netdown_open_fails \/ vc_common_close \/ vc_idle_poll \/ RecvExcp
            \/ vc_common_ioctl \/ vc_common_xmit \/ NoPacket \/ vc_sync_recv
            \/ RecvData \/ RecvWritten
  BY <1>2, <1>3, <1>4, <1>13 DEF vc_netdown_open_fails, vc_common_close, vc_idle_poll,
     RecvExcp, vc_common_ioctl, vc_common_xmit, NoPacket, vc_sync_recv, RecvData, RecvWritten
<1>14. CASE \/ NothingToOpen \/ NothingToSet \/ NothingToXmit \/ NothingToPause
            \/ event \/ adv_main_interrupt \/ select \/ NothingToPoll \/ AttrEvent
            \/ RecvOther \/ RxEvent \/ NothingToResume
  BY <1>2, <1>4, <1>14 DEF NothingToOpen, NothingToSet, NothingToXmit, NothingToPause, event,
     adv_main_interrupt, select, NothingToPoll, AttrEvent, RecvOther, RxEvent, NothingToResume
<1> QED
  BY <1>8, <1>9, <1>10, <1>11, <1>12, <1>13, <1>14 DEF DaemonStep

\* The end of the connection stays the last packet in the socket until it is read.
LEMMA EndStaysLast ==
    ASSUME TypeOK, StackSound, DaemonStep, ~stk_excp,
           toHost # <<>>, toHost[Len(toHost)].op = "eof"
    PROVE  toHost' # <<>> /\ toHost'[Len(toHost')].op = "eof"
<1>1. toHost \in Seq(ToHost)
  BY DEF TypeOK, LinkOK
<1>2. toHost' = toHost \/ (toHost' = Tail(toHost) /\ Head(toHost).op # "eof")
  BY DaemonLink DEF TakesOther, TakesWritten, SendsWrite
<1>3. CASE toHost' = Tail(toHost) /\ Head(toHost).op # "eof"
  <2>1. Len(toHost) \in Nat \ {0} /\ Head(toHost) = toHost[1]
    BY <1>1, EmptySeq
  <2>2. Len(toHost) > 1
    BY <1>3, <2>1
  <2>3. /\ Len(toHost') = Len(toHost) - 1
        /\ \A i \in 1 .. Len(toHost') : toHost'[i] = toHost[i + 1]
    BY <1>1, <1>3, HeadTailProperties
  <2>4. toHost'[Len(toHost')] = toHost[Len(toHost)]
    BY <2>1, <2>2, <2>3
  <2>5. toHost' # <<>>
    BY <2>1, <2>2, <2>3
  <2> QED
    BY <2>4, <2>5
<1> QED
  BY <1>2, <1>3

\* The answers to WRITEs after a packet other than one has been taken.
LEMMA AnswersStay ==
    ASSUME TypeOK, TakesOther, Top = "idle" => WriteAnswers = {}, NEW k \in WriteAnswers
    PROVE  \E j \in WriteAnswers' : toHost'[j] = toHost[k]
<1>1. toHost \in Seq(ToHost)
  BY DEF TypeOK, LinkOK
<1>2. CASE toHost' = toHost
  BY <1>2 DEF WriteAnswers
<1>3. CASE toHost # <<>> /\ toHost' = Tail(toHost) /\ Head(toHost).op # "write"
  <2>1. k \in DOMAIN toHost /\ toHost[k].op = "write"
    BY DEF WriteAnswers
  <2>2. k # 1
    BY <1>1, <1>3, <2>1, InTail
  <2>3. k - 1 \in DOMAIN toHost' /\ toHost'[k - 1] = toHost[k]
    BY <1>1, <1>3, <2>1, <2>2, InTail
  <2> QED
    BY <2>1, <2>3 DEF WriteAnswers
<1> QED
  BY <1>2, <1>3 DEF TakesOther

\* A WRITE that the device has not answered stays, or its answer takes its place.
LEMMA WriteMoves ==
    ASSUME TypeOK, OneWrite, AnswersFirst, WritesSent # {}
    PROVE  WritesSent' # {} \/ WriteAnswers' # {}
<1> DEFINE p == Head(toDev)
<1>1. toDev \in Seq(ToDev) /\ toHost \in Seq(ToHost) /\ toDev # <<>> /\ toDev' = Tail(toDev)
  BY DEF TypeOK, LinkOK, AnswersFirst
<1>2. PICK i \in WritesSent : TRUE
  OBVIOUS
<1>3. i \in DOMAIN toDev /\ toDev[i].op = "write"
  BY DEF WritesSent
<1>4. CASE i # 1
  <2>1. i - 1 \in DOMAIN toDev' /\ toDev'[i - 1] = toDev[i]
    BY <1>1, <1>3, <1>4, InTail
  <2> QED
    BY <1>3, <2>1 DEF WritesSent
<1>5. CASE i = 1
  <2>1. p.op = "write"
    BY <1>1, <1>3, <1>5, InTail
  <2> HIDE DEF p
  <2>2. PICK s \in Seq(ToHost) : toHost' = toHost \o s /\ IsAnswer(s, p)
    BY DEF AnswersFirst, p
  <2>3. Len(s) = 1 /\ \A n \in DOMAIN s : s[n].op = "write"
    BY <2>1, <2>2 DEF IsAnswer
  <2>4. 1 \in DOMAIN s
    BY <2>3, LenProperties
  <2>5. 1 + Len(toHost) \in DOMAIN toHost' /\ s[1] = toHost'[1 + Len(toHost)]
    BY <1>1, <2>2, <2>4, BackOfConcat
  <2> QED
    BY <2>3, <2>4, <2>5 DEF WriteAnswers
<1> QED
  BY <1>4, <1>5

\* Answers under way stay where they are when the device puts more behind them.
LEMMA AnswersStayToo ==
    ASSUME TypeOK, AnswersFirst \/ SendsUnasked, NEW k \in WriteAnswers
    PROVE  k \in WriteAnswers' /\ toHost'[k] = toHost[k]
<1>1. toHost \in Seq(ToHost)
  BY DEF TypeOK, LinkOK
<1>2. PICK s \in Seq(ToHost) : toHost' = toHost \o s
  BY DEF AnswersFirst, SendsUnasked
<1>3. \A i \in DOMAIN toHost : i \in DOMAIN toHost' /\ toHost'[i] = toHost[i]
  BY <1>1, <1>2, InConcat
<1> QED
  BY <1>3 DEF WriteAnswers

\* The device does not come back to life, and announces its end.
LEMMA DeviceEnds ==
    ASSUME TypeOK, DeviceAnswers \/ DeviceActs
    PROVE  /\ dev'.alive => dev.alive
           /\ ~dev'.alive => \/ dev' = dev /\ toHost' = toHost
                             \/ toHost' # <<>> /\ toHost'[Len(toHost')].op = "eof"
<1> USE DEF linkVars, portVars
<1>1. dev \in Dev /\ toDev \in Seq(ToDev) /\ toHost \in Seq(ToHost)
  BY DEF TypeOK, LinkOK
<1>2. CASE DeviceServes
  <2>1. \A p : Apply(p).alive = dev.alive
    BY <1>1 DEF Apply, Dev
  <2> QED
    BY <1>2, <2>1 DEF DeviceServes
<1>3. CASE DeviceBusy \/ DeviceRefuses \/ DeviceSendsData
  BY <1>3 DEF DeviceBusy, DeviceRefuses, DeviceSendsData
<1>4. CASE DeviceLineChanges
  BY <1>1, <1>4 DEF DeviceLineChanges, Dev
<1>5. CASE ConnectionBreaks(sk)
  <2> DEFINE a == Answer("eof", "bad", 0)
  <2>1. a \in ToHost /\ a.op = "eof"
    <3>1. a \in ToHost
      BY PacketType
    <3> QED
      BY <3>1 DEF Answer
  <2>2. toHost' = Append(toHost, a) /\ dev.alive
    BY <1>5 DEF ConnectionBreaks
  <2> HIDE DEF a
  <2>3. Len(toHost') = Len(toHost) + 1 /\ toHost'[Len(toHost) + 1] = a /\ Len(toHost) \in Nat
    BY <1>1, <2>1, <2>2, AppendProperties
  <2>4. toHost' # <<>>
    BY <2>3
  <2> QED
    BY <2>1, <2>2, <2>3, <2>4
<1> QED
  BY <1>2, <1>3, <1>4, <1>5 DEF DeviceAnswers, DeviceActs

\* LostInv is inductive.
LEMMA LostStep ==
    ASSUME TypeOK, TypeOK', StackSound, OneWrite, Budgeted, LostInv, [Next]_vars
    PROVE  LostInv'
<1> USE DEF linkVars, deviceVars, daemonVars, stateVars
<1>1. /\ "slow" \in Events /\ (Never("slow")' => Never("slow") /\ ~Spend("slow"))
      /\ xmit_pending \in Nat
  BY BudgetStep DEF Events, TypeOK, LinkOK
<1>2. CASE Tty \/ UNCHANGED vars
  <2>1. UNCHANGED <<toDev, toHost, dev, stk, xmit_pending>>
    BY <1>2 DEF Tty, vars
  <2>2. Top' = Top /\ WritesSent' = WritesSent /\ WriteAnswers' = WriteAnswers
    BY <2>1 DEF Top, WritesSent, WriteAnswers
  <2> QED
    BY <1>1, <2>1, <2>2 DEF LostInv, PendingAnswered
<1>3. CASE DeviceAnswers \/ DeviceActs
  <2>1. UNCHANGED <<stk, xmit_pending>>
    BY <1>3 DEF DeviceAnswers, DeviceActs
  <2>2. Top' = Top
    BY <2>1 DEF Top
  <2>3. AnswersFirst \/ SendsUnasked
    BY <1>3, DeviceLink
  <2>4. ~dev'.alive => toHost' # <<>> /\ toHost'[Len(toHost')].op = "eof"
    BY <1>3, DeviceEnds DEF LostInv
  <2>5. WritesSent # {} \/ WriteAnswers # {} => WritesSent' # {} \/ WriteAnswers' # {}
    <3>1. CASE WriteAnswers # {}
      BY <2>3, <3>1, AnswersStayToo
    <3>2. CASE WritesSent # {} /\ AnswersFirst
      BY <3>2, WriteMoves
    <3>3. CASE SendsUnasked
      BY <3>1, <3>3 DEF SendsUnasked, WritesSent
    <3> QED
      BY <2>3, <3>1, <3>2, <3>3
  <2>6. dev'.alive => dev.alive
    BY <1>3, DeviceEnds
  <2> QED
    BY <1>1, <2>1, <2>2, <2>4, <2>5, <2>6 DEF LostInv, PendingAnswered
<1>4. CASE stk_excp \/ main
  <2>1. stk' = <<"netdown">> /\ xmit_pending' = 0 /\ dev' = NoSession
    BY <1>4 DEF stk_excp, main, vc_netdown_init
  <2> QED
    BY <2>1 DEF LostInv, PendingAnswered, NoSession
<1>5. CASE DaemonStep /\ ~stk_excp
  <2>1. dev' = dev
    BY <1>5, DaemonTop
  <2>2. ~dev'.alive => toHost' # <<>> /\ toHost'[Len(toHost')].op = "eof"
    BY <1>5, <2>1, EndStaysLast DEF LostInv
  <2>3. ASSUME Never("slow")', Top' = "idle" PROVE xmit_pending' = 0
    <3>1. CASE Top = "idle"
      <4>1. xmit_pending = 0 /\ ~SendsWrite
        BY <1>1, <2>3, <3>1 DEF LostInv, SendsWrite, vc_common_xmit, MayXmit, Connected
      <4> QED
        BY <1>5, <4>1, DaemonLink DEF TakesWritten
    <3>2. CASE Top # "idle"
      <4>1. Ready = {} /\ Top \in Connected /\ TimePasses /\ xmit_pending' = xmit_pending
        BY <1>5, <2>3, <3>2, DaemonTop
      <4>2. toDev = <<>>
        BY <1>1, <2>3, <4>1 DEF TimePasses
      <4>3. sk
        <5>1. Len(stk) > 1
          BY <4>1, Shapes DEF Connected
        <5> QED
          BY <5>1 DEF StackSound
      <4>4. toHost = <<>>
        BY <4>1, <4>3 DEF Ready
      <4>5. dev.alive /\ WritesSent = {} /\ WriteAnswers = {}
        BY <4>2, <4>4 DEF LostInv, WritesSent, WriteAnswers
      <4>6. ~(xmit_pending > 0)
        BY <1>1, <2>3, <4>5 DEF LostInv, PendingAnswered
      <4> QED
        BY <1>1, <4>1, <4>6
    <3> QED
      BY <3>1, <3>2
  <2>4. ASSUME Never("slow")', dev'.alive, xmit_pending' > 0
        PROVE  WritesSent' # {} \/ WriteAnswers' # {}
    <3>1. CASE SendsOther /\ TakesOther /\ xmit_pending' = xmit_pending
      <4>1. WritesSent # {} \/ WriteAnswers # {}
        BY <1>1, <2>1, <2>4, <3>1 DEF LostInv, PendingAnswered
      <4>2. WritesSent' = WritesSent
        BY <3>1, OtherSent DEF TypeOK, LinkOK
      <4>3. Top = "idle" => WriteAnswers = {}
        BY <1>1, <2>4, <3>1 DEF LostInv
      <4> QED
        BY <3>1, <4>1, <4>2, <4>3, AnswersStay
    <3>2. CASE SendsWrite
      <4> DEFINE q == [op |-> "write", val |-> least(get_rb_length(drx), XmitLen),
                       data |-> Peek(drx, rxd, least(get_rb_length(drx), XmitLen))]
      <4>1. toDev' = Append(toDev, q) /\ q.op = "write"
        BY <3>2 DEF SendsWrite
      <4> HIDE DEF q
      <4>2. toDev'[Len(toDev) + 1] = q /\ Len(toDev) + 1 \in DOMAIN toDev'
        BY <4>1 DEF TypeOK, LinkOK
      <4> QED
        BY <4>1, <4>2 DEF WritesSent
    <3>3. CASE TakesWritten
      BY <2>4, <3>3 DEF TakesWritten
    <3> QED
      BY <1>5, <3>1, <3>2, <3>3, DaemonLink
  <2> QED
    BY <2>2, <2>3, <2>4 DEF LostInv, PendingAnswered
<1> QED
  BY <1>2, <1>3, <1>4, <1>5 DEF Next

\* LostInv holds throughout.
THEOREM LostInvariant == Spec => []LostInv
<1>1. Init => LostInv
  BY DEF Init, DeviceInit, DaemonInit, NoSession, LostInv, PendingAnswered, Top
<1>2. /\ TypeOK /\ TypeOK' /\ StackSound /\ OneWrite /\ OpeningInv /\ LostInv /\ [Next]_vars
      => LostInv'
  BY LostStep DEF OpeningInv
<1> QED
  BY <1>1, <1>2, TypeCorrect, StackCorrect, OneWriteInvariant, OpeningInvariant, PTL DEF Spec

\* As long as the device has answered within the pull time, a WRITE the daemon waits for
\* is in one of the two queues: xmit_pending is not left set by a lost packet, and the
\* next WRITE is not held back for ever.
THEOREM AnsweredCorrect == Spec => []PendingAnswered
<1>1. LostInv => PendingAnswered
  BY DEF LostInv
<1> QED
  BY <1>1, LostInvariant, PTL

(***************************************************************************)
(* No byte is accepted twice.                                              *)
(***************************************************************************)

\* Nothing bad is in the socket unless something has failed, and no data unless the
\* device has sent some.
CleanSocket ==
    /\ Never("fault") => \A i \in DOMAIN toHost : toHost[i].op # "eof" /\ toHost[i].st # "bad"
    /\ Never("data") => \A i \in DOMAIN toHost : toHost[i].op # "data"

\* What AcceptedOnce supposes.
Untroubled == Never("fault") /\ Never("slow") /\ Never("restart") /\ Never("data")

\* Nothing is accepted twice, and what is accepted and not yet dropped from rx is
\* about to be: its answer waits in the socket.
OnceInv ==
    Untroubled =>
        /\ \A i, j \in DOMAIN accepted : i # j => accepted[i] # accepted[j]
        /\ \A i \in DOMAIN accepted, j \in DOMAIN Stream :
               accepted[i] = Stream[j] =>
                   j <= xmit_pending /\ \E k \in WriteAnswers : toHost[k].st = "ok"

\* What the device puts into the socket.
LEMMA DeviceAdds ==
    ASSUME TypeOK, DeviceAnswers \/ DeviceActs
    PROVE  \E s \in Seq(ToHost) :
               /\ toHost' = toHost \o s
               /\ \A i \in DOMAIN s :
                      /\ s[i].op = "eof" \/ s[i].st = "bad" => Spend("fault")
                      /\ s[i].op = "data" => Spend("data")
<1> USE DEF linkVars, portVars
<1>1. LinkOK /\ toDev \in Seq(ToDev) /\ toHost \in Seq(ToHost) /\ lineNow \in {0, 1}
  BY DEF TypeOK, LinkOK, PortOK
<1>2. ASSUME NEW a \in ToHost, toHost' = Append(toHost, a),
             a.op = "eof" \/ a.st = "bad" => Spend("fault"), a.op = "data" => Spend("data")
      PROVE  \E s \in Seq(ToHost) :
                 /\ toHost' = toHost \o s
                 /\ \A i \in DOMAIN s :
                        /\ s[i].op = "eof" \/ s[i].st = "bad" => Spend("fault")
                        /\ s[i].op = "data" => Spend("data")
  <2>1. <<a>> \in Seq(ToHost) /\ toHost' = toHost \o <<a>>
    BY <1>1, <1>2, AppendIsConcat
  <2>2. \A i \in DOMAIN <<a>> : <<a>>[i] = a
    OBVIOUS
  <2> QED
    BY <1>2, <2>1, <2>2
<1>3. ASSUME NEW s \in Seq(ToHost), toHost' = toHost \o s,
             \A i \in DOMAIN s : s[i].op \notin {"eof", "data"} /\ s[i].st # "bad"
      PROVE  \E t \in Seq(ToHost) :
                 /\ toHost' = toHost \o t
                 /\ \A i \in DOMAIN t :
                        /\ t[i].op = "eof" \/ t[i].st = "bad" => Spend("fault")
                        /\ t[i].op = "data" => Spend("data")
  BY <1>3
<1>4. toDev # <<>> => Head(toDev) \in ToDev
  BY <1>1
<1>5. CASE DeviceServes
  <2>1. toHost' = toHost \o Answers(Head(toDev)) /\ Head(toDev) \in ToDev
    BY <1>4, <1>5 DEF DeviceServes
  <2>2. Answers(Head(toDev)) \in Seq(ToHost)
    BY <1>1, <2>1, AnswersType
  <2>3. \A i \in DOMAIN Answers(Head(toDev)) :
            /\ Answers(Head(toDev))[i].op \notin {"eof", "data"}
            /\ Answers(Head(toDev))[i].st # "bad"
    <3>1. Head(toDev).op \in {"create", "line", "ms", "setwmask", "getmodem", "womask",
                              "getwmask", "queuefree", "write"}
      BY <2>1 DEF ToDev
    <3> QED
      BY <3>1 DEF Answers, Answer
  <2> QED
    BY <1>3, <2>1, <2>2, <2>3
<1>6. CASE DeviceBusy
  <2> DEFINE a == Answer("write", "busy", Len(Head(toDev).data))
  <2>1. toHost' = Append(toHost, a) /\ Head(toDev) \in ToDev
    BY <1>4, <1>6 DEF DeviceBusy
  <2>2. Len(Head(toDev).data) \in Int
    BY <2>1 DEF ToDev
  <2>3. a \in ToHost /\ a.op = "write" /\ a.st = "busy"
    <3>1. a \in ToHost
      BY <2>2, PacketType
    <3> QED
      BY <3>1 DEF Answer
  <2> QED
    BY <1>2, <2>1, <2>3
<1>7. CASE DeviceRefuses
  <2> DEFINE a == [Answers(Head(toDev))[1] EXCEPT !.st = "bad"]
  <2>1. toHost' = Append(toHost, a) /\ Head(toDev) \in ToDev /\ Spend("fault")
        /\ Answers(Head(toDev)) # <<>>
    BY <1>4, <1>7 DEF DeviceRefuses
  <2>2. a \in ToHost /\ a.op # "data"
    <3>1. Answers(Head(toDev))[1] \in ToHost
      BY <1>1, <2>1, AnswersType
    <3>2. Head(toDev).op \in {"create", "line", "ms", "setwmask", "getmodem", "womask",
                              "getwmask", "queuefree", "write"}
      BY <2>1 DEF ToDev
    <3>3. Answers(Head(toDev))[1].op # "data"
      BY <2>1, <3>2 DEF Answers, Answer
    <3> QED
      BY <3>1, <3>3 DEF ToHost
  <2> QED
    BY <1>2, <2>1, <2>2
<1>8. CASE DeviceSendsData
  <2> DEFINE a == [op |-> "data", st |-> "ok", val |-> 0, data |-> <<produced + 1>>]
  <2>1. toHost' = Append(toHost, a) /\ Spend("data")
    BY <1>8 DEF DeviceSendsData
  <2>2. a \in ToHost /\ a.op = "data" /\ a.st = "ok"
    BY DEF TypeOK, PortOK, ToHost, Byte
  <2> QED
    BY <1>2, <2>1, <2>2
<1>9. CASE DeviceLineChanges
  <2>1. CASE toHost' = toHost
    <3>1. <<>> \in Seq(ToHost) /\ toHost' = toHost \o <<>>
      BY <1>1, <2>1, ConcatEmptySeq
    <3>2. \A i \in DOMAIN <<>> : <<>>[i].op \notin {"eof", "data"} /\ <<>>[i].st # "bad"
      OBVIOUS
    <3> QED
      BY <1>3, <3>1, <3>2
  <2>2. CASE toHost' = Append(toHost, Answer("womask", "ok", 0))
    <3>1. Answer("womask", "ok", 0) \in ToHost
      BY PacketType
    <3>2. Answer("womask", "ok", 0).op = "womask" /\ Answer("womask", "ok", 0).st = "ok"
      BY DEF Answer
    <3> QED
      BY <1>2, <2>2, <3>1, <3>2
  <2> QED
    BY <1>9, <2>1, <2>2 DEF DeviceLineChanges
<1>10. CASE ConnectionBreaks(sk)
  <2>1. Answer("eof", "bad", 0) \in ToHost
    BY PacketType
  <2>2. Answer("eof", "bad", 0).op = "eof"
    BY DEF Answer
  <2>3. toHost' = Append(toHost, Answer("eof", "bad", 0)) /\ Spend("fault")
    BY <1>10 DEF ConnectionBreaks
  <2> QED
    BY <1>2, <2>1, <2>2, <2>3
<1> QED
  BY <1>5, <1>6, <1>7, <1>8, <1>9, <1>10 DEF DeviceAnswers, DeviceActs

\* CleanSocket is inductive.
LEMMA CleanStep ==
    ASSUME TypeOK, StackSound, Budgeted, CleanSocket, [Next]_vars
    PROVE  CleanSocket'
<1> USE DEF linkVars, deviceVars, stateVars
<1>1. toHost \in Seq(ToHost)
  BY DEF TypeOK, LinkOK
<1>2. \A e \in {"fault", "data"} : Never(e)' => Never(e) /\ ~Spend(e)
  BY BudgetStep DEF Events
<1>3. ASSUME \A i \in DOMAIN toHost' : \E j \in DOMAIN toHost : toHost'[i] = toHost[j]
      PROVE  CleanSocket'
  BY <1>2, <1>3 DEF CleanSocket
<1>4. CASE toHost' = toHost
  BY <1>3, <1>4
<1>5. CASE toHost # <<>> /\ toHost' = Tail(toHost)
  BY <1>1, <1>3, <1>5, InTail
<1>6. CASE toHost' = <<>>
  BY <1>3, <1>6
<1>7. CASE DeviceAnswers \/ DeviceActs
  <2>1. PICK s \in Seq(ToHost) :
            /\ toHost' = toHost \o s
            /\ \A i \in DOMAIN s :
                   /\ s[i].op = "eof" \/ s[i].st = "bad" => Spend("fault")
                   /\ s[i].op = "data" => Spend("data")
    BY <1>7, DeviceAdds
  <2>2. \A i \in DOMAIN toHost' :
            (\E j \in DOMAIN toHost : toHost'[i] = toHost[j])
                \/ \E n \in DOMAIN s : toHost'[i] = s[n]
    <3>1. \A i \in DOMAIN toHost' :
              \/ i \in DOMAIN toHost /\ toHost'[i] = toHost[i]
              \/ i - Len(toHost) \in DOMAIN s /\ toHost'[i] = s[i - Len(toHost)]
      BY <1>1, <2>1, InConcat
    <3> QED
      BY <3>1, Zenon
  <2> QED
    BY <1>2, <2>1, <2>2 DEF CleanSocket
<1>8. CASE DaemonStep
  <2>1. stk_excp \/ TakesOther \/ SendsWrite \/ TakesWritten
    BY <1>8, DaemonLink
  <2> QED
    BY <1>4, <1>5, <1>6, <2>1
       DEF stk_excp, vc_netdown_init, TakesOther, SendsWrite, TakesWritten
<1>9. CASE Tty \/ main \/ UNCHANGED vars
  BY <1>4, <1>6, <1>9 DEF Tty, main, vc_netdown_init, vars
<1> QED
  BY <1>7, <1>8, <1>9 DEF Next

\* While nothing is wrong the daemon drops a connection only to close the port, or when
\* no answer to a WRITE is under way.
LEMMA WhyDropped ==
    ASSUME TypeOK, StackSound, OneWrite, CleanSocket, Untroubled, ~Spend("fault"),
           DaemonStep, stk_excp
    PROVE  vc_common_close \/ WriteAnswers = {}
<1> USE DEF linkVars, deviceVars, stateVars
<1>1. toHost \in Seq(ToHost) /\ (toHost # <<>> => 1 \in DOMAIN toHost /\ toHost[1] = Head(toHost))
  BY InTail DEF TypeOK, LinkOK
<1>2. /\ \A i \in DOMAIN toHost : toHost[i].op # "eof" /\ toHost[i].st # "bad"
      /\ \A i \in DOMAIN toHost : toHost[i].op # "data"
  BY DEF CleanSocket, Untroubled
<1>3. toHost = <<>> => WriteAnswers = {}
  BY DEF WriteAnswers
<1>4. sk' = FALSE
  BY DEF stk_excp, vc_netdown_init
<1>5. ASSUME sk' = sk PROVE WriteAnswers = {}
  BY <1>3, <1>4, <1>5 DEF StackSound
<1>6. ~SendFails
  BY DEF SendFails
<1>7. CASE vc_netdown_open \/ vc_netdown_open_fails
  BY <1>4, <1>6, <1>7 DEF vc_netdown_open, vc_netdown_open_fails
<1>8. CASE vc_idle_poll
  <2>1. Len(stk) > 1
    BY <1>8, Shapes DEF vc_idle_poll, Connected
  <2>2. toHost = <<>>
    BY <1>8, <2>1 DEF vc_idle_poll, Ready, StackSound
  <2> QED
    BY <1>3, <2>2
<1>9. CASE RecvExcp
  <2>1. toHost # <<>> /\ (Head(toHost).op = "eof" \/ Head(toHost).st = "bad")
    BY <1>9 DEF RecvExcp, Receiving
  <2> QED
    BY <1>1, <1>2, <2>1
<1>10. CASE RecvData
  <2>1. toHost # <<>> /\ Head(toHost).op = "data"
    BY <1>10 DEF RecvData, Good, Receiving
  <2> QED
    BY <1>1, <1>2, <2>1
<1>11. CASE RecvWritten
  <2>1. toHost # <<>> /\ Head(toHost).op = "write"
    BY <1>11 DEF RecvWritten, Receiving
  <2>2. 1 \in WriteAnswers
    BY <1>1, <2>1 DEF WriteAnswers
  <2>3. Head(toHost).val = xmit_pending
    BY <1>1, <2>1, <2>2 DEF OneWrite
  <2>4. sk' = sk
    BY <1>11, <2>3 DEF RecvWritten
  <2> QED
    BY <1>5, <2>4
<1>12. CASE \/ NothingToOpen \/ vc_common_ioctl \/ NothingToSet \/ vc_common_xmit \/ NothingToXmit
            \/ vc_netup_pause \/ NothingToPause \/ event \/ adv_main_interrupt \/ select
            \/ vc_netup_poll \/ NothingToPoll \/ AttrEvent
  BY <1>5, <1>6, <1>12 DEF NothingToOpen, vc_common_ioctl, NothingToSet, vc_common_xmit,
     NothingToXmit, vc_netup_pause, NothingToPause, event, adv_main_interrupt, select,
     vc_netup_poll, NothingToPoll, AttrEvent
<1>13. CASE \/ NoPacket \/ vc_idle_recv \/ RecvOther \/ vc_sync_recv \/ RxEvent
            \/ vc_pause_resume \/ NothingToResume
  BY <1>5, <1>6, <1>13 DEF NoPacket, vc_idle_recv, RecvOther, vc_sync_recv, RxEvent,
     vc_pause_resume, NothingToResume
<1> QED
  BY <1>7, <1>8, <1>9, <1>10, <1>11, <1>12, <1>13 DEF DaemonStep

\* Bytes that were accepted have an answer that says so.
LEMMA FrontAnswered ==
    ASSUME TypeOK, OneWrite, AnswersFirst, AcceptsFront
    PROVE  \E k \in WriteAnswers' : toHost'[k].st = "ok"
<1> DEFINE p == Head(toDev)
<1>1. toHost \in Seq(ToHost) /\ toDev \in Seq(ToDev) /\ toDev # <<>>
  BY DEF TypeOK, LinkOK, AnswersFirst
<1>2. accepted \in Seq(Byte) /\ Len(accepted) \in Nat /\ DOMAIN accepted = 1 .. Len(accepted)
  BY OrderTypes
<1>3. accepted' # accepted
  <2>1. xmit_pending \in Nat /\ 1 \in 1 .. xmit_pending
    BY OrderTypes DEF AcceptsFront
  <2>2. 1 + Len(accepted) \in DOMAIN accepted'
    BY <2>1 DEF AcceptsFront
  <2> QED
    BY <1>2, <2>2
<1>4. PICK s \in Seq(ToHost) : toHost' = toHost \o s /\ IsAnswer(s, p)
  BY DEF AnswersFirst
<1>5. 1 \in DOMAIN toDev /\ toDev[1] = p
  BY <1>1, InTail
<1> HIDE DEF p
<1>6. accepted' = accepted \o p.data /\ \A i \in DOMAIN s : s[i].st = "ok"
  BY <1>3, <1>4 DEF IsAnswer
<1>7. p.op = "write"
  <2>1. p.data = <<>> => accepted' = accepted
    BY <1>2, <1>6, ConcatEmptySeq
  <2> QED
    BY <1>3, <1>5, <2>1 DEF OneWrite
<1>8. Len(s) = 1 /\ \A i \in DOMAIN s : s[i].op = "write"
  BY <1>4, <1>7 DEF IsAnswer
<1>9. 1 \in DOMAIN s
  BY <1>8, LenProperties
<1>10. 1 + Len(toHost) \in DOMAIN toHost' /\ s[1] = toHost'[1 + Len(toHost)]
  BY <1>1, <1>4, <1>9, BackOfConcat
<1> QED
  BY <1>6, <1>8, <1>9, <1>10 DEF WriteAnswers

\* What the device accepts is new to it, and answered.
LEMMA OnceAccepted ==
    ASSUME TypeOK, OneWrite, StreamAscends, OnceInv, Untroubled, AnswersFirst, AcceptsFront,
           Stream' = Stream, xmit_pending' = xmit_pending
    PROVE  OnceInv'
<1>1. /\ Len(Stream) \in Nat /\ DOMAIN Stream = 1 .. Len(Stream)
      /\ \A i \in DOMAIN Stream : Stream[i] \in Nat
      /\ Len(accepted) \in Nat /\ DOMAIN accepted = 1 .. Len(accepted) /\ xmit_pending \in Nat
  <2>1. \A i \in DOMAIN Stream : Stream[i] \in Nat
    <3>1. Stream \in Seq(Byte) /\ DOMAIN Stream = 1 .. Len(Stream)
      BY OrderTypes
    <3> QED
      BY <3>1, ElementOfSeq DEF Byte
  <2> QED
    BY <2>1, OrderTypes
<1>2. WriteAnswers = {}
  BY DEF OneWrite, AcceptsFront
<1>3. \A i \in DOMAIN accepted, j \in DOMAIN Stream : accepted[i] # Stream[j]
  BY <1>2 DEF OnceInv
<1>4. \A i, j \in DOMAIN Stream : Stream[i] = Stream[j] => i = j
  <2> SUFFICES ASSUME NEW i \in DOMAIN Stream, NEW j \in DOMAIN Stream, Stream[i] = Stream[j]
               PROVE  i = j
    OBVIOUS
  <2>1. i \in Nat /\ j \in Nat /\ Stream[i] \in Nat
    BY <1>1
  <2>2. ~(i < j) /\ ~(j < i)
    BY <1>1 DEF StreamAscends
  <2> QED
    BY <2>1, <2>2
<1>5. \A i \in DOMAIN accepted' :
          \/ i \in DOMAIN accepted /\ accepted'[i] = accepted[i]
          \/ /\ i - Len(accepted) \in 1 .. xmit_pending /\ i - Len(accepted) \in DOMAIN Stream
             /\ accepted'[i] = Stream[i - Len(accepted)]
  <2>1. 1 .. xmit_pending \subseteq DOMAIN Stream
    BY <1>1 DEF AcceptsFront
  <2> QED
    BY <2>1 DEF AcceptsFront
<1>6. DOMAIN accepted' \subseteq Int
  <2>1. accepted' = accepted \o Peek(rx, rxd, xmit_pending)
    BY DEF AcceptsFront
  <2>2. accepted \in Seq(Byte) /\ Peek(rx, rxd, xmit_pending) \in Seq(Byte)
    <3>1. \A m \in Nat : m <= get_rb_length(rx) => Peek(rx, rxd, m) \in Seq(Byte)
      BY OrderTypes, StreamFacts
    <3> QED
      BY <3>1, OrderTypes DEF AcceptsFront
  <2>3. accepted' \in Seq(Byte)
    BY <2>1, <2>2, ConcatProperties
  <2> QED
    BY <2>3, LenProperties
<1>7. ASSUME NEW i \in DOMAIN accepted', NEW j \in DOMAIN accepted', accepted'[i] = accepted'[j]
      PROVE  i = j
  <2>1. CASE i \in DOMAIN accepted /\ accepted'[i] = accepted[i]
             /\ j \in DOMAIN accepted /\ accepted'[j] = accepted[j]
    BY <1>7, <2>1 DEF OnceInv
  <2>2. CASE i - Len(accepted) \in DOMAIN Stream /\ accepted'[i] = Stream[i - Len(accepted)]
             /\ j - Len(accepted) \in DOMAIN Stream /\ accepted'[j] = Stream[j - Len(accepted)]
    <3>1. i - Len(accepted) = j - Len(accepted)
      BY <1>4, <1>7, <2>2
    <3> QED
      BY <1>1, <1>6, <3>1
  <2> QED
    BY <1>3, <1>5, <1>7, <2>1, <2>2
<1>8. ASSUME NEW i \in DOMAIN accepted', NEW j \in DOMAIN Stream', accepted'[i] = Stream'[j]
      PROVE  j <= xmit_pending'
  <2>1. i - Len(accepted) \in 1 .. xmit_pending /\ i - Len(accepted) \in DOMAIN Stream
        /\ accepted'[i] = Stream[i - Len(accepted)]
    BY <1>3, <1>5, <1>8
  <2>2. j = i - Len(accepted)
    BY <1>4, <1>8, <2>1
  <2> QED
    BY <1>1, <2>1, <2>2
<1> QED
  BY <1>7, <1>8, FrontAnswered DEF OnceInv

\* OnceInv is inductive.
LEMMA OnceStep ==
    ASSUME TypeOK, TypeOK', StackSound, CopyInv, OneWrite, InOrder, Budgeted, LostInv,
           CleanSocket, OnceInv, [Next]_vars
    PROVE  OnceInv'
<1> USE DEF linkVars, deviceVars, daemonVars, stateVars
<1> SUFFICES ASSUME Untroubled' PROVE OnceInv'
  BY DEF OnceInv
<1>1. Untroubled /\ ~Spend("fault") /\ ~Spend("restart")
  <2>1. \A e \in {"fault", "slow", "restart", "data"} : Never(e)' => Never(e) /\ ~Spend(e)
    BY BudgetStep DEF Events
  <2> QED
    BY <2>1 DEF Untroubled
<1>2. /\ xmit_pending \in Nat /\ get_rb_length(rx) \in Nat /\ xmit_pending <= get_rb_length(rx)
      /\ toHost \in Seq(ToHost)
  BY OrderTypes DEF OneWrite, TypeOK, LinkOK
<1>3. \/ AcceptsNothing
      \/ AcceptsFront /\ AnswersFirst /\ DeviceAnswers
  BY AcceptStep
<1>4. CASE AcceptsFront /\ AnswersFirst /\ DeviceAnswers
  <2>1. UNCHANGED xmit_pending /\ Stream' = Stream
    BY <1>4 DEF DeviceAnswers, driverVars, ringVars, ttyVars, Stream
  <2> QED
    BY <1>1, <1>4, <2>1, OnceAccepted DEF InOrder
<1>5. ASSUME AcceptsNothing, NEW n \in Nat, Shrunk(n), WriteAnswers = {} \/ xmit_pending <= n
      PROVE  OnceInv'
  <2>1. accepted' = accepted
    BY <1>5 DEF AcceptsNothing
  <2>2. ASSUME NEW i \in DOMAIN accepted, NEW j \in DOMAIN Stream', accepted[i] = Stream'[j]
        PROVE  FALSE
    <3>1. j + n \in DOMAIN Stream /\ accepted[i] = Stream[j + n] /\ j \in Nat \ {0}
      BY <1>5, <2>2, StreamType DEF Shrunk
    <3>2. j + n <= xmit_pending /\ WriteAnswers # {}
      BY <1>1, <3>1 DEF OnceInv
    <3>3. ~(j + n <= n)
      BY <1>5, <3>1
    <3>4. j + n <= n
      BY <1>2, <1>5, <3>1, <3>2
    <3> QED
      BY <3>3, <3>4
  <2> QED
    BY <1>1, <2>1, <2>2 DEF OnceInv
<1>6. ASSUME AcceptsNothing, xmit_pending' = xmit_pending,
             \A i \in DOMAIN accepted, j \in DOMAIN Stream' :
                 accepted[i] = Stream'[j] => j \in DOMAIN Stream /\ Stream'[j] = Stream[j],
             (\E k \in WriteAnswers : toHost[k].st = "ok")
                 => \E k \in WriteAnswers' : toHost'[k].st = "ok"
      PROVE  OnceInv'
  BY <1>1, <1>6 DEF OnceInv, AcceptsNothing
<1>7. Stream' = Stream => Shrunk(0)
  <2>1. Stream' = Stream => \A i \in DOMAIN Stream' : i + 0 \in DOMAIN Stream /\ i + 0 = i
    BY StreamType
  <2> QED
    BY <2>1 DEF Shrunk
<1>8. CASE AcceptsNothing /\ (DeviceAnswers \/ DeviceActs)
  <2>1. UNCHANGED xmit_pending /\ Stream' = Stream
    BY <1>8 DEF DeviceAnswers, DeviceActs, driverVars, ringVars, ttyVars, Stream
  <2>2. AnswersFirst \/ SendsUnasked
    BY <1>8, DeviceLink
  <2>3. (\E k \in WriteAnswers : toHost[k].st = "ok")
            => \E k \in WriteAnswers' : toHost'[k].st = "ok"
    BY <2>2, AnswersStayToo
  <2> QED
    BY <1>6, <1>8, <2>1, <2>3
<1>9. CASE AcceptsNothing /\ Tty
  <2>1. UNCHANGED <<toHost, xmit_pending>> /\ WriteAnswers' = WriteAnswers
    BY <1>9 DEF Tty, WriteAnswers
  <2>2. \A i \in DOMAIN accepted, j \in DOMAIN Stream' :
            accepted[i] = Stream'[j] => j \in DOMAIN Stream /\ Stream'[j] = Stream[j]
    <3>1. CASE Stream' = Stream \o <<written + 1>>
      <4>1. written \in Nat /\ <<written + 1>> \in Seq(Byte) /\ Stream \in Seq(Byte)
        <5>1. written \in Nat /\ Stream \in Seq(Byte)
          BY OrderTypes
        <5> QED
          BY <5>1 DEF Byte
      <4>2. \A j \in DOMAIN Stream' :
                \/ j \in DOMAIN Stream /\ Stream'[j] = Stream[j]
                \/ /\ j - Len(Stream) \in DOMAIN <<written + 1>>
                   /\ Stream'[j] = <<written + 1>>[j - Len(Stream)]
        BY <3>1, <4>1, InConcat
      <4>3. \A n \in DOMAIN <<written + 1>> : <<written + 1>>[n] = written + 1
        OBVIOUS
      <4>4. \A i \in DOMAIN accepted : accepted[i] # written + 1
        <5>1. \A i \in DOMAIN accepted : accepted[i] \in 1 .. written
          BY DEF InOrder, AcceptedBefore, Elements
        <5> QED
          BY <4>1, <5>1
      <4> QED
        BY <4>2, <4>3, <4>4
    <3>2. CASE Stream' = Stream \/ Stream' = Unread(rx, rxd)
      <4>1. Shrunk(0)
        BY <1>7, <3>2, OpenShrinks
      <4>2. \A j \in DOMAIN Stream' : j + 0 = j
        BY StreamType
      <4> QED
        BY <4>1, <4>2 DEF Shrunk
    <3> QED
      BY <1>9, <3>1, <3>2, TtyStream
  <2> QED
    BY <1>6, <1>9, <2>1, <2>2
<1>10. CASE UNCHANGED vars
  BY <1>1, <1>10 DEF vars, driverVars, ringVars, ttyVars, portVars, OnceInv, WriteAnswers, Stream
<1>11. CASE main
  BY <1>1, <1>11 DEF main
<1>12. CASE AcceptsNothing /\ DaemonStep
  <2>1. CASE vc_common_close
    BY <1>2, <1>5, <1>12, <2>1, CloseShrinks
  <2>2. CASE Dropped
    <3>1. xmit_pending <= xmit_pending
      BY <1>2
    <3> QED
      BY <1>2, <1>5, <1>12, <2>2, <3>1, DropShrinks
  <2>3. CASE Stream' = Stream /\ WriteAnswers = {}
    BY <1>5, <1>7, <1>12, <2>3
  <2>4. CASE Stream' = Stream /\ stk_excp /\ ~vc_common_close
    BY <1>1, <1>12, <2>3, <2>4, WhyDropped
  <2>5. CASE Stream' = Stream /\ SendsWrite
    <3>1. xmit_pending = 0
      BY <2>5 DEF SendsWrite, vc_common_xmit, MayXmit
    <3>2. WriteAnswers = {}
      BY <3>1 DEF OneWrite
    <3> QED
      BY <2>3, <2>5, <3>2
  <2>6. CASE Stream' = Stream /\ SendsOther /\ TakesOther /\ xmit_pending' = xmit_pending
    <3>1. Top = "idle" => WriteAnswers = {}
      <4>1. Top = "idle" => xmit_pending = 0
        BY <1>1 DEF LostInv, Untroubled
      <4> QED
        BY <1>2, <4>1 DEF OneWrite
    <3>2. (\E k \in WriteAnswers : toHost[k].st = "ok")
              => \E k \in WriteAnswers' : toHost'[k].st = "ok"
      BY <2>6, <3>1, AnswersStay
    <3> QED
      BY <1>6, <1>12, <2>6, <3>2
  <2>7. CASE Stream' = Stream /\ TakesWritten /\ ~Dropped
    <3>1. toHost # <<>> /\ Head(toHost).op = "write" /\ Head(toHost).st # "ok"
      <4>1. /\ RecvWritten /\ toHost # <<>> /\ Head(toHost).op = "write"
            /\ Head(toHost).val = xmit_pending /\ toHost' = Tail(toHost)
            /\ xmit_pending' = 0 /\ toDev' = toDev
        BY <2>7 DEF TakesWritten
      <4>2. Head(toHost).st = "ok" => stk_excp \/ DropWritten
        BY <4>1 DEF RecvWritten, Taken
      <4>3. stk_excp => sk' # sk
        <5>1. Top # "netdown"
          BY <4>1 DEF RecvWritten, Connected
        <5>2. Len(stk) > 1
          BY <5>1, Shapes
        <5> QED
          BY <5>2 DEF StackSound, stk_excp, vc_netdown_init
      <4>4. sk' = sk
        BY <2>7 DEF TakesWritten
      <4> QED
        BY <2>7, <4>1, <4>2, <4>3, <4>4 DEF Dropped
    <3>2. 1 \in WriteAnswers /\ toHost[1] = Head(toHost)
      BY <1>2, <3>1, InTail DEF WriteAnswers
    <3>3. \A k \in WriteAnswers : toHost[k].st # "ok"
      BY <3>1, <3>2 DEF OneWrite
    <3>4. \A i \in DOMAIN accepted, j \in DOMAIN Stream : accepted[i] # Stream[j]
      BY <1>1, <3>3 DEF OnceInv
    <3> QED
      BY <1>1, <1>12, <2>7, <3>4 DEF OnceInv, AcceptsNothing
  <2> QED
    BY <1>12, <2>1, <2>2, <2>4, <2>5, <2>6, <2>7, DaemonStream, DaemonLink
<1> QED
  BY <1>3, <1>4, <1>8, <1>9, <1>10, <1>11, <1>12 DEF Next

\* OnceInv holds throughout.
THEOREM OnceInvariant == Spec => [](CleanSocket /\ OnceInv)
<1>1. Init => CleanSocket /\ OnceInv
  BY DEF Init, DeviceInit, CleanSocket, OnceInv
<1>2. /\ TypeOK /\ TypeOK' /\ StackSound /\ CopyInv /\ OneWrite /\ InOrder /\ OpeningInv
      /\ LostInv /\ CleanSocket /\ OnceInv /\ [Next]_vars
      => (CleanSocket /\ OnceInv)'
  BY CleanStep, OnceStep DEF OpeningInv
<1> QED
  BY <1>1, <1>2, TypeCorrect, StackCorrect, CopyInvariant, OneWriteInvariant, InOrderInvariant,
     OpeningInvariant, LostInvariant, PTL DEF Spec

\* While the connection holds and nobody is late or killed, a busy answer and the
\* retransmission after it repeat nothing the device has accepted.
THEOREM OnceCorrect == Spec => []AcceptedOnce
<1>1. OnceInv => AcceptedOnce
  BY DEF OnceInv, AcceptedOnce, Untroubled
<1> QED
  BY <1>1, OnceInvariant, PTL

(***************************************************************************)
(* PART 3.  What the application reads of what the device sends, and what  *)
(* the device has been told of the flow and the settings of the port.      *)
(***************************************************************************)

(***************************************************************************)
(* The bytes of the ring tx, with those already handed to the tty before.  *)
(***************************************************************************)

\* The ring tx is never marked CLEAN between two steps, no byte is one the device has
\* not sent yet, and each DATAREADY carries one.
ReadInv ==
    /\ ~tx.clean
    /\ \A i \in DOMAIN BytesRead : BytesRead[i] <= produced
    /\ \A i \in DataWaiting : Len(toHost[i].data) = 1 /\ DataByte(i) <= produced
    /\ ReadInOrder

\* The types of what ReadInv speaks of.
LEMMA ReadTypes ==
    ASSUME TypeOK
    PROVE  /\ RingsOK /\ flip \in Seq(Byte) /\ produced \in Nat /\ toHost \in Seq(ToHost)
           /\ BytesRead \in Seq(Byte) /\ Len(BytesRead) \in Nat
           /\ DOMAIN BytesRead = 1 .. Len(BytesRead)
           /\ \A i \in DOMAIN BytesRead : BytesRead[i] \in Nat
           /\ DOMAIN toHost = 1 .. Len(toHost) /\ Len(toHost) \in Nat
           /\ \A i \in DataWaiting : i \in Nat /\ toHost[i].data \in Seq(Byte)
<1>1. RingsOK /\ flip \in Seq(Byte) /\ produced \in Nat /\ toHost \in Seq(ToHost)
  BY DEF TypeOK, RingsOK, PortOK, LinkOK
<1>2. Unread(tx, txd) \in Seq(Byte)
  BY <1>1, RingFacts DEF RingsOK
<1>3. BytesRead \in Seq(Byte)
  BY <1>1, <1>2, ConcatProperties DEF BytesRead
<1>4. Len(BytesRead) \in Nat /\ DOMAIN BytesRead = 1 .. Len(BytesRead)
  BY <1>3, LenProperties
<1>5. \A i \in DOMAIN BytesRead : BytesRead[i] \in Nat
  <2>1. \A i \in 1 .. Len(BytesRead) : BytesRead[i] \in Byte
    BY <1>3, ElementOfSeq
  <2> QED
    BY <1>4, <2>1 DEF Byte
<1>6. DOMAIN toHost = 1 .. Len(toHost) /\ Len(toHost) \in Nat
  BY <1>1, LenProperties
<1>7. \A i \in DataWaiting : i \in Nat /\ toHost[i].data \in Seq(Byte)
  <2>1. \A i \in 1 .. Len(toHost) : toHost[i] \in ToHost
    BY <1>1, ElementOfSeq
  <2> QED
    BY <1>6, <2>1 DEF DataWaiting, ToHost
<1> QED
  BY <1>1, <1>3, <1>4, <1>5, <1>6, <1>7

\* Draining a ring into the tty moves bytes from the ring to what has been read, and
\* keeps their order.
LEMMA RecvKeeps ==
    ASSUME NEW t \in Ring, ~t.clean, NEW d \in [Pos -> Byte], NEW muted \in BOOLEAN,
           flip \in Seq(Byte), adv_uart_recv_chars(t, d, muted)
    PROVE  flip' \o Unread(tx', d) = flip \o Unread(t, d) /\ ~tx'.clean
<1>1. get_rb_length(t) \in Nat /\ t.head \in Pos /\ t.tail \in Pos
  BY RingFacts
<1>2. (IF muted \/ ~t.on THEN {0} ELSE 0 .. get_rb_length(t)) \subseteq 0 .. get_rb_length(t)
  BY <1>1
<1>3. PICK n \in 0 .. get_rb_length(t) :
          tx' = move_rb_head(t, n) /\ flip' = flip \o Peek(t, d, n)
  BY <1>2 DEF adv_uart_recv_chars
<1>4. n \in Nat /\ n <= get_rb_length(t)
  BY <1>1
<1>5. Peek(t, d, n) \o Unread(tx', d) = Unread(t, d)
  BY <1>3, <1>4, UnreadGet
<1>6. tx' \in Ring
  BY <1>3, <1>4, MoveHeadType
<1>7. Peek(t, d, n) \in Seq(Byte) /\ Unread(tx', d) \in Seq(Byte)
  BY <1>1, <1>4, <1>6, PeekType, RingFacts
<1>8. (flip \o Peek(t, d, n)) \o Unread(tx', d) = flip \o (Peek(t, d, n) \o Unread(tx', d))
  BY <1>7, ConcatAssociative
<1>9. ~tx'.clean
  BY <1>3 DEF move_rb_head, Ring
<1> QED
  BY <1>3, <1>5, <1>8, <1>9

\* Nothing but the cursors and the memory of tx matters to what is unread in it.
LEMMA TxUnchanged ==
    ASSUME UNCHANGED <<txd, flip>>, tx'.head = tx.head, tx'.tail = tx.tail
    PROVE  BytesRead' = BytesRead
  BY DEF BytesRead, Unread, Peek, get_rb_length

\* What the tty does to the bytes read: nothing.
LEMMA TtyReads ==
    ASSUME TypeOK, ~tx.clean, Tty
    PROVE  BytesRead' = BytesRead /\ ~tx'.clean /\ UNCHANGED <<toHost, produced>>
<1> USE DEF ringVars, ttyVars, attrVars
<1>1. RingsOK /\ tx \in Ring /\ txd \in [Pos -> Byte] /\ flip \in Seq(Byte)
  BY DEF TypeOK, RingsOK
<1>2. UNCHANGED <<toHost, produced>>
  BY DEF Tty, deviceVars, linkVars, portVars
<1>3. CASE adv_uart_unthrottle
  <2>1. adv_uart_recv_chars(tx, txd, FALSE) /\ txd' = txd
    BY <1>3 DEF adv_uart_unthrottle
  <2>2. flip' \o Unread(tx', txd) = flip \o Unread(tx, txd) /\ ~tx'.clean
    BY <1>1, <2>1, RecvKeeps
  <2> QED
    BY <1>2, <2>1, <2>2 DEF BytesRead
<1>4. CASE adv_uart_startup \/ adv_uart_stop_rx
  <2>1. UNCHANGED <<txd, flip>> /\ \E b \in BOOLEAN : tx' = [tx EXCEPT !.on = b]
    BY <1>4 DEF adv_uart_startup, adv_uart_stop_rx
  <2>2. tx'.head = tx.head /\ tx'.tail = tx.tail /\ tx'.clean = tx.clean
    BY <1>1, <2>1 DEF Ring
  <2> QED
    BY <1>2, <2>1, <2>2, TxUnchanged
<1>5. CASE \/ adv_uart_shutdown \/ adv_uart_start_tx \/ adv_uart_stop_tx
           \/ adv_uart_restart_tx \/ adv_uart_throttle \/ adv_uart_set_termios
           \/ adv_uart_set_mctrl
  <2>1. UNCHANGED <<tx, txd, flip>>
    BY <1>5 DEF adv_uart_shutdown, adv_uart_start_tx, adv_uart_stop_tx, adv_uart_restart_tx,
       adv_uart_throttle, adv_uart_set_termios, adv_uart_set_mctrl
  <2> QED
    BY <1>2, <2>1, TxUnchanged
<1> QED
  BY <1>3, <1>4, <1>5 DEF Tty, TtyStep

(***************************************************************************)
(* What the daemon does to them.                                           *)
(***************************************************************************)

\* What is read is as before, or has lost what was unread.
ReadsFront ==
    /\ ~tx'.clean /\ produced' = produced
    /\ \A i \in DOMAIN BytesRead' : i \in DOMAIN BytesRead /\ BytesRead'[i] = BytesRead[i]

\* The first packet of the socket is data, and its byte is put behind all that is
\* to be read.
ReadsData ==
    /\ ~tx'.clean /\ produced' = produced
    /\ toHost # <<>> /\ Head(toHost).op = "data" /\ toHost' = Tail(toHost)
    /\ BytesRead' = BytesRead \o Head(toHost).data

\* Closing the port throws away what the tty has not taken from tx.
LEMMA CloseReads ==
    ASSUME TypeOK, vc_common_close
    PROVE  ReadsFront
<1>1. tx \in Ring /\ flip \in Seq(Byte) /\ Unread(tx, txd) \in Seq(Byte)
  BY RingFacts DEF TypeOK, RingsOK
<1>2. tx' = [[tx EXCEPT !.clean = TRUE] EXCEPT !.head = tx.tail, !.clean = FALSE]
  BY <1>1 DEF vc_common_close, adv_main_clear, move_rb_head, Ring
<1>3. tx'.head = tx'.tail /\ ~tx'.clean /\ tx'.tail \in Pos
  BY <1>1, <1>2 DEF Ring
<1>4. get_rb_length(tx') = 0
  BY <1>3, SizeAssumption DEF get_rb_length, Pos
<1>5. Unread(tx', txd') = <<>>
  BY <1>4 DEF Unread, Peek
<1>6. flip' = flip /\ produced' = produced
  BY DEF vc_common_close, ttyVars, portVars
<1>7. BytesRead' = flip
  BY <1>1, <1>5, <1>6, ConcatEmptySeq DEF BytesRead
<1>8. \A i \in DOMAIN flip : i \in DOMAIN BytesRead /\ BytesRead[i] = flip[i]
  BY <1>1, InConcat DEF BytesRead
<1> QED
  BY <1>3, <1>6, <1>7, <1>8 DEF ReadsFront

\* A DATAREADY for which there is room is appended: the daemon has looked at the
\* cursors of tx just before, so that it writes where the ring ends.
LEMMA DataReads ==
    ASSUME TypeOK, ~tx.clean, RecvData
    PROVE  ReadsData \/ (stk_excp /\ ReadsFront)
<1> DEFINE s == Head(toHost).data
<1> USE DEF ringVars, ttyVars, attrVars, portVars
<1>1. /\ tx \in Ring /\ txd \in [Pos -> Byte] /\ flip \in Seq(Byte)
      /\ Unread(tx, txd) \in Seq(Byte) /\ throttled \in BOOLEAN /\ toHost \in Seq(ToHost)
  BY RingFacts DEF TypeOK, RingsOK, PortOK, LinkOK
<1>2. toHost # <<>> /\ Head(toHost).op = "data"
  BY DEF RecvData, Good, Receiving
<1>3. TxSeen = Cursors(tx)
  BY <1>2 DEF TxSeen
<1>4. produced' = produced
  BY DEF RecvData
<1>5. CASE stk_excp /\ UNCHANGED <<tx, txd, flip>>
  <2>1. BytesRead' = BytesRead
    BY <1>5, TxUnchanged
  <2> QED
    BY <1>4, <1>5, <2>1 DEF ReadsFront
<1>6. CASE /\ ~(get_rb_room(TxSeen) < Len(s)) /\ toHost' = Tail(toHost)
           /\ txd' = Poke(TxSeen, txd, s)
           /\ adv_uart_recv_chars(move_rb_tail(tx, Len(s)), txd', throttled)
  <2> DEFINE t == move_rb_tail(tx, Len(s))
  <2>1. Head(toHost) \in ToHost
    BY <1>1, <1>2
  <2>2. s \in Seq(Byte) /\ Len(s) \in Nat
    BY <2>1 DEF ToHost
  <2>3. get_rb_room(TxSeen) = get_rb_room(tx)
    BY <1>3 DEF Cursors, get_rb_room, get_rb_length
  <2>4. get_rb_room(tx) \in Nat /\ tx.head \in Pos /\ tx.tail \in Pos
    BY <1>1, RingFacts, RoomType, SizeAssumption DEF Pos
  <2>5. Poke(TxSeen, txd, s) = Poke(tx, txd, s)
    BY <1>3 DEF Cursors, Poke
  <2>6. Len(s) <= get_rb_room(tx)
    BY <1>6, <2>2, <2>3, <2>4
  <2>7. Unread(t, Poke(tx, txd, s)) = Unread(tx, txd) \o s
    BY <1>1, <2>2, <2>6, UnreadPut
  <2>8. t \in Ring /\ t.clean = tx.clean
    <3>1. t \in Ring
      BY <1>1, <2>2, MoveTailType
    <3> QED
      BY <1>1, <3>1 DEF move_rb_tail, Ring
  <2>9. txd' = Poke(tx, txd, s) /\ txd' \in [Pos -> Byte]
    BY <1>1, <1>6, <2>2, <2>4, <2>5, PokeType
  <2> HIDE DEF s, t
  <2>10. adv_uart_recv_chars(t, txd', throttled)
    BY <1>6 DEF t, s
  <2>11. flip' \o Unread(tx', txd') = flip \o Unread(t, txd') /\ ~tx'.clean
    BY <1>1, <2>8, <2>9, <2>10, RecvKeeps
  <2>12. flip \o (Unread(tx, txd) \o s) = (flip \o Unread(tx, txd)) \o s
    <3> DEFINE u == Unread(tx, txd)
    <3>1. u \in Seq(Byte) /\ flip \in Seq(Byte) /\ s \in Seq(Byte)
      BY <1>1, <2>2 DEF s
    <3> HIDE DEF u
    <3> QED
      BY <3>1, ConcatAssociative
  <2>13. BytesRead' = BytesRead \o s
    BY <2>7, <2>9, <2>11, <2>12 DEF BytesRead
  <2> QED
    BY <1>2, <1>4, <1>6, <2>11, <2>13 DEF ReadsData, s
<1> QED
  BY <1>5, <1>6 DEF RecvData

\* What a step of the daemon does to the bytes read, and to its socket.
LEMMA DaemonReads ==
    ASSUME TypeOK, StackSound, ~tx.clean, DaemonStep
    PROVE  \/ ReadsData
           \/ /\ ReadsFront
              /\ \/ toHost' = toHost
                 \/ toHost # <<>> /\ toHost' = Tail(toHost)
                 \/ toHost' = <<>>
<1> USE DEF driverVars, ringVars, ttyVars, attrVars, deviceVars, portVars, linkVars, stateVars
<1>1. \/ toHost' = toHost
      \/ toHost # <<>> /\ toHost' = Tail(toHost)
      \/ toHost' = <<>>
  BY DaemonLink DEF stk_excp, vc_netdown_init, TakesOther, SendsWrite, TakesWritten
<1>2. BytesRead' = BytesRead /\ ~tx'.clean /\ produced' = produced => ReadsFront
  BY DEF ReadsFront
<1>3. UNCHANGED <<tx, txd, flip, produced>> => ReadsFront
  BY <1>2, TxUnchanged
<1>4. CASE vc_common_close
  BY <1>1, <1>4, CloseReads
<1>5. CASE RecvData
  BY <1>1, <1>5, DataReads
<1>6. CASE adv_main_interrupt
  <2>1. /\ tx \in Ring /\ txd \in [Pos -> Byte] /\ flip \in Seq(Byte)
        /\ throttled \in BOOLEAN
    BY DEF TypeOK, RingsOK, PortOK
  <2>2. /\ adv_uart_recv_chars(tx, txd, throttled) /\ txd' = txd /\ produced' = produced
    BY <1>6 DEF adv_main_interrupt
  <2>3. flip' \o Unread(tx', txd) = flip \o Unread(tx, txd) /\ ~tx'.clean
    BY <2>1, <2>2, RecvKeeps
  <2> QED
    BY <1>1, <1>2, <2>2, <2>3 DEF BytesRead
<1>7. CASE \/ vc_netdown_open \/ vc_netdown_open_fails \/ NothingToOpen
           \/ vc_common_ioctl \/ NothingToSet \/ vc_common_xmit \/ NothingToXmit
           \/ vc_netup_pause \/ NothingToPause \/ event
           \/ select \/ vc_netup_poll \/ vc_idle_poll \/ NothingToPoll \/ AttrEvent
           \/ NoPacket \/ RecvExcp \/ vc_idle_recv \/ RecvOther \/ vc_sync_recv
           \/ RecvWritten \/ RxEvent \/ vc_pause_resume \/ NothingToResume
  <2>1. UNCHANGED <<tx, txd, flip, produced>>
    BY <1>7 DEF vc_netdown_open, vc_netdown_open_fails, NothingToOpen, vc_common_ioctl,
       NothingToSet, vc_common_xmit, NothingToXmit, vc_netup_pause, NothingToPause, event,
       select, vc_netup_poll, vc_idle_poll, NothingToPoll, AttrEvent, NoPacket, RecvExcp,
       vc_idle_recv, RecvOther, vc_sync_recv, RecvWritten, RxEvent, vc_pause_resume,
       NothingToResume
  <2> QED
    BY <1>1, <1>3, <2>1
<1> QED
  BY <1>4, <1>5, <1>6, <1>7 DEF DaemonStep

(***************************************************************************)
(* Nothing is delivered twice, out of order, or overwritten.               *)
(***************************************************************************)

\* Reading no more than before, with packets in the socket that were n places
\* further back in it, keeps the order.
LEMMA FrontKeeps ==
    ASSUME TypeOK, TypeOK', ReadInv, ReadsFront, NEW n \in Nat,
           \A i \in DataWaiting' : i + n \in DataWaiting /\ toHost'[i] = toHost[i + n]
    PROVE  ReadInv'
<1>1. \A i \in DataWaiting' : /\ i \in Nat /\ i + n \in DataWaiting
                              /\ toHost'[i] = toHost[i + n] /\ DataByte(i)' = DataByte(i + n)
  <2>1. toHost' \in Seq(ToHost)
    BY DEF TypeOK, LinkOK
  <2>2. \A i \in DOMAIN toHost' : i \in Nat
    BY <2>1
  <2> QED
    BY <2>2 DEF DataByte, DataWaiting
<1>2. \A i, j \in DataWaiting' : i < j => i + n < j + n
  BY <1>1
<1>3. \A i \in DOMAIN BytesRead' : i \in DOMAIN BytesRead /\ BytesRead'[i] = BytesRead[i]
  BY DEF ReadsFront
<1>4. ReadInOrder'
  <2>1. Ascending(BytesRead)'
    BY <1>3 DEF ReadInv, ReadInOrder, Ascending
  <2>2. \A i, j \in DataWaiting' : i < j => DataByte(i)' < DataByte(j)'
    BY <1>1, <1>2 DEF ReadInv, ReadInOrder
  <2>3. \A i \in DOMAIN BytesRead', j \in DataWaiting' : BytesRead'[i] < DataByte(j)'
    BY <1>1, <1>3 DEF ReadInv, ReadInOrder
  <2> QED
    BY <2>1, <2>2, <2>3 DEF ReadInOrder
<1> QED
  BY <1>1, <1>3, <1>4 DEF ReadInv, ReadsFront

\* Appending the first byte of the socket to what is to be read keeps the order: it
\* is behind all that, and before all that follows in the socket.
LEMMA DataKeeps ==
    ASSUME TypeOK, TypeOK', ReadInv, ReadsData
    PROVE  ReadInv'
<1> DEFINE b == DataByte(1)
           u == BytesRead
<1>1. /\ toHost \in Seq(ToHost) /\ toHost # <<>> /\ Head(toHost).op = "data"
      /\ toHost' = Tail(toHost) /\ ~tx'.clean /\ produced' = produced
      /\ BytesRead' = BytesRead \o Head(toHost).data
      /\ BytesRead \in Seq(Byte) /\ produced \in Nat
  BY ReadTypes DEF ReadsData
<1>2. 1 \in DataWaiting /\ toHost[1] = Head(toHost) /\ Head(toHost).data \in Seq(Byte)
  BY <1>1, InTail, ReadTypes DEF DataWaiting
<1>3. Len(Head(toHost).data) = 1 /\ b = Head(toHost).data[1] /\ b <= produced
  BY <1>2 DEF ReadInv, DataByte
<1>4. \A i \in DOMAIN BytesRead' : \/ i \in DOMAIN u /\ BytesRead'[i] = u[i]
                                   \/ i = Len(u) + 1 /\ BytesRead'[i] = b
  <2>1. \A i \in DOMAIN BytesRead' :
            \/ i \in DOMAIN u /\ BytesRead'[i] = u[i]
            \/ /\ i \in Int /\ i - Len(u) \in DOMAIN Head(toHost).data
               /\ BytesRead'[i] = Head(toHost).data[i - Len(u)]
    BY <1>1, <1>2, InConcat
  <2>2. DOMAIN Head(toHost).data = 1 .. 1
    BY <1>2, <1>3
  <2>3. Len(u) \in Nat
    BY <1>1
  <2>4. \A i \in Int : i - Len(u) \in 1 .. 1 => i - Len(u) = 1 /\ i = Len(u) + 1
    BY <2>3
  <2> QED
    BY <1>3, <2>1, <2>2, <2>4
<1>5. \A i \in DOMAIN u : i \in Nat /\ i < Len(u) + 1
  BY ReadTypes
<1>6. \A i \in DataWaiting' : /\ i \in Nat \ {0} /\ i + 1 \in DataWaiting /\ 1 < i + 1
                              /\ toHost'[i] = toHost[i + 1] /\ DataByte(i)' = DataByte(i + 1)
  <2>1. \A i \in DOMAIN Tail(toHost) :
            i + 1 \in DOMAIN toHost /\ Tail(toHost)[i] = toHost[i + 1]
    BY <1>1, InTail
  <2>2. \A i \in DOMAIN Tail(toHost) : i \in Nat \ {0}
    BY <1>1
  <2>3. \A i \in Nat \ {0} : 1 < i + 1
    OBVIOUS
  <2> QED
    BY <1>1, <2>1, <2>2, <2>3 DEF DataWaiting, DataByte
<1>7. /\ \A i \in DOMAIN u : u[i] < b
      /\ \A i \in DataWaiting' : b < DataByte(i)'
      /\ \A i, j \in DataWaiting' : i < j => DataByte(i)' < DataByte(j)'
      /\ \A i \in DOMAIN u, j \in DataWaiting' : u[i] < DataByte(j)'
  <2>1. \A i \in DOMAIN u : u[i] < b
    BY <1>2 DEF ReadInv, ReadInOrder
  <2>2. \A i \in DataWaiting' : b < DataByte(i)'
    BY <1>2, <1>6 DEF ReadInv, ReadInOrder
  <2>3. \A i \in DOMAIN u, j \in DataWaiting' : u[i] < DataByte(j)'
    BY <1>6 DEF ReadInv, ReadInOrder
  <2>4. \A i, j \in DataWaiting' : i < j => i + 1 < j + 1
    BY <1>6
  <2>5. \A i, j \in DataWaiting' : i < j => DataByte(i)' < DataByte(j)'
    BY <1>6, <2>4 DEF ReadInv, ReadInOrder
  <2> QED
    BY <2>1, <2>2, <2>3, <2>5
<1> HIDE DEF b
<1>8. ReadInOrder'
  <2>1. \A i, j \in DOMAIN BytesRead' : i < j => BytesRead'[i] < BytesRead'[j]
    <3> SUFFICES ASSUME NEW i \in DOMAIN BytesRead', NEW j \in DOMAIN BytesRead', i < j
                 PROVE  BytesRead'[i] < BytesRead'[j]
      OBVIOUS
    <3>1. i \in DOMAIN u
      <4>1. Len(u) \in Nat
        BY <1>1
      <4>2. i = Len(u) + 1 => ~(j \in DOMAIN u) /\ ~(j = Len(u) + 1)
        BY <1>5, <4>1
      <4> QED
        BY <1>4, <4>2
    <3>2. CASE j \in DOMAIN u /\ BytesRead'[j] = u[j]
      <4>1. BytesRead'[i] = u[i]
        BY <1>4, <1>5, <3>1
      <4> QED
        BY <3>1, <3>2, <4>1 DEF ReadInv, ReadInOrder, Ascending
    <3>3. CASE BytesRead'[j] = b
      <4>1. BytesRead'[i] = u[i]
        BY <1>4, <1>5, <3>1
      <4> QED
        BY <1>7, <3>1, <3>3, <4>1
    <3> QED
      BY <1>4, <3>2, <3>3
  <2>2. \A i \in DOMAIN BytesRead', j \in DataWaiting' : BytesRead'[i] < DataByte(j)'
    BY <1>4, <1>7
  <2> QED
    BY <1>7, <2>1, <2>2 DEF ReadInOrder, Ascending
<1>9. \A i \in DOMAIN BytesRead' : BytesRead'[i] <= produced
  BY <1>3, <1>4 DEF ReadInv
<1>10. \A i \in DataWaiting' : Len(toHost'[i].data) = 1 /\ DataByte(i)' <= produced
  BY <1>6 DEF ReadInv
<1> QED
  BY <1>1, <1>8, <1>9, <1>10 DEF ReadInv

\* What the device adds to the socket is no data, or the next byte.
LEMMA DeviceProduces ==
    ASSUME TypeOK, DeviceAnswers \/ DeviceActs
    PROVE  \/ /\ produced' = produced
              /\ \A i \in DataWaiting' : i \in DataWaiting /\ toHost'[i] = toHost[i]
           \/ /\ produced' = produced + 1
              /\ \A i \in DataWaiting' :
                     \/ i \in DataWaiting /\ toHost'[i] = toHost[i]
                     \/ i = Len(toHost) + 1 /\ toHost'[i].data = <<produced + 1>>
<1> USE DEF portVars, linkVars
<1>1. toHost \in Seq(ToHost) /\ produced \in Nat
  BY ReadTypes
<1>2. CASE DeviceSendsData
  <2> DEFINE a == [op |-> "data", st |-> "ok", val |-> 0, data |-> <<produced + 1>>]
  <2>1. a \in ToHost /\ a.data = <<produced + 1>>
    <3>1. <<produced + 1>> \in Seq(Byte)
      BY <1>1 DEF Byte
    <3> QED
      BY <3>1 DEF ToHost
  <2>2. toHost' = Append(toHost, a) /\ produced' = produced + 1
    BY <1>2 DEF DeviceSendsData
  <2> HIDE DEF a
  <2>3. toHost' = toHost \o <<a>> /\ <<a>> \in Seq(ToHost)
    BY <1>1, <2>1, <2>2, AppendIsConcat
  <2>4. \A i \in DOMAIN toHost' :
            \/ i \in DOMAIN toHost /\ toHost'[i] = toHost[i]
            \/ i \in Int /\ i - Len(toHost) \in DOMAIN <<a>> /\ toHost'[i] = <<a>>[i - Len(toHost)]
    BY <1>1, <2>3, InConcat
  <2>5. Len(toHost) \in Nat
    BY <1>1
  <2>6. \A i \in Int : i - Len(toHost) \in DOMAIN <<a>> => i = Len(toHost) + 1
                                                           /\ <<a>>[i - Len(toHost)] = a
    BY <2>5
  <2>7. \A i \in DOMAIN toHost' :
            \/ i \in DOMAIN toHost /\ toHost'[i] = toHost[i]
            \/ i = Len(toHost) + 1 /\ toHost'[i].data = <<produced + 1>>
    BY <2>1, <2>4, <2>6
  <2> QED
    BY <2>2, <2>7 DEF DataWaiting
<1>3. CASE ~DeviceSendsData
  <2>1. PICK s \in Seq(ToHost) :
            /\ toHost' = toHost \o s
            /\ \A i \in DOMAIN s : s[i].op # "data"
    <3>1. CASE DeviceAnswers
      <4>1. AnswersFirst
        BY <3>1, DeviceLink
      <4> QED
        BY <4>1 DEF AnswersFirst, IsAnswer
    <3>2. CASE DeviceLineChanges /\ toHost' = toHost
      <4>1. <<>> \in Seq(ToHost) /\ toHost' = toHost \o <<>>
        BY <1>1, <3>2, ConcatEmptySeq
      <4>2. \A i \in DOMAIN <<>> : <<>>[i].op # "data"
        OBVIOUS
      <4> QED
        BY <4>1, <4>2
    <3>3. ASSUME NEW a \in ToHost, a.op # "data", toHost' = Append(toHost, a)
          PROVE  \E s \in Seq(ToHost) : /\ toHost' = toHost \o s
                                        /\ \A i \in DOMAIN s : s[i].op # "data"
      <4>1. <<a>> \in Seq(ToHost) /\ toHost' = toHost \o <<a>>
        BY <1>1, <3>3, AppendIsConcat
      <4>2. \A i \in DOMAIN <<a>> : <<a>>[i].op # "data"
        BY <3>3
      <4> QED
        BY <4>1, <4>2
    <3>4. /\ Answer("womask", "ok", 0) \in ToHost /\ Answer("womask", "ok", 0).op # "data"
          /\ Answer("eof", "bad", 0) \in ToHost /\ Answer("eof", "bad", 0).op # "data"
      <4>1. Answer("womask", "ok", 0) \in ToHost /\ Answer("eof", "bad", 0) \in ToHost
        BY PacketType
      <4> QED
        BY <4>1 DEF Answer
    <3>5. CASE DeviceLineChanges \/ ConnectionBreaks(sk)
      BY <3>2, <3>3, <3>4, <3>5 DEF DeviceLineChanges, ConnectionBreaks
    <3> QED
      BY <1>3, <3>1, <3>5 DEF DeviceActs
  <2>2. produced' = produced
    BY <1>3 DEF DeviceAnswers, DeviceActs, DeviceServes, DeviceBusy, DeviceRefuses,
       DeviceLineChanges, ConnectionBreaks
  <2>3. \A i \in DOMAIN toHost' :
            \/ i \in DOMAIN toHost /\ toHost'[i] = toHost[i]
            \/ i - Len(toHost) \in DOMAIN s /\ toHost'[i] = s[i - Len(toHost)]
    BY <1>1, <2>1, InConcat
  <2> QED
    BY <2>1, <2>2, <2>3 DEF DataWaiting
<1> QED
  BY <1>2, <1>3

\* ReadInv is inductive.
LEMMA ReadStep ==
    ASSUME TypeOK, TypeOK', StackSound, ReadInv, [Next]_vars
    PROVE  ReadInv'
<1> USE DEF driverVars, ringVars, ttyVars, deviceVars, portVars, linkVars
<1>1. toHost \in Seq(ToHost) /\ ~tx.clean /\ produced \in Nat
  BY ReadTypes DEF ReadInv
<1>2. ASSUME ReadsFront, toHost' = toHost PROVE ReadInv'
  <2>1. \A i \in DataWaiting' : i \in DataWaiting
    BY <1>2 DEF DataWaiting
  <2>2. \A i \in DataWaiting' : i + 0 = i
    BY <2>1, ReadTypes
  <2> QED
    BY <1>2, <2>1, <2>2, FrontKeeps
<1>3. ASSUME ReadsFront, toHost # <<>>, toHost' = Tail(toHost) PROVE ReadInv'
  <2>1. \A i \in DataWaiting' : i + 1 \in DataWaiting /\ toHost'[i] = toHost[i + 1]
    BY <1>1, <1>3, InTail DEF DataWaiting
  <2> QED
    BY <1>3, <2>1, FrontKeeps
<1>4. ASSUME ReadsFront, toHost' = <<>> PROVE ReadInv'
  <2>1. DataWaiting' = {}
    BY <1>4 DEF DataWaiting
  <2> QED
    BY <1>4, <2>1, FrontKeeps
<1>5. BytesRead' = BytesRead /\ ~tx'.clean /\ produced' = produced => ReadsFront
  BY DEF ReadsFront
<1>6. CASE DaemonStep
  BY <1>1, <1>2, <1>3, <1>4, <1>6, DaemonReads, DataKeeps
<1>7. CASE Tty
  BY <1>1, <1>2, <1>5, <1>7, TtyReads
<1>8. CASE main
  <2>1. toHost' = <<>> /\ UNCHANGED <<tx, txd, flip, produced>>
    BY <1>8 DEF main, vc_netdown_init
  <2> QED
    BY <1>1, <1>4, <1>5, <2>1, TxUnchanged
<1>9. CASE UNCHANGED vars
  <2>1. UNCHANGED <<toHost, tx, txd, flip, produced>>
    BY <1>9 DEF vars
  <2> QED
    BY <1>1, <1>2, <1>5, <2>1, TxUnchanged
<1>10. CASE DeviceAnswers \/ DeviceActs
  <2>1. UNCHANGED <<tx, txd, flip>>
    BY <1>10 DEF DeviceAnswers, DeviceActs
  <2>2. BytesRead' = BytesRead /\ ~tx'.clean
    BY <1>1, <2>1, TxUnchanged
  <2>3. CASE /\ produced' = produced
             /\ \A i \in DataWaiting' : i \in DataWaiting /\ toHost'[i] = toHost[i]
    <3>1. \A i \in DataWaiting' : i + 0 = i
      BY <2>3, ReadTypes
    <3> QED
      BY <1>5, <2>2, <2>3, <3>1, FrontKeeps
  <2>4. CASE /\ produced' = produced + 1
             /\ \A i \in DataWaiting' :
                    \/ i \in DataWaiting /\ toHost'[i] = toHost[i]
                    \/ i = Len(toHost) + 1 /\ toHost'[i].data = <<produced + 1>>
    <3>1. \A i \in DataWaiting : i \in Nat /\ i < Len(toHost) + 1
      BY ReadTypes DEF DataWaiting
    <3>2. \A i \in DataWaiting' :
              \/ i \in DataWaiting /\ toHost'[i] = toHost[i] /\ DataByte(i)' = DataByte(i)
              \/ i = Len(toHost) + 1 /\ Len(toHost'[i].data) = 1 /\ DataByte(i)' = produced + 1
      <4>1. Len(<<produced + 1>>) = 1 /\ <<produced + 1>>[1] = produced + 1
        OBVIOUS
      <4>2. \A i \in DataWaiting' :
                \/ i \in DataWaiting /\ toHost'[i] = toHost[i]
                \/ /\ i = Len(toHost) + 1
                   /\ Len(toHost'[i].data) = 1 /\ toHost'[i].data[1] = produced + 1
        BY <2>4, <4>1, Zenon
      <4> QED
        BY <4>2 DEF DataByte
    <3>3. \A i \in DataWaiting : /\ Len(toHost[i].data) = 1 /\ DataByte(i) \in Nat
                                 /\ DataByte(i) < produced + 1 /\ DataByte(i) <= produced + 1
      <4>1. \A i \in DataWaiting : DataByte(i) \in Nat /\ Len(toHost[i].data) = 1
                                   /\ DataByte(i) <= produced
        <5>1. \A i \in DataWaiting : toHost[i].data \in Seq(Nat) /\ Len(toHost[i].data) = 1
          BY ReadTypes DEF ReadInv, Byte
        <5> QED
          BY <5>1 DEF ReadInv, DataByte
      <4> QED
        BY <1>1, <4>1
    <3>4. \A i \in DOMAIN BytesRead : /\ BytesRead[i] < produced + 1
                                      /\ BytesRead[i] <= produced + 1
      BY <1>1, ReadTypes DEF ReadInv
    <3>5. \A i \in DataWaiting' : Len(toHost'[i].data) = 1 /\ DataByte(i)' <= produced + 1
      BY <1>1, <3>2, <3>3
    <3>6. \A i, j \in DataWaiting' : i < j => DataByte(i)' < DataByte(j)'
      <4> SUFFICES ASSUME NEW i \in DataWaiting', NEW j \in DataWaiting', i < j
                   PROVE  DataByte(i)' < DataByte(j)'
        OBVIOUS
      <4>1. Len(toHost) \in Nat
        BY ReadTypes
      <4>2. i # Len(toHost) + 1
        BY <3>1, <3>2, <4>1
      <4>3. i \in DataWaiting /\ DataByte(i)' = DataByte(i)
        BY <3>2, <4>2
      <4> QED
        BY <3>2, <3>3, <4>3 DEF ReadInv, ReadInOrder
    <3>7. \A i \in DOMAIN BytesRead, j \in DataWaiting' : BytesRead[i] < DataByte(j)'
      BY <3>2, <3>4 DEF ReadInv, ReadInOrder
    <3>8. ReadInOrder'
      BY <2>2, <3>6, <3>7 DEF ReadInOrder, ReadInv
    <3> QED
      BY <2>2, <2>4, <3>4, <3>5, <3>8 DEF ReadInv
  <2> QED
    BY <1>10, <2>3, <2>4, DeviceProduces
<1> QED
  BY <1>6, <1>7, <1>8, <1>9, <1>10 DEF Next

\* ReadInv holds throughout.
THEOREM ReadInvariant == Spec => []ReadInv
<1>1. Init => ReadInv
  <2> SUFFICES ASSUME Init PROVE ReadInv
    OBVIOUS
  <2>1. /\ tx = [head |-> 0, tail |-> 0, on |-> FALSE, clean |-> FALSE]
        /\ flip = <<>> /\ toHost = <<>>
    BY DEF Init, adv_main_init, DeviceInit
  <2>2. Unread(tx, txd) = <<>>
    BY <2>1 DEF Unread, Peek, get_rb_length
  <2>3. BytesRead = <<>>
    BY <2>1, <2>2 DEF BytesRead
  <2>4. DataWaiting = {}
    BY <2>1 DEF DataWaiting
  <2> QED
    BY <2>1, <2>3, <2>4 DEF ReadInv, ReadInOrder, Ascending
<1>2. TypeOK /\ TypeOK' /\ StackSound /\ ReadInv /\ [Next]_vars => ReadInv'
  BY ReadStep
<1> QED
  BY <1>1, <1>2, TypeCorrect, StackCorrect, PTL DEF Spec

\* What the tty gets, what waits in tx and what waits in the socket ascends from each
\* to the next: adv_uart_recv_chars and the daemon's copy into tx never deliver a byte
\* twice, out of order, or over one that has not been read.
THEOREM ReadCorrect == Spec => []ReadInOrder
<1>1. ReadInv => ReadInOrder
  BY DEF ReadInv
<1> QED
  BY <1>1, ReadInvariant, PTL

(***************************************************************************)
(* What the device will make of the packets under way.                     *)
(***************************************************************************)

\* Every set of places of a sequence has a last one, unless it is empty.
LEMMA LastPlace ==
    ASSUME NEW n \in Nat, NEW T \in SUBSET (1 .. n), T # {}
    PROVE  \E m \in T : \A k \in T : k <= m
<1> DEFINE R == OpToRel(<, Nat)
           D == {n - k : k \in T}
<1>1. IsWellFoundedOn(R, Nat)
  BY NatLessThanWellFounded
<1>2. \A k, m \in Nat : k < m => <<k, m>> \in R
  BY DEF OpToRel
<1> HIDE DEF R
<1>3. D \subseteq Nat /\ D # {}
  <2>1. \A k \in T : k \in Nat /\ n - k \in Nat
    OBVIOUS
  <2>2. \A d \in D : d \in Nat
    BY <2>1
  <2>3. PICK k \in T : TRUE
    OBVIOUS
  <2>4. n - k \in D
    BY <2>3
  <2> QED
    BY <2>2, <2>4
<1>4. PICK d \in D : \A k \in D : <<k, d>> \notin R
  BY <1>1, <1>3, WFMin
<1>5. PICK m \in T : d = n - m
  BY <1>4
<1>6. ASSUME NEW k \in T PROVE k <= m
  <2>1. n - k \in D /\ n - k \in Nat /\ d \in Nat /\ k \in Nat /\ m \in Nat
    BY <1>3, <1>4
  <2> HIDE DEF D
  <2>2. ~(n - k < d)
    BY <1>2, <1>4, <2>1
  <2> QED
    BY <1>5, <2>1, <2>2
<1> QED
  BY <1>6

\* A queue q settles what its packets op set: whoever has the value v before it has
\* the value t after it.
SettlesIn(q, op, v, t) ==
    /\ (\A i \in DOMAIN q : q[i].op # op) => v = t
    /\ \A i \in DOMAIN q :
           q[i].op = op /\ (\A j \in DOMAIN q : q[j].op = op => j <= i) => q[i].val = t

\* Then that is the value of the last of these packets.
LEMMA SettledLast ==
    ASSUME toDev \in Seq(ToDev), NEW op, NEW v, NEW t, SettlesIn(toDev, op, v, t)
    PROVE  Last(op, v) = t
<1> DEFINE is == {i \in DOMAIN toDev : toDev[i].op = op}
           IsLast(i) == \A j \in is : j <= i
<1>1. CASE is = {}
  BY <1>1 DEF SettlesIn, Last
<1>2. CASE is # {}
  <2>1. is \in SUBSET (1 .. Len(toDev)) /\ Len(toDev) \in Nat
    OBVIOUS
  <2>2. \E m \in is : IsLast(m)
    <3> HIDE DEF is
    <3> QED
      BY <1>2, <2>1, LastPlace
  <2> DEFINE m == CHOOSE i \in is : IsLast(i)
  <2>3. m \in is /\ IsLast(m)
    <3> HIDE DEF is, IsLast
    <3> QED
      BY <2>2
  <2>4. Last(op, v) = toDev[m].val
    BY <1>2 DEF Last
  <2> HIDE DEF m
  <2>5. toDev[m].val = t
    BY <2>3 DEF SettlesIn
  <2> QED
    BY <2>4, <2>5
<1> QED
  BY <1>1, <1>2

\* What two queues settle one after the other.
LEMMA SettledOnce ==
    ASSUME NEW S, NEW q \in Seq(S), NEW s \in Seq(S), NEW op, NEW v, NEW t, NEW w,
           SettlesIn(q, op, v, t), SettlesIn(s, op, t, w)
    PROVE  SettlesIn(q \o s, op, v, w)
<1> DEFINE r == q \o s
<1>1. Len(q) \in Nat /\ DOMAIN q = 1 .. Len(q)
  BY LenProperties
<1>2. /\ \A i \in DOMAIN q : i \in DOMAIN r /\ r[i] = q[i]
      /\ \A i \in DOMAIN r :
             \/ i \in DOMAIN q /\ r[i] = q[i]
             \/ i \in Int /\ i - Len(q) \in DOMAIN s /\ r[i] = s[i - Len(q)]
  BY InConcat
<1>3. \A i \in DOMAIN s : i + Len(q) \in DOMAIN r /\ s[i] = r[i + Len(q)]
  BY BackOfConcat
<1>4. DOMAIN s = 1 .. Len(s) /\ Len(s) \in Nat
  BY LenProperties
<1> HIDE DEF r
<1>5. CASE \A i \in DOMAIN s : s[i].op # op
  <2>1. t = w
    BY <1>5 DEF SettlesIn
  <2>2. (\A i \in DOMAIN r : r[i].op # op) => v = t
    BY <1>2 DEF SettlesIn
  <2>3. ASSUME NEW i \in DOMAIN r, r[i].op = op, \A j \in DOMAIN r : r[j].op = op => j <= i
        PROVE  r[i].val = t
    <3>1. i \in DOMAIN q /\ r[i] = q[i]
      BY <1>2, <1>5, <2>3
    <3>2. \A j \in DOMAIN q : q[j].op = op => j <= i
      BY <1>2, <2>3
    <3> QED
      BY <2>3, <3>1, <3>2 DEF SettlesIn
  <2> QED
    BY <2>1, <2>2, <2>3 DEF SettlesIn, r
<1>6. CASE \E i \in DOMAIN s : s[i].op = op
  <2>1. PICK k \in DOMAIN s : s[k].op = op
    BY <1>6
  <2>2. k + Len(q) \in DOMAIN r /\ r[k + Len(q)].op = op
    BY <1>3, <2>1
  <2>3. ASSUME NEW i \in DOMAIN r, r[i].op = op, \A j \in DOMAIN r : r[j].op = op => j <= i
        PROVE  r[i].val = w
    <3>1. k + Len(q) <= i
      BY <2>2, <2>3
    <3>2. i \notin DOMAIN q
      BY <1>1, <1>4, <3>1
    <3>3. i \in Int /\ i - Len(q) \in DOMAIN s /\ r[i] = s[i - Len(q)]
      BY <1>2, <3>2
    <3>4. \A j \in DOMAIN s : s[j].op = op => j <= i - Len(q)
      <4> SUFFICES ASSUME NEW j \in DOMAIN s, s[j].op = op PROVE j <= i - Len(q)
        OBVIOUS
      <4>1. j + Len(q) <= i
        BY <1>3, <2>3
      <4> QED
        BY <1>1, <1>4, <3>3, <4>1
    <3> QED
      BY <2>3, <3>3, <3>4 DEF SettlesIn
  <2> QED
    BY <2>2, <2>3 DEF SettlesIn, r
<1> QED
  BY <1>5, <1>6

\* What is left to settle once the first packet has been served.
LEMMA SettledTail ==
    ASSUME NEW S, NEW q \in Seq(S), q # <<>>, NEW op, NEW v, NEW t, SettlesIn(q, op, v, t)
    PROVE  SettlesIn(Tail(q), op, IF Head(q).op = op THEN Head(q).val ELSE v, t)
<1> DEFINE r == Tail(q)
<1>1. /\ 1 \in DOMAIN q /\ q[1] = Head(q)
      /\ \A i \in DOMAIN r : i + 1 \in DOMAIN q /\ r[i] = q[i + 1]
      /\ \A i \in DOMAIN q \ {1} : i - 1 \in DOMAIN r /\ r[i - 1] = q[i]
  BY InTail
<1>2. DOMAIN q = 1 .. Len(q) /\ r \in Seq(S) /\ DOMAIN r = 1 .. Len(r) /\ Len(q) \in Nat
      /\ Len(r) \in Nat
  <2>1. r \in Seq(S)
    OBVIOUS
  <2> QED
    BY <2>1, LenProperties
<1>3. \A i \in DOMAIN q : i \in Nat \ {0}
  BY <1>2
<1>4. \A i \in DOMAIN r : i \in Nat \ {0}
  BY <1>2
<1> HIDE DEF r
<1>5. ASSUME \A i \in DOMAIN r : r[i].op # op
      PROVE  (IF Head(q).op = op THEN Head(q).val ELSE v) = t
  <2>1. \A i \in DOMAIN q : q[i].op = op => i = 1
    BY <1>1, <1>5
  <2>2. CASE Head(q).op = op
    <3>1. \A j \in DOMAIN q : q[j].op = op => j <= 1
      BY <2>1
    <3> QED
      BY <1>1, <2>2, <3>1 DEF SettlesIn
  <2>3. CASE Head(q).op # op
    BY <1>1, <2>1, <2>3 DEF SettlesIn
  <2> QED
    BY <2>2, <2>3
<1>6. ASSUME NEW i \in DOMAIN r, r[i].op = op, \A j \in DOMAIN r : r[j].op = op => j <= i
      PROVE  r[i].val = t
  <2>1. i + 1 \in DOMAIN q /\ q[i + 1] = r[i] /\ i \in Nat
    BY <1>1, <1>4
  <2>2. \A j \in DOMAIN q : q[j].op = op => j <= i + 1
    <3> SUFFICES ASSUME NEW j \in DOMAIN q, q[j].op = op PROVE j <= i + 1
      OBVIOUS
    <3>1. CASE j = 1
      BY <2>1, <3>1
    <3>2. CASE j # 1
      <4>1. j - 1 <= i
        BY <1>1, <1>6, <3>2
      <4> QED
        BY <1>3, <2>1, <4>1
    <3> QED
      BY <3>1, <3>2
  <2> QED
    BY <1>6, <2>1, <2>2 DEF SettlesIn
<1> QED
  BY <1>5, <1>6 DEF SettlesIn, r

\* What few packets settle.
LEMMA SettledBy ==
    ASSUME NEW op, NEW v
    PROVE  /\ SettlesIn(<<>>, op, v, v)
           /\ \A p : SettlesIn(<<p>>, op, v, IF p.op = op THEN p.val ELSE v)
<1>1. SettlesIn(<<>>, op, v, v)
  BY DEF SettlesIn
<1>2. ASSUME NEW p PROVE SettlesIn(<<p>>, op, v, IF p.op = op THEN p.val ELSE v)
  <2>1. DOMAIN <<p>> = {1} /\ <<p>>[1] = p
    OBVIOUS
  <2> QED
    BY <2>1, Zenon DEF SettlesIn
<1> QED
  BY <1>1, <1>2

\* Packets of another kind settle nothing.
LEMMA SettledWithout ==
    ASSUME NEW s, NEW op, NEW v, \A i \in DOMAIN s : s[i].op # op
    PROVE  SettlesIn(s, op, v, v)
  BY DEF SettlesIn

(***************************************************************************)
(* What the daemon tells the device.                                       *)
(***************************************************************************)

\* The value of the last QUEUEFREE the device has seen, and of the one that the state
\* of the daemon stands for.
Go == IF dev.go THEN 1 ELSE 0
Flow == IF stk[2] = "netup" THEN 1 ELSE 0

\* The daemon's packets settle what its state changes, and nothing else.
Tells ==
    /\ UNCHANGED <<sk, dev>> /\ (~sk => eki' = eki)
    /\ \E s \in Seq(ToDev) :
           /\ toDev' = toDev \o s
           /\ \A i \in DOMAIN s : s[i].op = "queuefree" => s[i].val \in {0, 1}
           /\ SettlesIn(s, "queuefree", Flow, Flow')
           /\ SettlesIn(s, "line", eki.line, eki'.line)
           /\ SettlesIn(s, "ms", eki.ms, eki'.ms)

\* The state above the bottom of the stack, and what the stack operations make of it.
LEMMA FlowStack ==
    ASSUME TypeOK, StackSound
    PROVE  /\ Top \in Connected =>
                  /\ stk[2] = Top
                  /\ \A s \in States : Replace(s)[2] = s /\ Append(stk, s)[2] = stk[2]
           /\ Top = "idle" => PopStk[2] = stk[2]
           /\ Top = "netdown" => \A s \in States : Append(stk, s)[2] = s
<1>1. stk \in Seq(States)
  BY DEF TypeOK, LinkOK
<1>2. ASSUME Top \in Connected
      PROVE  /\ stk[2] = Top
             /\ \A s \in States : Replace(s)[2] = s /\ Append(stk, s)[2] = stk[2]
  <2>1. Len(stk) = 2
    BY <1>2, Shapes DEF Connected
  <2>2. stk[2] = Top
    BY <2>1 DEF Top
  <2>3. ASSUME NEW s \in States PROVE Replace(s)[2] = s /\ Append(stk, s)[2] = stk[2]
    <3>1. 2 \in 1 .. Len(stk)
      BY <2>1
    <3>2. Replace(s)[2] = s
      BY <1>1, <2>1, <3>1, ExceptSeq DEF Replace
    <3>3. Append(stk, s)[2] = stk[2]
      BY <1>1, <3>1, AppendProperties
    <3> QED
      BY <3>2, <3>3
  <2> QED
    BY <2>2, <2>3
<1>3. ASSUME Top = "idle" PROVE PopStk[2] = stk[2]
  <2>1. Len(stk) = 3
    BY <1>3, Shapes DEF Connected
  <2>2. PopStk = SubSeq(stk, 1, 2)
    BY <2>1 DEF PopStk
  <2>3. \A i \in 1 .. 2 : stk[i] \in States
    <3>1. 1 .. 2 \subseteq 1 .. Len(stk)
      BY <2>1
    <3> QED
      BY <1>1, <3>1, ElementOfSeq
  <2>4. \A i \in 1 .. 2 : SubSeq(stk, 1, 2)[i] = stk[i]
    BY <2>3, SubSeqProperties
  <2> QED
    BY <2>2, <2>4
<1>4. ASSUME Top = "netdown", NEW s \in States PROVE Append(stk, s)[2] = s
  <2>1. Len(stk) = 1
    BY <1>4, Shapes DEF Connected
  <2> QED
    BY <1>1, <2>1, AppendProperties
<1> QED
  BY <1>2, <1>3, <1>4

\* The settings that changed are sent.
LEMMA SettingsSettle ==
    ASSUME TypeOK
    PROVE  /\ Settings \in Seq(ToDev)
           /\ \A i \in DOMAIN Settings : Settings[i].op # "queuefree"
           /\ SettlesIn(Settings, "line", eki.line, usr.line)
           /\ SettlesIn(Settings, "ms", eki.ms, usr.ms)
<1> DEFINE a == IF usr.line # eki.line THEN <<Packet("line", usr.line)>> ELSE <<>>
           b == IF usr.ms # eki.ms THEN <<Packet("ms", usr.ms)>> ELSE <<>>
<1>1. usr.line \in Int /\ usr.ms \in Int
  BY DriverAssumption DEF TypeOK, PortOK, Attr, Lines
<1>2. Packet("line", usr.line) \in ToDev /\ Packet("ms", usr.ms) \in ToDev
  BY <1>1, PacketType
<1>3. a \in Seq(ToDev) /\ b \in Seq(ToDev)
  BY <1>2
<1>4. Settings = a \o b
  BY DEF Settings
<1>5. /\ \A i \in DOMAIN a : a[i].op = "line"
      /\ \A i \in DOMAIN b : b[i].op = "ms"
  BY DEF Packet
<1>6. SettlesIn(a, "line", eki.line, usr.line)
  <2>1. CASE usr.line = eki.line
    BY <2>1, SettledBy
  <2>2. CASE usr.line # eki.line
    <3>1. Packet("line", usr.line).op = "line" /\ Packet("line", usr.line).val = usr.line
      BY DEF Packet
    <3>2. SettlesIn(<<Packet("line", usr.line)>>, "line", eki.line, usr.line)
      BY <3>1, SettledBy
    <3> QED
      BY <2>2, <3>2
  <2> QED
    BY <2>1, <2>2
<1>7. SettlesIn(b, "ms", eki.ms, usr.ms)
  <2>1. CASE usr.ms = eki.ms
    BY <2>1, SettledBy
  <2>2. CASE usr.ms # eki.ms
    <3>1. Packet("ms", usr.ms).op = "ms" /\ Packet("ms", usr.ms).val = usr.ms
      BY DEF Packet
    <3>2. SettlesIn(<<Packet("ms", usr.ms)>>, "ms", eki.ms, usr.ms)
      BY <3>1, SettledBy
    <3> QED
      BY <2>2, <3>2
  <2> QED
    BY <2>1, <2>2
<1> HIDE DEF a, b
<1>8. /\ SettlesIn(b, "line", usr.line, usr.line)
      /\ SettlesIn(a, "ms", eki.ms, eki.ms)
  BY <1>5, SettledWithout
<1>9. /\ SettlesIn(a \o b, "line", eki.line, usr.line)
      /\ SettlesIn(a \o b, "ms", eki.ms, usr.ms)
  BY <1>3, <1>6, <1>7, <1>8, SettledOnce
<1>10. \A i \in DOMAIN Settings : \/ i \in DOMAIN a /\ Settings[i] = a[i]
                                  \/ i - Len(a) \in DOMAIN b /\ Settings[i] = b[i - Len(a)]
  BY <1>3, <1>4, InConcat
<1>11. \A i \in DOMAIN Settings : Settings[i].op # "queuefree"
  BY <1>5, <1>10
<1>12. Settings \in Seq(ToDev)
  BY <1>3, <1>4, ConcatProperties
<1> QED
  BY <1>4, <1>9, <1>11, <1>12

\* The handshake of a connection sends the modem outputs and the first QUEUEFREE.
LEMMA OpenSettles ==
    ASSUME TypeOK
    PROVE  /\ vc_common_open \in Seq(ToDev)
           /\ \A i \in DOMAIN vc_common_open :
                  vc_common_open[i].op = "queuefree" => vc_common_open[i].val \in {0, 1}
           /\ SettlesIn(vc_common_open, "queuefree", 0, IF is_rb_empty(dtx) THEN 1 ELSE 0)
           /\ SettlesIn(vc_common_open, "line", LineUndef, LineUndef)
           /\ SettlesIn(vc_common_open, "ms", 0, usr.ms)
<1> DEFINE q == <<Packet("create", 0)>>
           r == vc_sync_init
           f == IF is_rb_empty(dtx) THEN 1 ELSE 0
<1>1. usr.ms \in Int /\ f \in {0, 1} /\ f \in Int
  BY DEF TypeOK, PortOK, Attr
<1>2. /\ Packet("create", 0) \in ToDev /\ Packet("ms", usr.ms) \in ToDev
      /\ Packet("setwmask", 0) \in ToDev /\ Packet("getmodem", 0) \in ToDev
      /\ Packet("queuefree", f) \in ToDev
  BY <1>1, PacketType
<1>3. r = <<Packet("ms", usr.ms), Packet("setwmask", 0), Packet("getmodem", 0),
            Packet("queuefree", f)>>
  BY DEF vc_sync_init, sync_queue
<1>4. q \in Seq(ToDev) /\ r \in Seq(ToDev) /\ vc_common_open = q \o r
  BY <1>2, <1>3 DEF vc_common_open
<1>5. DOMAIN q = {1} /\ q[1].op = "create"
  BY DEF Packet
<1>6. /\ DOMAIN r = {1, 2, 3, 4}
      /\ r[1].op = "ms" /\ r[1].val = usr.ms
      /\ r[2].op = "setwmask" /\ r[3].op = "getmodem"
      /\ r[4].op = "queuefree" /\ r[4].val = f
  <2>1. DOMAIN r = {1, 2, 3, 4}
    BY <1>3
  <2> QED
    BY <1>3, <2>1 DEF Packet
<1> HIDE DEF q, r, f
<1>7. /\ SettlesIn(r, "queuefree", 0, f) /\ SettlesIn(r, "line", LineUndef, LineUndef)
      /\ SettlesIn(r, "ms", 0, usr.ms)
  BY <1>6 DEF SettlesIn
<1>8. /\ SettlesIn(q, "queuefree", 0, 0) /\ SettlesIn(q, "line", LineUndef, LineUndef)
      /\ SettlesIn(q, "ms", 0, 0)
  BY <1>5, SettledWithout
<1>9. /\ SettlesIn(q \o r, "queuefree", 0, f)
      /\ SettlesIn(q \o r, "line", LineUndef, LineUndef)
      /\ SettlesIn(q \o r, "ms", 0, usr.ms)
  BY <1>4, <1>7, <1>8, SettledOnce
<1>10. \A i \in DOMAIN vc_common_open :
           \/ i \in DOMAIN q /\ vc_common_open[i] = q[i]
           \/ i - Len(q) \in DOMAIN r /\ vc_common_open[i] = r[i - Len(q)]
  BY <1>4, InConcat
<1>11. \A i \in DOMAIN vc_common_open :
           vc_common_open[i].op = "queuefree" => vc_common_open[i].val \in {0, 1}
  <2>1. /\ \A i \in DOMAIN q : q[i].op # "queuefree"
        /\ \A i \in DOMAIN r : r[i].op = "queuefree" => r[i].val \in {0, 1}
    BY <1>1, <1>5, <1>6
  <2> QED
    BY <1>10, <2>1
<1>12. vc_common_open \in Seq(ToDev)
  BY <1>4, ConcatProperties
<1> QED
  BY <1>4, <1>9, <1>11, <1>12 DEF f

\* What a step of the daemon tells the device: nothing the state it goes to does not
\* stand for.
LEMMA DaemonTells ==
    ASSUME TypeOK, StackSound, DaemonStep
    PROVE  stk_excp \/ Tells \/ vc_netdown_open
<1> USE DEF deviceVars, linkVars, stateVars
<1>1. stk \in Seq(States) /\ toDev \in Seq(ToDev)
  BY DEF TypeOK, LinkOK
<1>2. SendFails => stk_excp
  BY DEF SendFails
<1>3. /\ "netup" \in States /\ "pause" \in States /\ "idle" \in States
  BY DEF States
<1>4. toDev = toDev \o <<>> /\ <<>> \in Seq(ToDev)
  BY <1>1, ConcatEmptySeq
<1>5. \A op, v : SettlesIn(<<>>, op, v, v)
  BY SettledBy
<1>6. ASSUME UNCHANGED <<toDev, sk, dev, eki>>, Flow' = Flow PROVE Tells
  <2>1. \A i \in DOMAIN <<>> : <<>>[i].op = "queuefree" => <<>>[i].val \in {0, 1}
    OBVIOUS
  <2> QED
    BY <1>4, <1>5, <1>6, <2>1 DEF Tells
<1>7. stk' = stk => Flow' = Flow
  BY DEF Flow
<1>8. ASSUME NEW p \in ToDev, toDev' = Append(toDev, p), UNCHANGED <<sk, dev, eki>>,
             p.op \notin {"line", "ms"},
             p.op = "queuefree" => p.val \in {0, 1} /\ Flow' = p.val,
             p.op # "queuefree" => Flow' = Flow
      PROVE  Tells
  <2>1. <<p>> \in Seq(ToDev) /\ toDev' = toDev \o <<p>>
    BY <1>1, <1>8, AppendIsConcat
  <2>2. \A i \in DOMAIN <<p>> : <<p>>[i] = p
    OBVIOUS
  <2>3. SettlesIn(<<p>>, "queuefree", Flow, IF p.op = "queuefree" THEN p.val ELSE Flow)
    BY SettledBy
  <2>4. SettlesIn(<<p>>, "line", eki.line, eki.line) /\ SettlesIn(<<p>>, "ms", eki.ms, eki.ms)
    <3>1. \A i \in DOMAIN <<p>> : <<p>>[i].op # "line" /\ <<p>>[i].op # "ms"
      BY <1>8, <2>2
    <3> QED
      BY <3>1, SettledWithout
  <2>5. SettlesIn(<<p>>, "queuefree", Flow, Flow')
    BY <1>8, <2>3
  <2>6. \A i \in DOMAIN <<p>> : <<p>>[i].op = "queuefree" => <<p>>[i].val \in {0, 1}
    BY <1>8, <2>2
  <2> QED
    BY <1>8, <2>1, <2>4, <2>5, <2>6 DEF Tells
<1>9. \A v \in {0, 1} : /\ Packet("queuefree", v) \in ToDev
                        /\ Packet("queuefree", v).op = "queuefree"
                        /\ Packet("queuefree", v).val = v
  <2>1. \A v \in {0, 1} : v \in Int
    OBVIOUS
  <2>2. \A v \in {0, 1} : Packet("queuefree", v) \in ToDev
    BY <2>1, PacketType
  <2> QED
    BY <2>2 DEF Packet
<1>10. \A s \in {"netup", "pause"} :
           Top \in Connected /\ stk' = Replace(s) => Flow' = IF s = "netup" THEN 1 ELSE 0
  <2>1. \A s \in States : Top \in Connected => Replace(s)[2] = s
    BY FlowStack
  <2> QED
    BY <1>3, <2>1 DEF Flow
<1>11. CASE vc_common_ioctl
  <2>1. CASE /\ toDev' = toDev \o Settings
             /\ eki' = [eki EXCEPT !.line = usr.line, !.ms = usr.ms]
             /\ UNCHANGED <<stk, sk, xmit_pending, toHost, dev, left>>
    <3>1. eki \in Eki
      BY DEF TypeOK, LinkOK
    <3>2. eki'.line = usr.line /\ eki'.ms = usr.ms
      BY <2>1, <3>1 DEF Eki
    <3>9. sk
      <4>1. Top \in Connected /\ Top # "netdown"
        BY <1>11 DEF vc_common_ioctl, Connected
      <4>2. Len(stk) = 2 \/ Len(stk) = 3
        BY <4>1, Shapes
      <4>3. sk <=> Len(stk) > 1
        BY DEF StackSound
      <4> QED
        BY <4>2, <4>3
    <3>3. \A i \in DOMAIN Settings : Settings[i].op # "queuefree"
      BY SettingsSettle
    <3>4. SettlesIn(Settings, "queuefree", Flow, Flow)
      BY <3>3, SettledWithout
    <3>5. UNCHANGED <<sk, dev>> /\ Flow' = Flow
      BY <1>7, <2>1
    <3>6. SettlesIn(Settings, "line", eki.line, eki'.line)
          /\ SettlesIn(Settings, "ms", eki.ms, eki'.ms) /\ Settings \in Seq(ToDev)
      BY <3>2, SettingsSettle
    <3>7. toDev' = toDev \o Settings
      BY <2>1
    <3> HIDE DEF Settings
    <3>8. SettlesIn(Settings, "queuefree", Flow, Flow')
      BY <3>4, <3>5
    <3> QED
      BY <3>3, <3>5, <3>6, <3>7, <3>8, <3>9 DEF Tells
  <2> QED
    BY <1>2, <1>11, <2>1 DEF vc_common_ioctl
<1>12. CASE vc_common_xmit
  <2> DEFINE n == least(get_rb_length(drx), XmitLen)
             p == [op |-> "write", val |-> n, data |-> Peek(drx, rxd, n)]
  <2>1. CASE SendFails
    BY <1>2, <2>1
  <2>2. CASE toDev' = Append(toDev, p) /\ UNCHANGED <<stk, sk, eki, toHost, dev, left>>
    <3>1. drx.head \in Pos /\ drx.tail \in Pos /\ rxd \in [Pos -> Byte]
      BY DEF TypeOK, LoopOK, RingsOK, RingCopy
    <3>2. n \in Nat
      BY <3>1, LengthType, SizeAssumption, DaemonAssumption DEF least, Pos
    <3>3. Peek(drx, rxd, n) \in Seq(Byte)
      BY <3>1, <3>2, PeekType
    <3> HIDE DEF n
    <3>4. p \in ToDev /\ p.op = "write"
      BY <3>2, <3>3 DEF ToDev
    <3> HIDE DEF p
    <3> QED
      BY <1>7, <1>8, <2>2, <3>4
  <2> QED
    BY <1>12, <2>1, <2>2 DEF vc_common_xmit
<1>13. CASE vc_netup_pause
  <2>1. CASE SendFails
    BY <1>2, <2>1
  <2>2. CASE /\ toDev' = Append(toDev, Packet("queuefree", 0)) /\ stk' = Replace("pause")
             /\ UNCHANGED <<sk, eki, dev>>
    <3>1. Flow' = 0
      BY <1>10, <1>13, <2>2 DEF vc_netup_pause, Connected
    <3> QED
      BY <1>8, <1>9, <2>2, <3>1
  <2> QED
    BY <1>13, <2>1, <2>2 DEF vc_netup_pause
<1>14. CASE vc_pause_resume
  <2>1. CASE SendFails
    BY <1>2, <2>1
  <2>2. CASE /\ toDev' = Append(toDev, Packet("queuefree", 1)) /\ stk' = Replace("netup")
             /\ UNCHANGED <<sk, eki, dev>>
    <3>1. Flow' = 1
      BY <1>10, <1>14, <2>2 DEF vc_pause_resume, Connected
    <3> QED
      BY <1>8, <1>9, <2>2, <3>1
  <2>3. CASE UNCHANGED <<stateVars, linkVars>>
    BY <1>6, <1>7, <2>3
  <2> QED
    BY <1>14, <2>1, <2>2, <2>3 DEF vc_pause_resume
<1>15. CASE vc_netup_poll
  <2>1. CASE SendFails
    BY <1>2, <2>1
  <2>2. CASE /\ toDev' = Append(toDev, Packet("getwmask", 0)) /\ stk' = Append(stk, "idle")
             /\ UNCHANGED <<sk, eki, dev>>
    <3>1. Packet("getwmask", 0) \in ToDev /\ Packet("getwmask", 0).op = "getwmask"
      <4>1. Packet("getwmask", 0) \in ToDev
        BY PacketType
      <4> QED
        BY <4>1 DEF Packet
    <3>2. Flow' = Flow
      <4>1. Append(stk, "idle")[2] = stk[2]
        BY <1>3, <1>15, FlowStack DEF vc_netup_poll
      <4> QED
        BY <2>2, <4>1 DEF Flow
    <3> QED
      BY <1>8, <2>2, <3>1, <3>2
  <2> QED
    BY <1>15, <2>1, <2>2 DEF vc_netup_poll
<1>16. CASE vc_idle_recv
  <2>1. PopStk[2] = stk[2]
    BY <1>16, FlowStack DEF vc_idle_recv
  <2>2. Flow' = Flow
    BY <1>16, <2>1 DEF vc_idle_recv, Flow
  <2> QED
    BY <1>6, <1>16, <2>2 DEF vc_idle_recv
<1>17. CASE vc_sync_recv
  <2>1. CASE SendFails
    BY <1>2, <2>1
  <2>2. CASE toDev' = toDev \o NextRequest /\ UNCHANGED <<stateVars, dev>>
    <3>1. NextRequest \in Seq(ToDev)
      BY SentType DEF TypeOK
    <3>2. \A i \in DOMAIN NextRequest : NextRequest[i].op \notin {"line", "ms", "queuefree"}
      BY DEF NextRequest, Packet
    <3> HIDE DEF NextRequest
    <3>3. /\ SettlesIn(NextRequest, "queuefree", Flow, Flow)
          /\ SettlesIn(NextRequest, "line", eki.line, eki.line)
          /\ SettlesIn(NextRequest, "ms", eki.ms, eki.ms)
      BY <3>2, SettledWithout
    <3>4. Flow' = Flow /\ UNCHANGED <<sk, dev, eki>>
      BY <1>7, <2>2
    <3>5. SettlesIn(NextRequest, "queuefree", Flow, Flow')
      BY <3>3, <3>4
    <3> QED
      BY <2>2, <3>1, <3>2, <3>3, <3>4, <3>5 DEF Tells
  <2> QED
    BY <1>17, <2>1, <2>2 DEF vc_sync_recv
<1>18. CASE \/ vc_netdown_open_fails \/ vc_common_close \/ vc_idle_poll \/ RecvExcp
            \/ NoPacket \/ RecvData \/ RecvWritten
  <2>1. stk_excp \/ UNCHANGED <<toDev, sk, dev, eki, stk>>
    BY <1>2, <1>18 DEF vc_netdown_open_fails, vc_common_close, vc_idle_poll,
       RecvExcp, NoPacket, RecvData, RecvWritten
  <2> QED
    BY <1>6, <1>7, <2>1
<1>19. CASE \/ NothingToOpen \/ NothingToSet \/ NothingToXmit \/ NothingToPause
            \/ event \/ adv_main_interrupt \/ select \/ NothingToPoll \/ AttrEvent
            \/ RecvOther \/ RxEvent \/ NothingToResume
  <2>1. UNCHANGED <<toDev, sk, dev, eki, stk>>
    BY <1>19 DEF NothingToOpen, NothingToSet, NothingToXmit, NothingToPause, event,
       adv_main_interrupt, select, NothingToPoll, AttrEvent, RecvOther, RxEvent, NothingToResume
  <2> QED
    BY <1>6, <1>7, <2>1
<1> QED
  BY <1>11, <1>12, <1>13, <1>14, <1>15, <1>16, <1>17, <1>18, <1>19 DEF DaemonStep

(***************************************************************************)
(* What the device has been told is what the daemon's state stands for.    *)
(***************************************************************************)

\* The packets under way settle what the daemon believes to be settled.  A device
\* that has refused one may be set to something else, but a QUEUEFREE is not answered
\* and so cannot be refused.
Settling ==
    /\ \A i \in DOMAIN toDev : toDev[i].op = "queuefree" => toDev[i].val \in {0, 1}
    /\ ~sk => eki = EkiUndef
    /\ Serving => SettlesIn(toDev, "queuefree", Go, Flow)
    /\ Serving /\ Never("fault") =>
           /\ SettlesIn(toDev, "line", dev.line, eki.line)
           /\ SettlesIn(toDev, "ms", dev.ms, eki.ms)

\* What the daemon tells the device is put behind what is already under way.
LEMMA TellsSettles ==
    ASSUME TypeOK, Settling, Tells, Never("fault")' => Never("fault")
    PROVE  Settling'
<1>1. toDev \in Seq(ToDev)
  BY DEF TypeOK, LinkOK
<1>2. UNCHANGED <<sk, dev>> /\ (~sk => eki' = eki)
  BY DEF Tells
<1>3. PICK s \in Seq(ToDev) :
          /\ toDev' = toDev \o s
          /\ \A i \in DOMAIN s : s[i].op = "queuefree" => s[i].val \in {0, 1}
          /\ SettlesIn(s, "queuefree", Flow, Flow')
          /\ SettlesIn(s, "line", eki.line, eki'.line)
          /\ SettlesIn(s, "ms", eki.ms, eki'.ms)
  BY DEF Tells
<1>4. \A i \in DOMAIN toDev' : \/ i \in DOMAIN toDev /\ toDev'[i] = toDev[i]
                               \/ i - Len(toDev) \in DOMAIN s /\ toDev'[i] = s[i - Len(toDev)]
  BY <1>1, <1>3, InConcat
<1>5. \A i \in DOMAIN toDev' : toDev'[i].op = "queuefree" => toDev'[i].val \in {0, 1}
  BY <1>3, <1>4 DEF Settling
<1>6. Serving' = Serving /\ Go' = Go
  BY <1>2 DEF Serving, Go
<1>7. Serving' => SettlesIn(toDev', "queuefree", Go', Flow')
  BY <1>1, <1>3, <1>6, SettledOnce DEF Settling
<1>8. Serving' /\ Never("fault")' =>
          /\ SettlesIn(toDev', "line", dev'.line, eki'.line)
          /\ SettlesIn(toDev', "ms", dev'.ms, eki'.ms)
  BY <1>1, <1>2, <1>3, <1>6, SettledOnce DEF Settling
<1> QED
  BY <1>2, <1>5, <1>7, <1>8 DEF Settling

\* A new connection begins with nothing set, and says all that the daemon believes.
LEMMA OpenStartsSettled ==
    ASSUME TypeOK, StackSound, Settling, vc_netdown_open
    PROVE  Settling'
<1>1. /\ toDev' = vc_common_open /\ sk' = TRUE /\ dev' = dev
      /\ stk' = Append(stk, IF is_rb_empty(dtx) THEN "netup" ELSE "pause")
      /\ eki' = [eki EXCEPT !.open = TRUE, !.ms = usr.ms]
      /\ ~eki.open /\ Top = "netdown"
  BY DEF vc_netdown_open
<1>2. ~sk /\ dev = NoSession
  BY <1>1 DEF StackSound
<1>3. eki'.line = LineUndef /\ eki'.ms = usr.ms
  <2>1. eki = EkiUndef
    BY <1>2 DEF Settling
  <2> QED
    BY <1>1, <2>1 DEF EkiUndef
<1>4. dev'.line = LineUndef /\ dev'.ms = 0 /\ Go' = 0
  BY <1>1, <1>2 DEF NoSession, Go
<1>5. Flow' = IF is_rb_empty(dtx) THEN 1 ELSE 0
  <2>1. stk'[2] = IF is_rb_empty(dtx) THEN "netup" ELSE "pause"
    BY <1>1, FlowStack DEF States
  <2> QED
    BY <2>1 DEF Flow
<1>6. /\ \A i \in DOMAIN toDev' : toDev'[i].op = "queuefree" => toDev'[i].val \in {0, 1}
      /\ SettlesIn(toDev', "queuefree", Go', Flow')
      /\ SettlesIn(toDev', "line", dev'.line, eki'.line)
      /\ SettlesIn(toDev', "ms", dev'.ms, eki'.ms)
  BY <1>1, <1>3, <1>4, <1>5, OpenSettles
<1> QED
  BY <1>1, <1>6 DEF Settling

\* What the device serves is settled; what it refuses is not, and costs a fault.
LEMMA DeviceSettles ==
    ASSUME TypeOK, Settling, DeviceAnswers, Never("fault")' => Never("fault") /\ ~Spend("fault")
    PROVE  Settling'
<1> DEFINE p == Head(toDev)
<1> USE DEF linkVars
<1>1. toDev \in Seq(ToDev) /\ dev \in Dev
  BY DEF TypeOK, LinkOK
<1>2. toDev # <<>> /\ dev.alive /\ toDev' = Tail(toDev)
  BY DEF DeviceAnswers, DeviceServes, DeviceBusy, DeviceRefuses
<1>3. UNCHANGED <<sk, eki, stk>> /\ Flow' = Flow
  BY DEF DeviceAnswers, daemonVars, stateVars, Flow
<1>4. /\ 1 \in DOMAIN toDev /\ toDev[1] = p
      /\ \A i \in DOMAIN Tail(toDev) : i + 1 \in DOMAIN toDev /\ Tail(toDev)[i] = toDev[i + 1]
  BY <1>1, <1>2, InTail
<1>5. \A i \in DOMAIN toDev' : toDev'[i].op = "queuefree" => toDev'[i].val \in {0, 1}
  BY <1>2, <1>4 DEF Settling
<1>6. p.op = "queuefree" => p.val \in {0, 1}
  BY <1>4 DEF Settling
<1>7. dev'.alive = dev.alive
  <2>1. CASE DeviceServes
    BY <1>1, <2>1 DEF DeviceServes, Apply, Dev
  <2>2. CASE DeviceBusy \/ DeviceRefuses
    BY <2>2 DEF DeviceBusy, DeviceRefuses
  <2> QED
    BY <2>1, <2>2 DEF DeviceAnswers
<1>8. Serving' = Serving
  BY <1>3, <1>7 DEF Serving
<1>9. /\ Go' = IF p.op = "queuefree" THEN p.val ELSE Go
      /\ \/ /\ dev'.line = IF p.op = "line" THEN p.val ELSE dev.line
            /\ dev'.ms = IF p.op = "ms" THEN p.val ELSE dev.ms
         \/ ~Never("fault")'
  <2>1. CASE DeviceServes
    <3>1. dev' = Apply(p)
      BY <2>1 DEF DeviceServes
    <3>2. /\ dev'.line = IF p.op = "line" THEN p.val ELSE dev.line
          /\ dev'.ms = IF p.op = "ms" THEN p.val ELSE dev.ms
      BY <1>1, <3>1 DEF Apply, Dev
    <3>3. dev'.go = IF p.op = "queuefree" THEN p.val > 0 ELSE dev.go
      BY <1>1, <3>1 DEF Apply, Dev
    <3>4. CASE p.op = "queuefree"
      <4>1. p.val = (IF p.val > 0 THEN 1 ELSE 0)
        BY <1>6, <3>4
      <4> QED
        BY <3>2, <3>3, <3>4, <4>1 DEF Go
    <3>5. CASE p.op # "queuefree"
      BY <3>2, <3>3, <3>5 DEF Go
    <3> QED
      BY <3>4, <3>5
  <2>2. CASE DeviceBusy
    BY <2>2 DEF DeviceBusy, Go
  <2>3. CASE DeviceRefuses
    <3>1. Spend("fault") /\ dev' = dev /\ Answers(p) # <<>>
      BY <2>3 DEF DeviceRefuses
    <3>2. p.op # "queuefree"
      BY <3>1 DEF Answers
    <3> QED
      BY <3>1, <3>2 DEF Go
  <2> QED
    BY <2>1, <2>2, <2>3 DEF DeviceAnswers
<1> HIDE DEF p
<1>10. Serving' => SettlesIn(toDev', "queuefree", Go', Flow')
  <2>1. Serving => SettlesIn(Tail(toDev), "queuefree",
                             IF p.op = "queuefree" THEN p.val ELSE Go, Flow)
    BY <1>1, <1>2, SettledTail DEF Settling, p
  <2> QED
    BY <1>2, <1>3, <1>8, <1>9, <2>1
<1>11. ASSUME Serving', Never("fault")'
       PROVE  /\ SettlesIn(toDev', "line", dev'.line, eki'.line)
              /\ SettlesIn(toDev', "ms", dev'.ms, eki'.ms)
  <2>1. /\ SettlesIn(Tail(toDev), "line", IF p.op = "line" THEN p.val ELSE dev.line, eki.line)
        /\ SettlesIn(Tail(toDev), "ms", IF p.op = "ms" THEN p.val ELSE dev.ms, eki.ms)
    BY <1>1, <1>2, <1>8, <1>11, SettledTail DEF Settling, p
  <2> QED
    BY <1>2, <1>3, <1>9, <1>11, <2>1
<1> QED
  BY <1>3, <1>5, <1>10, <1>11 DEF Settling

\* Settling is inductive.
LEMMA SettlingStep ==
    ASSUME TypeOK, StackSound, Budgeted, Settling, [Next]_vars
    PROVE  Settling'
<1> USE DEF linkVars
<1>1. Never("fault")' => Never("fault") /\ ~Spend("fault")
  BY BudgetStep DEF Events
<1>2. ASSUME UNCHANGED <<toDev, sk, eki, stk>>,
             dev'.alive => /\ dev.alive /\ dev'.go = dev.go
                           /\ dev'.line = dev.line /\ dev'.ms = dev.ms
      PROVE  Settling'
  <2>1. Serving' => Serving /\ Go' = Go /\ Flow' = Flow
    BY <1>2 DEF Serving, Go, Flow
  <2> QED
    BY <1>1, <1>2, <2>1 DEF Settling, Serving
<1>3. ASSUME stk_excp \/ main PROVE Settling'
  <2>1. toDev' = <<>> /\ sk' = FALSE /\ eki' = EkiUndef
    BY <1>3 DEF stk_excp, main, vc_netdown_init
  <2> QED
    BY <2>1 DEF Settling, Serving
<1>4. CASE DaemonStep
  BY <1>1, <1>3, <1>4, DaemonTells, TellsSettles, OpenStartsSettled
<1>5. CASE DeviceAnswers
  BY <1>1, <1>5, DeviceSettles
<1>6. CASE DeviceActs
  <2>1. UNCHANGED <<toDev, sk, eki, stk>>
    BY <1>6 DEF DeviceActs, DeviceSendsData, DeviceLineChanges, ConnectionBreaks, daemonVars,
       stateVars
  <2>2. dev \in Dev
    BY DEF TypeOK, LinkOK
  <2>3. dev'.alive => /\ dev.alive /\ dev'.go = dev.go
                      /\ dev'.line = dev.line /\ dev'.ms = dev.ms
    BY <1>6, <2>2 DEF DeviceActs, DeviceSendsData, DeviceLineChanges, ConnectionBreaks, Dev
  <2> QED
    BY <1>2, <2>1, <2>3
<1>7. CASE Tty \/ UNCHANGED vars
  <2>1. UNCHANGED <<toDev, dev, sk, eki, stk>>
    BY <1>7 DEF Tty, vars, deviceVars, daemonVars, stateVars
  <2> QED
    BY <1>2, <2>1
<1> QED
  BY <1>3, <1>4, <1>5, <1>6, <1>7 DEF Next

\* Settling holds throughout.
THEOREM SettlingInvariant == Spec => []Settling
<1>1. Init => Settling
  BY DEF Init, DaemonInit, DeviceInit, Settling, Serving
<1>2. TypeOK /\ StackSound /\ Budgeted /\ Settling /\ [Next]_vars => Settling'
  BY SettlingStep
<1>3. OpeningInv => Budgeted
  BY DEF OpeningInv
<1> QED
  BY <1>1, <1>2, <1>3, TypeCorrect, StackCorrect, OpeningInvariant, PTL DEF Spec

\* The flow the device has been told is the one of the daemon's state: vc_netup_pause,
\* vc_pause_resume and the handshake never leave it with leave to send in Pause, nor
\* without in Net Up.
THEOREM FlowCorrect == Spec => []FlowAgrees
<1>1. TypeOK /\ Settling => FlowAgrees
  BY SettledLast DEF Settling, FlowAgrees, FlowTold, Go, Flow, TypeOK, LinkOK
<1> QED
  BY <1>1, TypeCorrect, SettlingInvariant, PTL

\* What port.eki says of the line and the modem outputs is what the device will be set
\* to, unless it has refused a packet.
THEOREM SettingsCorrect == Spec => []SettingsAgree
<1>1. TypeOK /\ Settling => SettingsAgree
  BY SettledLast DEF Settling, SettingsAgree, TypeOK, LinkOK
<1> QED
  BY <1>1, TypeCorrect, SettlingInvariant, PTL

=============================================================================
