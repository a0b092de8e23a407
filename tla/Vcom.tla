-------------------------------- MODULE Vcom --------------------------------
(***************************************************************************)
(* One virtual serial port as a whole: the application's side of the tty,  *)
(* the driver, the daemon and the device server, and what they must        *)
(* achieve together.                                                       *)
(***************************************************************************)
EXTENDS VcomDaemon, FiniteSets

Init == adv_main_init /\ DeviceInit /\ DaemonInit

Tty    == TtyStep /\ UNCHANGED <<deviceVars, daemonVars>>
DeviceAnswers == /\ DeviceServes \/ DeviceBusy \/ DeviceRefuses
                 /\ UNCHANGED <<driverVars, daemonVars>>
DeviceActs == /\ DeviceSendsData \/ DeviceLineChanges \/ ConnectionBreaks(sk)
              /\ UNCHANGED <<driverVars, daemonVars>>

Next == Tty \/ DeviceAnswers \/ DeviceActs \/ DaemonStep \/ main

Spec == Init /\ [][Next]_vars

\* The daemon's thread is scheduled, and the device goes on answering.
Fairness == WF_vars(DaemonStep) /\ WF_vars(DeviceAnswers)

FairSpec == Spec /\ Fairness

----------------------------------------------------------------------------

RingsOK ==
    /\ rx \in Ring /\ rxd \in [Pos -> Byte] /\ circ \in Seq(Byte)
    /\ tx \in Ring /\ txd \in [Pos -> Byte] /\ flip \in Seq(Byte)

PortOK ==
    /\ attr \in Attr /\ usr \in Attr
    /\ throttled \in BOOLEAN /\ mctrl \in Int
    /\ written \in Nat /\ left \in [Events -> Nat]
    /\ lineNow \in {0, 1} /\ accepted \in Seq(Byte) /\ produced \in Nat

LinkOK ==
    /\ toDev \in Seq(ToDev) /\ toHost \in Seq(ToHost) /\ dev \in Dev
    /\ sk \in BOOLEAN /\ eki \in Eki /\ xmit_pending \in Nat
    /\ stk \in Seq(States)

LoopOK ==
    /\ pc \in Steps
    /\ drx \in RingCopy /\ dtx \in RingCopy
    /\ want \subseteq {"rx", "tx"} /\ ready \subseteq {"attr", "sk", "rx", "tx"}

\* Every variable has its type.
TypeOK == RingsOK /\ PortOK /\ LinkOK /\ LoopOK

----------------------------------------------------------------------------
(* What the properties speak of.                                           *)

\* What has not happened so far in this behaviour.
Never(e) == left[e] = Budget[e]

Serving == sk /\ dev.alive

\* A WRITE and its answer, wherever they are.
WritesSent == {i \in DOMAIN toDev : toDev[i].op = "write"}
WriteAnswers == {i \in DOMAIN toHost : toHost[i].op = "write"}

\* What the device will make of its flow, and its settings, once it has seen all
\* that is on its way.
Last(op, v) ==
    LET is == {i \in DOMAIN toDev : toDev[i].op = op}
    IN  IF is = {} THEN v ELSE toDev[CHOOSE i \in is : \A j \in is : j <= i].val
FlowTold == Last("queuefree", IF dev.go THEN 1 ELSE 0)

\* The DATAREADY packets in the daemon's socket, of one byte each.
DataWaiting == {i \in DOMAIN toHost : toHost[i].op = "data"}
DataByte(i) == toHost[i].data[1]

Elements(s) == {s[i] : i \in DOMAIN s}

Ascending(s) == \A i, j \in DOMAIN s : i < j => s[i] < s[j]

----------------------------------------------------------------------------
(* Safety.                                                                 *)

\* The stack has one of five shapes, and the socket, what the device was told
\* and what is under way all agree with it: nothing is connected in Net Down, and
\* nothing above it is unconnected.  The handlers rely on it wherever they use
\* port.sk, and vc_netdown_open wherever it opens the state it has just pushed.
StackSound ==
    /\ \/ stk = <<"netdown">>
       \/ \E s \in Connected : stk = <<"netdown", s>> \/ stk = <<"netdown", s, "idle">>
    /\ sk <=> Len(stk) > 1
    /\ eki.open <=> sk
    /\ ~sk => xmit_pending = 0 /\ toDev = <<>> /\ toHost = <<>> /\ dev = NoSession

\* The daemon never opens a port that it holds open nor closes one it does not:
\* main() dispatches open only in Net Down and close only above it.  (The open
\* and close of Sync are "designed never to be called": they exit.)
OpenCloseMatched ==
    pc = "open" /\ usr.open # eki.open => (usr.open <=> Top = "netdown")

\* The bytes the daemon believes to be in rx are there, and begin where rx begins:
\* its copy may lag behind the tty, but never runs ahead of it.
CopySound ==
    /\ drx.head = rx.head
    /\ get_rb_length(drx) <= get_rb_length(rx)
    /\ Unread(drx, rxd) = SubSeq(Unread(rx, rxd), 1, get_rb_length(drx))

\* An unanswered WRITE carries exactly the bytes at the head of rx, there is at
\* most one, and its answer names their number.  So the answer may drop that many
\* bytes from rx, whatever the tty has appended since.
PendingSound ==
    /\ xmit_pending <= get_rb_length(rx)
    /\ Cardinality(WritesSent) + Cardinality(WriteAnswers) <= 1
    /\ \A i \in WritesSent : toDev[i].data = Peek(rx, rxd, xmit_pending)
    /\ \A i \in WriteAnswers : toHost[i].val = xmit_pending
    /\ WritesSent # {} \/ WriteAnswers # {} => xmit_pending > 0

\* As long as the device has answered within the pull time, a pending WRITE is
\* really under way: the daemon does not wait for an answer that cannot come.
PendingAnswered ==
    Never("slow") /\ dev.alive /\ xmit_pending > 0
        => WritesSent # {} \/ WriteAnswers # {}

\* The device gets bytes of the application only, in the order they were written:
\* one that arrives after a later one has arrived before.  And none is skipped
\* before the port is closed for the first time.
AcceptedInOrder ==
    /\ Elements(accepted) \subseteq 1 .. written
    /\ \A i, j \in DOMAIN accepted :
           i < j /\ accepted[j] < accepted[i]
               => \E k \in 1 .. i : accepted[k] = accepted[j]
    /\ attr.open /\ left["open"] + 1 = Budget["open"]
           => Elements(accepted) = 1 .. Cardinality(Elements(accepted))

\* The way from the tty to the device is the pipe of module TtyPipe: in order, at
\* least once, and nothing leaves it undelivered unless the port is closed.
Pipe == INSTANCE TtyPipe WITH queue <- Unread(rx, rxd), delivered <- accepted,
                              connected <- eki.open
PipeImplemented == Pipe!Spec

\* No byte is accepted twice while the connection holds and nobody is late or
\* killed: a busy answer and a retransmission never repeat what was accepted.  (Data
\* of the device can break the connection too, by overrunning tx.)
AcceptedOnce ==
    Never("fault") /\ Never("slow") /\ Never("restart") /\ Never("data")
        => \A i, j \in DOMAIN accepted : i # j => accepted[i] # accepted[j]

\* What section 4.2.1.5 of readme.txt says of the state Pause: it is entered because the tty
\* throttles.
PauseMeansThrottled ==
    Never("throttle") => \A i \in DOMAIN stk : stk[i] # "pause"

\* What the tty gets, what waits in tx and what waits in the socket ascends from each
\* to the next: nothing is delivered twice, out of order, or overwritten.
BytesRead == flip \o Unread(tx, txd)
ReadInOrder ==
    /\ Ascending(BytesRead)
    /\ \A i, j \in DataWaiting : i < j => DataByte(i) < DataByte(j)
    /\ \A i \in DOMAIN BytesRead, j \in DataWaiting : BytesRead[i] < DataByte(j)

\* The last QUEUEFREE the daemon sent is the one its state stands for: the device
\* has leave to send in Net Up and has none in Pause.
FlowAgrees == Serving => FlowTold = (IF stk[2] = "netup" THEN 1 ELSE 0)

\* What the daemon believes the device to be set to is what the device will be
\* set to, if it has refused nothing.
SettingsAgree ==
    Serving /\ Never("fault")
        => Last("line", dev.line) = eki.line /\ Last("ms", dev.ms) = eki.ms

----------------------------------------------------------------------------
(* Liveness.                                                               *)

\* A byte the application has written is accepted by the device at last, through
\* lost connections, busy answers and restarts of the daemon, unless the port is
\* closed or the output is stopped: if it is started again, what was held back
\* arrives.  The device must answer within the pull time.
WrittenArrives ==
    \A b \in 1 .. Budget["write"] :
        b \in Elements(circ) \cup Elements(Unread(rx, rxd))
            ~> b \in Elements(accepted) \/ ~attr.open \/ ~rx.on

\* Once tx has run empty, and neither the tty nor the serial core holds it back,
\* a daemon in Pause lets the device send again.
Drained == attr.open /\ tx.on /\ ~throttled /\ is_rb_empty(tx)
ResumeArrives ==
    sk /\ stk[2] = "pause" /\ Drained
        ~> ~Drained \/ ~sk \/ (sk /\ stk[2] = "netup")

\* A port that stays closed is closed at the device too, and one that stays open
\* is connected, and set to what the tty asked for.
CloseArrives == ~attr.open ~> (~eki.open \/ attr.open)
SettingsArrive ==
    \A l \in Lines :
        attr.open /\ attr.line = l
            ~> (Serving /\ dev.line = l) \/ ~attr.open \/ attr.line # l

============================================================================
