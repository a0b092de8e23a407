----------------------------- MODULE VcomDevice -----------------------------
(***************************************************************************)
(* The device server at the other end of the TCP connection, and the       *)
(* connection itself.  Neither is in the repository: they are modelled     *)
(* from the packets the daemon sends and the answers its handlers expect.  *)
(* A device answers the packets of one connection in order.  It also sends *)
(* data of its own accord, but only while the last QUEUEFREE it was sent   *)
(* left it room, and it holds the one WAIT_ON_MASK it was sent until a     *)
(* modem line changes.                                                     *)
(***************************************************************************)
EXTENDS VcomDriver

VARIABLES
    toDev,       \* packets sent by the daemon and not yet seen by the device
    toHost,      \* packets in the daemon's socket
    dev,         \* what the device knows of this connection
    lineNow,     \* the modem input line of the serial port
    accepted,    \* the bytes the device has accepted, over all connections
    produced     \* how many bytes the device has sent, over all connections

linkVars == <<toDev, toHost, dev>>
portVars == <<lineNow, accepted, produced>>
deviceVars == <<linkVars, portVars>>

ToDev  == [op : {"create", "line", "ms", "setwmask", "getmodem", "womask",
                 "getwmask", "queuefree", "write"},
           val : Int, data : Seq(Byte)]
ToHost == [op : {"create", "set", "setwmask", "getmodem", "womask",
                 "getwmask", "data", "write", "eof"},
           st : {"ok", "busy", "bad"}, val : Int, data : Seq(Byte)]

Packet(op, v) == [op |-> op, val |-> v, data |-> <<>>]
Answer(op, st, v) == [op |-> op, st |-> st, val |-> v, data |-> <<>>]

\* alive: the device has not closed the connection.  go: the last QUEUEFREE left
\* room.  armed: a WAIT_ON_MASK is held.  line, ms: the settings last applied.
Dev == [alive : BOOLEAN, go : BOOLEAN, armed : BOOLEAN, line : Int, ms : Int]
NoSession == [alive |-> TRUE, go |-> FALSE, armed |-> FALSE,
              line |-> LineUndef, ms |-> 0]

DeviceInit ==
    /\ toDev = <<>> /\ toHost = <<>> /\ dev = NoSession
    /\ lineNow = 0 /\ accepted = <<>> /\ produced = 0

----------------------------------------------------------------------------

\* What the device makes of packet p, and whether it answers at all.
Apply(p) ==
    CASE p.op = "line"      -> [dev EXCEPT !.line = p.val]
      [] p.op = "ms"        -> [dev EXCEPT !.ms = p.val]
      [] p.op = "womask"    -> [dev EXCEPT !.armed = TRUE]
      [] p.op = "queuefree" -> [dev EXCEPT !.go = p.val > 0]
      [] OTHER              -> dev

Answers(p) ==
    CASE p.op \in {"line", "ms"}          -> <<Answer("set", "ok", 0)>>
      [] p.op \in {"womask", "queuefree"} -> <<>>
      [] p.op = "getmodem" -> <<Answer("getmodem", "ok", lineNow)>>
      [] p.op = "write"    -> <<Answer("write", "ok", Len(p.data))>>
      [] OTHER             -> <<Answer(p.op, "ok", 0)>>

DeviceServes ==
    /\ toDev # <<>> /\ dev.alive
    /\ toDev' = Tail(toDev)
    /\ dev' = Apply(Head(toDev))
    /\ toHost' = toHost \o Answers(Head(toDev))
    /\ accepted' = accepted \o Head(toDev).data
    /\ UNCHANGED <<lineNow, produced, left>>

\* The device has no room for a WRITE, or refuses a packet.
DeviceBusy ==
    /\ toDev # <<>> /\ dev.alive /\ Head(toDev).op = "write"
    /\ Spend("busy")
    /\ toDev' = Tail(toDev)
    /\ toHost' = Append(toHost, Answer("write", "busy", Len(Head(toDev).data)))
    /\ UNCHANGED <<dev, portVars>>

DeviceRefuses ==
    /\ toDev # <<>> /\ dev.alive /\ Answers(Head(toDev)) # <<>>
    /\ Spend("fault")
    /\ toDev' = Tail(toDev)
    /\ toHost' = Append(toHost, [Answers(Head(toDev))[1] EXCEPT !.st = "bad"])
    /\ UNCHANGED <<dev, portVars>>

DeviceSendsData ==
    /\ dev.alive /\ dev.go
    /\ Spend("data")
    /\ produced' = produced + 1
    /\ toHost' = Append(toHost, [op |-> "data", st |-> "ok", val |-> 0,
                                 data |-> <<produced + 1>>])
    /\ UNCHANGED <<toDev, dev, lineNow, accepted>>

DeviceLineChanges ==
    /\ Spend("modem")
    /\ lineNow' = 1 - lineNow
    /\ IF dev.armed /\ dev.alive
       THEN /\ dev' = [dev EXCEPT !.armed = FALSE]
            /\ toHost' = Append(toHost, Answer("womask", "ok", 0))
       ELSE UNCHANGED <<dev, toHost>>
    /\ UNCHANGED <<toDev, accepted, produced>>

\* The connection breaks: what is already in the daemon's socket can be read.
ConnectionBreaks(connected) ==
    /\ connected /\ dev.alive
    /\ Spend("fault")
    /\ dev' = [dev EXCEPT !.alive = FALSE, !.go = FALSE, !.armed = FALSE]
    /\ toHost' = Append(toHost, Answer("eof", "bad", 0))
    /\ UNCHANGED <<toDev, portVars>>

============================================================================
