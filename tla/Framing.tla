------------------------------ MODULE Framing ------------------------------
(***************************************************************************)
(* How the daemon finds the packets in the byte stream of its connection   *)
(* (vc_recv_desp in daemon/vcom_client.c).  A packet is a header of HdrLen *)
(* units and a payload whose length is a field of the header.  The stream  *)
(* arrives in pieces.  The header and the payload are each read with one   *)
(* recv and, if that returns too little, with one more after waiting up to *)
(* 10 ms; a part that is incomplete after that ends the connection.  The   *)
(* socket blocks, so the first recv of a payload waits as long as it must, *)
(* and for ever if the device stops there.                                 *)
(***************************************************************************)
EXTENDS Naturals, Sequences

CONSTANTS
    HdrLen,       \* hdr_len, 20 bytes in the code
    MaxPayload,   \* RBUF_SIZE - hdr_len
    Lens,         \* the payload lengths the device may announce
    MaxPackets    \* bound: packets sent in one connection

ASSUME FramingAssumption ==
    /\ HdrLen \in Nat \ {0} /\ MaxPayload \in Nat
    /\ Lens \subseteq Nat /\ MaxPackets \in Nat

VARIABLES
    sent,        \* the payload lengths of the packets of this connection
    coming,      \* the units still to come: with the device, or on their way
    rcv,         \* the units in the receive buffer of the socket
    broken,      \* the peer has closed or reset: nothing more arrives
    buf,         \* the units read of the packet at hand
    packet_len,  \* the length field of its header
    at,          \* where vc_recv_desp is; "select" is the main loop, "down" no socket
    delivered    \* the packets handed to the recv operation of the state

framingVars == <<sent, coming, rcv, broken, buf, packet_len, at, delivered>>

RBUF_SIZE == HdrLen + MaxPayload

\* A unit is known by its packet and its place in it.
Packet(k, n) == [i \in 1 .. HdrLen + n |-> [pkt |-> k, off |-> i]]
Packets == [k \in 1 .. Len(sent) |-> Packet(k, sent[k])]

Init ==
    /\ sent = <<>> /\ coming = <<>> /\ rcv = <<>> /\ broken = FALSE
    /\ buf = <<>> /\ packet_len = 0 /\ at = "select" /\ delivered = <<>>

----------------------------------------------------------------------------
\* The device and the network.  Of a packet that was made up any number of units
\* may stay behind, for ever if the device or the network stops: the device need not
\* hand over a payload with its header, and no keepalive tells that it is gone.

MakePacket == \E n \in Lens :
    /\ at # "down" /\ ~broken /\ Len(sent) < MaxPackets
    /\ sent' = Append(sent, n)
    /\ coming' = coming \o Packet(Len(sent) + 1, n)
    /\ UNCHANGED <<rcv, broken, buf, packet_len, at, delivered>>

Arrive == \E n \in 1 .. Len(coming) :
    /\ ~broken
    /\ rcv' = rcv \o SubSeq(coming, 1, n)
    /\ coming' = SubSeq(coming, n + 1, Len(coming))
    /\ UNCHANGED <<sent, broken, buf, packet_len, at, delivered>>

Break ==
    /\ at # "down" /\ ~broken
    /\ broken' = TRUE
    /\ UNCHANGED <<sent, coming, rcv, buf, packet_len, at, delivered>>

----------------------------------------------------------------------------
\* The daemon.

least(a, b) == IF a < b THEN a ELSE b

\* recv does not block: there is something to read, or the end of the connection.
Readable == rcv # <<>> \/ broken

\* recv of at most n units: what is there, nothing if the connection is broken.
Take(n) ==
    LET k == least(n, Len(rcv))
    IN  buf' = buf \o SubSeq(rcv, 1, k) /\ rcv' = SubSeq(rcv, k + 1, Len(rcv))

\* The err operation of the state, or stk_excp and its init: the socket is closed.
Drop == /\ at' = "down"
        /\ UNCHANGED <<sent, coming, rcv, broken, buf, packet_len, delivered>>

\* ntohs(hdr->len).
LenField == sent[buf[HdrLen].pkt]

TooLong_BUG == packet_len >= RBUF_SIZE - HdrLen
TooLong_LOOSE == packet_len > RBUF_SIZE
TooLong == packet_len > RBUF_SIZE - HdrLen

HeaderRead == Len(buf') = HdrLen
PayloadRead_BUG == Len(buf') <= HdrLen + packet_len
PayloadRead == Len(buf') = HdrLen + packet_len

\* A part that is still short after the second read ends the connection.
Second(complete, next) == IF complete THEN at' = next ELSE at' = "down"

\* select found the socket readable: the first part of a header.  An empty recv
\* is the end of the connection.
RecvHeader ==
    /\ at = "select" /\ Readable
    /\ Take(HdrLen)
    /\ at' = IF rcv = <<>> THEN "down" ELSE IF HeaderRead THEN "header" ELSE "rest of header"
    /\ UNCHANGED <<sent, coming, broken, packet_len, delivered>>

\* recv_second_chance for the header: more has come, or the peer has closed.
RecvRestOfHeader ==
    /\ at = "rest of header" /\ Readable
    /\ Take(HdrLen - Len(buf))
    /\ Second(HeaderRead, "header")
    /\ UNCHANGED <<sent, coming, broken, packet_len, delivered>>

\* What the header says of the payload.
Header ==
    /\ at = "header"
    /\ packet_len' = LenField
    /\ at' = IF LenField > 0 THEN "length" ELSE "packet"
    /\ UNCHANGED <<sent, coming, rcv, broken, buf, delivered>>

RefuseLong == at = "length" /\ TooLong /\ Drop

\* The first recv of the payload.  It blocks while there is nothing.
RecvPayload ==
    /\ at = "length" /\ ~TooLong /\ Readable
    /\ Take(packet_len)
    /\ at' = IF PayloadRead THEN "packet" ELSE "rest of payload"
    /\ UNCHANGED <<sent, coming, broken, packet_len, delivered>>

RecvRestOfPayload ==
    /\ at = "rest of payload" /\ Readable
    /\ Take(HdrLen + packet_len - Len(buf))
    /\ Second(PayloadRead, "packet")
    /\ UNCHANGED <<sent, coming, broken, packet_len, delivered>>

\* Nothing has come in the 10 ms of the second chance.
Overdue_BUG == at = "rest of payload" /\ rcv = <<>> /\ ~broken
Overdue == at \in {"rest of header", "rest of payload"} /\ rcv = <<>> /\ ~broken
Late == Overdue /\ Drop

\* The recv operation of the current state gets the packet.
Dispatch ==
    /\ at = "packet"
    /\ delivered' = Append(delivered, buf)
    /\ buf' = <<>> /\ packet_len' = 0 /\ at' = "select"
    /\ UNCHANGED <<sent, coming, rcv, broken>>

\* A new connection is a new socket and a new stream.
Reconnect ==
    /\ at = "down"
    /\ sent' = <<>> /\ coming' = <<>> /\ rcv' = <<>> /\ broken' = FALSE
    /\ buf' = <<>> /\ packet_len' = 0 /\ at' = "select" /\ delivered' = <<>>

vc_recv_desp == \/ RecvHeader \/ RecvRestOfHeader \/ Header \/ RefuseLong \/ RecvPayload
                \/ RecvRestOfPayload \/ Late \/ Dispatch

Next == MakePacket \/ Arrive \/ Break \/ vc_recv_desp \/ Reconnect

Spec == Init /\ [][Next]_framingVars

\* The daemon runs, and its timeout of 10 ms expires.  Nothing is assumed of the
\* device and the network: the rest of a packet need not come, nor the connection
\* break, nor a new one be had.
FairSpec == Spec /\ WF_framingVars(vc_recv_desp)

----------------------------------------------------------------------------

\* The packet at hand is read into the memory of RBUF_SIZE units, never beyond it.
TypeOK ==
    /\ sent \in Seq(Lens) /\ Len(sent) <= MaxPackets
    /\ Len(buf) <= RBUF_SIZE
    /\ packet_len \in Lens \cup {0}
    /\ broken \in BOOLEAN
    /\ at \in {"select", "rest of header", "header", "length", "rest of payload",
               "packet", "down"}

\* However the stream is cut into pieces, the states see the packets the device
\* sent: whole, in order, none twice.  A lost connection leaves nothing behind
\* that the next one could take for a header.
Channel == INSTANCE PacketChannel WITH
    waiting <- IF at = "down" THEN <<>>
               ELSE SubSeq(Packets, Len(delivered) + 1, Len(sent)),
    handed <- IF at = "down" THEN <<>> ELSE delivered
PacketsKept == Channel!Spec

\* The daemon gives up a connection only if the peer has, if the packet at hand is
\* longer than the memory for it, or if a part of it had not arrived when the
\* daemon looked for the second time.
DropJustified ==
    [][(at # "down" /\ at' = "down") =>
          \/ broken
          \/ sent[Len(delivered) + 1] > MaxPayload
          \/ /\ at \in {"rest of header", "rest of payload"} /\ rcv' = <<>>
             /\ Len(buf') < HdrLen + IF at = "rest of header" THEN 0
                                     ELSE sent[Len(delivered) + 1]]_framingVars

\* The daemon comes back to its main loop, where it answers the application, however
\* little of a packet comes: there is one place alone where it can stay for ever, the
\* first recv of a payload of which nothing has come on a connection that nobody ends.
PayloadAwaited == at = "length" /\ ~TooLong /\ rcv = <<>> /\ ~broken
ComesBack == []<>(at \in {"select", "down"}) \/ <>[]PayloadAwaited

============================================================================
