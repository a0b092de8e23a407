--------------------------- MODULE PacketChannel ---------------------------
(***************************************************************************)
(* What the daemon promises the states of its machine about the packets of *)
(* the device server: each is handed on whole, once, and in the order in   *)
(* which it was sent.  When the connection is lost, so are the packets     *)
(* that are still on their way; nothing of them is left for the next one.  *)
(***************************************************************************)
EXTENDS Naturals, Sequences

VARIABLES
    waiting,     \* the packets on their way, the oldest first
    handed       \* the packets handed on in this connection

channelVars == <<waiting, handed>>

Init == waiting = <<>> /\ handed = <<>>

Send == /\ Len(waiting') = Len(waiting) + 1
        /\ waiting = SubSeq(waiting', 1, Len(waiting))
        /\ UNCHANGED handed

Hand == /\ waiting # <<>>
        /\ handed' = Append(handed, Head(waiting))
        /\ waiting' = Tail(waiting)

Lose == waiting' = <<>> /\ handed' = <<>>

Next == Send \/ Hand \/ Lose

Spec == Init /\ [][Next]_channelVars

============================================================================
