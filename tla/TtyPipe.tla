------------------------------ MODULE TtyPipe ------------------------------
(***************************************************************************)
(* What the driver, the daemon and the device promise the application that *)
(* writes to the port: a queue whose bytes are delivered in order and at   *)
(* least once.  A byte may be delivered again after the connection was     *)
(* lost, but it does not leave the queue before it has been delivered,     *)
(* except when the port is closed.                                         *)
(***************************************************************************)
EXTENDS Naturals, Sequences

VARIABLES
    queue,       \* the bytes taken from the application and still kept
    delivered,   \* the bytes the device has accepted, repetitions included
    connected    \* whether the port is open at the device

pipeVars == <<queue, delivered, connected>>

Front(s, n) == SubSeq(s, 1, n)
Rest(s, n) == SubSeq(s, n + 1, Len(s))

Init == queue = <<>> /\ delivered = <<>> /\ connected = FALSE

Open == ~connected /\ connected' = TRUE /\ UNCHANGED <<queue, delivered>>
Lose == connected /\ connected' = FALSE /\ UNCHANGED <<queue, delivered>>
Close == connected /\ connected' = FALSE /\ queue' = <<>> /\ UNCHANGED delivered

\* Bytes are only ever appended.
Put == /\ Len(queue') > Len(queue) /\ Front(queue', Len(queue)) = queue
       /\ UNCHANGED <<delivered, connected>>

\* The device accepts some bytes from the front; they stay in the queue.
Deliver == \E n \in 1 .. Len(queue) :
               /\ connected
               /\ delivered' = delivered \o Front(queue, n)
               /\ UNCHANGED <<queue, connected>>

\* Bytes that have been delivered leave the queue.
Forget == \E n \in 1 .. Len(queue) :
              /\ \A i \in 1 .. n : \E k \in DOMAIN delivered : delivered[k] = queue[i]
              /\ queue' = Rest(queue, n)
              /\ UNCHANGED <<delivered, connected>>

Next == Open \/ Lose \/ Close \/ Put \/ Deliver \/ Forget

Spec == Init /\ [][Next]_pipeVars

============================================================================
