----------------------------- MODULE PullTimer -----------------------------
(***************************************************************************)
(* How the daemon notices that a device server has fallen silent.  Two     *)
(* mechanisms overlap in main() of daemon/vcom_client.c.  A select() that  *)
(* runs into its timeout of VC_PULL_TIME calls poll, which pushes Idle     *)
(* and, in Idle, drops the connection.  A select() that returns without a  *)
(* packet adds the time it took to lrecv, and the connection is dropped    *)
(* once lrecv exceeds VC_PULL_TIME.  lrecv belongs to the process, not to  *)
(* the connection.  Time is counted in lrecv's unit; what handlers take is *)
(* neglected.  silence, inherited, rounded and last are not in the code.   *)
(***************************************************************************)
EXTENDS Integers

CONSTANT VC_PULL_TIME

ASSUME PullAssumption == VC_PULL_TIME \in Nat \ {0}

VARIABLES
    st,            \* "netdown", "netup" (or Pause) or "idle" on top of the stack
    lrecv,
    silence,       \* the time since the last packet of this connection, or its start
    inherited,     \* lrecv at the start of this connection, until the first packet
    rounded,       \* what passes that took no time have added to lrecv
    last           \* why the last connection was dropped

vars == <<st, lrecv, silence, inherited, rounded, last>>

Connected == st # "netdown"
Durations == 0 .. VC_PULL_TIME

Init ==
    /\ st = "netdown" /\ lrecv = 0
    /\ silence = 0 /\ inherited = 0 /\ rounded = 0 /\ last = "none"

----------------------------------------------------------------------------

\* A new connection: lrecv is left as it is.
Connects ==
    /\ st = "netdown" /\ st' = "netup"
    /\ silence' = 0 /\ inherited' = lrecv /\ rounded' = 0
    /\ UNCHANGED <<lrecv, last>>

Drop(why) ==
    /\ st' = "netdown" /\ last' = why
    /\ silence' = 0 /\ inherited' = 0 /\ rounded' = 0

\* The port is closed, or something cannot be sent.
Ends ==
    /\ Connected /\ Drop("other")
    /\ UNCHANGED lrecv

\* select() times out: poll, and the rest of the pass is skipped.
poll_BUG == lrecv' = 0
poll == UNCHANGED lrecv

TimesOut ==
    /\ Connected /\ poll
    /\ \/ /\ st = "netup" /\ st' = "idle"
          /\ silence' = silence + VC_PULL_TIME
          /\ UNCHANGED <<inherited, rounded, last>>
       \/ /\ st = "idle"
          /\ Drop("poll")

\* A packet.  Idle is left; a bad packet is an exception.
Receives ==
    /\ Connected
    /\ lrecv' = 0
    /\ \/ /\ st' = "netup"
          /\ silence' = 0 /\ inherited' = 0 /\ rounded' = 0
          /\ UNCHANGED last
       \/ Drop("other")

\* select() returns after d without a packet, for an event of the proc file.
Used_BUG(d) == d + 1
Used(d) == IF d > 0 THEN d ELSE 1

Exceeds(t) == t > VC_PULL_TIME

\* err, and the count starts again.
Restarted_BUG(t) == t
Restarted(t) == 0

NoPacket ==
    /\ Connected
    /\ \E d \in Durations :
          LET t == lrecv + Used(d)
          IN  \/ /\ ~Exceeds(t)
                 /\ lrecv' = t
                 /\ silence' = silence + d
                 /\ rounded' = IF d = 0 THEN rounded + 1 ELSE rounded
                 /\ UNCHANGED <<st, inherited, last>>
              \/ /\ Exceeds(t)
                 /\ lrecv' = Restarted(t)
                 /\ Drop(IF silence + d + rounded + (IF d = 0 THEN 1 ELSE 0) > VC_PULL_TIME
                         THEN "timer" ELSE "early")

\* The process is started again.
main ==
    /\ st' = "netdown" /\ lrecv' = 0
    /\ silence' = 0 /\ inherited' = 0 /\ rounded' = 0 /\ last' = "none"

Next == Connects \/ Ends \/ TimesOut \/ Receives \/ NoPacket \/ main

Spec == Init /\ [][Next]_vars

----------------------------------------------------------------------------

\* Every variable has its type; in particular lrecv never exceeds its limit.
TypeOK ==
    /\ st \in {"netdown", "netup", "idle"}
    /\ lrecv \in 0 .. VC_PULL_TIME
    /\ silence \in Nat /\ inherited \in Nat /\ rounded \in Nat
    /\ last \in {"none", "other", "poll", "timer", "early"}

\* A silent device is noticed: however the two mechanisms interleave, with events of
\* the tty that keep select() from ever timing out and with any number of passes
\* in Idle, no connection survives more than twice VC_PULL_TIME without a packet,
\* or once before Idle has asked for a sign of life.
SilenceBounded ==
    /\ st = "netup" => silence <= VC_PULL_TIME
    /\ st = "idle"  => silence <= 2 * VC_PULL_TIME

\* A speaking device is kept: lrecv is never more than the silence on this connection,
\* what the connection inherited from an earlier one and one unit for each pass
\* that took no time.
CountExplained == Connected => lrecv <= silence + inherited + rounded

\* A connection is dropped too early only because it inherited a count, and no two
\* connections in a row: the drop has reset lrecv.
EarlyOnlyInherited ==
    [][last' = "early" /\ Connected /\ st' = "netdown" => inherited > 0 /\ last # "early"]_vars

============================================================================
