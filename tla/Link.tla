-------------------------------- MODULE Link --------------------------------
(***************************************************************************)
(* The life of the daemon's connections: Connect makes one, PullTimer      *)
(* watches over it and ends it, Net Down calls vc_connect again.           *)
(***************************************************************************)
EXTENDS PullTimer, Connect

linkVars == <<vars, connectVars>>

LinkInit == Init /\ ConnectInit

\* vc_connect is called and works; what is connected is pushed as Net Up.
Working ==
    \/ /\ Call \/ connect \/ Corrupted \/ \E f \in Fd : Arrives(f)
       /\ at' # "up"
       /\ UNCHANGED vars
    \/ Return /\ at' = "up" /\ Connects

\* The connection goes on, or comes to one of its ends.
Serving ==
    /\ at = "up"
    /\ TimesOut \/ Receives \/ NoPacket \/ Ends
    /\ IF st' = "netdown" THEN Lost ELSE UNCHANGED connectVars

\* The process is killed and started again: the kernel closes what it had.
Restart ==
    /\ main
    /\ open' = Held /\ conn' = [f \in Fd |-> "none"]
    /\ at' = "down" /\ names' = 0 /\ addr' = 0 /\ sklist' = <<>> /\ rfds' = {}
    /\ wild' = FALSE /\ sk' = NoSk /\ unresolved' = FALSE

LinkNext == Working \/ Serving \/ Restart

\* The daemon runs, and what an address answers within ten seconds comes before the
\* timeout.
LinkFairness ==
    /\ WF_linkVars(connect /\ Working)
    /\ \A f \in Fd : WF_linkVars(Arrives(f) /\ UNCHANGED vars)

LinkSpec == LinkInit /\ [][LinkNext]_linkVars /\ LinkFairness

============================================================================
