------------------------------- MODULE MCVcom -------------------------------
(***************************************************************************)
(* Instances of Vcom for TLC.  A run differs from the others in what its   *)
(* environment may do, and how often.                                      *)
(***************************************************************************)
EXTENDS Vcom, TLC

\* What is not named does not happen.
Only(f) == f @@ [e \in Events |-> 0]

WriteBudget    == Only([open |-> 2, write |-> 3, busy |-> 1, fault |-> 1])
StopBudget     == Only([open |-> 1, write |-> 3, stop |-> 1, slow |-> 1, restart |-> 1])
ReadBudget     == Only([open |-> 2, data |-> 3, throttle |-> 1])
SettingsBudget == Only([open |-> 2, line |-> 2, modem |-> 1, fault |-> 1])
PauseBudget    == Only([open |-> 1, data |-> 2])

\* The liveness properties are checked together.  The environment does no more than
\* one of these scenarios allows, whatever LiveBudget has left.
LiveScenarios ==
    {Only([open |-> 1, write |-> 2, busy |-> 1, fault |-> 1]),
     Only([open |-> 1, write |-> 2, restart |-> 1]),
     Only([open |-> 1, write |-> 2, stop |-> 1]),
     Only([open |-> 1, data |-> 2, throttle |-> 1]),
     Only([open |-> 1, data |-> 1, fault |-> 1]),
     Only([open |-> 2, fault |-> 1]),
     Only([open |-> 2, line |-> 1])}

LiveBudget == [e \in Events |-> IF e \in {"open", "write", "data"} THEN 2 ELSE
                   IF e \in {"busy", "fault", "restart", "stop", "throttle", "line"} THEN 1 ELSE 0]

InScenario ==
    \E b \in LiveScenarios : \A e \in Events : LiveBudget[e] - left[e] <= b[e]

LiveSpec == Init /\ [][Next /\ InScenario']_vars /\ Fairness
============================================================================
