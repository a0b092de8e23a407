----------------------------- MODULE AdvScripts -----------------------------
(***************************************************************************)
(* Sequences of calls of advadd, advrm and advls on one configuration      *)
(* file, and what their messages and the readme promise of each call.      *)
(***************************************************************************)
EXTENDS AdvConf

CONSTANTS
    Adds,          \* the lines that are added
    Minors,        \* the arguments of advrm -m
    Idxs,          \* the arguments of advrm -p
    MaxLines       \* bound on the length of the file

ASSUME ScriptsAssumption ==
    Adds \subseteq Line /\ Minors \subseteq Nat /\ Idxs \subseteq Nat /\ MaxLines \in Nat

VARIABLES
    conf,          \* the file
    before,        \* the file before the last call
    call           \* the last call

scriptVars == <<conf, before, call>>

Add(l) ==
    /\ conf' = advadd(conf, l) /\ Len(conf') <= MaxLines
    /\ before' = conf /\ call' = [op |-> "add", arg |-> l]

Remove(m) ==
    /\ conf' \in advrm(conf, m)
    /\ before' = conf /\ call' = [op |-> "rm -m", arg |-> m]

RemovePort(i) ==
    /\ conf' \in advrm_port(conf, i)
    /\ before' = conf /\ call' = [op |-> "rm -p", arg |-> i]

List == conf' \in advls(conf) /\ before' = conf /\ call' = [op |-> "ls", arg |-> 0]

Init == conf = <<>> /\ before = <<>> /\ call = [op |-> "none", arg |-> 0]

Next ==
    \/ \E l \in Adds : Add(l)
    \/ \E m \in Minors : Remove(m)
    \/ \E i \in Idxs : RemovePort(i)
    \/ List

Spec == Init /\ [][Next]_scriptVars

LinesOf(c) == {c[i] : i \in DOMAIN c}

----------------------------------------------------------------------------

\* The scripts recognise the line as one of its own port's.
Recognisable(l) == LineOfPort(l, l.minor)

\* Whatever is added and removed, no port has two lines of the kind the scripts
\* recognise.  Where all lines of the port are of that kind, and no longer number
\* ends in the port's, the line last added is the port's only one and every other
\* stays as it was.  (A type with a letter or an IPv6 address makes a line that is
\* not recognised: such lines pile up.)
OneLinePerPort ==
    /\ \A i, j \in DOMAIN conf :
           conf[i].minor = conf[j].minor /\ Recognisable(conf[i]) /\ Recognisable(conf[j])
           => i = j
    /\ call.op = "add" /\ (\A l \in LinesOf(before) :
                              IF l.minor = call.arg.minor THEN Recognisable(l)
                              ELSE ~EndsWith(l.minor, call.arg.minor))
       => LinesOf(conf) = {l \in LinesOf(before) : l.minor # call.arg.minor} \cup {call.arg}

\* What is removed never comes back by itself, and removing by the number of the
\* port or of the device's port takes every line that has it.
RemovedIsGone ==
    /\ call.op = "rm -m" => \A l \in LinesOf(conf) : l.minor # call.arg /\ l \in LinesOf(before)
    /\ call.op = "rm -p" => \A l \in LinesOf(conf) : l.idx # call.arg /\ l \in LinesOf(before)

============================================================================
