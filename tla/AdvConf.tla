------------------------------ MODULE AdvConf ------------------------------
(***************************************************************************)
(* The configuration file advttyd.conf: the scripts that edit it           *)
(* (script/advadd, advrm and advls) and the filter through which advttyd   *)
(* reads it (paser_config of initd/advttyd.c).  A file is a sequence of    *)
(* lines, a line a record of its fields.  Numbers stand for their decimal  *)
(* digits, a device type for its hexadecimal ones.                         *)
(***************************************************************************)
EXTENDS Integers, Sequences, FiniteSets, Functions

CONSTANTS
    Ports,         \* VCOM_PORTS: the driver has advproc0 .. advproc<Ports-1>
    V4, V6,        \* addresses of device servers in IPv4 and in IPv6 notation
    None           \* no redundant address

CF_MAXPORTS == Ports

ASSUME ConfAssumption == Ports \in Nat \ {0} /\ V4 \cap V6 = {} /\ None \notin V4 \cup V6

Line == [minor : Nat, type : Nat, ip : V4 \cup V6, idx : Nat, red : V4 \cup V6 \cup {None}]

----------------------------------------------------------------------------
(* How the scripts' regular expressions match.  They are anchored at       *)
(* neither end of the line, so a number matches the end of the first field *)
(* and the beginning of the last one.                                      *)

PowersOf10 == {10, 100, 1000}

\* The decimal digits of m are the last ones of n, or the first ones.
EndsWith(n, m) ==
    n = m \/ \E p \in PowersOf10 : m < p /\ (m >= p \div 10 \/ p = 10) /\ n % p = m
BeginsWith(n, m) == n = m \/ \E p \in PowersOf10 : n \div p = m

\* [[:digit:]]+ matches a device type without letters.
DigitsOnly(type) == \A k \in 0 .. 5 : (type \div 16 ^ k) % 16 <= 9

\* The lines advadd takes for those of port minor.
LineOfPort(l, minor) == EndsWith(l.minor, minor) /\ DigitsOnly(l.type) /\ l.ip \in V4

\* cleanUp of advrm and advls: what is left of the file, its lines ks, in the order of
\* sort -g.  (That of advadd sorts into another file: it writes INSTALLPTATH for
\* INSTALLPATH.)  Lines of the same number are ordered by the rest of their text, which
\* the model does not have: any order is possible.
Sorted(conf, ks) ==
    LET places == 1 .. Cardinality(ks)
    IN  {s \in {[i \in places |-> conf[p[i]]] : p \in Bijection(places, ks)} :
            \A i, j \in places : i < j => s[i].minor <= s[j].minor}

\* Where lines of the port exist their fields are replaced, all but what precedes
\* the match; where none exists the line is appended.
advadd_BUG(conf, new) == Append(conf, new)
advadd(conf, new) ==
    IF \E i \in DOMAIN conf : LineOfPort(conf[i], new.minor)
    THEN [i \in DOMAIN conf |-> IF LineOfPort(conf[i], new.minor)
                                THEN [new EXCEPT !.minor = conf[i].minor] ELSE conf[i]]
    ELSE Append(conf, new)

\* advrm -m minor, advrm -p idx, and advls, which sorts the file before it prints it.
advrm_BUG(conf, minor) == Sorted(conf, {k \in DOMAIN conf : ~LineOfPort(conf[k], minor)})
advrm(conf, minor) == Sorted(conf, {k \in DOMAIN conf : ~EndsWith(conf[k].minor, minor)})
advrm_port(conf, idx) == Sorted(conf, {k \in DOMAIN conf : ~BeginsWith(conf[k].idx, idx)})
advls(conf) == Sorted(conf, DOMAIN conf)

----------------------------------------------------------------------------

\* The lines advttyd accepts, at most CF_MAXPORTS of them.
Acceptable(l) == l.minor <= CF_MAXPORTS /\ l.type > 4096 /\ l.idx \in 1 .. 16

paser_config(conf) ==
    LET ok == SelectSeq(conf, Acceptable)
    IN  SubSeq(ok, 1, IF Len(ok) < CF_MAXPORTS THEN Len(ok) ELSE CF_MAXPORTS)

============================================================================
