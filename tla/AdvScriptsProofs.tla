-------------------------- MODULE AdvScriptsProofs --------------------------
(***************************************************************************)
(* Theorems about the scripts that edit advttyd.conf, for every line that  *)
(* is added, every number that is removed and a file of any length.        *)
(***************************************************************************)
EXTENDS AdvScripts, SequenceTheorems, FiniteSetTheorems, TLAPS

----------------------------------------------------------------------------
(* How the expressions match.                                              *)

\* A number ends and begins with itself.
LEMMA MatchesItself == \A n : EndsWith(n, n) /\ BeginsWith(n, n)
  BY DEF EndsWith, BeginsWith

\* A line that the scripts take for a line of any port they also take for one of its
\* own port.
LEMMA OwnLine == \A l, m : LineOfPort(l, m) => Recognisable(l)
  BY MatchesItself DEF LineOfPort, Recognisable

----------------------------------------------------------------------------
(* The operations on a file.                                               *)

\* No port has two lines of the kind the scripts recognise.
Unique(c) == \A i, j \in DOMAIN c :
    c[i].minor = c[j].minor /\ Recognisable(c[i]) /\ Recognisable(c[j]) => i = j

\* sort loses no line that is left, makes up none, and doubles none.
LEMMA SortedLines ==
    ASSUME NEW c \in Seq(Line), NEW ks \in SUBSET DOMAIN c, NEW s \in Sorted(c, ks)
    PROVE  /\ s \in Seq(Line)
           /\ LinesOf(s) = {c[k] : k \in ks}
           /\ Unique(c) => Unique(s)
<1> DEFINE places == 1 .. Cardinality(ks)
<1>1. Cardinality(ks) \in Nat
  <2>1. DOMAIN c = 1 .. Len(c) /\ Len(c) \in Nat
    BY LenProperties
  <2>2. IsFiniteSet(DOMAIN c)
    BY <2>1, FS_Interval
  <2> QED
    BY <2>2, FS_Subset, FS_CardinalityType
<1>2. PICK p \in Bijection(places, ks) : s = [i \in places |-> c[p[i]]]
  BY DEF Sorted
<1>3. /\ p \in [places -> ks]
      /\ \A i, j \in places : p[i] = p[j] => i = j
      /\ \A k \in ks : \E i \in places : p[i] = k
  BY DEF Bijection, Injection, Surjection, IsInjective
<1>4. \A k \in ks : c[k] \in Line
  BY LenProperties
<1> HIDE DEF places
<1>5. s \in [places -> Line]
  BY <1>2, <1>3, <1>4
<1>6. s \in Seq(Line)
  BY <1>1, <1>5, SeqDef DEF places
<1>7. LinesOf(s) = {c[k] : k \in ks}
  BY <1>2, <1>3 DEF LinesOf
<1>8. Unique(c) => Unique(s)
  BY <1>2, <1>3 DEF Unique
<1> QED
  BY <1>6, <1>7, <1>8

\* What advadd does, line by line: it replaces the lines it takes for those of the
\* port and keeps the others, or it appends a line.
LEMMA AddedLines ==
    ASSUME NEW c \in Seq(Line), NEW l \in Line
    PROVE  \/ /\ \E i \in DOMAIN c : LineOfPort(c[i], l.minor)
              /\ advadd(c, l) \in Seq(Line)
              /\ DOMAIN advadd(c, l) = DOMAIN c
              /\ \A i \in DOMAIN c :
                    advadd(c, l)[i] = IF LineOfPort(c[i], l.minor)
                                      THEN [l EXCEPT !.minor = c[i].minor] ELSE c[i]
           \/ /\ \A i \in DOMAIN c : ~LineOfPort(c[i], l.minor)
              /\ advadd(c, l) \in Seq(Line)
              /\ DOMAIN advadd(c, l) = DOMAIN c \cup {Len(c) + 1}
              /\ Len(c) + 1 \notin DOMAIN c
              /\ \A i \in DOMAIN c : advadd(c, l)[i] = c[i]
              /\ advadd(c, l)[Len(c) + 1] = l
<1>1. DOMAIN c = 1 .. Len(c) /\ Len(c) \in Nat /\ c \in [1 .. Len(c) -> Line]
  BY LenProperties
<1>2. CASE \E i \in DOMAIN c : LineOfPort(c[i], l.minor)
  <2> DEFINE new(i) == IF LineOfPort(c[i], l.minor)
                       THEN [l EXCEPT !.minor = c[i].minor] ELSE c[i]
  <2>1. advadd(c, l) = [i \in DOMAIN c |-> new(i)]
    BY <1>2 DEF advadd
  <2>2. ASSUME NEW i \in DOMAIN c PROVE new(i) \in Line
    <3>1. c[i] \in Line /\ c[i].minor \in Nat
      BY <1>1 DEF Line
    <3>2. [l EXCEPT !.minor = c[i].minor] \in Line
      BY <3>1 DEF Line
    <3> QED
      BY <3>1, <3>2
  <2> HIDE DEF new
  <2>3. advadd(c, l) \in [1 .. Len(c) -> Line]
    BY <1>1, <2>1, <2>2
  <2>4. advadd(c, l) \in Seq(Line)
    BY <1>1, <2>3, SeqDef
  <2> QED
    BY <1>2, <2>1, <2>4 DEF new
<1>3. CASE ~ \E i \in DOMAIN c : LineOfPort(c[i], l.minor)
  <2>1. advadd(c, l) = Append(c, l)
    BY <1>3 DEF advadd
  <2>2. /\ Append(c, l) \in Seq(Line) /\ Len(Append(c, l)) = Len(c) + 1
        /\ \A i \in 1 .. Len(c) : Append(c, l)[i] = c[i]
        /\ Append(c, l)[Len(c) + 1] = l
    BY AppendProperties
  <2>3. DOMAIN Append(c, l) = 1 .. Len(c) + 1
    BY <2>2, LenProperties
  <2>4. DOMAIN Append(c, l) = DOMAIN c \cup {Len(c) + 1} /\ Len(c) + 1 \notin DOMAIN c
    BY <1>1, <2>3
  <2> QED
    BY <1>1, <1>3, <2>1, <2>2, <2>4
<1> QED
  BY <1>2, <1>3

\* advadd gives no port a second line that is recognised: a line it replaces was one,
\* and it appends a line only where there is none.
LEMMA AddKeepsUnique ==
    ASSUME NEW c \in Seq(Line), NEW l \in Line, Unique(c)
    PROVE  Unique(advadd(c, l))
<1> DEFINE a == advadd(c, l)
<1> SUFFICES ASSUME NEW i \in DOMAIN a, NEW j \in DOMAIN a,
                    a[i].minor = a[j].minor, Recognisable(a[i]), Recognisable(a[j])
             PROVE  i = j
  BY DEF Unique
<1>1. CASE /\ DOMAIN a = DOMAIN c
           /\ \A k \in DOMAIN c : a[k] = IF LineOfPort(c[k], l.minor)
                                         THEN [l EXCEPT !.minor = c[k].minor] ELSE c[k]
  <2>1. ASSUME NEW k \in DOMAIN c, Recognisable(a[k])
        PROVE  Recognisable(c[k]) /\ a[k].minor = c[k].minor
    BY <1>1, <2>1, OwnLine DEF Line
  <2>2. /\ Recognisable(c[i]) /\ a[i].minor = c[i].minor
        /\ Recognisable(c[j]) /\ a[j].minor = c[j].minor
    BY <1>1, <2>1
  <2> QED
    BY <1>1, <2>2 DEF Unique
<1>2. CASE /\ \A k \in DOMAIN c : ~LineOfPort(c[k], l.minor)
           /\ DOMAIN a = DOMAIN c \cup {Len(c) + 1}
           /\ \A k \in DOMAIN c : a[k] = c[k]
           /\ a[Len(c) + 1] = l
  <2>1. ASSUME NEW k \in DOMAIN c, Recognisable(a[k]) PROVE a[k].minor # l.minor
    BY <1>2, <2>1 DEF Recognisable
  <2>2. CASE i \in DOMAIN c /\ j \in DOMAIN c
    BY <1>2, <2>2 DEF Unique
  <2>3. CASE i \in DOMAIN c /\ j = Len(c) + 1
    BY <1>2, <2>1, <2>3
  <2>4. CASE j \in DOMAIN c /\ i = Len(c) + 1
    BY <1>2, <2>1, <2>4
  <2>5. CASE i = Len(c) + 1 /\ j = Len(c) + 1
    BY <2>5
  <2> QED
    BY <1>2, <2>2, <2>3, <2>4, <2>5
<1> QED
  BY <1>1, <1>2, AddedLines

\* Where all lines of the port are recognised, and no longer number ends in the
\* port's, advadd leaves exactly the other ports' lines and the new one.
LEMMA AddReplaces ==
    ASSUME NEW c \in Seq(Line), NEW l \in Line,
           \A x \in LinesOf(c) : IF x.minor = l.minor THEN Recognisable(x)
                                 ELSE ~EndsWith(x.minor, l.minor)
    PROVE  LinesOf(advadd(c, l)) = {x \in LinesOf(c) : x.minor # l.minor} \cup {l}
<1> DEFINE a == advadd(c, l)
<1>1. ASSUME NEW k \in DOMAIN c
      PROVE  LineOfPort(c[k], l.minor) <=> c[k].minor = l.minor
  BY DEF LinesOf, LineOfPort, Recognisable
<1>2. CASE /\ \E k \in DOMAIN c : LineOfPort(c[k], l.minor)
           /\ DOMAIN a = DOMAIN c
           /\ \A k \in DOMAIN c : a[k] = IF LineOfPort(c[k], l.minor)
                                         THEN [l EXCEPT !.minor = c[k].minor] ELSE c[k]
  <2>1. [l EXCEPT !.minor = l.minor] = l
    BY DEF Line
  <2>2. ASSUME NEW k \in DOMAIN c PROVE a[k] = IF c[k].minor = l.minor THEN l ELSE c[k]
    BY <1>1, <1>2, <2>1
  <2>3. \E k \in DOMAIN c : c[k].minor = l.minor
    BY <1>1, <1>2
  <2> HIDE DEF a
  <2>4. ASSUME NEW x \in LinesOf(a)
        PROVE  x \in {y \in LinesOf(c) : y.minor # l.minor} \cup {l}
    <3>1. PICK k \in DOMAIN c : x = a[k]
      BY <1>2, <2>4 DEF LinesOf
    <3>2. c[k] \in LinesOf(c)
      BY DEF LinesOf
    <3> QED
      BY <2>2, <3>1, <3>2
  <2>5. ASSUME NEW x \in LinesOf(c), x.minor # l.minor PROVE x \in LinesOf(a)
    <3>1. PICK k \in DOMAIN c : x = c[k]
      BY DEF LinesOf
    <3>2. x = a[k]
      BY <2>2, <2>5, <3>1
    <3> QED
      BY <1>2, <3>2 DEF LinesOf
  <2>6. l \in LinesOf(a)
    BY <1>2, <2>2, <2>3 DEF LinesOf
  <2> QED
    BY <2>4, <2>5, <2>6 DEF a
<1>3. CASE /\ \A k \in DOMAIN c : ~LineOfPort(c[k], l.minor)
           /\ DOMAIN a = DOMAIN c \cup {Len(c) + 1}
           /\ \A k \in DOMAIN c : a[k] = c[k]
           /\ a[Len(c) + 1] = l
  <2>1. \A k \in DOMAIN c : c[k].minor # l.minor
    BY <1>1, <1>3
  <2> HIDE DEF a
  <2>2. ASSUME NEW x \in LinesOf(a)
        PROVE  x \in {y \in LinesOf(c) : y.minor # l.minor} \cup {l}
    <3>1. PICK k \in DOMAIN a : x = a[k]
      BY <2>2 DEF LinesOf
    <3>2. CASE k \in DOMAIN c
      <4>1. x = c[k] /\ c[k] \in LinesOf(c)
        BY <1>3, <3>1, <3>2 DEF LinesOf
      <4> QED
        BY <2>1, <3>2, <4>1
    <3>3. CASE k = Len(c) + 1
      BY <1>3, <3>1, <3>3
    <3> QED
      BY <1>3, <3>2, <3>3
  <2>3. ASSUME NEW x \in LinesOf(c) PROVE x \in LinesOf(a)
    <3>1. PICK k \in DOMAIN c : x = c[k]
      BY DEF LinesOf
    <3> QED
      BY <1>3, <3>1 DEF LinesOf
  <2>4. l \in LinesOf(a)
    BY <1>3 DEF LinesOf
  <2> QED
    BY <2>2, <2>3, <2>4 DEF a
<1> QED
  BY <1>2, <1>3, AddedLines

----------------------------------------------------------------------------
(* Sequences of calls.                                                     *)

ScriptsInv == conf \in Seq(Line) /\ OneLinePerPort /\ RemovedIsGone

\* An empty file has no line twice.
LEMMA ScriptsInit == Init => ScriptsInv
<1> SUFFICES ASSUME Init PROVE ScriptsInv
  OBVIOUS
<1>1. conf = <<>> /\ call.op = "none" /\ DOMAIN conf = {}
  BY DEF Init
<1> QED
  BY <1>1 DEF ScriptsInv, OneLinePerPort, RemovedIsGone

\* What is common to the calls that sort the file: what is left of it has no port
\* twice if it had none before.
LEMMA SortKeeps ==
    ASSUME ScriptsInv, NEW ks \in SUBSET DOMAIN conf, conf' \in Sorted(conf, ks),
           call'.op # "add"
    PROVE  /\ conf' \in Seq(Line) /\ OneLinePerPort'
           /\ LinesOf(conf') = {conf[k] : k \in ks}
<1>1. conf \in Seq(Line) /\ Unique(conf)
  BY DEF ScriptsInv, OneLinePerPort, Unique
<1>2. /\ conf' \in Seq(Line) /\ Unique(conf')
      /\ LinesOf(conf') = {conf[k] : k \in ks}
  BY <1>1, SortedLines
<1> QED
  BY <1>2 DEF OneLinePerPort, Unique

\* Every call keeps its promise, whatever calls went before.
LEMMA ScriptsStep == ScriptsInv /\ [Next]_scriptVars => ScriptsInv'
<1> SUFFICES ASSUME ScriptsInv, [Next]_scriptVars PROVE ScriptsInv'
  OBVIOUS
<1>0. conf \in Seq(Line) /\ Unique(conf)
  BY DEF ScriptsInv, OneLinePerPort, Unique
<1>1. ASSUME NEW l \in Adds, Add(l) PROVE ScriptsInv'
  <2>1. l \in Line /\ conf' = advadd(conf, l) /\ before' = conf
        /\ call'.op = "add" /\ call'.arg = l
    BY <1>1, ScriptsAssumption DEF Add
  <2>2. conf' \in Seq(Line)
    BY <1>0, <2>1, AddedLines
  <2>3. Unique(conf')
    BY <1>0, <2>1, AddKeepsUnique
  <2>4. (\A x \in LinesOf(conf) : IF x.minor = l.minor THEN Recognisable(x)
                                  ELSE ~EndsWith(x.minor, l.minor))
        => LinesOf(conf') = {x \in LinesOf(conf) : x.minor # l.minor} \cup {l}
    BY <1>0, <2>1, AddReplaces
  <2>5. OneLinePerPort'
    BY <2>1, <2>3, <2>4 DEF OneLinePerPort, Unique
  <2>6. RemovedIsGone'
    BY <2>1 DEF RemovedIsGone
  <2> QED
    BY <2>2, <2>5, <2>6 DEF ScriptsInv
<1>2. ASSUME NEW m \in Minors, Remove(m) PROVE ScriptsInv'
  <2> DEFINE ks == {k \in DOMAIN conf : ~EndsWith(conf[k].minor, m)}
  <2>1. /\ conf' \in Sorted(conf, ks) /\ before' = conf
        /\ call'.op = "rm -m" /\ call'.arg = m
    BY <1>2 DEF Remove, advrm
  <2>2. /\ conf' \in Seq(Line) /\ OneLinePerPort'
        /\ LinesOf(conf') = {conf[k] : k \in ks}
    BY <2>1, SortKeeps
  <2>3. \A l \in LinesOf(conf') : l.minor # m /\ l \in LinesOf(conf)
    BY <2>2, MatchesItself DEF LinesOf
  <2>4. RemovedIsGone'
    BY <2>1, <2>3 DEF RemovedIsGone
  <2> QED
    BY <2>2, <2>4 DEF ScriptsInv
<1>3. ASSUME NEW n \in Idxs, RemovePort(n) PROVE ScriptsInv'
  <2> DEFINE ks == {k \in DOMAIN conf : ~BeginsWith(conf[k].idx, n)}
  <2>1. /\ conf' \in Sorted(conf, ks) /\ before' = conf
        /\ call'.op = "rm -p" /\ call'.arg = n
    BY <1>3 DEF RemovePort, advrm_port
  <2>2. /\ conf' \in Seq(Line) /\ OneLinePerPort'
        /\ LinesOf(conf') = {conf[k] : k \in ks}
    BY <2>1, SortKeeps
  <2>3. \A l \in LinesOf(conf') : l.idx # n /\ l \in LinesOf(conf)
    BY <2>2, MatchesItself DEF LinesOf
  <2>4. RemovedIsGone'
    BY <2>1, <2>3 DEF RemovedIsGone
  <2> QED
    BY <2>2, <2>4 DEF ScriptsInv
<1>4. CASE List
  <2>1. conf' \in Sorted(conf, DOMAIN conf) /\ call'.op = "ls"
    BY <1>4 DEF List, advls
  <2>2. conf' \in Seq(Line) /\ OneLinePerPort'
    BY <2>1, SortKeeps
  <2>3. RemovedIsGone'
    BY <2>1 DEF RemovedIsGone
  <2> QED
    BY <2>2, <2>3 DEF ScriptsInv
<1>5. CASE UNCHANGED scriptVars
  BY <1>5 DEF scriptVars, ScriptsInv, OneLinePerPort, RemovedIsGone
<1> QED
  BY <1>1, <1>2, <1>3, <1>4, <1>5 DEF Next

\* What every sequence of calls keeps true of the file.
THEOREM ScriptsInvariance == Spec => []ScriptsInv
<1> QED
  BY ScriptsInit, ScriptsStep, PTL DEF Spec

\* However advadd (script/advadd 43-57), advrm (74-83) and advls are called, no port
\* gets two lines that they recognise, and a line that is added takes the place of
\* its port's and of no other's where all lines are of the kind the scripts expect.
THEOREM ScriptsOneLinePerPort == Spec => []OneLinePerPort
<1>1. ScriptsInv => OneLinePerPort
  BY DEF ScriptsInv
<1> QED
  BY <1>1, ScriptsInvariance, PTL

\* advrm leaves no line with the number it is given, in whatever notation its other
\* fields are, and neither it nor the sorting makes up a line.
THEOREM ScriptsRemovedIsGone == Spec => []RemovedIsGone
<1>1. ScriptsInv => RemovedIsGone
  BY DEF ScriptsInv
<1> QED
  BY <1>1, ScriptsInvariance, PTL

============================================================================
