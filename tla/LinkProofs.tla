----------------------------- MODULE LinkProofs -----------------------------
(***************************************************************************)
(* Theorems about the daemon's connections, for every VC_PULL_TIME, any    *)
(* number of names and addresses, every length of the list and any number  *)
(* of descriptors: that a silent device is noticed and a speaking one is   *)
(* kept, and that vc_connect returns a connected socket and leaks none.    *)
(***************************************************************************)
EXTENDS Link, SequenceTheorems, FiniteSetTheorems, WellFoundedInduction, TLAPS

----------------------------------------------------------------------------
(* The timer.                                                              *)

\* Whatever vc_connect does in between, the timer does only what PullTimer says.
LEMMA LinkTimes == LinkSpec => Spec
<1>1. LinkInit => Init
  BY DEF LinkInit
<1>2. [LinkNext]_linkVars => [Next]_vars
  BY DEF LinkNext, Working, Serving, Restart, Next, linkVars, vars
<1> QED
  BY <1>1, <1>2, PTL DEF LinkSpec, Spec

\* What the silence is made of: the passes that returned without a packet, which
\* lrecv counts, and the one timeout that pushed Idle.
SilenceCounted ==
    /\ st = "netup" => silence <= lrecv
    /\ st = "idle"  => silence <= lrecv + VC_PULL_TIME

IInv == TypeOK /\ SilenceCounted /\ CountExplained

LEMMA InitInv == Init => IInv
  BY PullAssumption DEF Init, IInv, TypeOK, SilenceCounted, CountExplained, Connected

LEMMA NextInv == IInv /\ [Next]_vars => IInv'
<1> SUFFICES ASSUME IInv, [Next]_vars PROVE IInv'
  OBVIOUS
<1> USE PullAssumption DEF IInv, TypeOK, SilenceCounted, CountExplained, Connected
<1>1. CASE Connects
  BY <1>1 DEF Connects
<1>2. CASE Ends
  BY <1>2 DEF Ends, Drop
<1>3. CASE TimesOut
  <2>1. CASE st = "netup" /\ st' = "idle"
    BY <1>3, <2>1 DEF TimesOut, poll, Drop
  <2>2. CASE st = "idle" /\ Drop("poll")
    BY <1>3, <2>2 DEF TimesOut, poll, Drop
  <2> QED BY <1>3, <2>1, <2>2 DEF TimesOut
<1>4. CASE Receives
  BY <1>4 DEF Receives, Drop
<1>5. CASE NoPacket
  <2>1. PICK d \in Durations :
          \/ /\ lrecv + Used(d) <= VC_PULL_TIME
             /\ lrecv' = lrecv + Used(d)
             /\ silence' = silence + d
             /\ rounded' = IF d = 0 THEN rounded + 1 ELSE rounded
             /\ UNCHANGED <<st, inherited, last>>
          \/ /\ lrecv' = 0 /\ st' = "netdown"
             /\ silence' = 0 /\ inherited' = 0 /\ rounded' = 0
             /\ last' \in {"timer", "early"}
    BY <1>5 DEF NoPacket, Drop, Exceeds, Restarted, Used, Durations
  <2>2. d \in Nat /\ Used(d) \in Nat /\ d <= Used(d) /\ 0 < Used(d) /\ (d > 0 => Used(d) = d)
        /\ (d = 0 => Used(d) = 1)
    BY <2>1 DEF Durations, Used
  <2> QED BY <2>1, <2>2
<1>6. CASE main
  BY <1>6 DEF main
<1>7. CASE UNCHANGED vars
  BY <1>7 DEF vars
<1> QED BY <1>1, <1>2, <1>3, <1>4, <1>5, <1>6, <1>7 DEF Next

\* However the timeouts of select() and the counting of lrecv interleave, no
\* connection survives a silence of more than twice VC_PULL_TIME.
THEOREM SilenceIsBounded == LinkSpec => []SilenceBounded
<1>1. IInv => SilenceBounded
  BY PullAssumption DEF IInv, TypeOK, SilenceCounted, SilenceBounded
<1> QED BY InitInv, NextInv, <1>1, LinkTimes, PTL DEF Spec

\* lrecv counts no more than the silence, what was inherited and the rounding.
THEOREM CountIsExplained == LinkSpec => []CountExplained
<1>1. IInv => CountExplained
  BY DEF IInv
<1> QED BY InitInv, NextInv, <1>1, LinkTimes, PTL DEF Spec

\* lrecv never exceeds VC_PULL_TIME, and every variable has its type.
THEOREM TimerTypeCorrect == LinkSpec => []TypeOK
<1>1. IInv => TypeOK
  BY DEF IInv
<1> QED BY InitInv, NextInv, <1>1, LinkTimes, PTL DEF Spec

\* After a drop that came too early nothing is left to inherit.
AfterEarly ==
    last = "early" => IF Connected THEN inherited = 0 ELSE lrecv = 0

LEMMA AfterEarlyInv == IInv /\ AfterEarly /\ [Next]_vars => AfterEarly'
<1> SUFFICES ASSUME IInv, AfterEarly, [Next]_vars PROVE AfterEarly'
  OBVIOUS
<1> USE PullAssumption DEF IInv, TypeOK, AfterEarly, Connected
<1>1. CASE Connects
  BY <1>1 DEF Connects
<1>2. CASE Ends \/ TimesOut \/ Receives
  BY <1>2 DEF Ends, TimesOut, Receives, poll, Drop
<1>3. CASE NoPacket
  BY <1>3 DEF NoPacket, Drop, Restarted
<1>4. CASE main \/ UNCHANGED vars
  BY <1>4 DEF main, vars
<1> QED BY <1>1, <1>2, <1>3, <1>4 DEF Next

\* A connection is dropped too early only if it inherited a count, and not if the
\* one before it was dropped too early.
THEOREM EarlyIsInherited == LinkSpec => EarlyOnlyInherited
<1> DEFINE Early == last' = "early" /\ Connected /\ st' = "netdown"
                      => inherited > 0 /\ last # "early"
<1>1. Init => AfterEarly
  BY DEF Init, AfterEarly
<1>2. IInv /\ AfterEarly /\ [Next]_vars => [Early]_vars
  <2> SUFFICES ASSUME IInv, AfterEarly, Next, last' = "early", Connected, st' = "netdown"
               PROVE  inherited > 0 /\ last # "early"
    OBVIOUS
  <2> USE PullAssumption DEF IInv, TypeOK, CountExplained, AfterEarly, Connected
  <2>1. CASE last # "early"
    <3>1. NoPacket
      BY <2>1 DEF Next, Connects, Ends, TimesOut, Receives, main, Drop
    <3>2. PICK d \in Durations :
              /\ lrecv + Used(d) > VC_PULL_TIME
              /\ silence + d + rounded + (IF d = 0 THEN 1 ELSE 0) <= VC_PULL_TIME
      BY <3>1, <2>1 DEF NoPacket, Drop, Exceeds, Durations
    <3> QED BY <2>1, <3>2 DEF Used, Durations
  <2>2. CASE last = "early"
    <3>1. inherited = 0
      BY <2>2
    <3>2. CASE NoPacket
      <4>1. PICK d \in Durations :
               \/ st' = st
               \/ /\ lrecv + Used(d) > VC_PULL_TIME
                  /\ silence + d + rounded + (IF d = 0 THEN 1 ELSE 0) <= VC_PULL_TIME
        BY <3>2 DEF NoPacket, Drop, Exceeds, Durations
      <4> QED BY <3>1, <4>1 DEF Used, Durations
    <3> QED BY <2>2, <3>2 DEF Next, Connects, Ends, TimesOut, Receives, main, Drop
  <2> QED BY <2>1, <2>2
<1> QED BY InitInv, NextInv, AfterEarlyInv, <1>1, <1>2, LinkTimes, PTL DEF Spec, EarlyOnlyInherited

----------------------------------------------------------------------------
(* vc_connect.                                                             *)

\* The descriptors: those of the list are open, answer to a connect that was made, and
\* are apart from the others; if every name resolved there are no others but Held.
DescriptorsKnown ==
    /\ rfds = InUse(sklist)
    /\ at \in {"list", "select", "close"} =>
          \A f \in InUse(sklist) : f \in open /\ conn[f] # "none"
    /\ at \in {"down", "up"} => sklist = <<>> /\ ~wild
    /\ wild => unresolved
    /\ ~unresolved =>
          /\ at \in {"list", "select", "close"} =>
                open = Held \cup InUse(sklist) /\ Held \cap InUse(sklist) = {}
          /\ NoLeak

\* The socket chosen is one of the list, and connected.
ChoiceKnown ==
    /\ at \in {"list", "close"} => sk = NoSk \/ (sk \in InUse(sklist) /\ conn[sk] = "connected")
    /\ at \in {"down", "select"} => sk = NoSk
    /\ ReturnedConnected /\ AcceptingWins

ConnectInv == ConnectTypeOK /\ DescriptorsKnown /\ ChoiceKnown

\* The lowest free descriptor is one, as long as there is any.
LEMMA FreeIsFree ==
    ASSUME open \subseteq Fd, open # Fd
    PROVE  FreeFd \in Fd /\ FreeFd \notin open
<1> DEFINE R == OpToRel(<, Nat)
           T == Fd \ open
<1>1. T \subseteq Nat /\ T # {}
  <2>1. Fd \subseteq Nat
    BY ConnectAssumption DEF Fd
  <2>2. \E f \in Fd : f \notin open
    OBVIOUS
  <2> QED
    BY <2>1, <2>2
<1>2. IsWellFoundedOn(R, Nat)
  BY NatLessThanWellFounded
<1>3. \A k, m \in Nat : k < m => <<k, m>> \in R
  BY DEF OpToRel
<1> HIDE DEF R, T
<1>4. PICK f \in T : \A g \in T : <<g, f>> \notin R
  BY <1>1, <1>2, WFMin
<1>5. ASSUME NEW g \in T PROVE f <= g
  <2>1. f \in Nat /\ g \in Nat
    BY <1>1
  <2>2. ~ (g < f)
    BY <1>3, <1>4, <2>1
  <2> QED
    BY <2>1, <2>2
<1>6. FreeFd \in T
  BY <1>4, <1>5 DEF FreeFd, T
<1> QED
  BY <1>6 DEF T

\* An empty list has no sockets.
LEMMA NoneInUse == <<>> \in Seq(Fd) /\ InUse(<<>>) = {} /\ Cardinality(InUse(<<>>)) = 0
                    /\ Len(<<>>) = 0
<1>1. InUse(<<>>) = {}
  BY DEF InUse
<1> QED
  BY <1>1, FS_EmptySet

\* The sockets of a list to which one is appended.
LEMMA OneMoreInUse ==
    ASSUME NEW s \in Seq(Fd), NEW f \in Fd
    PROVE  /\ Append(s, f) \in Seq(Fd) /\ Len(Append(s, f)) = Len(s) + 1
           /\ InUse(Append(s, f)) = InUse(s) \cup {f}
           /\ InUse(s) \subseteq Fd /\ IsFiniteSet(InUse(s)) /\ Len(s) \in Nat
           /\ f \notin InUse(s)
                 => Cardinality(InUse(Append(s, f))) = Cardinality(InUse(s)) + 1
<1>1. /\ Append(s, f) \in Seq(Fd) /\ Len(Append(s, f)) = Len(s) + 1
      /\ \A i \in 1 .. Len(s) : Append(s, f)[i] = s[i]
      /\ Append(s, f)[Len(s) + 1] = f
  BY AppendProperties
<1>2. /\ Len(s) \in Nat /\ DOMAIN s = 1 .. Len(s)
      /\ DOMAIN Append(s, f) = 1 .. Len(s) + 1
  BY <1>1, LenProperties
<1>3. InUse(Append(s, f)) = InUse(s) \cup {f}
  <2>1. ASSUME NEW g \in InUse(Append(s, f)) PROVE g \in InUse(s) \cup {f}
    <3>1. PICK i \in 1 .. Len(s) + 1 : g = Append(s, f)[i]
      BY <1>2, <2>1 DEF InUse
    <3>2. i \in 1 .. Len(s) \/ i = Len(s) + 1
      BY <1>2
    <3> QED
      BY <1>1, <1>2, <3>1, <3>2 DEF InUse
  <2>2. ASSUME NEW i \in 1 .. Len(s) PROVE s[i] \in InUse(Append(s, f))
    <3>1. i \in 1 .. Len(s) + 1 /\ s[i] = Append(s, f)[i]
      BY <1>1, <1>2
    <3> QED
      BY <1>2, <3>1 DEF InUse
  <2>3. f \in InUse(Append(s, f))
    <3>1. Len(s) + 1 \in 1 .. Len(s) + 1
      BY <1>2
    <3> QED
      BY <1>1, <1>2, <3>1 DEF InUse
  <2>4. \A g \in InUse(s) : g \in InUse(Append(s, f))
    BY <1>2, <2>2 DEF InUse
  <2> QED
    BY <2>1, <2>3, <2>4
<1>4. InUse(s) \subseteq Fd
  <2>1. \A i \in 1 .. Len(s) : s[i] \in Fd
    BY ElementOfSeq
  <2> QED
    BY <1>2, <2>1 DEF InUse
<1>5. IsFiniteSet(InUse(s))
  <2>1. IsFiniteSet(Fd)
    BY ConnectAssumption, FS_Interval DEF Fd
  <2> QED
    BY <1>4, <2>1, FS_Subset
<1>6. f \notin InUse(s) => Cardinality(InUse(Append(s, f))) = Cardinality(InUse(s)) + 1
  BY <1>3, <1>5, FS_AddElement
<1> QED
  BY <1>1, <1>2, <1>3, <1>4, <1>5, <1>6

\* What follows from the types at once.
LEMMA ConnectTypes ==
    ASSUME ConnectTypeOK
    PROVE  /\ wild \in BOOLEAN /\ unresolved \in BOOLEAN
           /\ Fd \subseteq Nat /\ NoSk \notin Fd
           /\ sklist \in Seq(Fd) /\ Len(sklist) \in Nat /\ DOMAIN sklist = 1 .. Len(sklist)
           /\ InUse(sklist) \subseteq Fd
<1>1. wild \in BOOLEAN /\ unresolved \in BOOLEAN /\ sklist \in Seq(Fd)
  BY DEF ConnectTypeOK
<1>2. Fd \subseteq Nat /\ NoSk \notin Fd
  BY ConnectAssumption DEF Fd, NoSk
<1>3. Len(sklist) \in Nat /\ DOMAIN sklist = 1 .. Len(sklist)
  BY <1>1, LenProperties
<1>4. \A i \in 1 .. Len(sklist) : sklist[i] \in Fd
  BY <1>1, ElementOfSeq
<1>5. InUse(sklist) \subseteq Fd
  BY <1>3, <1>4 DEF InUse
<1> QED
  BY <1>1, <1>2, <1>3, <1>5

LEMMA CallKeeps == ConnectInv /\ Call => ConnectInv'
<1> SUFFICES ASSUME ConnectInv, Call PROVE ConnectInv'
  OBVIOUS
<1>1. /\ at = "down" /\ at' = "list" /\ names' \in 1 .. 2 /\ addr' \in Nat
      /\ UNCHANGED <<open, conn, sklist, rfds, sk>>
      /\ \/ UNCHANGED <<wild, unresolved>>
         \/ wild' = TRUE /\ unresolved' = TRUE
  BY ConnectAssumption DEF Call, Lookup
<1>2. ConnectTypeOK'
  <2>1. ConnectTypeOK
    BY DEF ConnectInv
  <2>2. wild' \in BOOLEAN /\ unresolved' \in BOOLEAN
    BY <1>1, <2>1, ConnectTypes
  <2>3. InUse(sklist)' = InUse(sklist)
    BY <1>1 DEF InUse
  <2> QED
    BY <1>1, <2>1, <2>2, <2>3 DEF ConnectTypeOK
<1>3. sklist = <<>> /\ sk = NoSk /\ InUse(sklist) = {} /\ rfds = InUse(sklist)
  BY <1>1, NoneInUse DEF ConnectInv, DescriptorsKnown, ChoiceKnown
<1>4. InUse(sklist)' = {} /\ rfds' = {}
  BY <1>1, <1>3 DEF InUse
<1>5. (wild => unresolved)' /\ (~unresolved' => ~unresolved)
  BY <1>1 DEF ConnectInv, DescriptorsKnown
<1>6. ~unresolved => open = Held
  BY <1>1 DEF ConnectInv, DescriptorsKnown, NoLeak
<1>7. DescriptorsKnown'
  BY <1>1, <1>4, <1>5, <1>6 DEF DescriptorsKnown, NoLeak
<1>8. ChoiceKnown'
  BY <1>1, <1>3 DEF ChoiceKnown, ReturnedConnected, AcceptingWins
<1> QED
  BY <1>2, <1>7, <1>8 DEF ConnectInv

LEMMA TryKeeps == ConnectInv /\ TryAddress => ConnectInv'
<1> SUFFICES ASSUME ConnectInv, TryAddress PROVE ConnectInv'
  OBVIOUS
<1> DEFINE f == FreeFd
<1>0. ConnectTypeOK
  BY DEF ConnectInv
<1>1. /\ at = "list" /\ sk = NoSk /\ addr > 0 /\ Len(sklist) < VC_MAX_SKNUM /\ open # Fd
      /\ addr' = addr - 1 /\ open' = open \cup {f}
      /\ sklist' = Append(sklist, f) /\ rfds' = rfds \cup {f}
      /\ UNCHANGED <<at, names, wild, unresolved>>
  BY DEF TryAddress, Trying, MoreRoom
<1>2. PICK c \in Pending \cup {"connected"} :
          /\ conn' = [conn EXCEPT ![f] = c]
          /\ sk' = IF c = "connected" THEN f ELSE NoSk
  BY DEF TryAddress
<1>3. open \subseteq Fd /\ conn \in [Fd -> Connections]
  BY <1>0 DEF ConnectTypeOK
<1>4. f \in Fd /\ f \notin open
  BY <1>1, <1>3, FreeIsFree
<1> HIDE DEF f
<1>5. InUse(sklist) \subseteq open /\ rfds = InUse(sklist)
  BY <1>1 DEF ConnectInv, DescriptorsKnown
<1>6. sklist \in Seq(Fd) /\ f \notin InUse(sklist)
  BY <1>4, <1>5, <1>0, ConnectTypes
<1>7. /\ sklist' \in Seq(Fd) /\ Len(sklist') = Len(sklist) + 1
      /\ InUse(sklist)' = InUse(sklist) \cup {f}
      /\ Len(sklist) \in Nat
      /\ Cardinality(InUse(sklist))' = Cardinality(InUse(sklist)) + 1
  <2>1. InUse(sklist)' = InUse(Append(sklist, f))
    BY <1>1 DEF InUse
  <2>2. Cardinality(InUse(sklist))' = Cardinality(InUse(sklist)')
    OBVIOUS
  <2> QED
    BY <1>1, <1>4, <1>6, <2>1, <2>2, OneMoreInUse
<1>8. c \in Connections /\ c # "none"
  BY <1>2 DEF Connections, Pending
<1>9. conn' \in [Fd -> Connections] /\ conn'[f] = c /\ \A g \in Fd \ {f} : conn'[g] = conn[g]
  BY <1>2, <1>3, <1>4, <1>8
<1>10. ConnectTypeOK'
  <2>1. open' \subseteq Fd /\ rfds' \subseteq Fd /\ sk' \in Fd \cup {NoSk}
    BY <1>1, <1>2, <1>4, <1>0 DEF ConnectTypeOK
  <2>2. addr' \in Nat
    BY <1>1, <1>0 DEF ConnectTypeOK
  <2>3. Len(sklist') <= VC_MAX_SKNUM
    BY <1>1, <1>7, ConnectAssumption
  <2>4. Cardinality(InUse(sklist))' = Len(sklist')
    BY <1>7, <1>0 DEF ConnectTypeOK
  <2>5. /\ at' \in {"down", "list", "select", "close", "up", "dead"} /\ names' \in 0 .. 2
        /\ {wild', unresolved'} \subseteq BOOLEAN
    BY <1>1, <1>0 DEF ConnectTypeOK
  <2> QED
    BY <1>7, <1>9, <2>1, <2>2, <2>3, <2>4, <2>5 DEF ConnectTypeOK
<1>11. DescriptorsKnown'
  <2>1. rfds' = InUse(sklist)'
    BY <1>1, <1>5, <1>7
  <2>2. \A g \in InUse(sklist)' : g \in open' /\ conn'[g] # "none"
    <3>1. \A g \in InUse(sklist) : g \in open /\ g \in Fd /\ g # f /\ conn[g] # "none"
      BY <1>1, <1>3, <1>5, <1>6 DEF ConnectInv, DescriptorsKnown
    <3> QED
      BY <1>1, <1>7, <1>8, <1>9, <3>1
  <2>3. ~unresolved => open = Held \cup InUse(sklist) /\ Held \cap InUse(sklist) = {}
    BY <1>1 DEF ConnectInv, DescriptorsKnown
  <2>4. ~unresolved' => open' = Held \cup InUse(sklist)' /\ Held \cap InUse(sklist)' = {}
    BY <1>1, <1>4, <1>7, <2>3
  <2>5. (wild => unresolved)'
    BY <1>1 DEF ConnectInv, DescriptorsKnown
  <2> QED
    BY <1>1, <2>1, <2>2, <2>4, <2>5 DEF DescriptorsKnown, NoLeak
<1>12. ChoiceKnown'
  <2>1. sk' = NoSk \/ (sk' \in InUse(sklist)' /\ conn'[sk'] = "connected")
    BY <1>2, <1>7, <1>9
  <2> QED
    BY <1>1, <2>1 DEF ChoiceKnown, ReturnedConnected, AcceptingWins
<1> QED
  BY <1>10, <1>11, <1>12 DEF ConnectInv

LEMMA SkipKeeps == ConnectInv /\ SkipAddress => ConnectInv'
<1> SUFFICES ASSUME ConnectInv, SkipAddress PROVE ConnectInv'
  OBVIOUS
<1>0. ConnectTypeOK
  BY DEF ConnectInv
<1>1. /\ at = "list" /\ addr > 0 /\ addr' = addr - 1
      /\ open' = IF open = Fd THEN open ELSE open \ {FreeFd}
      /\ UNCHANGED <<conn, at, names, sklist, rfds, wild, sk, unresolved>>
  BY DEF SkipAddress, Trying, CloseFailed
<1>2. open' = open
  <2>1. CASE open = Fd
    BY <1>1, <2>1
  <2>2. CASE open # Fd
    <3>1. FreeFd \notin open
      BY <1>0, <2>2, FreeIsFree DEF ConnectTypeOK
    <3> QED
      BY <1>1, <2>2, <3>1
  <2> QED
    BY <2>1, <2>2
<1>3. addr' \in Nat
  BY <1>0, <1>1 DEF ConnectTypeOK
<1>4. InUse(sklist)' = InUse(sklist)
  BY <1>1 DEF InUse
<1>5. ConnectTypeOK'
  BY <1>0, <1>1, <1>2, <1>3, <1>4 DEF ConnectTypeOK
<1>6. DescriptorsKnown'
  BY <1>1, <1>2, <1>4 DEF ConnectInv, DescriptorsKnown, NoLeak
<1>7. ChoiceKnown'
  BY <1>1, <1>2, <1>4 DEF ConnectInv, ChoiceKnown, ReturnedConnected, AcceptingWins
<1> QED
  BY <1>5, <1>6, <1>7 DEF ConnectInv

LEMMA ListDoneKeeps == ConnectInv /\ ListDone => ConnectInv'
<1> SUFFICES ASSUME ConnectInv, ListDone PROVE ConnectInv'
  OBVIOUS
<1>1. /\ at = "list" /\ UNCHANGED <<open, conn, sklist, rfds, sk>>
      /\ \/ at' = "list" /\ names' = 1 /\ addr' \in Nat /\ UNCHANGED <<wild, unresolved>>
         \/ at' = "list" /\ names' = 1 /\ addr' \in Nat /\ wild' = TRUE /\ unresolved' = TRUE
         \/ at' = "close" /\ sk # NoSk /\ UNCHANGED <<names, addr, wild, unresolved>>
         \/ at' = "select" /\ sk = NoSk /\ UNCHANGED <<names, addr, wild, unresolved>>
  BY ConnectAssumption DEF ListDone, Lookup
<1>2. InUse(sklist)' = InUse(sklist)
  BY <1>1 DEF InUse
<1>3. ConnectTypeOK'
  <2>1. ConnectTypeOK
    BY DEF ConnectInv
  <2>2. wild' \in BOOLEAN /\ unresolved' \in BOOLEAN
    BY <1>1, <2>1, ConnectTypes
  <2>3. names' \in 0 .. 2 /\ addr' \in Nat
    BY <1>1, <2>1 DEF ConnectTypeOK
  <2> QED
    BY <1>1, <1>2, <2>1, <2>2, <2>3 DEF ConnectTypeOK
<1>4. (wild => unresolved)' /\ (~unresolved' => ~unresolved)
  BY <1>1 DEF ConnectInv, DescriptorsKnown
<1>5. DescriptorsKnown'
  BY <1>1, <1>2, <1>4 DEF ConnectInv, DescriptorsKnown, NoLeak
<1>6. ChoiceKnown'
  BY <1>1, <1>2 DEF ConnectInv, ChoiceKnown, ReturnedConnected, AcceptingWins
<1> QED
  BY <1>3, <1>5, <1>6 DEF ConnectInv

LEMMA CorruptedKeeps == ConnectInv /\ Corrupted => ConnectInv'
<1> SUFFICES ASSUME ConnectInv, Corrupted PROVE ConnectInv'
  OBVIOUS
<1>1. at' = "dead" /\ UNCHANGED <<open, conn, names, addr, sklist, rfds, wild, unresolved, sk>>
  BY DEF Corrupted, lists
<1>2. InUse(sklist)' = InUse(sklist)
  BY <1>1 DEF InUse
<1>3. ConnectTypeOK'
  BY <1>1, <1>2 DEF ConnectInv, ConnectTypeOK
<1>4. DescriptorsKnown'
  BY <1>1, <1>2 DEF ConnectInv, DescriptorsKnown, NoLeak
<1>5. ChoiceKnown'
  BY <1>1 DEF ChoiceKnown, ReturnedConnected, AcceptingWins
<1> QED
  BY <1>3, <1>4, <1>5 DEF ConnectInv

LEMMA ArrivesKeeps == ConnectInv /\ (\E f \in Fd : Arrives(f)) => ConnectInv'
<1> SUFFICES ASSUME ConnectInv, NEW f \in Fd, Arrives(f) PROVE ConnectInv'
  OBVIOUS
<1>0. ConnectTypeOK
  BY DEF ConnectInv
<1>1. /\ at \in {"list", "select"} /\ f \in open
      /\ \/ conn[f] = "accepting" /\ conn' = [conn EXCEPT ![f] = "connected"]
         \/ conn[f] = "refusing" /\ conn' = [conn EXCEPT ![f] = "failed"]
      /\ UNCHANGED <<open, at, names, addr, sklist, rfds, wild, unresolved, sk>>
  BY DEF Arrives, lists
<1>2. conn \in [Fd -> Connections]
  BY <1>0 DEF ConnectTypeOK
<1>3. /\ conn' \in [Fd -> Connections]
      /\ \A g \in Fd : conn[g] # "none" => conn'[g] # "none"
      /\ \A g \in Fd : conn[g] = "connected" => conn'[g] = "connected"
  BY <1>1, <1>2 DEF Connections, Pending
<1>4. InUse(sklist)' = InUse(sklist) /\ InUse(sklist) \subseteq Fd
  BY <1>0, <1>1, ConnectTypes DEF InUse
<1>5. ConnectTypeOK'
  BY <1>0, <1>1, <1>3, <1>4 DEF ConnectTypeOK
<1>6. DescriptorsKnown'
  BY <1>1, <1>3, <1>4 DEF ConnectInv, DescriptorsKnown, NoLeak
<1>7. ChoiceKnown'
  BY <1>1, <1>3, <1>4 DEF ConnectInv, ChoiceKnown, ReturnedConnected, AcceptingWins
<1> QED
  BY <1>5, <1>6, <1>7 DEF ConnectInv

LEMMA SelectKeeps == ConnectInv /\ (Select \/ SelectFails) => ConnectInv'
<1> SUFFICES ASSUME ConnectInv, Select \/ SelectFails PROVE ConnectInv'
  OBVIOUS
<1>0. ConnectTypeOK
  BY DEF ConnectInv
<1>1. /\ at = "select" /\ at' = "close"
      /\ UNCHANGED <<open, conn, names, addr, sklist, rfds, wild, unresolved>>
  BY DEF Select, SelectFails, lists
<1>2. /\ rfds = InUse(sklist) /\ sk = NoSk
      /\ \A f \in InUse(sklist) : f \in open /\ conn[f] # "none"
  BY <1>1 DEF ConnectInv, DescriptorsKnown, ChoiceKnown
<1>3. InUse(sklist)' = InUse(sklist)
  BY <1>1 DEF InUse
<1>4. /\ InUse(sklist) \subseteq Fd /\ NoSk \notin Fd
      /\ \A i \in DOMAIN sklist : sklist[i] \in InUse(sklist)
  BY <1>0, ConnectTypes DEF InUse
<1>5. \/ sk' \in InUse(sklist) /\ conn[sk'] = "connected"
      \/ /\ sk' = NoSk
         /\ \/ wild
            \/ \A f \in rfds : conn[f] = "silent"
            \/ \E f \in rfds : conn[f] = "failed"
  <2>1. CASE Select
    <3>1. CASE Good = {}
      <4>1. sk' = NoSk
        BY <2>1, <3>1 DEF Select
      <4>2. PICK f \in rfds : conn[f] \notin Pending
        BY <2>1 DEF Select, Ready
      <4>3. PICK i \in DOMAIN sklist : f = sklist[i]
        BY <1>2, <4>2 DEF InUse
      <4>4. conn[f] # "connected"
        BY <3>1, <4>2, <4>3 DEF Good, Ready
      <4>5. conn[f] \in Connections /\ conn[f] # "none"
        BY <1>0, <1>2, <1>4, <4>2 DEF ConnectTypeOK
      <4>6. conn[f] = "failed"
        BY <4>2, <4>4, <4>5 DEF Connections
      <4> QED
        BY <4>1, <4>2, <4>6
    <3>2. CASE Good # {}
      <4>1. PICK i \in Good : sk' = sklist[i]
        BY <2>1, <3>2 DEF Select
      <4>2. i \in DOMAIN sklist /\ conn[sklist[i]] = "connected"
        BY <4>1 DEF Good
      <4> QED
        BY <1>4, <4>1, <4>2
    <3> QED
      BY <3>1, <3>2
  <2>2. CASE SelectFails
    BY <1>2, <2>2 DEF SelectFails, TimedOut
  <2> QED
    BY <2>1, <2>2
<1>6. sk' \in Fd \cup {NoSk}
  BY <1>4, <1>5
<1>7. ConnectTypeOK'
  BY <1>0, <1>1, <1>3, <1>6 DEF ConnectTypeOK
<1>8. DescriptorsKnown'
  BY <1>1, <1>3 DEF ConnectInv, DescriptorsKnown, NoLeak
<1>9. ChoiceKnown'
  <2>1. AcceptingWins'
    <3>1. SUFFICES ASSUME sk' = NoSk, ~wild
                   PROVE  \/ \A f \in rfds : conn[f] = "silent"
                          \/ \E f \in rfds : conn[f] \in {"refusing", "failed"}
      BY <1>1 DEF AcceptingWins
    <3>2. sk' \notin InUse(sklist)
      BY <1>4, <3>1
    <3> QED
      BY <1>5, <3>1, <3>2
  <2> QED
    BY <1>1, <1>3, <1>5, <2>1 DEF ChoiceKnown, ReturnedConnected
<1> QED
  BY <1>7, <1>8, <1>9 DEF ConnectInv

LEMMA ReturnKeeps == ConnectInv /\ Return => ConnectInv'
<1> SUFFICES ASSUME ConnectInv, Return PROVE ConnectInv'
  OBVIOUS
<1>0. ConnectTypeOK
  BY DEF ConnectInv
<1>1. /\ at = "close"
      /\ \/ ~wild /\ open' = open \ (InUse(sklist) \ {sk})
         \/ wild /\ \E S \in SUBSET (open \ {sk}) : open' = open \ S
      /\ conn' = [f \in Fd |-> IF f = sk THEN conn[f] ELSE "none"]
      /\ at' = IF sk = NoSk THEN "down" ELSE "up"
      /\ names' = 0 /\ addr' = 0 /\ sklist' = <<>> /\ rfds' = {} /\ wild' = FALSE
      /\ UNCHANGED <<sk, unresolved>>
  BY DEF Return
<1>2. /\ sk = NoSk \/ (sk \in InUse(sklist) /\ conn[sk] = "connected")
      /\ \A f \in InUse(sklist) : f \in open
      /\ wild => unresolved
      /\ ~unresolved => open = Held \cup InUse(sklist) /\ Held \cap InUse(sklist) = {}
  BY <1>1 DEF ConnectInv, DescriptorsKnown, ChoiceKnown
<1>3. InUse(sklist)' = {} /\ Cardinality(InUse(sklist))' = 0 /\ Len(sklist') = 0
      /\ sklist' \in Seq(Fd)
  BY <1>1, NoneInUse
<1>4. /\ open' \subseteq open
      /\ sk # NoSk => sk \in open'
      /\ ~unresolved => open' = IF sk = NoSk THEN Held ELSE Held \cup {sk}
  <2>1. InUse(sklist) \subseteq Fd /\ NoSk \notin Fd
    BY <1>0, ConnectTypes
  <2>2. CASE ~wild
    <3>1. open' = open \ (InUse(sklist) \ {sk})
      BY <1>1, <2>2
    <3> QED
      BY <1>2, <2>1, <3>1
  <2>3. CASE wild
    BY <1>1, <1>2, <2>3
  <2> QED
    BY <2>2, <2>3
<1>5. conn' \in [Fd -> Connections] /\ (sk # NoSk => sk \in Fd /\ conn'[sk] = "connected")
  <2>1. conn \in [Fd -> Connections] /\ InUse(sklist) \subseteq Fd
    BY <1>0, ConnectTypes DEF ConnectTypeOK
  <2>2. "none" \in Connections
    BY DEF Connections
  <2>3. conn' \in [Fd -> Connections]
    BY <1>1, <2>1, <2>2
  <2>4. sk # NoSk => sk \in Fd /\ conn[sk] = "connected"
    BY <1>2, <2>1
  <2> QED
    BY <1>1, <2>3, <2>4
<1>6. ConnectTypeOK'
  <2>1. open' \subseteq Fd /\ rfds' \subseteq Fd /\ sk' \in Fd \cup {NoSk}
    BY <1>0, <1>1, <1>4 DEF ConnectTypeOK
  <2>2. wild' \in BOOLEAN /\ unresolved' \in BOOLEAN
    BY <1>0, <1>1, ConnectTypes
  <2>3. at' \in {"down", "up"} /\ names' \in 0 .. 2 /\ addr' \in Nat
    BY <1>1
  <2>4. Len(sklist') <= VC_MAX_SKNUM /\ Cardinality(InUse(sklist))' = Len(sklist')
    BY <1>3, ConnectAssumption
  <2> QED
    BY <1>3, <1>5, <2>1, <2>2, <2>3, <2>4 DEF ConnectTypeOK
<1>7. DescriptorsKnown'
  <2>1. NoLeak'
    <3>1. ~unresolved /\ sk # NoSk => sk \notin Held
      BY <1>2
    <3> QED
      BY <1>1, <1>4, <3>1 DEF NoLeak
  <2> QED
    BY <1>1, <1>3, <2>1 DEF DescriptorsKnown
<1>8. ChoiceKnown'
  BY <1>1, <1>4, <1>5 DEF ChoiceKnown, ReturnedConnected, AcceptingWins
<1> QED
  BY <1>6, <1>7, <1>8 DEF ConnectInv

LEMMA LostKeeps == ConnectInv /\ Lost => ConnectInv'
<1> SUFFICES ASSUME ConnectInv, Lost PROVE ConnectInv'
  OBVIOUS
<1>0. ConnectTypeOK
  BY DEF ConnectInv
<1>1. /\ at = "up" /\ at' = "down" /\ open' = open \ {sk} /\ sk' = NoSk
      /\ conn' = [conn EXCEPT ![sk] = "none"]
      /\ UNCHANGED <<names, addr, sklist, rfds, wild, unresolved>>
  BY DEF Lost, lists
<1>2. sklist = <<>> /\ ~wild /\ rfds = InUse(sklist)
      /\ (~unresolved => open = Held \cup {sk} /\ sk \notin Held)
  BY <1>1 DEF ConnectInv, DescriptorsKnown, NoLeak
<1>3. conn' \in [Fd -> Connections]
  <2>1. conn \in [Fd -> Connections] /\ "none" \in Connections
    BY <1>0 DEF ConnectTypeOK, Connections
  <2> QED
    BY <1>1, <2>1
<1>4. InUse(sklist)' = InUse(sklist)
  BY <1>1 DEF InUse
<1>5. ConnectTypeOK'
  BY <1>0, <1>1, <1>3, <1>4 DEF ConnectTypeOK
<1>6. ~unresolved => open' = Held
  BY <1>1, <1>2
<1>7. DescriptorsKnown'
  BY <1>1, <1>2, <1>4, <1>6 DEF DescriptorsKnown, NoLeak
<1>8. ChoiceKnown'
  BY <1>1 DEF ChoiceKnown, ReturnedConnected, AcceptingWins
<1> QED
  BY <1>5, <1>7, <1>8 DEF ConnectInv

\* The state in which the daemon starts; a restart comes back to it.
LEMMA StartsKnown == ConnectInit => ConnectInv
<1> SUFFICES ASSUME ConnectInit PROVE ConnectInv
  OBVIOUS
<1>1. /\ open = Held /\ conn = [f \in Fd |-> "none"]
      /\ at = "down" /\ names = 0 /\ addr = 0 /\ sklist = <<>> /\ rfds = {}
      /\ wild = FALSE /\ sk = NoSk /\ unresolved = FALSE
  BY DEF ConnectInit
<1>2. "none" \in Connections /\ Held \subseteq Fd /\ 0 <= VC_MAX_SKNUM
  BY ConnectAssumption DEF Connections
<1>3. ConnectTypeOK
  <2>1. sklist \in Seq(Fd) /\ Len(sklist) = 0 /\ Cardinality(InUse(sklist)) = 0
    BY <1>1, NoneInUse
  <2>2. open \subseteq Fd /\ rfds \subseteq Fd /\ sk \in Fd \cup {NoSk}
        /\ conn \in [Fd -> Connections]
    BY <1>1, <1>2
  <2>3. {wild, unresolved} \subseteq BOOLEAN
    BY <1>1
  <2>4. at = "down" /\ names \in 0 .. 2 /\ addr \in Nat
    BY <1>1
  <2> QED
    BY <1>2, <2>1, <2>2, <2>3, <2>4 DEF ConnectTypeOK
<1>4. DescriptorsKnown
  BY <1>1, NoneInUse DEF DescriptorsKnown, NoLeak
<1>5. ChoiceKnown
  BY <1>1 DEF ChoiceKnown, ReturnedConnected, AcceptingWins
<1> QED
  BY <1>3, <1>4, <1>5 DEF ConnectInv

LEMMA RestartKeeps == Restart => ConnectInv'
<1>1. Restart => ConnectInit'
  BY DEF Restart, ConnectInit
<1>2. ConnectInit' => ConnectInv'
  BY StartsKnown, PTL
<1> QED
  BY <1>1, <1>2

LEMMA LinkKeeps == ConnectInv /\ [LinkNext]_linkVars => ConnectInv'
<1> SUFFICES ASSUME ConnectInv, [LinkNext]_linkVars PROVE ConnectInv'
  OBVIOUS
<1>1. CASE Working
  BY <1>1, CallKeeps, TryKeeps, SkipKeeps, ListDoneKeeps, CorruptedKeeps, ArrivesKeeps,
     SelectKeeps, ReturnKeeps DEF Working, connect
<1>2. CASE UNCHANGED connectVars
  <2>1. UNCHANGED <<open, conn, at, names, addr, sklist, rfds, wild, sk, unresolved>>
    BY <1>2 DEF connectVars
  <2>2. InUse(sklist)' = InUse(sklist)
    BY <2>1 DEF InUse
  <2>3. ConnectTypeOK'
    BY <2>1, <2>2 DEF ConnectInv, ConnectTypeOK
  <2>4. DescriptorsKnown'
    BY <2>1, <2>2 DEF ConnectInv, DescriptorsKnown, NoLeak
  <2>5. ChoiceKnown'
    BY <2>1, <2>2 DEF ConnectInv, ChoiceKnown, ReturnedConnected, AcceptingWins
  <2> QED
    BY <2>3, <2>4, <2>5 DEF ConnectInv
<1>3. CASE Serving
  BY <1>2, <1>3, LostKeeps DEF Serving
<1>4. CASE Restart
  BY <1>4, RestartKeeps
<1>5. CASE UNCHANGED linkVars
  BY <1>2, <1>5 DEF linkVars
<1> QED
  BY <1>1, <1>3, <1>4, <1>5 DEF LinkNext

\* The inductive invariant of vc_connect holds at all times.
THEOREM ConnectInvariant == LinkSpec => []ConnectInv
<1>1. LinkInit => ConnectInv
  BY StartsKnown DEF LinkInit
<1> QED
  BY <1>1, LinkKeeps, PTL DEF LinkSpec

\* The lists of both names never outgrow the array, the array holds each socket
\* once, and every variable has its type.
THEOREM ConnectTypeCorrect == LinkSpec => []ConnectTypeOK
<1>1. ConnectInv => ConnectTypeOK
  BY DEF ConnectInv
<1> QED
  BY <1>1, ConnectInvariant, PTL

\* As long as the names resolve, no call of vc_connect and no end of a connection leaves
\* a descriptor behind or closes one of another file.
THEOREM NothingLeaks == LinkSpec => []NoLeak
<1>1. ConnectInv => NoLeak
  <2>1. CASE unresolved
    BY <2>1 DEF NoLeak
  <2>2. CASE ~unresolved
    BY <2>2 DEF ConnectInv, DescriptorsKnown
  <2> QED
    BY <2>1, <2>2
<1> QED
  BY <1>1, ConnectInvariant, PTL

\* vc_connect returns a socket that is open and connected, even if a name did not
\* resolve and the lengths of the lists are whatever memory held.
THEOREM ReturnedIsConnected == LinkSpec => []ReturnedConnected
<1>1. ConnectInv => ReturnedConnected
  BY DEF ConnectInv, ChoiceKnown
<1> QED
  BY <1>1, ConnectInvariant, PTL

\* A call ends without a connection only if nothing answered or an address refused.
THEOREM AcceptingIsTaken == LinkSpec => []AcceptingWins
<1>1. ConnectInv => AcceptingWins
  BY DEF ConnectInv, ChoiceKnown
<1> QED
  BY <1>1, ConnectInvariant, PTL

----------------------------------------------------------------------------
(* How long a call of vc_connect may take.                                 *)

InCall == at \in {"list", "select", "close"}

\* The answers that are still to come.
ToCome == {f \in open : conn[f] \in {"accepting", "refusing"}}

\* What is left of a call: two steps for each address (the attempt and its answer), the
\* redundant name if it has not been looked up, the select and the closing, the answers.
Ahead ==
    2 * addr + (IF names = 2 THEN 2 * Redundant + 1 ELSE 0)
    + (IF at = "list" THEN 2 ELSE IF at = "select" THEN 1 ELSE 0)
    + Cardinality(ToCome)

\* Every step within a call, one of the daemon or an answer from the network, leaves
\* less of it: a call tries each address once, looks up each name once, and waits once.
CallShrinks == [][InCall /\ InCall' => Ahead' < Ahead]_linkVars

\* In select() the daemon has an answer, has nothing to wait for, or waits for an answer
\* that will come.
WaitsForSomething ==
    at = "select" => \/ Ready # {} \/ TimedOut
                     \/ \E f \in rfds : f \in open /\ conn[f] \in {"accepting", "refusing"}

\* The answers to come are finitely many.
LEMMA ToComeFinite ==
    ASSUME ConnectTypeOK
    PROVE  ToCome \subseteq Fd /\ IsFiniteSet(ToCome) /\ Cardinality(ToCome) \in Nat
<1>1. ToCome \subseteq Fd
  BY DEF ToCome, ConnectTypeOK
<1>2. IsFiniteSet(Fd)
  BY ConnectAssumption, FS_Interval DEF Fd
<1> QED
  BY <1>1, <1>2, FS_Subset, FS_CardinalityType

\* What is left of a call is a number of steps.
LEMMA AheadType == ConnectTypeOK => Ahead \in Nat
<1> SUFFICES ASSUME ConnectTypeOK PROVE Ahead \in Nat
  OBVIOUS
<1>1. addr \in Nat /\ Redundant \in Nat /\ Cardinality(ToCome) \in Nat
  BY ToComeFinite, ConnectAssumption DEF ConnectTypeOK
<1> QED
  BY <1>1 DEF Ahead

\* An address that is tried adds at most one answer.
LEMMA TryShrinks == ConnectInv /\ ConnectInv' /\ TryAddress => Ahead' < Ahead
<1> SUFFICES ASSUME ConnectInv, ConnectInv', TryAddress PROVE Ahead' < Ahead
  OBVIOUS
<1>1. ConnectTypeOK /\ ConnectTypeOK'
  BY DEF ConnectInv
<1> DEFINE f == FreeFd
<1>2. /\ at = "list" /\ at' = "list" /\ names' = names /\ addr' = addr - 1 /\ open # Fd
      /\ open' = open \cup {f}
      /\ \A g \in Fd \ {f} : conn'[g] = conn[g]
  BY <1>1 DEF TryAddress, Trying, ConnectTypeOK
<1>3. addr \in Nat /\ Redundant \in Nat
  BY <1>1, ConnectAssumption DEF ConnectTypeOK
<1> HIDE DEF f
<1>4. ToCome' \subseteq ToCome \cup {f}
  BY <1>1, <1>2 DEF ToCome, ConnectTypeOK
<1>5. Cardinality(ToCome') <= Cardinality(ToCome) + 1
  <2> DEFINE more == ToCome \cup {f}
  <2>1. IsFiniteSet(ToCome) /\ Cardinality(ToCome) \in Nat
    BY <1>1, ToComeFinite
  <2>2. IsFiniteSet(more) /\ Cardinality(more) <= Cardinality(ToCome) + 1
    <3>1. Cardinality(more) = IF f \in ToCome THEN Cardinality(ToCome)
                              ELSE Cardinality(ToCome) + 1
      BY <2>1, FS_AddElement
    <3>2. IsFiniteSet(more)
      BY <2>1, FS_AddElement
    <3> HIDE DEF more
    <3> QED
      BY <2>1, <3>1, <3>2
  <2>3. Cardinality(ToCome') <= Cardinality(more) /\ IsFiniteSet(ToCome')
    BY <1>4, <2>2, FS_Subset
  <2>4. Cardinality(more) \in Nat /\ Cardinality(ToCome') \in Nat
    BY <2>2, <2>3, FS_CardinalityType
  <2> QED
    BY <2>1, <2>2, <2>3, <2>4
<1>6. Cardinality(ToCome) \in Nat /\ Cardinality(ToCome') \in Nat
  <2>1. IsFiniteSet(ToCome) /\ Cardinality(ToCome) \in Nat
    BY <1>1, ToComeFinite
  <2>2. IsFiniteSet(ToCome \cup {f})
    BY <2>1, FS_AddElement
  <2>3. IsFiniteSet(ToCome')
    BY <1>4, <2>2, FS_Subset
  <2> QED
    BY <2>1, <2>3, FS_CardinalityType
<1>7. Ahead' = 2 * (addr - 1) + (IF names = 2 THEN 2 * Redundant + 1 ELSE 0)
               + 2 + Cardinality(ToCome')
  BY <1>2 DEF Ahead
<1>8. Ahead = 2 * addr + (IF names = 2 THEN 2 * Redundant + 1 ELSE 0)
              + 2 + Cardinality(ToCome)
  BY <1>2 DEF Ahead
<1> QED
  BY <1>3, <1>5, <1>6, <1>7, <1>8

\* An answer that arrives is one less to come.
LEMMA ArrivalShrinks ==
    ASSUME ConnectInv, NEW f \in Fd, Arrives(f)
    PROVE  Ahead' < Ahead
<1>1. ConnectTypeOK
  BY DEF ConnectInv
<1>2. /\ f \in open /\ conn[f] \in {"accepting", "refusing"}
      /\ conn'[f] \in {"connected", "failed"}
      /\ \A g \in Fd \ {f} : conn'[g] = conn[g]
      /\ UNCHANGED <<open, at, names, addr>>
  BY <1>1 DEF Arrives, lists, ConnectTypeOK
<1>3. f \in ToCome /\ ToCome' = ToCome \ {f}
  BY <1>1, <1>2 DEF ToCome, ConnectTypeOK
<1>4. IsFiniteSet(ToCome) /\ Cardinality(ToCome) \in Nat
  BY <1>1, ToComeFinite
<1>5. Cardinality(ToCome') = Cardinality(ToCome) - 1
  BY <1>3, <1>4, FS_RemoveElement
<1>6. addr \in Nat /\ Redundant \in Nat
  BY <1>1, ConnectAssumption DEF ConnectTypeOK
<1> DEFINE rest == 2 * addr + (IF names = 2 THEN 2 * Redundant + 1 ELSE 0)
                   + (IF at = "list" THEN 2 ELSE IF at = "select" THEN 1 ELSE 0)
<1>7. rest \in Nat
  BY <1>6
<1>8. Ahead = rest + Cardinality(ToCome)
  BY DEF Ahead
<1>9. Ahead' = rest + Cardinality(ToCome')
  BY <1>2 DEF Ahead
<1> HIDE DEF rest
<1> QED
  BY <1>4, <1>5, <1>7, <1>8, <1>9

\* The steps of a call that leave the sockets alone.
LEMMA OtherStepShrinks ==
    ConnectInv /\ (SkipAddress \/ ListDone \/ Select \/ SelectFails) => Ahead' < Ahead
<1> SUFFICES ASSUME ConnectInv, SkipAddress \/ ListDone \/ Select \/ SelectFails
             PROVE  Ahead' < Ahead
  OBVIOUS
<1>1. ConnectTypeOK
  BY DEF ConnectInv
<1>2. UNCHANGED <<open, conn>>
  <2>1. CASE SkipAddress
    <3>1. open' = IF open = Fd THEN open ELSE open \ {FreeFd}
      BY <2>1 DEF SkipAddress, CloseFailed
    <3>2. open # Fd => FreeFd \notin open
      BY <1>1, FreeIsFree DEF ConnectTypeOK
    <3> QED
      BY <2>1, <3>1, <3>2 DEF SkipAddress
  <2> QED
    BY <2>1 DEF ListDone, Select, SelectFails
<1>3. ToCome' = ToCome
  BY <1>2 DEF ToCome
<1>4. addr \in Nat /\ Redundant \in Nat /\ Cardinality(ToCome) \in Nat
  BY <1>1, ToComeFinite, ConnectAssumption DEF ConnectTypeOK
<1>5. CASE SkipAddress
  <2>1. at = "list" /\ at' = "list" /\ names' = names /\ addr' = addr - 1
    BY <1>5 DEF SkipAddress, Trying
  <2> QED
    BY <1>3, <1>4, <2>1 DEF Ahead
<1>6. CASE ListDone
  <2>1. CASE names = 2 /\ names' = 1 /\ at = "list" /\ at' = "list" /\ addr' \in {0, Redundant}
    BY <1>3, <1>4, <2>1 DEF Ahead
  <2>2. CASE at = "list" /\ at' \in {"close", "select"} /\ names' = names /\ addr' = addr
    BY <1>3, <1>4, <2>2 DEF Ahead
  <2> QED
    BY <1>6, <2>1, <2>2 DEF ListDone, Lookup
<1>7. CASE Select \/ SelectFails
  <2>1. at = "select" /\ at' = "close" /\ names' = names /\ addr' = addr
    BY <1>7 DEF Select, SelectFails, lists
  <2> QED
    BY <1>3, <1>4, <2>1 DEF Ahead
<1> QED
  BY <1>5, <1>6, <1>7

\* Every call of vc_connect (vc_client_netdown.c) is bounded: each step of it, and each
\* answer that arrives, brings its end nearer, which is a natural number of steps away.
THEOREM CallIsBounded == LinkSpec => [](Ahead \in Nat) /\ CallShrinks
<1>1. ConnectInv => Ahead \in Nat
  BY AheadType DEF ConnectInv
<1>2. ConnectInv /\ ConnectInv' /\ [LinkNext]_linkVars
      => [InCall /\ InCall' => Ahead' < Ahead]_linkVars
  <2> SUFFICES ASSUME ConnectInv, ConnectInv', LinkNext, InCall, InCall'
               PROVE  Ahead' < Ahead
    OBVIOUS
  <2>1. CASE Working
    <3>1. ~Call /\ ~Return /\ ~Corrupted
      BY DEF InCall, Call, Return, Corrupted
    <3>2. CASE TryAddress
      BY <3>2, TryShrinks
    <3>3. CASE SkipAddress \/ ListDone \/ Select \/ SelectFails
      BY <3>3, OtherStepShrinks
    <3>4. CASE \E f \in Fd : Arrives(f)
      BY <3>4, ArrivalShrinks
    <3> QED
      BY <2>1, <3>1, <3>2, <3>3, <3>4 DEF Working, connect
  <2>2. ~Serving /\ ~Restart
    BY DEF InCall, Serving, Restart
  <2> QED
    BY <2>1, <2>2 DEF LinkNext
<1> QED
  BY <1>1, <1>2, ConnectInvariant, PTL DEF LinkSpec, CallShrinks

\* Nothing blocks vc_connect for longer than its ten seconds: where it waits in select()
\* an answer is there, or all addresses are silent, or one of them will answer.
THEOREM SelectIsWoken == LinkSpec => []WaitsForSomething
<1>1. ConnectInv => WaitsForSomething
  <2> SUFFICES ASSUME ConnectInv, at = "select", Ready = {}, ~TimedOut
               PROVE  \E f \in rfds : f \in open /\ conn[f] \in {"accepting", "refusing"}
    BY DEF WaitsForSomething
  <2>1. PICK f \in rfds : conn[f] # "silent"
    BY DEF TimedOut
  <2>2. f \in open
    BY <2>1 DEF ConnectInv, DescriptorsKnown
  <2>3. conn[f] \in Pending
    BY <2>1 DEF Ready
  <2> QED
    BY <2>1, <2>2, <2>3 DEF Pending
<1> QED
  BY <1>1, ConnectInvariant, PTL

============================================================================
