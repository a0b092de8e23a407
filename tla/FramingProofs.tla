---------------------------- MODULE FramingProofs ----------------------------
(***************************************************************************)
(* Theorems about how the daemon finds the packets in its stream, for any  *)
(* length of header and memory, any lengths of payloads, and however the   *)
(* stream is cut: the states see the packets that were sent, whole and in  *)
(* order, and a connection is given up only for a reason.                  *)
(***************************************************************************)
EXTENDS Framing, SequenceTheorems, TLAPS

Unit == [pkt : Nat, off : Nat]
Whole(s, k) == HdrLen + s[k]

\* The units w are those of the packets after the first d of s, one after the other:
\* packet k stands behind the first f[k] units.
Laid(f, w, s, d) ==
    /\ f \in [d + 1 .. Len(s) + 1 -> Nat]
    /\ f[d + 1] = 0 /\ f[Len(s) + 1] = Len(w)
    /\ \A k \in d + 1 .. Len(s) : f[k + 1] = f[k] + Whole(s, k)
    /\ \A j \in d + 1 .. Len(s) : \A k \in j + 1 .. Len(s) + 1 : f[j] + Whole(s, j) <= f[k]
    /\ \A k \in d + 1 .. Len(s) : \A o \in 1 .. Whole(s, k) : w[f[k] + o] = [pkt |-> k, off |-> o]

----------------------------------------------------------------------------
(* Sequences of units.                                                     *)

\* A sequence is its first k elements followed by the others.
LEMMA SplitAt ==
    ASSUME NEW S, NEW s \in Seq(S), NEW k \in 0 .. Len(s)
    PROVE  /\ SubSeq(s, 1, k) \in Seq(S) /\ Len(SubSeq(s, 1, k)) = k
           /\ SubSeq(s, k + 1, Len(s)) \in Seq(S)
           /\ Len(SubSeq(s, k + 1, Len(s))) = Len(s) - k
           /\ SubSeq(s, 1, k) \o SubSeq(s, k + 1, Len(s)) = s
<1>1. Len(s) \in Nat /\ \A i \in 1 .. Len(s) : s[i] \in S
  BY LenProperties, ElementOfSeq
<1>2. SubSeq(s, 1, k) \in Seq(S) /\ Len(SubSeq(s, 1, k)) = k
  <2>1. 1 \in Int /\ k \in Int /\ \A i \in 1 .. k : s[i] \in S
    BY <1>1
  <2>2. SubSeq(s, 1, k) \in Seq(S) /\ Len(SubSeq(s, 1, k)) = IF 1 <= k THEN k - 1 + 1 ELSE 0
    BY <2>1, SubSeqProperties
  <2> QED
    BY <1>1, <2>2
<1>3. SubSeq(s, k + 1, Len(s)) \in Seq(S) /\ Len(SubSeq(s, k + 1, Len(s))) = Len(s) - k
  <2>1. k + 1 \in Int /\ Len(s) \in Int /\ \A i \in k + 1 .. Len(s) : s[i] \in S
    BY <1>1
  <2>2. /\ SubSeq(s, k + 1, Len(s)) \in Seq(S)
        /\ Len(SubSeq(s, k + 1, Len(s)))
             = IF k + 1 <= Len(s) THEN Len(s) - (k + 1) + 1 ELSE 0
    BY <2>1, SubSeqProperties
  <2> QED
    BY <1>1, <2>2
<1>4. SubSeq(s, 1, k) \o SubSeq(s, k + 1, Len(s)) = SubSeq(s, 1, Len(s))
  <2>1. 1 \in 1 .. Len(s) + 1 /\ k \in 1 - 1 .. Len(s) /\ Len(s) \in k .. Len(s)
    BY <1>1
  <2> QED
    BY <2>1, ConcatAdjacentSubSeq
<1>5. SubSeq(s, 1, Len(s)) = s
  BY SubSeqFull
<1> QED
  BY <1>2, <1>3, <1>4, <1>5

\* The length of a packet.
LEMMA WholeType ==
    ASSUME NEW s \in Seq(Nat), NEW k \in 1 .. Len(s)
    PROVE  s[k] \in Nat /\ Whole(s, k) \in Nat \ {0}
<1>1. s[k] \in Nat
  BY ElementOfSeq
<1> QED
  BY <1>1, FramingAssumption DEF Whole

\* Positions counted from a later start.
LEMMA Shift ==
    \A a, n, x, m \in Int : a + n <= x => (a - m) + n <= x - m
  OBVIOUS

\* Concatenation, for units.
LEMMA UnitsAssociate ==
    \A p, q, u \in Seq(Unit) : (p \o q) \o u = p \o (q \o u)
  BY ConcatAssociative

LEMMA UnitsRegroup ==
    \A b \in Seq(Unit) : \A w \in Seq(Unit) : \A x \in Seq(Unit) : \A y \in Seq(Unit) :
       (b \o x) \o (y \o w) = b \o ((x \o y) \o w)
<1> SUFFICES ASSUME NEW b \in Seq(Unit), NEW w \in Seq(Unit), NEW x \in Seq(Unit),
                    NEW y \in Seq(Unit)
             PROVE  (b \o x) \o (y \o w) = b \o ((x \o y) \o w)
  OBVIOUS
<1>1. y \o w \in Seq(Unit)
  BY ConcatProperties
<1>2. (b \o x) \o (y \o w) = b \o (x \o (y \o w))
  BY <1>1, UnitsAssociate
<1>3. x \o (y \o w) = (x \o y) \o w
  BY UnitsAssociate
<1> QED
  BY <1>2, <1>3

\* Moving the front of r behind b leaves the whole as it is.
LEMMA MoveFront ==
    ASSUME NEW b \in Seq(Unit), NEW r \in Seq(Unit), NEW w \in Seq(Unit), NEW k \in 0 .. Len(r)
    PROVE  (b \o SubSeq(r, 1, k)) \o (SubSeq(r, k + 1, Len(r)) \o w) = b \o (r \o w)
<1>1. SubSeq(r, 1, k) \in Seq(Unit) /\ SubSeq(r, k + 1, Len(r)) \in Seq(Unit)
  BY SplitAt
<1>2. SubSeq(r, 1, k) \o SubSeq(r, k + 1, Len(r)) = r
  BY SplitAt
<1> DEFINE x == SubSeq(r, 1, k)
           y == SubSeq(r, k + 1, Len(r))
<1>3. x \in Seq(Unit) /\ y \in Seq(Unit) /\ x \o y = r
  BY <1>1, <1>2
<1> HIDE DEF x, y
<1>4. \A p \in Seq(Unit) : \A q \in Seq(Unit) : (b \o p) \o (q \o w) = b \o ((p \o q) \o w)
  BY UnitsRegroup, Zenon
<1>5. \A q \in Seq(Unit) : (b \o x) \o (q \o w) = b \o ((x \o q) \o w)
  BY <1>3, <1>4, Zenon
<1>6. (b \o x) \o (y \o w) = b \o ((x \o y) \o w)
  BY <1>3, <1>5, Zenon
<1>7. (b \o x) \o (y \o w) = b \o (r \o w)
  BY <1>3, <1>6, Zenon
<1> QED
  BY <1>7 DEF x, y

LEMMA PacketType ==
    ASSUME NEW k \in Nat, NEW n \in Nat
    PROVE  /\ Packet(k, n) \in Seq(Unit) /\ Len(Packet(k, n)) = HdrLen + n
           /\ \A o \in 1 .. HdrLen + n : Packet(k, n)[o] = [pkt |-> k, off |-> o]
<1>1. HdrLen + n \in Nat
  BY FramingAssumption
<1>2. \A o \in 1 .. HdrLen + n : [pkt |-> k, off |-> o] \in Unit
  BY <1>1 DEF Unit
<1>3. Packet(k, n) \in [1 .. HdrLen + n -> Unit]
  BY <1>2 DEF Packet
<1> QED
  BY <1>1, <1>3 DEF Packet

----------------------------------------------------------------------------
(* The stream.                                                             *)

\* One more packet is sent.
LEMMA OneMoreLaid ==
    ASSUME NEW s \in Seq(Nat), NEW d \in 0 .. Len(s), NEW w \in Seq(Unit), NEW n \in Nat,
           NEW f, Laid(f, w, s, d)
    PROVE  \E g : Laid(g, w \o Packet(Len(s) + 1, n), Append(s, n), d)
<1> DEFINE t == Append(s, n)
           p == Packet(Len(s) + 1, n)
           v == w \o p
           g == [k \in d + 1 .. Len(s) + 2 |-> IF k = Len(s) + 2 THEN Len(w) + HdrLen + n ELSE f[k]]
<1>0. /\ Len(s) \in Nat /\ d \in Nat /\ d <= Len(s) /\ Len(w) \in Nat /\ HdrLen \in Nat \ {0}
      /\ \A k \in 1 .. Len(s) : s[k] \in Nat
  BY LenProperties, ElementOfSeq, FramingAssumption
<1>1. /\ t \in Seq(Nat) /\ Len(t) = Len(s) + 1
      /\ \A k \in 1 .. Len(s) : t[k] = s[k]
      /\ t[Len(s) + 1] = n
  BY AppendProperties
<1>2. /\ p \in Seq(Unit) /\ Len(p) = HdrLen + n
      /\ \A o \in 1 .. HdrLen + n : p[o] = [pkt |-> Len(s) + 1, off |-> o]
  <2>1. Len(s) + 1 \in Nat
    BY <1>0
  <2> QED
    BY <2>1, PacketType
<1> HIDE DEF p
<1>3. /\ v \in Seq(Unit) /\ Len(v) = Len(w) + HdrLen + n
      /\ \A i \in 1 .. Len(w) : v[i] = w[i]
      /\ \A o \in 1 .. HdrLen + n : v[Len(w) + o] = p[o]
  <2>1. /\ v \in Seq(Unit) /\ Len(v) = Len(w) + Len(p)
        /\ \A i \in 1 .. Len(w) + Len(p) : v[i] = IF i <= Len(w) THEN w[i] ELSE p[i - Len(w)]
    BY <1>2, ConcatProperties
  <2>2. ASSUME NEW o \in 1 .. HdrLen + n PROVE v[Len(w) + o] = p[o]
    <3>1. /\ Len(w) + o \in 1 .. Len(w) + Len(p) /\ ~ (Len(w) + o <= Len(w))
          /\ (Len(w) + o) - Len(w) = o
      BY <1>0, <1>2
    <3> QED
      BY <2>1, <3>1
  <2> QED
    BY <1>0, <1>2, <2>1, <2>2
<1> HIDE DEF t, v
<1>4. /\ f \in [d + 1 .. Len(s) + 1 -> Nat]
      /\ f[d + 1] = 0 /\ f[Len(s) + 1] = Len(w)
      /\ \A k \in d + 1 .. Len(s) : f[k + 1] = f[k] + Whole(s, k)
      /\ \A j \in d + 1 .. Len(s) : \A k \in j + 1 .. Len(s) + 1 : f[j] + Whole(s, j) <= f[k]
      /\ \A k \in d + 1 .. Len(s) : \A o \in 1 .. Whole(s, k) :
            w[f[k] + o] = [pkt |-> k, off |-> o]
  BY DEF Laid
<1>5. \A k \in d + 1 .. Len(s) : Whole(t, k) = Whole(s, k) /\ Whole(s, k) \in Nat
  BY <1>0, <1>1 DEF Whole
<1>6. Whole(t, Len(s) + 1) = HdrLen + n
  BY <1>1 DEF Whole
<1>7. /\ g \in [d + 1 .. Len(t) + 1 -> Nat]
      /\ \A k \in d + 1 .. Len(s) + 1 : g[k] = f[k]
      /\ g[Len(s) + 2] = Len(w) + HdrLen + n
  <2>1. Len(t) + 1 = Len(s) + 2
    BY <1>0, <1>1
  <2>2. \A k \in d + 1 .. Len(s) + 2 : k # Len(s) + 2 => k \in d + 1 .. Len(s) + 1
    BY <1>0
  <2>a. Len(w) + HdrLen + n \in Nat
    BY <1>0
  <2>b. \A k \in d + 1 .. Len(s) + 1 : f[k] \in Nat
    <3>1. f \in [d + 1 .. Len(s) + 1 -> Nat]
      BY <1>4
    <3> QED
      BY <3>1
  <2>3. Len(w) + HdrLen + n \in Nat /\ \A k \in d + 1 .. Len(s) + 1 : f[k] \in Nat
    BY <2>a, <2>b
  <2>4. g \in [d + 1 .. Len(s) + 2 -> Nat]
    BY <2>2, <2>3
  <2>5. ASSUME NEW k \in d + 1 .. Len(s) + 1 PROVE g[k] = f[k]
    <3>1. k \in d + 1 .. Len(s) + 2 /\ k # Len(s) + 2
      BY <1>0
    <3> QED
      BY <3>1
  <2>6. g[Len(s) + 2] = Len(w) + HdrLen + n
    <3>1. Len(s) + 2 \in d + 1 .. Len(s) + 2
      BY <1>0
    <3> QED
      BY <3>1
  <2> QED
    BY <2>1, <2>4, <2>5, <2>6
<1> HIDE DEF g
<1>8. \A k \in d + 1 .. Len(t) : k \in d + 1 .. Len(s) \/ k = Len(s) + 1
  BY <1>0, <1>1
<1>9. g[d + 1] = 0 /\ g[Len(t) + 1] = Len(v)
  BY <1>0, <1>1, <1>3, <1>4, <1>7
<1>10. ASSUME NEW k \in d + 1 .. Len(t) PROVE g[k + 1] = g[k] + Whole(t, k)
  <2>1. CASE k \in d + 1 .. Len(s)
    <3>1. k + 1 \in d + 1 .. Len(s) + 1 /\ k \in d + 1 .. Len(s) + 1
      BY <1>0, <2>1
    <3> QED
      BY <1>4, <1>5, <1>7, <2>1, <3>1
  <2>2. CASE k = Len(s) + 1
    <3>1. k \in d + 1 .. Len(s) + 1 /\ k + 1 = Len(s) + 2
      BY <1>0, <2>2
    <3>2. g[k] = Len(w) /\ g[k + 1] = Len(w) + HdrLen + n
      BY <1>4, <1>7, <2>2, <3>1
    <3>3. Whole(t, k) = HdrLen + n
      BY <1>6, <2>2
    <3> QED
      BY <1>0, <3>2, <3>3
  <2> QED
    BY <1>8, <2>1, <2>2
<1>11. ASSUME NEW j \in d + 1 .. Len(t), NEW k \in j + 1 .. Len(t) + 1
       PROVE  g[j] + Whole(t, j) <= g[k]
  <2>1. CASE k <= Len(s) + 1
    <3>1. j \in d + 1 .. Len(s) /\ j \in d + 1 .. Len(s) + 1 /\ k \in d + 1 .. Len(s) + 1
          /\ k \in j + 1 .. Len(s) + 1
      BY <1>0, <1>1, <2>1
    <3> QED
      BY <1>4, <1>5, <1>7, <3>1
  <2>2. CASE k = Len(s) + 2
    <3>1. CASE j = Len(s) + 1
      <4>1. j \in d + 1 .. Len(s) + 1
        BY <1>0, <3>1
      <4>2. g[j] = Len(w) /\ g[k] = Len(w) + HdrLen + n
        BY <1>4, <1>7, <2>2, <3>1, <4>1
      <4>3. Whole(t, j) = HdrLen + n
        BY <1>6, <3>1
      <4> QED
        BY <1>0, <4>2, <4>3
    <3>2. CASE j \in d + 1 .. Len(s)
      <4>1. j \in d + 1 .. Len(s) + 1 /\ Len(s) + 1 \in j + 1 .. Len(s) + 1
        BY <1>0, <3>2
      <4>2. f[j] + Whole(s, j) <= Len(w) /\ f[j] \in Nat
        BY <1>4, <3>2, <4>1
      <4>3. g[j] + Whole(t, j) = f[j] + Whole(s, j)
        BY <1>5, <1>7, <3>2, <4>1
      <4>4. Whole(s, j) \in Nat /\ g[k] = Len(w) + HdrLen + n
        BY <1>5, <1>7, <2>2, <3>2
      <4> QED
        BY <1>0, <4>2, <4>3, <4>4
    <3> QED
      BY <1>8, <3>1, <3>2
  <2>3. k <= Len(s) + 1 \/ k = Len(s) + 2
    BY <1>0, <1>1
  <2> QED
    BY <2>1, <2>2, <2>3
<1>12. ASSUME NEW k \in d + 1 .. Len(t), NEW o \in 1 .. Whole(t, k)
       PROVE  v[g[k] + o] = [pkt |-> k, off |-> o]
  <2>1. CASE k \in d + 1 .. Len(s)
    <3>1. k \in d + 1 .. Len(s) + 1 /\ Len(s) + 1 \in k + 1 .. Len(s) + 1
      BY <1>0, <2>1
    <3>2. g[k] = f[k] /\ f[k] \in Nat /\ o \in 1 .. Whole(s, k) /\ Whole(s, k) \in Nat
          /\ f[k] + Whole(s, k) <= Len(w)
      BY <1>4, <1>5, <1>7, <2>1, <3>1
    <3>3. f[k] + o \in 1 .. Len(w)
      BY <1>0, <3>2
    <3>4. w[f[k] + o] = [pkt |-> k, off |-> o]
      BY <1>4, <2>1, <3>2
    <3> QED
      BY <1>3, <3>2, <3>3, <3>4
  <2>2. CASE k = Len(s) + 1
    <3>1. g[k] = Len(w) /\ o \in 1 .. HdrLen + n
      <4>1. k \in d + 1 .. Len(s) + 1
        BY <1>0, <2>2
      <4> QED
        BY <1>4, <1>6, <1>7, <2>2, <4>1
    <3> QED
      BY <1>2, <1>3, <2>2, <3>1
  <2> QED
    BY <1>8, <2>1, <2>2
<1>13. Laid(g, v, t, d)
  BY <1>7, <1>9, <1>10, <1>11, <1>12 DEF Laid
<1> QED
  BY <1>13 DEF v, t, p

\* If anything is left of the stream, it starts with a packet that was sent.
LEMMA FrontLaid ==
    ASSUME NEW s \in Seq(Nat), NEW d \in 0 .. Len(s), NEW w \in Seq(Unit), NEW f,
           Laid(f, w, s, d), Len(w) > 0
    PROVE  /\ d < Len(s)
           /\ Whole(s, d + 1) <= Len(w)
           /\ \A i \in 1 .. Whole(s, d + 1) : w[i] = [pkt |-> d + 1, off |-> i]
<1>1. Len(s) \in Nat /\ d \in Nat /\ d <= Len(s) /\ Len(w) \in Nat
  BY LenProperties
<1>2. f[d + 1] = 0 /\ f[Len(s) + 1] = Len(w)
  BY DEF Laid
<1>3. d < Len(s)
  BY <1>1, <1>2
<1>4. d + 1 \in d + 1 .. Len(s) /\ Len(s) + 1 \in (d + 1) + 1 .. Len(s) + 1
  BY <1>1, <1>3
<1>5. HdrLen + s[d + 1] \in Nat
  BY <1>1, <1>3, ElementOfSeq, FramingAssumption
<1>6. 0 + Whole(s, d + 1) <= Len(w)
  BY <1>2, <1>4 DEF Laid
<1>7. \A i \in 1 .. Whole(s, d + 1) : w[0 + i] = [pkt |-> d + 1, off |-> i]
  BY <1>2, <1>4 DEF Laid
<1> QED
  BY <1>3, <1>5, <1>6, <1>7 DEF Whole

\* The first packet is handed on: it is the packet that was sent, and the others are
\* left.
LEMMA OneLessLaid ==
    ASSUME NEW s \in Seq(Nat), NEW d \in 0 .. Len(s), NEW b \in Seq(Unit), NEW r \in Seq(Unit),
           NEW f
    PROVE  Laid(f, b \o r, s, d) /\ d < Len(s) /\ Len(b) = Whole(s, d + 1)
             => /\ b = Packet(d + 1, s[d + 1])
                /\ \E g : Laid(g, r, s, d + 1)
<1>h. SUFFICES ASSUME Laid(f, b \o r, s, d), d < Len(s), Len(b) = Whole(s, d + 1)
               PROVE  /\ b = Packet(d + 1, s[d + 1])
                      /\ \E g : Laid(g, r, s, d + 1)
  OBVIOUS
<1> DEFINE w == b \o r
           m == Whole(s, d + 1)
           g == [k \in d + 2 .. Len(s) + 1 |-> f[k] - m]
<1>0. /\ Len(s) \in Nat /\ d \in Nat /\ Len(r) \in Nat
      /\ \A k \in 1 .. Len(s) : s[k] \in Nat
      /\ \A k \in 1 .. Len(s) : Whole(s, k) \in Nat
  BY LenProperties, WholeType
<1>1. d + 1 \in 1 .. Len(s) /\ d + 1 \in d + 1 .. Len(s) /\ s[d + 1] \in Nat
      /\ m \in Nat \ {0} /\ m = Whole(s, d + 1) /\ Len(b) = m
  BY <1>h, <1>0, WholeType
<1> HIDE DEF m, g
<1>2. /\ w \in Seq(Unit) /\ Len(w) = m + Len(r)
      /\ \A i \in 1 .. m + Len(r) : w[i] = IF i <= m THEN b[i] ELSE r[i - m]
  <2>1. /\ b \o r \in Seq(Unit) /\ Len(b \o r) = Len(b) + Len(r)
        /\ \A i \in 1 .. Len(b) + Len(r) : (b \o r)[i] = IF i <= Len(b) THEN b[i] ELSE r[i - Len(b)]
    BY ConcatProperties
  <2>2. Len(b) = m
    BY <1>1
  <2> QED
    BY <2>1, <2>2
<1> HIDE DEF w
<1>3. /\ f \in [d + 1 .. Len(s) + 1 -> Nat]
      /\ f[d + 1] = 0 /\ f[Len(s) + 1] = Len(w)
      /\ \A k \in d + 1 .. Len(s) : f[k + 1] = f[k] + Whole(s, k)
      /\ \A j \in d + 1 .. Len(s) : \A k \in j + 1 .. Len(s) + 1 : f[j] + Whole(s, j) <= f[k]
      /\ \A k \in d + 1 .. Len(s) : \A o \in 1 .. Whole(s, k) :
            w[f[k] + o] = [pkt |-> k, off |-> o]
  BY <1>h DEF Laid, w
<1>4. b = Packet(d + 1, s[d + 1])
  <2>1. /\ Packet(d + 1, s[d + 1]) \in Seq(Unit) /\ Len(Packet(d + 1, s[d + 1])) = m
        /\ \A o \in 1 .. m : Packet(d + 1, s[d + 1])[o] = [pkt |-> d + 1, off |-> o]
    <3>1. d + 1 \in Nat
      BY <1>0
    <3> QED
      BY <1>1, <3>1, PacketType DEF Whole
  <2>2. \A i \in 1 .. m : w[i] = [pkt |-> d + 1, off |-> i]
    <3>1. Len(w) > 0
      BY <1>0, <1>1, <1>2
    <3>2. w \in Seq(Unit) /\ Laid(f, w, s, d)
      BY <1>h, <1>2 DEF w
    <3>3. \A i \in 1 .. Whole(s, d + 1) : w[i] = [pkt |-> d + 1, off |-> i]
      BY <3>1, <3>2, FrontLaid
    <3> QED
      BY <1>1, <3>3
  <2>3. ASSUME NEW i \in 1 .. m PROVE b[i] = w[i]
    <3>1. i \in 1 .. m + Len(r) /\ i <= m
      BY <1>0, <1>1
    <3> QED
      BY <1>2, <3>1
  <2> DEFINE q == Packet(d + 1, s[d + 1])
  <2> HIDE DEF q
  <2>4. q \in Seq(Unit) /\ Len(q) = m /\ \A i \in 1 .. m : q[i] = [pkt |-> d + 1, off |-> i]
    BY <2>1 DEF q
  <2>5. \A i \in 1 .. Len(b) : b[i] = q[i]
    BY <1>1, <2>2, <2>3, <2>4
  <2>6. b = q
    BY <1>1, <2>4, <2>5, SeqEqual
  <2> QED
    BY <2>6 DEF q
<1>5. Laid(g, r, s, d + 1)
  <2>1. \A k \in d + 2 .. Len(s) + 1 : k \in d + 1 .. Len(s) + 1 /\ k \in (d + 1) + 1 .. Len(s) + 1
    BY <1>0
  <2>2. \A k \in d + 2 .. Len(s) + 1 : f[k] \in Nat /\ m <= f[k]
    <3>1. \A k \in (d + 1) + 1 .. Len(s) + 1 : 0 + m <= f[k]
      BY <1>1, <1>3
    <3>2. \A k \in d + 2 .. Len(s) + 1 : f[k] \in Nat
      BY <1>3, <2>1
    <3>3. \A k \in d + 2 .. Len(s) + 1 : 0 + m <= f[k]
      BY <2>1, <3>1
    <3> QED
      BY <1>1, <3>2, <3>3
  <2>3. g \in [(d + 1) + 1 .. Len(s) + 1 -> Nat]
    <3>1. (d + 1) + 1 = d + 2
      BY <1>0
    <3>2. \A k \in d + 2 .. Len(s) + 1 : f[k] - m \in Nat
      BY <1>1, <2>2
    <3> QED
      BY <3>1, <3>2 DEF g
  <2>4. \A k \in d + 2 .. Len(s) + 1 : g[k] = f[k] - m
    BY DEF g
  <2>5. g[(d + 1) + 1] = 0
    <3>1. f[(d + 1) + 1] = 0 + m
      BY <1>1, <1>3
    <3>2. (d + 1) + 1 = d + 2 /\ d + 2 \in d + 2 .. Len(s) + 1
      BY <1>0, <1>1
    <3> QED
      BY <1>1, <2>4, <3>1, <3>2
  <2>6. g[Len(s) + 1] = Len(r)
    <3>1. Len(s) + 1 \in d + 2 .. Len(s) + 1
      BY <1>0, <1>1
    <3>2. g[Len(s) + 1] = f[Len(s) + 1] - m
      BY <2>4, <3>1
    <3>3. f[Len(s) + 1] = m + Len(r)
      BY <1>2, <1>3
    <3> QED
      BY <1>0, <1>1, <3>2, <3>3
  <2>7. ASSUME NEW k \in (d + 1) + 1 .. Len(s) PROVE g[k + 1] = g[k] + Whole(s, k)
    <3>1. /\ k \in d + 2 .. Len(s) + 1 /\ k + 1 \in d + 2 .. Len(s) + 1 /\ k \in d + 1 .. Len(s)
          /\ k \in 1 .. Len(s)
      BY <1>0
    <3>2. g[k] = f[k] - m /\ g[k + 1] = f[k + 1] - m /\ f[k] \in Nat
      BY <2>2, <2>4, <3>1
    <3>3. f[k + 1] = f[k] + Whole(s, k) /\ Whole(s, k) \in Nat
      BY <1>0, <1>3, <3>1
    <3> QED
      BY <1>1, <3>2, <3>3
  <2>8. ASSUME NEW j \in (d + 1) + 1 .. Len(s), NEW k \in j + 1 .. Len(s) + 1
        PROVE  g[j] + Whole(s, j) <= g[k]
    <3>1. /\ j \in d + 2 .. Len(s) + 1 /\ k \in d + 2 .. Len(s) + 1 /\ j \in d + 1 .. Len(s)
          /\ j \in 1 .. Len(s)
      BY <1>0
    <3>2. f[j] + Whole(s, j) <= f[k] /\ f[j] \in Nat /\ f[k] \in Nat /\ Whole(s, j) \in Nat
      BY <1>0, <1>3, <2>2, <3>1
    <3>3. g[j] = f[j] - m /\ g[k] = f[k] - m
      BY <2>4, <3>1
    <3>4. (f[j] - m) + Whole(s, j) <= f[k] - m
      <4>1. \A a, n, x \in Nat : a + n <= x => (a - m) + n <= x - m
        BY <1>1, Shift
      <4> QED
        BY <3>2, <4>1
    <3> QED
      BY <3>3, <3>4
  <2>9. ASSUME NEW k \in (d + 1) + 1 .. Len(s), NEW o \in 1 .. Whole(s, k)
        PROVE  r[g[k] + o] = [pkt |-> k, off |-> o]
    <3>1. /\ k \in d + 2 .. Len(s) + 1 /\ k \in d + 1 .. Len(s) /\ k \in 1 .. Len(s)
          /\ Len(s) + 1 \in k + 1 .. Len(s) + 1
      BY <1>0
    <3>2. /\ w[f[k] + o] = [pkt |-> k, off |-> o] /\ f[k] + Whole(s, k) <= m + Len(r)
          /\ f[k] \in Nat /\ m <= f[k] /\ Whole(s, k) \in Nat
      BY <1>0, <1>2, <1>3, <2>2, <3>1
    <3>3. /\ f[k] + o \in 1 .. m + Len(r) /\ ~ (f[k] + o <= m)
          /\ (f[k] + o) - m = g[k] + o
      <4>1. g[k] = f[k] - m
        BY <2>4, <3>1
      <4>2. m \in Nat /\ Len(r) \in Nat /\ f[k] \in Nat /\ Whole(s, k) \in Nat
        BY <1>0, <1>1, <3>2
      <4>3. f[k] + Whole(s, k) <= m + Len(r) /\ m <= f[k]
        BY <3>2
      <4>4. o \in Nat /\ 1 <= o /\ o <= Whole(s, k)
        BY <4>2
      <4>5. f[k] + o \in 1 .. m + Len(r)
        BY <4>2, <4>3, <4>4
      <4>6. ~ (f[k] + o <= m)
        BY <4>2, <4>3, <4>4
      <4>7. (f[k] + o) - m = g[k] + o
        BY <4>1, <4>2, <4>4
      <4> QED
        BY <4>5, <4>6, <4>7
    <3> QED
      BY <1>2, <3>2, <3>3
  <2> QED
    BY <2>3, <2>5, <2>6, <2>7, <2>8, <2>9 DEF Laid
<1> QED
  BY <1>4, <1>5

----------------------------------------------------------------------------
(* The invariant.                                                          *)

\* What was sent and is not handed on yet, in the order in which it is read.
Way == buf \o (rcv \o coming)

\* It is the packets after those handed on, one after the other.
InStep ==
    /\ Len(delivered) <= Len(sent)
    /\ \E f : Laid(f, Way, sent, Len(delivered))

\* How much of the packet at hand has been read where vc_recv_desp is.
Place ==
    /\ at = "select" => buf = <<>>
    /\ at = "rest of header" => Len(buf) < HdrLen
    /\ at \in {"header", "length"} => Len(buf) = HdrLen
    /\ at \in {"length", "rest of payload", "packet"} =>
          packet_len = sent[Len(delivered) + 1] /\ HdrLen <= Len(buf)
    /\ at = "rest of payload" => Len(buf) < HdrLen + packet_len
    /\ at = "packet" => Len(buf) = HdrLen + packet_len
    /\ at \in {"rest of payload", "packet"} => packet_len <= MaxPayload

Streams ==
    buf \in Seq(Unit) /\ rcv \in Seq(Unit) /\ coming \in Seq(Unit) /\ delivered \in Seq(Seq(Unit))

FrameInv == TypeOK /\ Streams /\ (at # "down" => InStep /\ Place)

\* What the types say at once.
LEMMA FrameTypes ==
    ASSUME TypeOK, Streams
    PROVE  /\ sent \in Seq(Nat) /\ Len(sent) \in Nat /\ Len(delivered) \in Nat
           /\ Len(buf) \in Nat /\ Len(rcv) \in Nat /\ Len(coming) \in Nat
           /\ packet_len \in Nat /\ HdrLen \in Nat \ {0} /\ MaxPayload \in Nat
           /\ Way \in Seq(Unit) /\ Len(Way) = Len(buf) + (Len(rcv) + Len(coming))
           /\ \A i \in 1 .. Len(buf) : Way[i] = buf[i]
<1>1. sent \in Seq(Lens) /\ Lens \subseteq Nat /\ packet_len \in Lens \cup {0}
      /\ HdrLen \in Nat \ {0} /\ MaxPayload \in Nat
  BY FramingAssumption DEF TypeOK
<1>2. sent \in Seq(Nat)
  BY <1>1, SeqMonotonic
<1>3. buf \in Seq(Unit) /\ rcv \in Seq(Unit) /\ coming \in Seq(Unit) /\ delivered \in Seq(Seq(Unit))
  BY DEF Streams
<1>4. Len(sent) \in Nat /\ Len(delivered) \in Nat /\ Len(buf) \in Nat /\ Len(rcv) \in Nat
      /\ Len(coming) \in Nat
  BY <1>2, <1>3, LenProperties
<1>5. rcv \o coming \in Seq(Unit) /\ Len(rcv \o coming) = Len(rcv) + Len(coming)
  BY <1>3, ConcatProperties
<1> DEFINE q == rcv \o coming
<1> HIDE DEF q
<1>6. q \in Seq(Unit) /\ Len(q) = Len(rcv) + Len(coming) /\ Way = buf \o q
  BY <1>5 DEF q, Way
<1>7. /\ buf \o q \in Seq(Unit) /\ Len(buf \o q) = Len(buf) + Len(q)
      /\ \A i \in 1 .. Len(buf) + Len(q) : (buf \o q)[i] = IF i <= Len(buf) THEN buf[i] ELSE q[i - Len(buf)]
  <2>1. buf \in Seq(Unit) /\ q \in Seq(Unit)
    BY <1>3, <1>6
  <2> QED
    BY <2>1, ConcatProperties
<1>8. \A i \in 1 .. Len(buf) : Way[i] = buf[i]
  <2>1. \A i \in 1 .. Len(buf) : i \in 1 .. Len(buf) + Len(q) /\ i <= Len(buf)
    BY <1>4, <1>6
  <2> QED
    BY <1>6, <1>7, <2>1
<1>9. Way \in Seq(Unit) /\ Len(Way) = Len(buf) + (Len(rcv) + Len(coming))
  BY <1>6, <1>7
<1> QED
  BY <1>1, <1>2, <1>4, <1>8, <1>9

\* A recv moves units from the socket to the memory: all that was asked for, or all there is.
LEMMA TakeMoves ==
    ASSUME Streams, NEW n \in Nat, NEW t \in Nat, Len(buf) + n = t, Take(n), coming' = coming
    PROVE  /\ buf' \in Seq(Unit) /\ rcv' \in Seq(Unit) /\ Way' = Way
           /\ Len(buf') \in Nat /\ Len(buf) <= Len(buf') /\ Len(buf') <= t
           /\ Len(buf') # t => Len(buf') < t /\ rcv' = <<>>
<1> DEFINE k == least(n, Len(rcv))
<1>1. buf \in Seq(Unit) /\ rcv \in Seq(Unit) /\ coming \in Seq(Unit)
  BY DEF Streams
<1>2. Len(buf) \in Nat /\ Len(rcv) \in Nat
  BY <1>1, LenProperties
<1>3. k \in 0 .. Len(rcv) /\ k <= n /\ (k < n => k = Len(rcv))
  BY <1>2 DEF least
<1>4. buf' = buf \o SubSeq(rcv, 1, k) /\ rcv' = SubSeq(rcv, k + 1, Len(rcv))
  BY DEF Take
<1> HIDE DEF k
<1>5. /\ SubSeq(rcv, 1, k) \in Seq(Unit) /\ Len(SubSeq(rcv, 1, k)) = k
      /\ SubSeq(rcv, k + 1, Len(rcv)) \in Seq(Unit)
      /\ Len(SubSeq(rcv, k + 1, Len(rcv))) = Len(rcv) - k
  BY <1>1, <1>3, SplitAt
<1>6. buf' \in Seq(Unit) /\ Len(buf') = Len(buf) + k
  BY <1>1, <1>4, <1>5, ConcatProperties
<1>7. rcv' \in Seq(Unit) /\ Len(rcv') = Len(rcv) - k
  BY <1>4, <1>5
<1>8. Way' = Way
  <2>1. (buf \o SubSeq(rcv, 1, k)) \o (SubSeq(rcv, k + 1, Len(rcv)) \o coming) = buf \o (rcv \o coming)
    BY <1>1, <1>3, MoveFront
  <2> QED
    BY <1>4, <2>1 DEF Way
<1>9. ASSUME Len(buf') # t PROVE Len(buf') < t /\ rcv' = <<>>
  <2>1. k < n
    BY <1>2, <1>3, <1>6, <1>9
  <2>2. Len(rcv') = 0
    BY <1>2, <1>3, <1>7, <2>1
  <2>3. rcv' = <<>>
    BY <1>7, <2>2, EmptySeq
  <2>4. Len(buf') < t
    BY <1>2, <1>3, <1>6, <2>1
  <2> QED
    BY <2>3, <2>4
<1>10. Len(buf') \in Nat /\ Len(buf) <= Len(buf') /\ Len(buf') <= t
  BY <1>2, <1>3, <1>6
<1> QED
  BY <1>6, <1>7, <1>8, <1>9, <1>10

\* What does not change the order of the units, does not change that it is the right one.
LEMMA StaysInStep ==
    ASSUME InStep, UNCHANGED <<sent, delivered>>, Way' = Way
    PROVE  InStep'
  BY DEF InStep

\* What has been read of the packet at hand is the start of the next packet.
LEMMA HeadKnown ==
    ASSUME TypeOK, Streams, InStep, Len(buf) > 0
    PROVE  /\ Len(delivered) + 1 \in 1 .. Len(sent)
           /\ \A i \in 1 .. Len(buf) : i <= Whole(sent, Len(delivered) + 1)
                 => buf[i] = [pkt |-> Len(delivered) + 1, off |-> i]
           /\ sent[Len(delivered) + 1] \in Lens /\ sent[Len(delivered) + 1] \in Nat
<1> DEFINE d == Len(delivered)
<1>1. /\ sent \in Seq(Nat) /\ Len(sent) \in Nat /\ d \in Nat
      /\ Way \in Seq(Unit) /\ \A i \in 1 .. Len(buf) : Way[i] = buf[i]
      /\ Len(Way) = Len(buf) + (Len(rcv) + Len(coming))
      /\ Len(buf) \in Nat /\ Len(rcv) \in Nat /\ Len(coming) \in Nat
  BY FrameTypes
<1>2. d \in 0 .. Len(sent)
  BY <1>1 DEF InStep
<1>3. Len(Way) > 0
  BY <1>1
<1>4. PICK f : Laid(f, Way, sent, d)
  BY DEF InStep
<1> HIDE DEF d
<1>5. d < Len(sent) /\ \A i \in 1 .. Whole(sent, d + 1) : Way[i] = [pkt |-> d + 1, off |-> i]
  BY <1>1, <1>2, <1>3, <1>4, FrontLaid
<1>6. d + 1 \in 1 .. Len(sent)
  BY <1>1, <1>2, <1>5
<1>7. sent[d + 1] \in Nat /\ Whole(sent, d + 1) \in Nat
  BY <1>1, <1>6, WholeType
<1>8. ASSUME NEW i \in 1 .. Len(buf), i <= Whole(sent, d + 1)
      PROVE  buf[i] = [pkt |-> d + 1, off |-> i]
  <2>1. i \in 1 .. Whole(sent, d + 1)
    BY <1>1, <1>7, <1>8
  <2> QED
    BY <1>1, <1>5, <2>1
<1>9. sent[d + 1] \in Lens
  <2>1. sent \in Seq(Lens)
    BY DEF TypeOK
  <2> QED
    BY <1>6, <2>1, ElementOfSeq
<1> QED
  BY <1>6, <1>7, <1>8, <1>9 DEF d

LEMMA AtMost ==
    \A a \in Nat : \A b \in Nat : \A c \in Nat : a <= b /\ b <= c => a <= c
  OBVIOUS

\* The memory has room for a header, and for a payload that is not too long.
LEMMA RoomForHeader ==
    /\ RBUF_SIZE \in Nat /\ HdrLen <= RBUF_SIZE
    /\ \A n \in Nat : n <= MaxPayload => HdrLen + n <= RBUF_SIZE
  BY FramingAssumption DEF RBUF_SIZE

\* Every step that reads: what is left to show is where the daemon stands with it.
LEMMA ReadKeeps ==
    ASSUME FrameInv, at # "down", NEW n \in Nat, Take(n),
           UNCHANGED <<sent, coming, broken, packet_len, delivered>>,
           at' \in {"rest of header", "header", "rest of payload", "packet", "down"},
           NEW t \in Nat, Len(buf) + n = t, t <= RBUF_SIZE,
           at' # "down" => Place'
    PROVE  FrameInv'
<1>1. TypeOK /\ Streams /\ InStep
  BY DEF FrameInv
<1>2. buf' \in Seq(Unit) /\ rcv' \in Seq(Unit) /\ Way' = Way /\ Len(buf') <= RBUF_SIZE
  <2>1. /\ buf' \in Seq(Unit) /\ rcv' \in Seq(Unit) /\ Way' = Way
        /\ Len(buf') \in Nat /\ Len(buf') <= t
    BY <1>1, TakeMoves
  <2>2. Len(buf') <= RBUF_SIZE
    BY <2>1, RoomForHeader, AtMost, Zenon
  <2> QED
    BY <2>1, <2>2
<1>3. Streams'
  BY <1>1, <1>2 DEF Streams
<1>5. TypeOK'
  BY <1>1, <1>2 DEF TypeOK
<1>6. InStep'
  BY <1>1, <1>2, StaysInStep
<1> QED
  BY <1>3, <1>5, <1>6 DEF FrameInv

LEMMA HeaderReadsKeep == FrameInv /\ (RecvHeader \/ RecvRestOfHeader) => FrameInv'
<1> SUFFICES ASSUME FrameInv, RecvHeader \/ RecvRestOfHeader PROVE FrameInv'
  OBVIOUS
<1>0. TypeOK /\ Streams /\ at # "down" /\ Place
  BY DEF FrameInv, RecvHeader, RecvRestOfHeader
<1>1. Len(buf) \in Nat /\ HdrLen \in Nat \ {0} /\ MaxPayload \in Nat
  BY <1>0, FrameTypes
<1>2. PICK n \in Nat :
          /\ Take(n) /\ Len(buf) + n = HdrLen
          /\ \/ at' = "down"
             \/ at' = "header" /\ Len(buf') = HdrLen
             \/ at' = "rest of header" /\ Len(buf') # HdrLen
          /\ UNCHANGED <<sent, coming, broken, packet_len, delivered>>
  <2>1. CASE RecvHeader
    <3>1. buf = <<>> /\ Len(buf) = 0
      <4>1. buf = <<>>
        BY <1>0, <2>1 DEF RecvHeader, Place
      <4> QED
        BY <4>1
    <3>2. HdrLen \in Nat /\ Len(buf) + HdrLen = HdrLen
      BY <1>1, <3>1
    <3>3. /\ Take(HdrLen)
          /\ \/ at' = "down"
             \/ at' = "header" /\ Len(buf') = HdrLen
             \/ at' = "rest of header" /\ Len(buf') # HdrLen
          /\ UNCHANGED <<sent, coming, broken, packet_len, delivered>>
      BY <2>1 DEF RecvHeader, HeaderRead
    <3> QED
      BY <3>2, <3>3
  <2>2. CASE RecvRestOfHeader
    <3>1. Len(buf) < HdrLen
      BY <1>0, <2>2 DEF RecvRestOfHeader, Place
    <3>2. HdrLen - Len(buf) \in Nat /\ Len(buf) + (HdrLen - Len(buf)) = HdrLen
      BY <1>1, <3>1
    <3>3. /\ Take(HdrLen - Len(buf))
          /\ \/ at' = "down"
             \/ at' = "header" /\ Len(buf') = HdrLen
          /\ UNCHANGED <<sent, coming, broken, packet_len, delivered>>
      BY <2>2 DEF RecvRestOfHeader, HeaderRead, Second
    <3> QED
      BY <3>2, <3>3
  <2> QED
    BY <2>1, <2>2
<1>3. Len(buf') # HdrLen => Len(buf') < HdrLen
  BY <1>0, <1>1, <1>2, TakeMoves
<1>4. at' # "down" => Place'
  <2>1. CASE at' = "header" /\ Len(buf') = HdrLen
    BY <2>1 DEF Place
  <2>2. CASE at' = "rest of header" /\ Len(buf') # HdrLen
    <3>1. Len(buf') < HdrLen
      BY <1>3, <2>2
    <3> QED
      BY <2>2, <3>1 DEF Place
  <2> QED
    BY <1>2, <2>1, <2>2
<1>5. at' \in {"rest of header", "header", "rest of payload", "packet", "down"}
  BY <1>2
<1> QED
  BY <1>0, <1>1, <1>2, <1>4, <1>5, RoomForHeader, ReadKeeps

LEMMA PayloadReadsKeep == FrameInv /\ (RecvPayload \/ RecvRestOfPayload) => FrameInv'
<1> SUFFICES ASSUME FrameInv, RecvPayload \/ RecvRestOfPayload PROVE FrameInv'
  OBVIOUS
<1>0. TypeOK /\ Streams /\ at \in {"length", "rest of payload"} /\ Place
  BY DEF FrameInv, RecvPayload, RecvRestOfPayload
<1>1. Len(buf) \in Nat /\ HdrLen \in Nat \ {0} /\ MaxPayload \in Nat /\ packet_len \in Nat
  BY <1>0, FrameTypes
<1>2. packet_len = sent[Len(delivered) + 1] /\ HdrLen <= Len(buf) /\ packet_len <= MaxPayload
  <2>1. packet_len = sent[Len(delivered) + 1] /\ HdrLen <= Len(buf)
    BY <1>0 DEF Place
  <2>2. CASE RecvPayload
    <3>1. ~ (packet_len > (HdrLen + MaxPayload) - HdrLen)
      BY <2>2 DEF RecvPayload, TooLong, RBUF_SIZE
    <3> QED
      BY <1>1, <2>1, <3>1
  <2>3. CASE RecvRestOfPayload
    BY <1>0, <2>1, <2>3 DEF RecvRestOfPayload, Place
  <2> QED
    BY <2>2, <2>3
<1>3. PICK n \in Nat :
          /\ Take(n) /\ Len(buf) + n = HdrLen + packet_len
          /\ \/ at' = "down"
             \/ at' = "packet" /\ Len(buf') = HdrLen + packet_len
             \/ at' = "rest of payload" /\ Len(buf') # HdrLen + packet_len
          /\ UNCHANGED <<sent, coming, broken, packet_len, delivered>>
  <2>1. CASE RecvPayload
    <3>1. Len(buf) = HdrLen
      BY <1>0, <2>1 DEF RecvPayload, Place
    <3>2. /\ Take(packet_len)
          /\ \/ at' = "packet" /\ Len(buf') = HdrLen + packet_len
             \/ at' = "rest of payload" /\ Len(buf') # HdrLen + packet_len
          /\ UNCHANGED <<sent, coming, broken, packet_len, delivered>>
      BY <2>1 DEF RecvPayload, PayloadRead
    <3> QED
      BY <1>1, <3>1, <3>2
  <2>2. CASE RecvRestOfPayload
    <3>1. Len(buf) < HdrLen + packet_len
      BY <1>0, <2>2 DEF RecvRestOfPayload, Place
    <3>2. /\ HdrLen + packet_len - Len(buf) \in Nat
          /\ Len(buf) + (HdrLen + packet_len - Len(buf)) = HdrLen + packet_len
      BY <1>1, <3>1
    <3>3. /\ Take(HdrLen + packet_len - Len(buf))
          /\ \/ at' = "down"
             \/ at' = "packet" /\ Len(buf') = HdrLen + packet_len
          /\ UNCHANGED <<sent, coming, broken, packet_len, delivered>>
      BY <2>2 DEF RecvRestOfPayload, PayloadRead, Second
    <3> QED
      BY <3>2, <3>3
  <2> QED
    BY <2>1, <2>2
<1>4. /\ Len(buf') # HdrLen + packet_len => Len(buf') < HdrLen + packet_len
      /\ HdrLen <= Len(buf')
  <2>1. HdrLen + packet_len \in Nat
    BY <1>1
  <2>2. /\ Len(buf') # HdrLen + packet_len => Len(buf') < HdrLen + packet_len
        /\ Len(buf) <= Len(buf') /\ Len(buf') \in Nat
    BY <1>0, <1>3, <2>1, TakeMoves
  <2>3. HdrLen \in Nat
    BY <1>1
  <2>4. HdrLen <= Len(buf')
    BY <1>1, <1>2, <2>2, <2>3, AtMost, Zenon
  <2> QED
    BY <2>2, <2>4
<1>5. at' # "down" => Place'
  <2>1. UNCHANGED <<sent, packet_len, delivered>>
    BY <1>3
  <2>2. CASE at' = "packet" /\ Len(buf') = HdrLen + packet_len
    BY <1>2, <1>4, <2>1, <2>2 DEF Place
  <2>3. CASE at' = "rest of payload" /\ Len(buf') # HdrLen + packet_len
    <3>1. Len(buf') < HdrLen + packet_len
      BY <1>4, <2>3
    <3> QED
      BY <1>2, <1>4, <2>1, <2>3, <3>1 DEF Place
  <2> QED
    BY <1>3, <2>2, <2>3
<1>6. HdrLen + packet_len \in Nat /\ HdrLen + packet_len <= RBUF_SIZE
  BY <1>1, <1>2, RoomForHeader
<1>7. at # "down" /\ at' \in {"rest of header", "header", "rest of payload", "packet", "down"}
  BY <1>0, <1>3
<1> QED
  BY <1>3, <1>5, <1>6, <1>7, ReadKeeps

LEMMA HeaderKeeps == FrameInv /\ Header => FrameInv'
<1> SUFFICES ASSUME FrameInv, Header PROVE FrameInv'
  OBVIOUS
<1>0. TypeOK /\ Streams /\ InStep /\ at = "header" /\ Place
  BY DEF FrameInv, Header
<1>1. Len(buf) = HdrLen /\ HdrLen \in Nat \ {0}
  BY <1>0, FrameTypes DEF Place
<1>2. /\ packet_len' = sent[buf[HdrLen].pkt]
      /\ at' = IF sent[buf[HdrLen].pkt] > 0 THEN "length" ELSE "packet"
      /\ UNCHANGED <<sent, coming, rcv, broken, buf, delivered>>
  BY <1>0 DEF Header, LenField
<1>3. /\ buf[HdrLen] = [pkt |-> Len(delivered) + 1, off |-> HdrLen]
      /\ sent[Len(delivered) + 1] \in Lens /\ sent[Len(delivered) + 1] \in Nat
  <2>1. Len(buf) > 0 /\ HdrLen \in 1 .. Len(buf)
    BY <1>1
  <2>2. /\ Len(delivered) + 1 \in 1 .. Len(sent)
        /\ \A i \in 1 .. Len(buf) : i <= Whole(sent, Len(delivered) + 1)
                 => buf[i] = [pkt |-> Len(delivered) + 1, off |-> i]
        /\ sent[Len(delivered) + 1] \in Lens /\ sent[Len(delivered) + 1] \in Nat
    BY <1>0, <2>1, HeadKnown
  <2>3. HdrLen <= Whole(sent, Len(delivered) + 1)
    BY <1>1, <2>2 DEF Whole
  <2> QED
    BY <2>1, <2>2, <2>3
<1>4. packet_len' = sent[Len(delivered) + 1]
  BY <1>2, <1>3
<1>5. TypeOK'
  BY <1>0, <1>2, <1>3, <1>4 DEF TypeOK
<1>6. Streams'
  BY <1>0, <1>2 DEF Streams
<1>7. InStep'
  BY <1>0, <1>2, StaysInStep DEF Way
<1>8. Place'
  <2>1. Len(buf') = HdrLen /\ packet_len' = sent'[Len(delivered') + 1] /\ HdrLen <= Len(buf')
    BY <1>1, <1>2, <1>4
  <2>2. CASE at' = "length"
    BY <2>1, <2>2 DEF Place
  <2>3. CASE at' = "packet"
    <3>1. packet_len' = 0
      BY <1>2, <1>3, <1>4, <2>3
    <3>2. Len(buf') = HdrLen + packet_len' /\ packet_len' <= MaxPayload
      BY <1>1, <1>2, <3>1, FramingAssumption
    <3> QED
      BY <2>1, <2>3, <3>2 DEF Place
  <2> QED
    BY <1>2, <2>2, <2>3
<1> QED
  BY <1>5, <1>6, <1>7, <1>8 DEF FrameInv

\* Dispatch hands on the packet at hand: it is the next one of those that were sent.
LEMMA WholeIsRead ==
    ASSUME FrameInv, at = "packet"
    PROVE  /\ Len(delivered) + 1 \in 1 .. Len(sent)
           /\ buf = Packet(Len(delivered) + 1, sent[Len(delivered) + 1])
           /\ \E g : Laid(g, rcv \o coming, sent, Len(delivered) + 1)
<1> DEFINE d == Len(delivered)
<1>0. TypeOK /\ Streams /\ InStep /\ Place
  BY DEF FrameInv
<1>1. /\ sent \in Seq(Nat) /\ Len(sent) \in Nat /\ d \in Nat /\ packet_len \in Nat
      /\ buf \in Seq(Unit) /\ rcv \in Seq(Unit) /\ coming \in Seq(Unit) /\ HdrLen \in Nat \ {0}
  BY <1>0, FrameTypes DEF Streams
<1>2. packet_len = sent[d + 1] /\ Len(buf) = HdrLen + packet_len
  BY <1>0 DEF Place
<1>3. Len(buf) > 0
  BY <1>1, <1>2
<1>4. d + 1 \in 1 .. Len(sent)
  BY <1>0, <1>3, HeadKnown
<1>5. d \in 0 .. Len(sent) /\ d < Len(sent)
  BY <1>1, <1>4
<1>6. Len(buf) = Whole(sent, d + 1)
  BY <1>2 DEF Whole
<1>7. rcv \o coming \in Seq(Unit)
  BY <1>1, ConcatProperties
<1>8. PICK f : Laid(f, buf \o (rcv \o coming), sent, d)
  BY <1>0 DEF InStep, Way
<1> HIDE DEF d
<1>9. buf = Packet(d + 1, sent[d + 1]) /\ \E g : Laid(g, rcv \o coming, sent, d + 1)
  BY <1>1, <1>5, <1>6, <1>7, <1>8, OneLessLaid
<1> QED
  BY <1>4, <1>9 DEF d

LEMMA DispatchKeeps == FrameInv /\ Dispatch => FrameInv'
<1> SUFFICES ASSUME FrameInv, Dispatch PROVE FrameInv'
  OBVIOUS
<1>0. TypeOK /\ Streams /\ InStep /\ at = "packet" /\ Place
  BY DEF FrameInv, Dispatch
<1>1. /\ delivered' = Append(delivered, buf)
      /\ buf' = <<>> /\ packet_len' = 0 /\ at' = "select"
      /\ UNCHANGED <<sent, coming, rcv, broken>>
  BY DEF Dispatch
<1>2. /\ Len(delivered) + 1 \in 1 .. Len(sent)
      /\ \E g : Laid(g, rcv \o coming, sent, Len(delivered) + 1)
  BY <1>0, WholeIsRead
<1>3. /\ buf \in Seq(Unit) /\ rcv \in Seq(Unit) /\ coming \in Seq(Unit)
      /\ delivered \in Seq(Seq(Unit)) /\ Len(sent) \in Nat
  BY <1>0, FrameTypes DEF Streams
<1>4. delivered' \in Seq(Seq(Unit)) /\ Len(delivered') = Len(delivered) + 1
  BY <1>1, <1>3, AppendProperties
<1>5. buf' \in Seq(Unit) /\ Len(buf') = 0
  BY <1>1, EmptySeq
<1>6. Way' = rcv \o coming
  <2>1. rcv \o coming \in Seq(Unit)
    BY <1>3, ConcatProperties
  <2>2. <<>> \o (rcv \o coming) = rcv \o coming
    BY <2>1, ConcatEmptySeq
  <2> QED
    BY <1>1, <2>2 DEF Way
<1>7. TypeOK'
  BY <1>0, <1>1, <1>5, RoomForHeader DEF TypeOK
<1>8. Streams'
  BY <1>1, <1>3, <1>4, <1>5 DEF Streams
<1>9. InStep'
  <2>1. Len(delivered') <= Len(sent')
    BY <1>1, <1>2, <1>3, <1>4
  <2>2. \E g : Laid(g, Way', sent', Len(delivered'))
    BY <1>1, <1>2, <1>4, <1>6
  <2> QED
    BY <2>1, <2>2 DEF InStep
<1>10. Place'
  BY <1>1 DEF Place
<1> QED
  BY <1>7, <1>8, <1>9, <1>10 DEF FrameInv

LEMMA MakePacketKeeps == FrameInv /\ MakePacket => FrameInv'
<1> SUFFICES ASSUME FrameInv, MakePacket PROVE FrameInv'
  OBVIOUS
<1>1. PICK n \in Lens :
         /\ at # "down" /\ Len(sent) < MaxPackets
         /\ sent' = Append(sent, n) /\ coming' = coming \o Packet(Len(sent) + 1, n)
         /\ UNCHANGED <<rcv, broken, buf, packet_len, at, delivered>>
  BY DEF MakePacket
<1>0. TypeOK /\ Streams /\ InStep /\ Place
  BY <1>1 DEF FrameInv
<1>2. /\ sent \in Seq(Lens) /\ sent \in Seq(Nat) /\ Len(sent) \in Nat /\ Len(delivered) \in Nat
      /\ buf \in Seq(Unit) /\ rcv \in Seq(Unit) /\ coming \in Seq(Unit) /\ Way \in Seq(Unit)
      /\ n \in Nat
  BY <1>0, FrameTypes, FramingAssumption DEF Streams, TypeOK
<1>3. /\ sent' \in Seq(Lens) /\ Len(sent') = Len(sent) + 1
      /\ \A k \in 1 .. Len(sent) : sent'[k] = sent[k]
  BY <1>1, <1>2, AppendProperties
<1> DEFINE p == Packet(Len(sent) + 1, n)
<1>4. p \in Seq(Unit)
  <2>1. Len(sent) + 1 \in Nat
    BY <1>2
  <2> QED
    BY <1>2, <2>1, PacketType
<1> HIDE DEF p
<1>5. coming' = coming \o p /\ coming' \in Seq(Unit)
  <2>1. coming \o p \in Seq(Unit)
    BY <1>2, <1>4, ConcatProperties
  <2>2. coming' = coming \o p
    BY <1>1 DEF p
  <2> QED
    BY <2>1, <2>2
<1>6. Way' = Way \o p
  <2>1. rcv \o coming \in Seq(Unit)
    BY <1>2, ConcatProperties
  <2>2. rcv \o (coming \o p) = (rcv \o coming) \o p
    BY <1>2, <1>4, UnitsAssociate
  <2>3. \A q \in Seq(Unit) : buf \o (q \o p) = (buf \o q) \o p
    <3>1. \A q \in Seq(Unit) : \A u \in Seq(Unit) : (buf \o q) \o u = buf \o (q \o u)
      BY <1>2, UnitsAssociate, Zenon
    <3> QED
      BY <1>4, <3>1, Zenon
  <2>4. buf \o ((rcv \o coming) \o p) = (buf \o (rcv \o coming)) \o p
    BY <2>1, <2>3, Zenon
  <2> QED
    BY <1>1, <1>5, <2>2, <2>4 DEF Way
<1>7. TypeOK'
  <2>1. Len(sent') <= MaxPackets
    BY <1>1, <1>2, <1>3, FramingAssumption
  <2> QED
    BY <1>0, <1>1, <1>3, <2>1 DEF TypeOK
<1>8. Streams'
  BY <1>0, <1>1, <1>5 DEF Streams
<1>9. InStep'
  <2>1. PICK f : Laid(f, Way, sent, Len(delivered))
    BY <1>0 DEF InStep
  <2>2. Len(delivered) <= Len(sent)
    BY <1>0 DEF InStep
  <2>3. \E g : Laid(g, Way \o Packet(Len(sent) + 1, n), Append(sent, n), Len(delivered))
    <3>1. Len(delivered) \in 0 .. Len(sent)
      BY <1>2, <2>2
    <3> QED
      BY <1>2, <2>1, <3>1, OneMoreLaid
  <2>4. \E g : Laid(g, Way', sent', Len(delivered'))
    BY <1>1, <1>6, <2>3 DEF p
  <2>5. Len(delivered') <= Len(sent')
    BY <1>1, <1>2, <1>3, <2>2
  <2> QED
    BY <2>4, <2>5 DEF InStep
<1>10. Place'
  <2>1. at \in {"length", "rest of payload", "packet"} => sent'[Len(delivered) + 1] = sent[Len(delivered) + 1]
    <3>1. ASSUME at \in {"length", "rest of payload", "packet"} PROVE Len(buf) > 0
      <4>1. HdrLen <= Len(buf) /\ Len(buf) \in Nat /\ HdrLen \in Nat \ {0}
        BY <1>0, <3>1, FrameTypes DEF Place
      <4> QED
        BY <4>1
    <3>2. Len(buf) > 0 => Len(delivered) + 1 \in 1 .. Len(sent)
      BY <1>0, HeadKnown
    <3> QED
      BY <1>3, <3>1, <3>2
  <2> QED
    BY <1>0, <1>1, <2>1 DEF Place
<1> QED
  BY <1>7, <1>8, <1>9, <1>10 DEF FrameInv

LEMMA ArriveKeeps == FrameInv /\ Arrive => FrameInv'
<1> SUFFICES ASSUME FrameInv, Arrive PROVE FrameInv'
  OBVIOUS
<1>0. TypeOK /\ Streams
  BY DEF FrameInv
<1>1. PICK n \in 1 .. Len(coming) :
         /\ rcv' = rcv \o SubSeq(coming, 1, n) /\ coming' = SubSeq(coming, n + 1, Len(coming))
         /\ UNCHANGED <<sent, broken, buf, packet_len, at, delivered>>
  BY DEF Arrive
<1>2. buf \in Seq(Unit) /\ rcv \in Seq(Unit) /\ coming \in Seq(Unit) /\ Len(coming) \in Nat
  BY <1>0, FrameTypes DEF Streams
<1> DEFINE x == SubSeq(coming, 1, n)
           y == SubSeq(coming, n + 1, Len(coming))
<1>3. x \in Seq(Unit) /\ y \in Seq(Unit) /\ x \o y = coming
  <2>1. n \in 0 .. Len(coming)
    BY <1>2
  <2> QED
    BY <1>2, <2>1, SplitAt
<1>4. rcv' = rcv \o x /\ coming' = y
  BY <1>1
<1> HIDE DEF x, y
<1>5. Way' = Way
  <2>1. (rcv \o x) \o y = rcv \o (x \o y)
    BY <1>2, <1>3, UnitsAssociate
  <2>2. rcv' \o coming' = rcv \o coming
    BY <1>3, <1>4, <2>1, Zenon
  <2> QED
    BY <1>1, <2>2 DEF Way
<1>6. rcv' \in Seq(Unit) /\ coming' \in Seq(Unit)
  <2>1. rcv \o x \in Seq(Unit)
    BY <1>2, <1>3, ConcatProperties
  <2> QED
    BY <1>3, <1>4, <2>1
<1>7. TypeOK' /\ Streams'
  <2>1. TypeOK'
    BY <1>0, <1>1 DEF TypeOK
  <2>2. Streams'
    BY <1>0, <1>1, <1>6 DEF Streams
  <2> QED
    BY <2>1, <2>2
<1>8. at' # "down" => InStep' /\ Place'
  <2> SUFFICES ASSUME at # "down" PROVE InStep' /\ Place'
    BY <1>1
  <2>1. InStep /\ Place
    BY DEF FrameInv
  <2>2. InStep'
    BY <1>1, <1>5, <2>1, StaysInStep
  <2>3. Place'
    BY <1>1, <2>1 DEF Place
  <2> QED
    BY <2>2, <2>3
<1> QED
  BY <1>7, <1>8 DEF FrameInv

LEMMA InitFrames == Init => FrameInv
<1> SUFFICES ASSUME Init PROVE FrameInv
  OBVIOUS
<1>1. /\ sent = <<>> /\ coming = <<>> /\ rcv = <<>> /\ broken = FALSE
      /\ buf = <<>> /\ packet_len = 0 /\ at = "select" /\ delivered = <<>>
  BY DEF Init
<1>2. /\ <<>> \in Seq(Lens) /\ <<>> \in Seq(Nat) /\ <<>> \in Seq(Unit) /\ <<>> \in Seq(Seq(Unit))
      /\ Len(<<>>) = 0
  BY EmptySeq
<1>3. TypeOK
  <2>1. Len(buf) <= RBUF_SIZE /\ Len(sent) <= MaxPackets
    <3>1. 0 <= RBUF_SIZE /\ 0 <= MaxPackets
      BY RoomForHeader, FramingAssumption
    <3> QED
      BY <1>1, <1>2, <3>1
  <2> QED
    BY <1>1, <1>2, <2>1 DEF TypeOK
<1>4. Streams
  BY <1>1, <1>2 DEF Streams
<1>5. Place
  BY <1>1 DEF Place
<1>6. InStep
  <2>1. <<>> \o (<<>> \o <<>>) = <<>>
    BY <1>2, ConcatEmptySeq
  <2>2. Way = <<>> /\ Len(sent) = 0 /\ Len(delivered) = 0 /\ Len(Way) = 0
    BY <1>1, <1>2, <2>1 DEF Way
  <2> DEFINE f == [k \in 1 .. 1 |-> 0]
  <2>3. Laid(f, Way, sent, 0)
    BY <2>2 DEF Laid
  <2> QED
    BY <2>2, <2>3 DEF InStep
<1> QED
  BY <1>3, <1>4, <1>5, <1>6 DEF FrameInv

LEMMA ReconnectKeeps == FrameInv /\ Reconnect => FrameInv'
<1> SUFFICES ASSUME FrameInv, Reconnect PROVE FrameInv'
  OBVIOUS
<1>1. /\ sent' = <<>> /\ coming' = <<>> /\ rcv' = <<>> /\ broken' = FALSE
      /\ buf' = <<>> /\ packet_len' = 0 /\ at' = "select" /\ delivered' = <<>>
  BY DEF Reconnect
<1>2. Init'
  BY <1>1 DEF Init
<1>3. Init' => FrameInv'
  BY InitFrames, PTL
<1> QED
  BY <1>2, <1>3

LEMMA FrameKeeps == FrameInv /\ [Next]_framingVars => FrameInv'
<1> SUFFICES ASSUME FrameInv, [Next]_framingVars PROVE FrameInv'
  OBVIOUS
<1>1. CASE MakePacket \/ Arrive
  BY <1>1, MakePacketKeeps, ArriveKeeps
<1>2. CASE UNCHANGED <<sent, coming, rcv, buf, packet_len, delivered>> /\ broken' \in BOOLEAN
           /\ at' \in {at, "down"}
  <2>1. TypeOK' /\ Streams'
    BY <1>2 DEF FrameInv, TypeOK, Streams
  <2>2. at' # "down" => InStep' /\ Place'
    <3> SUFFICES ASSUME at' # "down" PROVE InStep' /\ Place'
      OBVIOUS
    <3>1. at' = at /\ InStep /\ Place
      BY <1>2 DEF FrameInv
    <3>2. InStep'
      BY <1>2, <3>1, StaysInStep DEF Way
    <3>3. Place'
      BY <1>2, <3>1 DEF Place
    <3> QED
      BY <3>2, <3>3
  <2> QED
    BY <2>1, <2>2 DEF FrameInv
<1>3. CASE Break \/ RefuseLong \/ Late \/ UNCHANGED framingVars
  <2>1. broken \in BOOLEAN
    BY DEF FrameInv, TypeOK
  <2> QED
    BY <1>2, <1>3, <2>1 DEF Break, RefuseLong, Late, Overdue, Drop, framingVars
<1>4. CASE Header \/ Dispatch \/ Reconnect
  BY <1>4, HeaderKeeps, DispatchKeeps, ReconnectKeeps
<1>5. CASE RecvHeader \/ RecvRestOfHeader \/ RecvPayload \/ RecvRestOfPayload
  BY <1>5, HeaderReadsKeep, PayloadReadsKeep
<1> QED
  BY <1>1, <1>3, <1>4, <1>5 DEF Next, vc_recv_desp

LEMMA FrameInvariant == Spec => []FrameInv
  BY InitFrames, FrameKeeps, PTL DEF Spec

\* The packet at hand is read into the memory of RBUF_SIZE, never beyond it, whatever
\* length the device announces; and every variable has its type.
THEOREM FramingTypeCorrect == Spec => []TypeOK
<1>1. FrameInv => TypeOK
  BY DEF FrameInv
<1> QED
  BY <1>1, FrameInvariant, PTL

----------------------------------------------------------------------------
(* Why a connection is given up.                                           *)

\* A second read that still leaves the part short has emptied the socket.
LEMMA ShortIsJustified ==
    ASSUME FrameInv, RecvRestOfHeader \/ RecvRestOfPayload, at' = "down"
    PROVE  /\ at \in {"rest of header", "rest of payload"} /\ rcv' = <<>>
           /\ Len(buf') < HdrLen + IF at = "rest of header" THEN 0
                                   ELSE sent[Len(delivered) + 1]
<1>0. TypeOK /\ Streams /\ Place
  BY DEF FrameInv, RecvRestOfHeader, RecvRestOfPayload
<1>1. Len(buf) \in Nat /\ HdrLen \in Nat \ {0} /\ packet_len \in Nat
  BY <1>0, FrameTypes
<1>2. CASE RecvRestOfHeader
  <2>1. at = "rest of header" /\ Take(HdrLen - Len(buf)) /\ Len(buf') # HdrLen /\ coming' = coming
    BY <1>2 DEF RecvRestOfHeader, Second, HeaderRead
  <2>2. HdrLen - Len(buf) \in Nat /\ Len(buf) + (HdrLen - Len(buf)) = HdrLen
    <3>1. Len(buf) < HdrLen
      BY <1>0, <2>1 DEF Place
    <3> QED
      BY <1>1, <3>1
  <2>3. HdrLen \in Nat /\ HdrLen + 0 = HdrLen
    BY <1>1
  <2>4. Len(buf') < HdrLen /\ rcv' = <<>>
    BY <1>0, <2>1, <2>2, <2>3, TakeMoves
  <2> QED
    BY <2>1, <2>3, <2>4
<1>3. CASE RecvRestOfPayload
  <2>1. /\ at = "rest of payload" /\ Take(HdrLen + packet_len - Len(buf))
        /\ Len(buf') # HdrLen + packet_len /\ coming' = coming
    BY <1>3 DEF RecvRestOfPayload, Second, PayloadRead
  <2>2. /\ HdrLen + packet_len - Len(buf) \in Nat /\ HdrLen + packet_len \in Nat
        /\ Len(buf) + (HdrLen + packet_len - Len(buf)) = HdrLen + packet_len
    <3>1. Len(buf) < HdrLen + packet_len
      BY <1>0, <2>1 DEF Place
    <3> QED
      BY <1>1, <3>1
  <2>3. Len(buf') < HdrLen + packet_len /\ rcv' = <<>>
    BY <1>0, <2>1, <2>2, TakeMoves
  <2>4. packet_len = sent[Len(delivered) + 1]
    BY <1>0, <2>1 DEF Place
  <2> QED
    BY <2>1, <2>3, <2>4
<1> QED
  BY <1>2, <1>3

\* The daemon drops a connection only if the peer has gone, the next packet is too
\* long, or a part of it had not come when the daemon looked for the second time.
THEOREM DropIsJustified == Spec => DropJustified
<1> DEFINE Why == at # "down" /\ at' = "down" =>
                    \/ broken
                    \/ sent[Len(delivered) + 1] > MaxPayload
                    \/ /\ at \in {"rest of header", "rest of payload"} /\ rcv' = <<>>
                       /\ Len(buf') < HdrLen + IF at = "rest of header" THEN 0
                                               ELSE sent[Len(delivered) + 1]
<1>1. FrameInv /\ [Next]_framingVars => [Why]_framingVars
  <2> SUFFICES ASSUME FrameInv, Next, at # "down", at' = "down", ~broken,
                      ~ (sent[Len(delivered) + 1] > MaxPayload)
               PROVE  /\ at \in {"rest of header", "rest of payload"} /\ rcv' = <<>>
                      /\ Len(buf') < HdrLen + IF at = "rest of header" THEN 0
                                              ELSE sent[Len(delivered) + 1]
    OBVIOUS
  <2>0. TypeOK /\ Streams /\ Place
    BY DEF FrameInv
  <2>1. Len(buf) \in Nat /\ HdrLen \in Nat \ {0} /\ packet_len \in Nat /\ MaxPayload \in Nat
    BY <2>0, FrameTypes
  <2>2. ~RefuseLong
    <3> SUFFICES ASSUME RefuseLong PROVE FALSE
      OBVIOUS
    <3>1. at = "length" /\ packet_len > (HdrLen + MaxPayload) - HdrLen
      BY DEF RefuseLong, TooLong, RBUF_SIZE
    <3>2. packet_len > MaxPayload
      BY <2>1, <3>1
    <3>3. packet_len = sent[Len(delivered) + 1]
      BY <2>0, <3>1 DEF Place
    <3> QED
      BY <3>2, <3>3
  <2>3. CASE Late
    <3>1. at \in {"rest of header", "rest of payload"} /\ rcv' = <<>> /\ buf' = buf
      BY <2>3 DEF Late, Overdue, Drop
    <3>2. CASE at = "rest of header"
      <4>1. Len(buf) < HdrLen /\ HdrLen + 0 = HdrLen
        <5>1. Len(buf) < HdrLen
          BY <2>0, <3>2 DEF Place
        <5>2. HdrLen + 0 = HdrLen
          BY <2>1
        <5> QED
          BY <5>1, <5>2
      <4> QED
        BY <3>1, <3>2, <4>1
    <3>3. CASE at = "rest of payload"
      <4>1. Len(buf) < HdrLen + packet_len /\ packet_len = sent[Len(delivered) + 1]
        BY <2>0, <3>3 DEF Place
      <4> QED
        BY <3>1, <3>3, <4>1
    <3> QED
      BY <3>1, <3>2, <3>3
  <2>4. CASE RecvHeader
    <3>1. rcv = <<>> /\ (rcv # <<>> \/ broken)
      BY <2>4 DEF RecvHeader, Readable, HeaderRead
    <3> QED
      BY <3>1
  <2>5. CASE RecvRestOfHeader \/ RecvRestOfPayload
    BY <2>5, ShortIsJustified
  <2>6. ~MakePacket /\ ~Arrive /\ ~Break
    BY DEF MakePacket, Arrive, Break
  <2>7. ~Header /\ ~Dispatch /\ ~Reconnect /\ ~RecvPayload
    BY DEF Header, Dispatch, Reconnect, RecvPayload
  <2> QED
    BY <2>2, <2>3, <2>4, <2>5, <2>6, <2>7 DEF Next, vc_recv_desp
<1> QED
  BY <1>1, FrameInvariant, PTL DEF Spec, DropJustified

----------------------------------------------------------------------------
(* The packets that were sent are handed on: whole, once and in order.     *)

\* The packets after the first d of s.
Waits(s, d) == SubSeq([k \in 1 .. Len(s) |-> Packet(k, s[k])], d + 1, Len(s))

LEMMA WaitsType ==
    ASSUME NEW s \in Seq(Nat), NEW d \in 0 .. Len(s)
    PROVE  /\ Waits(s, d) \in Seq(Seq(Unit)) /\ Len(Waits(s, d)) = Len(s) - d
           /\ \A i \in 1 .. Len(s) - d : Waits(s, d)[i] = Packet(d + i, s[d + i])
<1> DEFINE P == [k \in 1 .. Len(s) |-> Packet(k, s[k])]
<1>1. Len(s) \in Nat /\ d \in Nat /\ d <= Len(s)
  BY LenProperties
<1>2. ASSUME NEW i \in d + 1 .. Len(s) PROVE P[i] \in Seq(Unit) /\ P[i] = Packet(i, s[i])
  <2>1. i \in 1 .. Len(s) /\ i \in Nat
    BY <1>1
  <2>2. s[i] \in Nat
    BY <2>1, ElementOfSeq
  <2> QED
    BY <2>1, <2>2, PacketType
<1> HIDE DEF P
<1>3. d + 1 \in Int /\ Len(s) \in Int
  BY <1>1
<1>4. /\ SubSeq(P, d + 1, Len(s)) \in Seq(Seq(Unit))
      /\ Len(SubSeq(P, d + 1, Len(s))) = IF d + 1 <= Len(s) THEN Len(s) - (d + 1) + 1 ELSE 0
      /\ \A i \in 1 .. Len(s) - (d + 1) + 1 : SubSeq(P, d + 1, Len(s))[i] = P[(d + 1) + i - 1]
  BY <1>2, <1>3, SubSeqProperties
<1>5. Waits(s, d) = SubSeq(P, d + 1, Len(s))
  BY DEF Waits, P
<1>6. Len(Waits(s, d)) = Len(s) - d
  BY <1>1, <1>4, <1>5
<1>7. ASSUME NEW i \in 1 .. Len(s) - d PROVE Waits(s, d)[i] = Packet(d + i, s[d + i])
  <2>1. /\ i \in 1 .. Len(s) - (d + 1) + 1 /\ (d + 1) + i - 1 = d + i
        /\ d + i \in d + 1 .. Len(s)
    BY <1>1
  <2> QED
    BY <1>2, <1>4, <1>5, <2>1
<1> QED
  BY <1>4, <1>5, <1>6, <1>7

\* One more packet is sent: it waits behind the others.
LEMMA WaitsGrow ==
    ASSUME NEW s \in Seq(Nat), NEW d \in 0 .. Len(s), NEW n \in Nat
    PROVE  /\ Len(Waits(Append(s, n), d)) = Len(Waits(s, d)) + 1
           /\ Waits(s, d) = SubSeq(Waits(Append(s, n), d), 1, Len(Waits(s, d)))
<1> DEFINE t == Append(s, n)
           v == Waits(s, d)
           w == Waits(t, d)
<1>1. Len(s) \in Nat /\ d \in Nat /\ d <= Len(s)
  BY LenProperties
<1>2. t \in Seq(Nat) /\ Len(t) = Len(s) + 1 /\ \A k \in 1 .. Len(s) : t[k] = s[k]
  BY AppendProperties
<1> HIDE DEF t
<1>3. d \in 0 .. Len(t) /\ Len(t) - d = Len(s) - d + 1
  BY <1>1, <1>2
<1>4. /\ v \in Seq(Seq(Unit)) /\ Len(v) = Len(s) - d
      /\ \A i \in 1 .. Len(s) - d : v[i] = Packet(d + i, s[d + i])
  BY WaitsType
<1>5. /\ w \in Seq(Seq(Unit)) /\ Len(w) = Len(t) - d
      /\ \A i \in 1 .. Len(t) - d : w[i] = Packet(d + i, t[d + i])
  BY <1>2, <1>3, WaitsType
<1> HIDE DEF v, w
<1>6. Len(w) = Len(v) + 1
  BY <1>3, <1>4, <1>5
<1>7. Len(v) \in Nat
  BY <1>1, <1>4
<1> DEFINE u == SubSeq(w, 1, Len(v))
<1>8. u \in Seq(Seq(Unit)) /\ Len(u) = Len(v) /\ \A i \in 1 .. Len(v) : u[i] = w[i]
  <2>1. \A i \in 1 .. Len(v) : w[i] \in Seq(Unit)
    <3>1. \A i \in 1 .. Len(v) : i \in 1 .. Len(w)
      BY <1>6, <1>7
    <3> QED
      BY <1>5, <3>1, ElementOfSeq
  <2>2. 1 \in Int /\ Len(v) \in Int
    BY <1>7
  <2>3. /\ u \in Seq(Seq(Unit)) /\ Len(u) = IF 1 <= Len(v) THEN Len(v) - 1 + 1 ELSE 0
        /\ \A i \in 1 .. Len(v) - 1 + 1 : u[i] = w[1 + i - 1]
    BY <2>1, <2>2, SubSeqProperties
  <2>4. Len(u) = Len(v)
    BY <1>7, <2>3
  <2>5. \A i \in 1 .. Len(v) : i \in 1 .. Len(v) - 1 + 1 /\ 1 + i - 1 = i
    BY <1>7
  <2> QED
    BY <2>3, <2>4, <2>5
<1> HIDE DEF u
<1>9. ASSUME NEW i \in 1 .. Len(v) PROVE v[i] = u[i]
  <2>1. i \in 1 .. Len(s) - d /\ i \in 1 .. Len(t) - d /\ d + i \in 1 .. Len(s)
    BY <1>1, <1>3, <1>4
  <2> QED
    BY <1>2, <1>4, <1>5, <1>8, <2>1
<1>10. v = u
  BY <1>4, <1>8, <1>9, SeqEqual
<1> QED
  BY <1>6, <1>10 DEF u, v, w, t

\* The first packet is handed on: the others wait.
LEMMA WaitsShrink ==
    ASSUME NEW s \in Seq(Nat), NEW d \in 0 .. Len(s), d < Len(s)
    PROVE  /\ Waits(s, d) # <<>> /\ Head(Waits(s, d)) = Packet(d + 1, s[d + 1])
           /\ Waits(s, d + 1) = Tail(Waits(s, d))
<1> DEFINE v == Waits(s, d)
           w == Waits(s, d + 1)
<1>1. Len(s) \in Nat /\ d \in Nat /\ d < Len(s)
  BY LenProperties
<1>2. d + 1 \in 0 .. Len(s)
  BY <1>1
<1>3. /\ v \in Seq(Seq(Unit)) /\ Len(v) = Len(s) - d
      /\ \A i \in 1 .. Len(s) - d : v[i] = Packet(d + i, s[d + i])
  BY WaitsType
<1>4. /\ w \in Seq(Seq(Unit)) /\ Len(w) = Len(s) - (d + 1)
      /\ \A i \in 1 .. Len(s) - (d + 1) : w[i] = Packet((d + 1) + i, s[(d + 1) + i])
  BY <1>2, WaitsType
<1> HIDE DEF v, w
<1>5. v # <<>> /\ Len(v) > 0
  <2>1. Len(v) > 0
    BY <1>1, <1>3
  <2> QED
    BY <2>1, EmptySeq
<1>6. Head(v) = Packet(d + 1, s[d + 1])
  <2>1. Head(v) = v[1]
    BY <1>3, <1>5
  <2>2. 1 \in 1 .. Len(s) - d
    BY <1>1
  <2> QED
    BY <1>3, <2>1, <2>2
<1>7. /\ Tail(v) \in Seq(Seq(Unit)) /\ Len(Tail(v)) = Len(v) - 1
      /\ \A i \in 1 .. Len(Tail(v)) : Tail(v)[i] = v[i + 1]
  BY <1>3, <1>5, HeadTailProperties
<1>8. Len(w) = Len(Tail(v))
  BY <1>1, <1>3, <1>4, <1>7
<1>9. ASSUME NEW i \in 1 .. Len(w) PROVE w[i] = Tail(v)[i]
  <2>1. /\ i \in 1 .. Len(s) - (d + 1) /\ i + 1 \in 1 .. Len(s) - d
        /\ (d + 1) + i = d + (i + 1)
    BY <1>1, <1>4
  <2>2. w[i] = Packet((d + 1) + i, s[(d + 1) + i]) /\ v[i + 1] = Packet(d + (i + 1), s[d + (i + 1)])
    BY <1>3, <1>4, <2>1
  <2>3. Tail(v)[i] = v[i + 1]
    BY <1>7, <1>8
  <2> QED
    BY <2>1, <2>2, <2>3
<1>10. w = Tail(v)
  BY <1>4, <1>7, <1>8, <1>9, SeqEqual
<1> QED
  BY <1>5, <1>6, <1>10 DEF v, w

\* What stands for the variables of PacketChannel.
waits == IF at = "down" THEN <<>> ELSE SubSeq(Packets, Len(delivered) + 1, Len(sent))
hands == IF at = "down" THEN <<>> ELSE delivered

LEMMA WaitsKnown ==
    /\ at # "down" => waits = Waits(sent, Len(delivered)) /\ hands = delivered
    /\ at = "down" => waits = <<>> /\ hands = <<>>
    /\ at' # "down" => waits' = Waits(sent', Len(delivered')) /\ hands' = delivered'
    /\ at' = "down" => waits' = <<>> /\ hands' = <<>>
  BY DEF waits, hands, Waits, Packets

LEMMA ChannelStep == FrameInv /\ [Next]_framingVars => [Channel!Next]_Channel!channelVars
<1> SUFFICES ASSUME FrameInv, [Next]_framingVars
             PROVE  Channel!Next \/ UNCHANGED <<waits, hands>>
  BY DEF Channel!channelVars, waits, hands
<1>a. TypeOK /\ Streams
  BY DEF FrameInv
<1>b. sent \in Seq(Nat) /\ Len(sent) \in Nat /\ Len(delivered) \in Nat
  BY <1>a, FrameTypes
<1>1. CASE MakePacket
  <2>1. PICK n \in Lens :
           at # "down" /\ at' = at /\ sent' = Append(sent, n) /\ delivered' = delivered
    BY <1>1 DEF MakePacket
  <2>2. n \in Nat /\ Len(delivered) \in 0 .. Len(sent)
    BY <1>b, <2>1, FramingAssumption DEF FrameInv, InStep
  <2>3. /\ Len(Waits(Append(sent, n), Len(delivered))) = Len(Waits(sent, Len(delivered))) + 1
        /\ Waits(sent, Len(delivered)) = SubSeq(Waits(Append(sent, n), Len(delivered)), 1,
                                               Len(Waits(sent, Len(delivered))))
    BY <1>b, <2>2, WaitsGrow
  <2>4. waits = Waits(sent, Len(delivered)) /\ waits' = Waits(Append(sent, n), Len(delivered))
        /\ hands' = hands
    BY <2>1, WaitsKnown
  <2>5. Len(waits') = Len(waits) + 1 /\ waits = SubSeq(waits', 1, Len(waits)) /\ hands' = hands
    BY <2>3, <2>4
  <2> QED
    BY <2>5 DEF Channel!Next, Channel!Send, waits, hands
<1>2. CASE Dispatch
  <2>1. /\ at = "packet" /\ at' = "select" /\ delivered' = Append(delivered, buf) /\ sent' = sent
    BY <1>2 DEF Dispatch
  <2>2. /\ Len(delivered) + 1 \in 1 .. Len(sent)
        /\ buf = Packet(Len(delivered) + 1, sent[Len(delivered) + 1])
    BY <2>1, WholeIsRead
  <2>3. Len(delivered) \in 0 .. Len(sent) /\ Len(delivered) < Len(sent)
    BY <1>b, <2>2
  <2>4. Len(delivered') = Len(delivered) + 1
    <3>1. delivered \in Seq(Seq(Unit)) /\ buf \in Seq(Unit)
      BY <1>a DEF Streams
    <3> QED
      BY <2>1, <3>1, AppendProperties
  <2>5. /\ Waits(sent, Len(delivered)) # <<>> /\ Head(Waits(sent, Len(delivered))) = buf
        /\ Waits(sent, Len(delivered) + 1) = Tail(Waits(sent, Len(delivered)))
    BY <1>b, <2>2, <2>3, WaitsShrink
  <2>6. /\ waits = Waits(sent, Len(delivered)) /\ waits' = Waits(sent, Len(delivered) + 1)
        /\ hands = delivered /\ hands' = Append(delivered, buf)
    BY <2>1, <2>4, WaitsKnown
  <2>7. waits # <<>> /\ hands' = Append(hands, Head(waits)) /\ waits' = Tail(waits)
    BY <2>5, <2>6
  <2> QED
    BY <2>7 DEF Channel!Next, Channel!Hand, waits, hands
<1>3. CASE at' = "down" \/ Reconnect
  <2>1. waits' = <<>> /\ hands' = <<>>
    <3>1. CASE at' = "down"
      BY <3>1, WaitsKnown
    <3>2. CASE Reconnect
      <4>1. at' = "select" /\ sent' = <<>> /\ delivered' = <<>>
        BY <3>2 DEF Reconnect
      <4>2. Len(<<>>) = 0
        BY EmptySeq
      <4>3. waits' = Waits(<<>>, 0) /\ hands' = <<>>
        BY <4>1, <4>2, WaitsKnown
      <4>4. Waits(<<>>, 0) = <<>>
        <5>1. <<>> \in Seq(Nat) /\ 0 \in 0 .. Len(<<>>)
          BY <4>2, EmptySeq
        <5>2. Waits(<<>>, 0) \in Seq(Seq(Unit)) /\ Len(Waits(<<>>, 0)) = 0 - 0
          BY <4>2, <5>1, WaitsType
        <5> QED
          BY <5>2, EmptySeq
      <4> QED
        BY <4>3, <4>4
    <3> QED
      BY <1>3, <3>1, <3>2
  <2> QED
    BY <2>1 DEF Channel!Next, Channel!Lose, waits, hands
<1>4. CASE at' # "down" /\ UNCHANGED <<sent, delivered>> /\ at # "down"
  <2>1. waits' = waits /\ hands' = hands
    BY <1>4, WaitsKnown
  <2> QED
    BY <2>1
<1>5. CASE Arrive \/ UNCHANGED framingVars
  <2>1. UNCHANGED <<sent, delivered, at>>
    BY <1>5 DEF Arrive, framingVars
  <2> QED
    BY <1>3, <1>4, <2>1
<1>6. CASE Break \/ Late
  <2>1. UNCHANGED <<sent, delivered>> /\ at # "down"
    BY <1>6 DEF Break, Late, Overdue, Drop
  <2> QED
    BY <1>3, <1>4, <2>1
<1>7. CASE RecvHeader \/ RecvRestOfHeader \/ Header \/ RefuseLong \/ RecvPayload \/ RecvRestOfPayload
  <2>1. UNCHANGED <<sent, delivered>> /\ at # "down"
    BY <1>7 DEF RecvHeader, RecvRestOfHeader, Header, RefuseLong, RecvPayload, RecvRestOfPayload, Drop
  <2> QED
    BY <1>3, <1>4, <2>1
<1> QED
  BY <1>1, <1>2, <1>3, <1>5, <1>6, <1>7 DEF Next, vc_recv_desp

\* The daemon with its stream of bytes implements the channel of packets, however the
\* stream is cut and whenever it breaks.
THEOREM PacketsAreKept == Spec => PacketsKept
<1>1. Init => Channel!Init
  <2> SUFFICES ASSUME Init PROVE waits = <<>> /\ hands = <<>>
    BY DEF Channel!Init, waits, hands
  <2>1. at = "select" /\ sent = <<>> /\ delivered = <<>> /\ Len(<<>>) = 0
    BY EmptySeq DEF Init
  <2>2. <<>> \in Seq(Nat) /\ 0 \in 0 .. Len(<<>>)
    BY <2>1, EmptySeq
  <2>3. Waits(<<>>, 0) \in Seq(Seq(Unit)) /\ Len(Waits(<<>>, 0)) = 0 - 0
    BY <2>1, <2>2, WaitsType
  <2>4. Waits(<<>>, 0) = <<>>
    BY <2>3, EmptySeq
  <2> QED
    BY <2>1, <2>4, WaitsKnown
<1> QED
  BY <1>1, ChannelStep, FrameInvariant, PTL DEF Spec, PacketsKept, Channel!Spec

=============================================================================
