--------------------------- MODULE MonitorProofs ---------------------------
(***************************************************************************)
(* Theorems about the monitor file, for every size of it, all lengths of   *)
(* the messages and of the states' names: whatever the daemon writes in    *)
(* whichever order, the file shows the state and the exceptions.           *)
(***************************************************************************)
EXTENDS Monitor, SequenceTheorems, TLAPS

----------------------------------------------------------------------------
(* The inductive invariant.                                                *)

Cells == [header : States \cup {""}, exception : Nat, part : Nat]

\* The daemon is about to write, or has not written, an exception's message.
InExcp == at \in {"exception", "message"}

MonitorTypeOK ==
    /\ DOMAIN mem = 1 .. MSIZE + Slack
    /\ max_statl \in 0 .. NameLen[NetDown]
    /\ dbg_first \in BOOLEAN
    /\ state \in States
    /\ lens \in Seq(MsgLens)
    /\ history \in Seq(Cells)
    /\ at \in {"run", "header", "exception", "message", "trigger"}
    /\ InExcp => Len(lens) > 0 /\ state = NetDown

\* Cell c of a history h that fills up with blanks.
Told(h, c) == IF c <= Len(h) THEN h[c] ELSE Blank

\* The file m has the history h behind its first n cells.
Shows(m, n, h) == \A c \in n + 1 .. MSIZE : m[c] = Told(h, c - n)

HeaderShown == statl <= max_statl /\ \A c \in 1 .. statl : mem[c] = HeaderCell(state, c)

\* The history with the message of exception k, d cells long, in front of h.
Extended(h, k, d) == IF Recorded(d) THEN Message(k, d) \o <<Blank>> \o h ELSE h

\* The newest message stands behind the header, which is not followed by a NUL.
NewestShown ==
    /\ Len(lens) > 0 /\ statl = max_statl /\ max_statl + dbgl <= MSIZE
    /\ \A i \in 1 .. dbgl : mem[max_statl + i] = MsgCell(Len(lens), i)

\* What the file shows at each place of mon_update: the history, or, before the
\* message is written, the history without it.
FileOK ==
    /\ ~InExcp => Shows(mem, max_statl, history) /\ (dbg_first => history = <<>>)
    /\ InExcp => \E h \in Seq(Cells) :
                    /\ Shows(mem, max_statl, h) /\ (dbg_first => h = <<>>)
                    /\ history = Extended(h, Len(lens), dbgl)
    /\ at \in {"run", "message", "trigger"} => HeaderShown
    /\ at = "trigger" => NewestShown

MonitorInv == MonitorTypeOK /\ FileOK

\* In the first state the file is blank and no header has been written.
LEMMA MonitorInit == Init => MonitorInv
<1> SUFFICES ASSUME Init PROVE MonitorInv
  OBVIOUS
<1>1. /\ MSIZE \in Nat /\ Slack \in Nat /\ NetDown \in States
      /\ NameLen[NetDown] \in 1 .. MSIZE - 2
  BY MonitorAssumption
<1>2. MonitorTypeOK
  <2>1. <<>> \in Seq(MsgLens) /\ <<>> \in Seq(Cells)
    OBVIOUS
  <2> QED
    BY <1>1, <2>1 DEF Init, MonitorTypeOK, InExcp
<1>3. FileOK
  <2>1. \A c \in 1 .. MSIZE : mem[c] = Blank
    BY <1>1 DEF Init
  <2>2. Shows(mem, max_statl, <<>>)
    BY <1>1, <2>1 DEF Init, Shows, Told
  <2> QED
    BY <2>2 DEF Init, FileOK, InExcp
<1> QED
  BY <1>2, <1>3 DEF MonitorInv

----------------------------------------------------------------------------
(* What the file is made of.                                               *)

\* The message of an exception is a sequence of cells of its length.
LEMMA MessageCells ==
    ASSUME NEW k \in Nat, NEW d \in Nat
    PROVE  /\ Message(k, d) \in Seq(Cells) /\ Len(Message(k, d)) = d
           /\ \A i \in 1 .. d : Message(k, d)[i] = MsgCell(k, i)
<1>1. \A i \in 1 .. d : MsgCell(k, i) \in Cells
  BY DEF MsgCell, Cell, Cells
<1>2. Message(k, d) \in [1 .. d -> Cells]
  BY <1>1 DEF Message
<1>3. Message(k, d) \in Seq(Cells)
  BY <1>2, SeqDef
<1>4. Len(Message(k, d)) = d
  BY <1>2, <1>3, LenProperties
<1>5. \A i \in 1 .. d : Message(k, d)[i] = MsgCell(k, i)
  BY DEF Message
<1> QED
  BY <1>3, <1>4, <1>5

\* So is the blank behind it.
LEMMA BlankCell == <<Blank>> \in Seq(Cells) /\ Len(<<Blank>>) = 1 /\ <<Blank>>[1] = Blank
<1>1. Blank \in Cells
  BY DEF Blank, Cell, Cells
<1> QED
  BY <1>1

\* The length of the newest message is one of the lengths there are.
LEMMA NewestLength ==
    ASSUME MonitorTypeOK, InExcp
    PROVE  dbgl \in MsgLens /\ dbgl \in Nat /\ dbgl > 0 /\ Len(lens) \in Nat
<1>1. lens \in Seq(MsgLens) /\ Len(lens) > 0
  BY DEF MonitorTypeOK
<1>2. dbgl \in MsgLens /\ Len(lens) \in Nat
  BY <1>1 DEF dbgl
<1> QED
  BY <1>2, MonitorAssumption

----------------------------------------------------------------------------
(* The header.                                                             *)

\* Writing a header moves the history back by what the header grows, loses at the
\* end of the file what moves out of it, and puts the header in front of it.
LEMMA HeaderKeepsHistory ==
    ASSUME MonitorTypeOK, NEW h, Shows(mem, max_statl, h)
    PROVE  LET m == Header(Grown(mem))
               n == greatest(statl, max_statl)
           IN  /\ DOMAIN m = 1 .. MSIZE + Slack
               /\ n \in 0 .. NameLen[NetDown] /\ statl <= n
               /\ Shows(m, n, h)
               /\ \A c \in 1 .. statl : m[c] = HeaderCell(state, c)
<1> DEFINE m == Header(Grown(mem))
           n == greatest(statl, max_statl)
<1>1. /\ MSIZE \in Nat /\ Slack \in Nat /\ max_statl \in Nat
      /\ statl \in 1 .. MSIZE - 2 /\ statl <= NameLen[NetDown]
      /\ max_statl <= NameLen[NetDown] /\ NameLen[NetDown] \in 1 .. MSIZE - 2
  BY MonitorAssumption DEF MonitorTypeOK, statl
<1>2. DOMAIN mem = 1 .. MSIZE + Slack
  BY DEF MonitorTypeOK
<1>3. DOMAIN Grown(mem) = 1 .. MSIZE + Slack
  BY <1>2 DEF Grown, memmove
<1>4. n \in Nat /\ n \in 0 .. NameLen[NetDown] /\ statl <= n /\ max_statl <= n
  BY <1>1 DEF greatest
<1>5. ASSUME NEW c \in n + 1 .. MSIZE
      PROVE  Grown(mem)[c] = Told(h, c - n)
  <2>1. CASE statl > max_statl
    <3>1. n = statl /\ c \in 1 .. MSIZE + Slack
      BY <1>1, <2>1 DEF greatest
    <3>2. Grown(mem)[c] = mem[c - (statl + 1) + (max_statl + 1)]
      BY <1>1, <1>2, <2>1, <3>1 DEF Grown, memmove
    <3>3. PICK b \in max_statl + 1 .. MSIZE :
             b = c - (statl + 1) + (max_statl + 1) /\ b - max_statl = c - n
      BY <1>1, <2>1, <3>1
    <3>4. mem[b] = Told(h, b - max_statl)
      BY DEF Shows
    <3> QED
      BY <3>2, <3>3, <3>4
  <2>2. CASE ~ statl > max_statl
    BY <1>1, <2>2 DEF Grown, greatest, Shows
  <2> QED
    BY <2>1, <2>2
<1>6. \A c \in 1 .. MSIZE + Slack :
         /\ c > n => m[c] = Grown(mem)[c]
         /\ c <= statl => m[c] = HeaderCell(state, c)
  BY <1>1, <1>3, <1>4 DEF Header
<1>7. DOMAIN m = 1 .. MSIZE + Slack
  BY <1>3 DEF Header
<1>8. Shows(m, n, h)
  BY <1>1, <1>4, <1>5, <1>6 DEF Shows
<1>9. \A c \in 1 .. statl : m[c] = HeaderCell(state, c)
  BY <1>1, <1>6
<1> QED
  BY <1>4, <1>7, <1>8, <1>9

----------------------------------------------------------------------------
(* The message.                                                            *)

\* A message that fits is written between the header and the older messages, which
\* move back by its length and a blank.
LEMMA MessageInFront ==
    ASSUME MonitorTypeOK, HeaderShown, at = "message", WriteMessage,
           NEW h \in Seq(Cells), Shows(mem, max_statl, h), dbg_first => h = <<>>
    PROVE  /\ DOMAIN mem' = 1 .. MSIZE + Slack
           /\ Shows(mem', max_statl, Message(Len(lens), dbgl) \o <<Blank>> \o h)
           /\ \A c \in 1 .. statl : mem'[c] = HeaderCell(state, c)
<1> DEFINE s == max_statl
           d == dbgl
           msg == Message(Len(lens), dbgl)
           new == msg \o <<Blank>> \o h
<1>1. /\ MSIZE \in Nat /\ Slack \in Nat /\ s \in Nat
      /\ statl \in 1 .. MSIZE - 2 /\ s = statl
  <2>1. statl = NameLen[NetDown]
    BY DEF MonitorTypeOK, InExcp, statl
  <2> QED
    BY <2>1, MonitorAssumption DEF MonitorTypeOK, HeaderShown
<1>2. d \in Nat /\ d > 0 /\ Len(lens) \in Nat
  BY NewestLength DEF InExcp
<1>3. MSIZE - d - s > 1
  BY DEF WriteMessage
<1>4. DOMAIN mem = 1 .. MSIZE + Slack
  BY DEF MonitorTypeOK
<1>5. \A c \in 1 .. MSIZE + Slack :
         mem'[c] = IF c \in s + 1 .. s + d THEN MsgCell(Len(lens), c - s)
                   ELSE IF c = s + d + 1 THEN Blank ELSE Shifted(mem)[c]
  BY <1>4 DEF WriteMessage
<1>6. DOMAIN mem' = 1 .. MSIZE + Slack
  BY <1>4 DEF WriteMessage
<1>7. \A c \in 1 .. s : Shifted(mem)[c] = mem[c]
  BY <1>1, <1>2, <1>4 DEF Shifted, memmove
<1>8. ASSUME NEW c \in s + d + 2 .. MSIZE
      PROVE  Shifted(mem)[c] = Told(h, c - s - d - 1)
  <2>1. CASE dbg_first
    <3>1. Shifted(mem)[c] = mem[c] /\ h = <<>>
      BY <2>1 DEF Shifted
    <3>2. c \in s + 1 .. MSIZE
      BY <1>1, <1>2
    <3>3. mem[c] = Told(h, c - s)
      BY <3>2 DEF Shows
    <3> QED
      BY <1>1, <1>2, <3>1, <3>3 DEF Told
  <2>2. CASE ~dbg_first
    <3>1. Shifted(mem)[c] = mem[c - (s + d + 2) + (s + 1)]
      BY <1>1, <1>2, <1>4, <2>2, SMTT(30) DEF Shifted, memmove
    <3>2. PICK b \in s + 1 .. MSIZE :
             b = c - (s + d + 2) + (s + 1) /\ b - s = c - s - d - 1
      BY <1>1, <1>2
    <3>3. mem[b] = Told(h, b - s)
      BY DEF Shows
    <3> QED
      BY <3>1, <3>2, <3>3
  <2> QED
    BY <2>1, <2>2
<1>9. /\ Len(new) = d + 1 + Len(h) /\ Len(h) \in Nat
      /\ \A i \in 1 .. d : new[i] = MsgCell(Len(lens), i)
      /\ new[d + 1] = Blank
      /\ \A i \in 1 .. Len(h) : new[d + 1 + i] = h[i]
  <2>1. msg \in Seq(Cells) /\ Len(msg) = d
    BY <1>2, MessageCells
  <2>2. \A i \in 1 .. d : msg[i] = MsgCell(Len(lens), i)
    BY <1>2, MessageCells
  <2>3. <<Blank>> \in Seq(Cells) /\ Len(<<Blank>>) = 1 /\ <<Blank>>[1] = Blank
    BY BlankCell
  <2> DEFINE front == msg \o <<Blank>>
  <2> HIDE DEF msg
  <2>4. /\ front \in Seq(Cells) /\ Len(front) = d + 1
        /\ \A i \in 1 .. d + 1 : front[i] = IF i <= d THEN msg[i] ELSE <<Blank>>[i - d]
    BY <1>2, <2>1, <2>3, ConcatProperties
  <2> HIDE DEF front
  <2>5. /\ Len(front \o h) = d + 1 + Len(h) /\ Len(h) \in Nat
        /\ \A i \in 1 .. d + 1 + Len(h) :
              (front \o h)[i] = IF i <= d + 1 THEN front[i] ELSE h[i - (d + 1)]
    <3>1. Len(h) \in Nat /\ Len(front \o h) = Len(front) + Len(h)
      BY <2>4, ConcatProperties, LenProperties
    <3>2. \A i \in 1 .. Len(front) + Len(h) :
             (front \o h)[i] = IF i <= Len(front) THEN front[i] ELSE h[i - Len(front)]
      BY <2>4, ConcatProperties
    <3> QED
      BY <2>4, <3>1, <3>2
  <2>6. new = front \o h
    BY DEF front
  <2> HIDE DEF new
  <2>7. Len(new) = d + 1 + Len(h) /\ Len(h) \in Nat
    BY <2>5, <2>6
  <2>8. \A i \in 1 .. d : new[i] = MsgCell(Len(lens), i)
    <3> SUFFICES ASSUME NEW i \in 1 .. d PROVE new[i] = MsgCell(Len(lens), i)
      OBVIOUS
    <3>1. i \in 1 .. d + 1 + Len(h) /\ i \in 1 .. d + 1 /\ i <= d + 1
      BY <1>2, <2>7
    <3>2. new[i] = front[i]
      BY <2>5, <2>6, <3>1, Zenon
    <3>3. front[i] = msg[i]
      BY <2>4, <3>1, SMT
    <3> QED
      BY <2>2, <3>2, <3>3, Zenon
  <2>9. new[d + 1] = Blank
    <3>1. d + 1 \in 1 .. d + 1 + Len(h) /\ d + 1 \in 1 .. d + 1 /\ (d + 1) - d = 1
      BY <1>2, <2>7
    <3>2. ~(d + 1 <= d)
      BY <1>2
    <3> QED
      BY <2>3, <2>4, <2>5, <2>6, <3>1, <3>2
  <2>10. \A i \in 1 .. Len(h) : new[d + 1 + i] = h[i]
    <3> SUFFICES ASSUME NEW i \in 1 .. Len(h) PROVE new[d + 1 + i] = h[i]
      OBVIOUS
    <3>1. d + 1 + i \in 1 .. d + 1 + Len(h) /\ (d + 1 + i) - (d + 1) = i
      BY <1>2, <2>7
    <3>2. ~(d + 1 + i <= d + 1)
      BY <1>2, <2>7
    <3> QED
      BY <2>5, <2>6, <3>1, <3>2
  <2> QED
    BY <2>7, <2>8, <2>9, <2>10
<1> HIDE DEF new
<1>10. Shows(mem', s, new)
  <2> SUFFICES ASSUME NEW c \in s + 1 .. MSIZE PROVE mem'[c] = Told(new, c - s)
    BY DEF Shows
  <2>1. c \in 1 .. MSIZE + Slack
    BY <1>1
  <2>2. CASE c <= s + d
    BY <1>1, <1>2, <1>5, <1>9, <2>1, <2>2 DEF Told
  <2>3. CASE c = s + d + 1
    BY <1>1, <1>2, <1>5, <1>9, <2>1, <2>3 DEF Told
  <2>4. CASE c > s + d + 1
    <3>1. mem'[c] = Told(h, c - s - d - 1)
      BY <1>1, <1>2, <1>5, <1>8, <2>1, <2>4
    <3>2. Told(new, c - s) = Told(h, c - s - d - 1)
      <4>1. c - s = d + 1 + (c - s - d - 1) /\ c - s - d - 1 \in Nat \ {0}
        BY <1>1, <1>2, <2>4
      <4> QED
        BY <1>2, <1>9, <4>1 DEF Told
    <3> QED
      BY <3>1, <3>2
  <2> QED
    BY <1>1, <1>2, <2>2, <2>3, <2>4
<1>11. \A c \in 1 .. statl : mem'[c] = HeaderCell(state, c)
  <2> SUFFICES ASSUME NEW c \in 1 .. statl PROVE mem'[c] = HeaderCell(state, c)
    OBVIOUS
  <2>1. c \in 1 .. MSIZE + Slack /\ c <= s
    BY <1>1
  <2>2. mem'[c] = mem[c]
    BY <1>1, <1>2, <1>5, <1>7, <2>1
  <2> QED
    BY <2>2 DEF HeaderShown
<1> QED
  BY <1>6, <1>10, <1>11 DEF new

----------------------------------------------------------------------------
(* Every step.                                                             *)

\* What stays as it is when a step of the model leaves the file alone.
LEMMA MonitorKeeps ==
    MonitorInv /\ UNCHANGED <<mem, max_statl, dbg_first, state, lens, at, history>> => MonitorInv'
<1> SUFFICES ASSUME MonitorInv, UNCHANGED <<mem, max_statl, dbg_first, state, lens, at, history>>
             PROVE  MonitorInv'
  OBVIOUS
<1>1. MonitorTypeOK'
  BY DEF MonitorInv, MonitorTypeOK, InExcp
<1>2. FileOK'
  BY DEF MonitorInv, FileOK, InExcp, Shows, HeaderShown, NewestShown, statl, dbgl
<1> QED
  BY <1>1, <1>2 DEF MonitorInv

\* Every step keeps the history where the file should have it.
LEMMA MonitorStep == MonitorInv /\ [Next]_monitorVars => MonitorInv'
<1> SUFFICES ASSUME MonitorInv, [Next]_monitorVars PROVE MonitorInv'
  OBVIOUS
<1>0. MonitorTypeOK /\ FileOK
  BY DEF MonitorInv
<1>1. CASE WriteHeader
  <2>1. ~InExcp
    BY <1>1 DEF WriteHeader, InExcp
  <2>2. Shows(mem, max_statl, history) /\ (dbg_first => history = <<>>)
    BY <1>0, <2>1 DEF FileOK
  <2>3. /\ DOMAIN mem' = 1 .. MSIZE + Slack
        /\ max_statl' \in 0 .. NameLen[NetDown] /\ statl <= max_statl'
        /\ Shows(mem', max_statl', history)
        /\ \A c \in 1 .. statl : mem'[c] = HeaderCell(state, c)
    BY <1>0, <1>1, <2>2, HeaderKeepsHistory DEF WriteHeader
  <2>4. /\ at' = "run"
        /\ UNCHANGED <<dbg_first, state, lens, history>>
    BY <1>1 DEF WriteHeader
  <2>5. MonitorTypeOK'
    BY <1>0, <2>3, <2>4 DEF MonitorTypeOK, InExcp
  <2>6. HeaderShown'
    BY <2>3, <2>4 DEF HeaderShown, statl
  <2>7. FileOK'
    BY <2>2, <2>3, <2>4, <2>6 DEF FileOK, InExcp, Shows
  <2> QED
    BY <2>5, <2>7 DEF MonitorInv
<1>2. CASE WriteExceptionHeader
  <2>1. InExcp
    BY <1>2 DEF WriteExceptionHeader, InExcp
  <2>2. PICK h \in Seq(Cells) :
           /\ Shows(mem, max_statl, h) /\ (dbg_first => h = <<>>)
           /\ history = Extended(h, Len(lens), dbgl)
    BY <1>0, <2>1 DEF FileOK
  <2>3. /\ DOMAIN mem' = 1 .. MSIZE + Slack
        /\ max_statl' \in 0 .. NameLen[NetDown] /\ statl <= max_statl'
        /\ Shows(mem', max_statl', h)
        /\ \A c \in 1 .. statl : mem'[c] = HeaderCell(state, c)
    BY <1>0, <1>2, <2>2, HeaderKeepsHistory DEF WriteExceptionHeader
  <2>4. /\ at' = "message"
        /\ UNCHANGED <<dbg_first, state, lens, history>>
    BY <1>2 DEF WriteExceptionHeader
  <2>5. MonitorTypeOK'
    BY <1>0, <2>1, <2>3, <2>4 DEF MonitorTypeOK, InExcp
  <2>6. HeaderShown'
    BY <2>3, <2>4 DEF HeaderShown, statl
  <2>7. /\ (dbg_first' => h = <<>>)
        /\ history' = Extended(h, Len(lens'), dbgl')
    BY <2>2, <2>4 DEF dbgl
  <2>8. FileOK'
    BY <2>3, <2>4, <2>6, <2>7 DEF FileOK, InExcp, Shows
  <2> QED
    BY <2>5, <2>8 DEF MonitorInv
<1>3. CASE NoRoom
  <2>1. InExcp /\ HeaderShown /\ max_statl = NameLen[NetDown]
    BY <1>0, <1>3, MonitorAssumption DEF NoRoom, InExcp, FileOK, HeaderShown, statl, MonitorTypeOK
  <2>2. PICK h \in Seq(Cells) :
           /\ Shows(mem, max_statl, h) /\ (dbg_first => h = <<>>)
           /\ history = Extended(h, Len(lens), dbgl)
    BY <1>0, <2>1 DEF FileOK
  <2>3. ~Recorded(dbgl)
    <3>1. dbgl \in Nat /\ MSIZE \in Nat /\ max_statl \in Nat
      BY <1>0, <2>1, NewestLength, MonitorAssumption DEF MonitorTypeOK
    <3> QED
      BY <1>3, <2>1, <3>1 DEF NoRoom, Recorded
  <2>4. history = h
    BY <2>2, <2>3 DEF Extended
  <2>5. /\ at' = "run"
        /\ UNCHANGED <<mem, max_statl, dbg_first, state, lens, history>>
    BY <1>3 DEF NoRoom
  <2>6. MonitorTypeOK'
    BY <1>0, <2>5 DEF MonitorTypeOK, InExcp
  <2>7. FileOK'
    BY <2>1, <2>2, <2>4, <2>5 DEF FileOK, InExcp, Shows, HeaderShown, statl
  <2> QED
    BY <2>6, <2>7 DEF MonitorInv
<1>4. CASE WriteMessage
  <2>1. InExcp /\ HeaderShown /\ max_statl = NameLen[NetDown] /\ at = "message"
    BY <1>0, <1>4, MonitorAssumption DEF WriteMessage, InExcp, FileOK, HeaderShown, statl, MonitorTypeOK
  <2>2. PICK h \in Seq(Cells) :
           /\ Shows(mem, max_statl, h) /\ (dbg_first => h = <<>>)
           /\ history = Extended(h, Len(lens), dbgl)
    BY <1>0, <2>1 DEF FileOK
  <2>3. Recorded(dbgl)
    <3>1. dbgl \in Nat /\ MSIZE \in Nat /\ max_statl \in Nat
      BY <1>0, <2>1, NewestLength, MonitorAssumption DEF MonitorTypeOK
    <3> QED
      BY <1>4, <2>1, <3>1 DEF WriteMessage, Recorded
  <2>4. history = Message(Len(lens), dbgl) \o <<Blank>> \o h
    BY <2>2, <2>3 DEF Extended
  <2>5. /\ DOMAIN mem' = 1 .. MSIZE + Slack
        /\ Shows(mem', max_statl, history)
        /\ \A c \in 1 .. statl : mem'[c] = HeaderCell(state, c)
    BY <1>0, <1>4, <2>1, <2>2, <2>4, MessageInFront
  <2>6. /\ at' = "trigger" /\ dbg_first' = FALSE
        /\ UNCHANGED <<max_statl, state, lens, history>>
    BY <1>4 DEF WriteMessage
  <2>7. MonitorTypeOK'
    BY <1>0, <2>5, <2>6 DEF MonitorTypeOK, InExcp
  <2>8. HeaderShown'
    BY <2>1, <2>5, <2>6 DEF HeaderShown, statl
  <2>9. NewestShown'
    <3>1. /\ MSIZE \in Nat /\ Slack \in Nat /\ max_statl \in Nat /\ statl = max_statl
          /\ dbgl \in Nat /\ Len(lens) > 0 /\ Len(lens) \in Nat
      BY <1>0, <2>1, NewestLength, MonitorAssumption DEF MonitorTypeOK, statl
    <3>2. max_statl + dbgl <= MSIZE
      BY <1>4, <3>1 DEF WriteMessage
    <3>3. \A i \in 1 .. dbgl : mem'[max_statl + i] = MsgCell(Len(lens), i)
      <4> SUFFICES ASSUME NEW i \in 1 .. dbgl
                   PROVE  mem'[max_statl + i] = MsgCell(Len(lens), i)
        OBVIOUS
      <4>1. /\ max_statl + i \in DOMAIN mem
            /\ max_statl + i \in max_statl + 1 .. max_statl + dbgl
            /\ (max_statl + i) - max_statl = i
        BY <1>0, <3>1, <3>2 DEF MonitorTypeOK
      <4> QED
        BY <1>4, <4>1 DEF WriteMessage
    <3> QED
      BY <2>6, <3>1, <3>2, <3>3 DEF NewestShown, statl, dbgl
  <2>10. FileOK'
    BY <2>5, <2>6, <2>8, <2>9 DEF FileOK, InExcp, Shows
  <2> QED
    BY <2>7, <2>10 DEF MonitorInv
<1>5. CASE Trigger
  <2>1. /\ at = "trigger" /\ at' = "run"
        /\ UNCHANGED <<mem, max_statl, dbg_first, state, lens, history>>
    BY <1>5 DEF Trigger
  <2>2. MonitorTypeOK'
    BY <1>0, <2>1 DEF MonitorTypeOK, InExcp
  <2>3. FileOK'
    BY <1>0, <2>1 DEF FileOK, InExcp, Shows, HeaderShown, statl
  <2> QED
    BY <2>2, <2>3 DEF MonitorInv
<1>6. CASE Switch
  <2>1. /\ at = "run" /\ at' = "header" /\ state' \in States
        /\ UNCHANGED <<mem, max_statl, dbg_first, lens, history>>
    BY <1>6 DEF Switch
  <2>2. MonitorTypeOK'
    BY <1>0, <2>1 DEF MonitorTypeOK, InExcp
  <2>3. FileOK'
    BY <1>0, <2>1 DEF FileOK, InExcp, Shows
  <2> QED
    BY <2>2, <2>3 DEF MonitorInv
<1>7. CASE Exception
  <2>1. PICK d \in MsgLens :
           /\ at = "run" /\ state' = NetDown /\ lens' = Append(lens, d)
           /\ history' = Extended(history, Len(lens) + 1, d)
           /\ at' = "exception"
           /\ UNCHANGED <<mem, max_statl, dbg_first>>
    BY <1>7 DEF Exception, Extended
  <2>2. /\ lens \in Seq(MsgLens) /\ history \in Seq(Cells) /\ d \in Nat
        /\ Shows(mem, max_statl, history) /\ (dbg_first => history = <<>>)
    BY <1>0, <2>1, MonitorAssumption DEF MonitorTypeOK, FileOK, InExcp
  <2>3. /\ lens' \in Seq(MsgLens) /\ Len(lens') = Len(lens) + 1 /\ dbgl' = d
        /\ Len(lens') > 0
    BY <2>1, <2>2 DEF dbgl
  <2>4. history' \in Seq(Cells)
    <3>1. Message(Len(lens) + 1, d) \in Seq(Cells)
      BY <2>2, MessageCells
    <3>2. <<Blank>> \in Seq(Cells)
      BY BlankCell
    <3>3. Message(Len(lens) + 1, d) \o <<Blank>> \o history \in Seq(Cells)
      BY <2>2, <3>1, <3>2
    <3> QED
      BY <2>1, <2>2, <3>3 DEF Extended
  <2>5. MonitorTypeOK'
    BY <1>0, <2>1, <2>3, <2>4, MonitorAssumption DEF MonitorTypeOK, InExcp
  <2>6. Shows(mem', max_statl', history) /\ (dbg_first' => history = <<>>)
    BY <2>1, <2>2 DEF Shows
  <2>7. history' = Extended(history, Len(lens'), dbgl')
    BY <2>1, <2>3
  <2>8. FileOK'
    BY <2>1, <2>2, <2>6, <2>7 DEF FileOK, InExcp
  <2> QED
    BY <2>5, <2>8 DEF MonitorInv
<1>8. CASE ReadEvent
  BY <1>8, MonitorKeeps DEF ReadEvent
<1>9. CASE Log
  BY <1>9, MonitorKeeps DEF Log
<1>10. CASE UNCHANGED monitorVars
  BY <1>10, MonitorKeeps DEF monitorVars
<1> QED
  BY <1>1, <1>2, <1>3, <1>4, <1>5, <1>6, <1>7, <1>8, <1>9, <1>10 DEF Next, mon_update

\* What every run of the daemon and of vcinot keeps true of the file.
THEOREM MonitorInvariance == Spec => []MonitorInv
<1> QED
  BY MonitorInit, MonitorStep, PTL DEF Spec

\* Between two calls of mon_update (vcom_monitor_dbg.h 52-123) the file shows the
\* state on the top of the stack and behind the header every recorded exception that
\* still fits, the newest first, each whole and followed by a blank, and blanks
\* behind the oldest.
THEOREM MonitorMostRecentFirst == Spec => []MostRecentFirst
<1>1. MonitorInv => MostRecentFirst
  <2> SUFFICES ASSUME MonitorInv, at = "run" PROVE MostRecentFirst
    BY DEF MostRecentFirst
  <2>1. HeaderShown /\ Shows(mem, max_statl, history)
    BY DEF MonitorInv, FileOK, InExcp
  <2> QED
    BY <2>1 DEF MostRecentFirst, HeaderShown, Shows, Told
<1> QED
  BY <1>1, MonitorInvariance, PTL

\* When the kernel is about to report a change, vcinot would find the newest message
\* whole in the file, and logger would get as far as it.
TriggeredIsVisible == at = "trigger" => Visible(Len(lens))

\* What mon_update reports to vcinot (ftruncate at vcom_monitor_dbg.h 121) is there to
\* be read when it reports it: the message is not cut off, and no NUL of the header
\* stands before it.
THEOREM MonitorReportsTheVisible == Spec => []TriggeredIsVisible
<1>1. MonitorInv => TriggeredIsVisible
  <2> SUFFICES ASSUME MonitorInv, at = "trigger" PROVE Visible(Len(lens))
    BY DEF TriggeredIsVisible
  <2>1. MonitorTypeOK /\ HeaderShown /\ NewestShown
    BY DEF MonitorInv, FileOK
  <2>2. lens \in Seq(MsgLens) /\ Len(lens) > 0
    BY <2>1 DEF MonitorTypeOK, NewestShown
  <2>3. Len(lens) \in DOMAIN lens /\ dbgl \in Nat /\ dbgl > 0
    <3>1. Len(lens) \in DOMAIN lens /\ dbgl \in MsgLens
      BY <2>2 DEF dbgl
    <3> QED
      BY <3>1, MonitorAssumption
  <2>4. /\ MSIZE \in Nat /\ max_statl \in Nat /\ statl = max_statl
        /\ max_statl + dbgl <= MSIZE
    BY <2>1, MonitorAssumption DEF MonitorTypeOK, NewestShown
  <2>5. Whole(Len(lens))
    <3> DEFINE c == max_statl + 1
    <3>1. c \in 1 .. MSIZE - dbgl + 1
      BY <2>3, <2>4
    <3>2. ASSUME NEW i \in 1 .. dbgl PROVE mem[c + i - 1] = MsgCell(Len(lens), i)
      <4>1. c + i - 1 = max_statl + i
        BY <2>3, <2>4
      <4> QED
        BY <2>1, <4>1 DEF NewestShown
    <3> HIDE DEF c
    <3> QED
      BY <2>3, <3>1, <3>2 DEF Whole, dbgl
  <2>6. \A c \in 1 .. max_statl : mem[c] # Nul
    <3> SUFFICES ASSUME NEW c \in 1 .. max_statl PROVE mem[c] # Nul
      OBVIOUS
    <3>1. mem[c] = HeaderCell(state, c)
      BY <2>1, <2>4 DEF HeaderShown
    <3>2. state # ""
      BY <2>1, StateNamesAssumption DEF MonitorTypeOK
    <3>3. HeaderCell(state, c).header = state /\ Nul.header = ""
      BY DEF HeaderCell, Nul, Cell
    <3> QED
      BY <3>1, <3>2, <3>3
  <2> QED
    BY <2>5, <2>6 DEF Visible
<1> QED
  BY <1>1, MonitorInvariance, PTL

============================================================================
