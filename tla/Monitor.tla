------------------------------ MODULE Monitor ------------------------------
(***************************************************************************)
(* The monitor file of a daemon (daemon/vcom_monitor_dbg.h) and vcinot     *)
(* (inotify/vcom_inotf.c), which watches it.  The daemon maps the file and *)
(* keeps in it a header, with the state on the top of its stack, and after *)
(* the header the messages of its exceptions, the newest first, each       *)
(* followed by a blank.  Only an exception makes the kernel report a       *)
(* change; vcinot then sends the whole file to the system's log.           *)
(* A cell of the file is a blank, a part of the header, or the part i of   *)
(* the message of exception k.                                             *)
(***************************************************************************)
EXTENDS Naturals, Sequences

CONSTANTS
    MSIZE,         \* the size of the file
    Slack,         \* cells of the mapped page behind the file
    States,        \* the states of the daemon
    NetDown,       \* the state at the bottom of the stack
    NameLen,       \* NameLen[s]: the length of a header with the name of s
    MsgLens,       \* the lengths of the messages, CUTTER included
    MaxExceptions  \* bound: exceptions

ASSUME MonitorAssumption ==
    /\ MSIZE \in Nat /\ Slack \in Nat /\ MaxExceptions \in Nat
    /\ NetDown \in States
    /\ NameLen \in [States -> 1 .. MSIZE - 2]
    /\ \A s \in States : NameLen[s] <= NameLen[NetDown]     \* "Net Down" is the longest
    /\ MsgLens \subseteq Nat \ {0}

ASSUME StateNamesAssumption == "" \notin States

VARIABLES
    mem,         \* the mapped page: cells 1 .. MSIZE are the file
    max_statl, dbg_first,
    state,       \* the state on the top of the daemon's stack
    lens,        \* the lengths of the messages so far, the oldest first
    at,          \* "run", or inside mon_update: "header", "message" or "trigger"
    notice,      \* an event of the file that vcinot has not read
    vcinot,      \* "read", or "log" while it runs logger
    syslog,      \* the exceptions whose message is in the system's log
    history      \* auxiliary: the recorded messages, the newest first, each with its blank

monitorVars == <<mem, max_statl, dbg_first, state, lens, at, notice, vcinot, syslog,
                 history>>

Cell(s, k, i) == [header |-> s, exception |-> k, part |-> i]
Blank == Cell("", 0, 0)
Nul == Cell("", 0, 1)
HeaderCell(s, i) == Cell(s, 0, i)
MsgCell(k, i) == Cell("", k, i)

Init ==
    /\ mem = [c \in 1 .. MSIZE + Slack |-> Blank]
    /\ max_statl = 0 /\ dbg_first = TRUE
    /\ state = NetDown /\ lens = <<>>
    /\ at = "header"                       \* the first stk_push calls mon_update
    /\ notice = FALSE /\ vcinot = "read" /\ syslog = {} /\ history = <<>>

\* memmove: n cells from place src to place dst.
memmove(m, dst, src, n) ==
    [c \in DOMAIN m |-> IF dst <= c /\ c < dst + n THEN m[c - dst + src] ELSE m[c]]

least(a, b) == IF a < b THEN a ELSE b
greatest(a, b) == IF a < b THEN b ELSE a

\* The header is as long as the longest there was; the history moves if it grows.
\* snprintf ends a shorter one with a NUL.
statl == NameLen[state]
Header(m) ==
    [c \in DOMAIN m |->
        IF c > greatest(statl, max_statl) THEN m[c]
        ELSE IF c <= statl THEN HeaderCell(state, c)
        ELSE IF c = statl + 1 THEN Nul ELSE Blank]

Grown(m) == IF statl > max_statl
            THEN memmove(m, statl + 1, max_statl + 1, MSIZE - statl) ELSE m

\* The header; stk_push, stk_pop, stk_rpls and stk_restart do no more than that.
WriteHeader ==
    /\ at = "header"
    /\ mem' = Header(Grown(mem))
    /\ max_statl' = greatest(statl, max_statl)
    /\ at' = "run"
    /\ UNCHANGED <<dbg_first, state, lens, notice, vcinot, syslog, history>>

Switch == \E s \in States \ {state} :
    /\ at = "run"
    /\ state' = s
    /\ at' = "header"
    /\ UNCHANGED <<mem, max_statl, dbg_first, lens, notice, vcinot, syslog, history>>

\* A message that leaves no room for a cell behind the longest header is not recorded.
Recorded(d) == MSIZE - d - NameLen[NetDown] > 1
Message(k, d) == [i \in 1 .. d |-> MsgCell(k, i)]

\* stk_excp, above the bottom of the stack: down to Net Down, with a message.
Exception == \E d \in MsgLens :
    /\ at = "run" /\ state # NetDown /\ Len(lens) < MaxExceptions
    /\ state' = NetDown
    /\ lens' = Append(lens, d)
    /\ history' = IF Recorded(d) THEN Message(Len(lens) + 1, d) \o <<Blank>> \o history
                  ELSE history
    /\ at' = "exception"
    /\ UNCHANGED <<mem, max_statl, dbg_first, notice, vcinot, syslog>>

WriteExceptionHeader ==
    /\ at = "exception"
    /\ mem' = Header(Grown(mem))
    /\ max_statl' = greatest(statl, max_statl)
    /\ at' = "message"
    /\ UNCHANGED <<dbg_first, state, lens, notice, vcinot, syslog, history>>

dbgl == lens[Len(lens)]

\* The older messages move back by the new one and a blank.
Shifted_BUG(m) == memmove(m, max_statl + dbgl + 1, max_statl + 1, MSIZE - statl - dbgl)
Shifted(m) ==
    IF dbg_first THEN m
    ELSE memmove(m, max_statl + dbgl + 2, max_statl + 1, MSIZE - statl - dbgl)

\* A message that leaves no room for a cell is not recorded, and reported to nobody.
NoRoom ==
    /\ at = "message" /\ MSIZE - dbgl - max_statl <= 1
    /\ at' = "run"
    /\ UNCHANGED <<mem, max_statl, dbg_first, state, lens, notice, vcinot, syslog, history>>

WriteMessage ==
    /\ at = "message" /\ MSIZE - dbgl - max_statl > 1
    /\ mem' = [c \in DOMAIN mem |->
                  IF c \in max_statl + 1 .. max_statl + dbgl
                  THEN MsgCell(Len(lens), c - max_statl)
                  ELSE IF c = max_statl + dbgl + 1 THEN Blank ELSE Shifted(mem)[c]]
    /\ dbg_first' = FALSE
    /\ at' = "trigger"
    /\ UNCHANGED <<max_statl, state, lens, notice, vcinot, syslog, history>>

\* ftruncate to the size the file has: the kernel reports a change.
Notice_BUG == notice
Notice == TRUE

Trigger ==
    /\ at = "trigger"
    /\ notice' = Notice
    /\ at' = "run"
    /\ UNCHANGED <<mem, max_statl, dbg_first, state, lens, vcinot, syslog, history>>

\* One read of the queue of events.
ReadEvent ==
    /\ vcinot = "read" /\ notice
    /\ notice' = FALSE
    /\ vcinot' = "log"
    /\ UNCHANGED <<mem, max_statl, dbg_first, state, lens, at, syslog, history>>

Whole(k) ==
    /\ k \in DOMAIN lens
    /\ \E c \in 1 .. MSIZE - lens[k] + 1 :
           \A i \in 1 .. lens[k] : mem[c + i - 1] = MsgCell(k, i)

\* logger takes a NUL for the end of a line's text, and the file is one line.
Visible(k) == Whole(k) /\ \A c \in 1 .. max_statl : mem[c] # Nul

\* system("logger -f ..."), in a loop (option -l).
Log ==
    /\ vcinot = "log"
    /\ syslog' = syslog \cup {k \in DOMAIN lens : Visible(k)}
    /\ vcinot' = "read"
    /\ UNCHANGED <<mem, max_statl, dbg_first, state, lens, at, notice, history>>

mon_update == WriteHeader \/ WriteExceptionHeader \/ NoRoom \/ WriteMessage \/ Trigger

Next == mon_update \/ Switch \/ Exception \/ ReadEvent \/ Log

Spec == Init /\ [][Next]_monitorVars

\* Both programs run; nothing makes the daemon change its state.
FairSpec == Spec /\ WF_monitorVars(mon_update) /\ WF_monitorVars(ReadEvent \/ Log)
----------------------------------------------------------------------------

\* Between two calls of mon_update the file shows the present state and, behind it,
\* the exceptions, the most recent first and each whole; only the oldest are cut off
\* at the end of the file.
MostRecentFirst ==
    at = "run" =>
        /\ \A c \in 1 .. statl : mem[c] = HeaderCell(state, c)
        /\ \A c \in max_statl + 1 .. MSIZE :
               mem[c] = IF c - max_statl <= Len(history) THEN history[c - max_statl] ELSE Blank

\* An exception that is recorded reaches the system's log, even if it happens while
\* vcinot is busy with an earlier one, unless before logger reads the file it has
\* been pushed out of it, or the daemon has changed to a state with a shorter name,
\* whose NUL hides the history.
Pushed == \A k \in 1 .. MaxExceptions :
    (at = "trigger" /\ k = Len(lens)) ~> (k \in syslog \/ ~Visible(k))

============================================================================
