------------------------------ MODULE Advttyd ------------------------------
(***************************************************************************)
(* The service around the ports.  An administrator edits the configuration *)
(* with advadd and advrm and runs advman; advman runs advttyd, which reads *)
(* the configuration and, entry by entry, looks through /proc for the      *)
(* daemon that has the port's file open, kills it if its command line is   *)
(* not the configured one, and starts a new one in the background          *)
(* (initd/advttyd.c).  A daemon opens its file some time after its start.  *)
(***************************************************************************)
EXTENDS AdvConf

CONSTANTS
    Pids,          \* process numbers of daemons
    Conf0,         \* the configuration to begin with
    Adds,          \* the lines an administrator may add
    Removes,       \* the port numbers an administrator may remove
    Budget         \* how often each of the Events may happen

Events == {"edit", "run", "stop", "death", "race"}

ASSUME ServiceAssumption == /\ IsFiniteSet(Pids) /\ Budget \in [Events -> Nat]
                            /\ Adds \subseteq Line /\ Removes \subseteq Nat

VARIABLES
    conf,          \* advttyd.conf
    rewriting,     \* sort has emptied the file and not yet filled it
    proc,          \* the daemons: their state and their command line
    at,            \* where advttyd is; "idle" when it does not run
    ttyinfo,       \* what paser_config returned
    idx,           \* the entry spawn_ttyp is at
    seen,          \* the processes the search has looked at
    old,           \* the daemon it has found and its command line, or NoOld
    stale,         \* the static DIR of __pid_search_fd is a closed one
    stopping,      \* advman has killed the daemons and not yet advttyd
    undisturbed,   \* since the last start of advttyd no daemon was killed by others,
                   \* advttyd was not cut short and the file was there to read
    blind,         \* advttyd was run before the daemons of an earlier run had
                   \* opened their files or with two entries for a port, or its
                   \* search has raced
    left           \* what remains of Budget

vars == <<conf, rewriting, proc, at, ttyinfo, idx, seen, old, stale, stopping,
          undisturbed, blind, left>>
files == <<conf, rewriting>>
search == <<seen, old, stale>>

NoProc == [st |-> "none", cmd |-> None]
NoOld == [pid |-> None, cmd |-> None]
Live == {p \in Pids : proc[p].st # "none"}
Settled == \A p \in Pids : proc[p].st # "starting"
nrport == Len(ttyinfo)
Entry == ttyinfo[idx]

\* (Where the scripts do not recognise a line they add the port's next beside it.)
OneEntryPerPort ==
    \A i, j \in 1 .. nrport : ttyinfo[i].minor = ttyinfo[j].minor => i = j

Happens(e) == left[e] > 0 /\ left' = [left EXCEPT ![e] = @ - 1]

Init ==
    /\ conf = Conf0 /\ rewriting = FALSE
    /\ proc = [p \in Pids |-> NoProc]
    /\ at = "idle" /\ ttyinfo = <<>> /\ idx = 1
    /\ seen = {} /\ old = NoOld /\ stale = FALSE
    /\ stopping = FALSE /\ undisturbed = FALSE /\ blind = FALSE
    /\ left = Budget

----------------------------------------------------------------------------
(* The administrator and the rest of the machine.                          *)

\* advadd, and advrm or advls, whose cleanUp empties the file before it writes it.
Edit ==
    /\ ~rewriting /\ Happens("edit")
    /\ \/ \E l \in Adds : conf' = advadd(conf, l) /\ UNCHANGED rewriting
       \/ \E m \in Removes : conf' \in advrm(conf, m) /\ rewriting' = TRUE
       \/ conf' \in advls(conf) /\ rewriting' = TRUE
    /\ UNCHANGED <<proc, at, ttyinfo, idx, search, stopping, undisturbed, blind>>

cleanUp ==
    /\ rewriting /\ rewriting' = FALSE
    /\ UNCHANGED <<conf, proc, at, ttyinfo, idx, search, stopping, undisturbed, blind, left>>

\* advman -o start and advman -o restart are the same.
startDeamon ==
    /\ at = "idle" /\ ~stopping /\ Happens("run")
    /\ ttyinfo' = paser_config(IF rewriting THEN <<>> ELSE conf)
    /\ at' = IF nrport' = 0 THEN "idle" ELSE "search"
    /\ idx' = 1 /\ seen' = {} /\ old' = NoOld /\ stale' = FALSE
    /\ undisturbed' = ~rewriting /\ blind' = (blind \/ ~Settled \/ ~OneEntryPerPort')
    /\ UNCHANGED <<files, proc, stopping>>

\* advman -o stop: killall vcomd, then killall advttyd.
stopService ==
    /\ ~stopping /\ Happens("stop")
    /\ proc' = [p \in Pids |-> NoProc]
    /\ stopping' = TRUE /\ undisturbed' = FALSE
    /\ UNCHANGED <<files, at, ttyinfo, idx, search, blind>>

stopDeamon ==
    /\ stopping /\ stopping' = FALSE
    /\ at' = "idle" /\ stale' = FALSE
    /\ UNCHANGED <<files, proc, ttyinfo, idx, seen, old, undisturbed, blind, left>>

\* A daemon ends by itself (an ioctl fails) or is killed by hand.
DaemonDies(p) ==
    /\ proc[p].st # "none" /\ Happens("death")
    /\ proc' = [proc EXCEPT ![p] = NoProc]
    /\ undisturbed' = FALSE
    /\ UNCHANGED <<files, at, ttyinfo, idx, search, stopping, blind>>

\* The start of vcomd: it needs a device number that is not 0 in 16 bits, and a
\* file /proc/vcom/advproc<minor>; otherwise it ends.
Serviceable(l) == l.minor < Ports /\ l.type % 65536 # 0

DaemonOpens(p) ==
    /\ proc[p].st = "starting"
    /\ proc' = [proc EXCEPT ![p] = IF Serviceable(@.cmd)
                                    THEN [st |-> "open", cmd |-> @.cmd] ELSE NoProc]
    /\ UNCHANGED <<files, at, ttyinfo, idx, search, stopping, undisturbed, blind, left>>

----------------------------------------------------------------------------
(* advttyd                                                                 *)

\* Process p is a daemon and has the entry's proc file open.
HasFile_BUG(p) == proc[p].st = "open"
HasFile(p) == proc[p].st = "open" /\ proc[p].cmd.minor = Entry.minor

\* What the search has looked at with p: the DIR of /proc goes on where it was.
Looked_BUG(p) == seen
Looked(p) == seen \cup {p}

\* One round of __cmd_search_file: the next daemon in /proc.  Where the static DIR
\* is a closed one, __pid_search_fd reads freed memory: it may still find the
\* file, report that it is not there, with the DIR forgotten or left closed as it
\* was, or abort the program.
Examine(p) ==
    /\ at = "search" /\ p \in Live \ seen
    /\ seen' = Looked(p)
    /\ \/ /\ HasFile(p)
          /\ at' = "found" /\ old' = [pid |-> p, cmd |-> proc[p].cmd] /\ stale' = FALSE
       \/ /\ stale \/ ~HasFile(p)
          /\ stale' = FALSE \/ UNCHANGED stale
          /\ UNCHANGED <<at, old>>
    /\ UNCHANGED <<files, proc, ttyinfo, idx, stopping, undisturbed, blind, left>>

\* The daemon closes a descriptor between lstat and readlink: the DIR is closed
\* and not forgotten.
ExamineRaces(p) ==
    /\ at = "search" /\ p \in Live \ seen /\ ~stale /\ Happens("race")
    /\ seen' = Looked(p) /\ stale' = TRUE /\ undisturbed' = FALSE /\ blind' = TRUE
    /\ UNCHANGED <<files, proc, at, ttyinfo, idx, old, stopping>>

Abort ==
    /\ at = "search" /\ stale
    /\ at' = "idle" /\ stale' = FALSE
    /\ UNCHANGED <<files, proc, ttyinfo, idx, seen, old, stopping, undisturbed, blind, left>>

SearchEnds ==
    /\ at = "search" /\ Live \subseteq seen
    /\ at' = "start"
    /\ UNCHANGED <<files, proc, ttyinfo, idx, search, stopping, undisturbed, blind, left>>

\* On to the next entry, or the end.
NextEntry ==
    /\ idx' = IF idx < nrport THEN idx + 1 ELSE idx
    /\ at' = IF idx < nrport THEN "search" ELSE "idle"
    /\ seen' = {} /\ old' = NoOld /\ stale' = stale

\* strcmp(syscmd, oldcmd): the daemon is as configured.
SameCommand_BUG == old # NoOld
SameCommand == old.cmd = Entry

Keep ==
    /\ at = "found" /\ SameCommand
    /\ NextEntry
    /\ UNCHANGED <<files, proc, ttyinfo, stopping, undisturbed, blind, left>>

\* kill -9 of a daemon that may have ended meanwhile.
killcmd_BUG == proc
killcmd == [proc EXCEPT ![old.pid] = NoProc]

Kill ==
    /\ at = "found" /\ ~SameCommand
    /\ proc' = killcmd
    /\ at' = "start"
    /\ UNCHANGED <<files, ttyinfo, idx, search, stopping, undisturbed, blind, left>>

\* The command line and "&", given to the shell.
Start ==
    /\ at = "start"
    /\ \E p \in Pids \ Live : proc' = [proc EXCEPT ![p] = [st |-> "starting", cmd |-> Entry]]
    /\ NextEntry
    /\ UNCHANGED <<files, ttyinfo, stopping, undisturbed, blind, left>>

----------------------------------------------------------------------------

\* Nothing is to be done.
Rest ==
    /\ at = "idle" /\ ~rewriting /\ ~stopping /\ Settled
    /\ UNCHANGED vars

advttyd == SearchEnds \/ Keep \/ Kill \/ Start \/ \E p \in Pids : Examine(p)

Next ==
    \/ Edit \/ cleanUp \/ startDeamon \/ stopService \/ stopDeamon
    \/ \E p \in Pids : DaemonDies(p) \/ DaemonOpens(p) \/ ExamineRaces(p)
    \/ advttyd \/ Abort \/ Rest

\* Programs that were started go on.
Fairness == WF_vars(advttyd) /\ WF_vars(cleanUp) /\ \A p \in Pids : WF_vars(DaemonOpens(p))

Spec == Init /\ [][Next]_vars
FairSpec == Spec /\ Fairness

----------------------------------------------------------------------------

\* No port has two daemons, whatever is edited, killed, stopped or run again, and
\* though advttyd may be run while sort rewrites the file or be killed half-way.  It
\* takes that nobody runs it with two entries for a port or before the daemons of the
\* last run have opened their files, and no race in __pid_search_fd.
OneDaemonPerPort ==
    ~blind => \A p, q \in Live : proc[p].cmd.minor = proc[q].cmd.minor => p = q

\* advttyd never kills a daemon whose command is configured, as the port's only one,
\* even if it runs too early, reads the file while sort rewrites it, or is cut short.
ConfiguredDaemonSurvives ==
    [][\A p \in Pids, i \in 1 .. nrport :
           /\ OneEntryPerPort
           /\ at = "found" /\ at' # "found"
           /\ proc[p].st # "none" /\ proc[p].cmd = ttyinfo[i]
           => proc'[p] = proc[p]]_vars

\* When advttyd is through and nothing has disturbed it, every line it accepted
\* has a daemon with the command configured, if no port has two.
EntriesServed ==
    at = "idle" /\ undisturbed /\ OneEntryPerPort =>
        \A i \in 1 .. nrport :
            Serviceable(ttyinfo[i]) => \E p \in Live : proc[p].cmd = ttyinfo[i]

\* The daemons agree with the file at last, and stay so: a line that advttyd has read
\* in its last run has a daemon that keeps its port open, if the port has no other line
\* there and the run is not disturbed then or later.
LineTakesEffect ==
    \A l \in Adds :
        <>[](/\ undisturbed /\ OneEntryPerPort /\ Serviceable(l)
             /\ \E i \in 1 .. nrport : ttyinfo[i] = l)
        => <>[](\E p \in Pids : proc[p] = [st |-> "open", cmd |-> l])

============================================================================
