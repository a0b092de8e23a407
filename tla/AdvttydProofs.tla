--------------------------- MODULE AdvttydProofs ---------------------------
(***************************************************************************)
(* Theorems about the service: for every configuration, every number of    *)
(* processes and any number of edits, runs, stops and deaths.  Nothing is  *)
(* supposed of what the scripts write and the filter lets pass.            *)
(***************************************************************************)
EXTENDS Advttyd, FiniteSetTheorems, TLAPS

----------------------------------------------------------------------------
(* The search.                                                             *)

\* advttyd is at an entry there is, and the daemon it has found has the entry's port
\* open, unless it has ended since: no process number is used again meanwhile.
SearchInv ==
    /\ at \in {"idle", "search", "found", "start"}
    /\ idx \in Nat /\ (at # "idle" => idx \in 1 .. nrport)
    /\ proc = [p \in Pids |-> proc[p]]
    /\ \A p \in Pids : proc[p].st \in {"none", "starting", "open"}
    /\ at = "found" =>
           /\ old.pid \in Pids /\ old.cmd.minor = Entry.minor
           /\ proc[old.pid].st = "none" \/ (proc[old.pid].st = "open" /\ proc[old.pid].cmd = old.cmd)

\* It holds of a service that was never run.
LEMMA SearchInit == Init => SearchInv
  BY DEF Init, SearchInv, NoProc

\* Only advttyd moves on, and only where there is an entry left.
LEMMA SearchNext == SearchInv /\ [Next]_vars => SearchInv'
<1> SUFFICES ASSUME SearchInv, [Next]_vars PROVE SearchInv'
  OBVIOUS
<1> USE DEF SearchInv, nrport, Entry, files, search
<1>1. nrport \in Nat /\ nrport' \in Nat
  BY DEF nrport
<1>2. CASE Edit \/ cleanUp
  BY <1>2 DEF Edit, cleanUp
<1>3. CASE startDeamon
  BY <1>1, <1>3 DEF startDeamon
<1>4. CASE stopService
  BY <1>4 DEF stopService, NoProc
<1>5. CASE stopDeamon
  BY <1>5 DEF stopDeamon
<1>6. ASSUME NEW p \in Pids, DaemonDies(p)
      PROVE  SearchInv'
  BY <1>6 DEF DaemonDies, NoProc
<1>7. ASSUME NEW p \in Pids, DaemonOpens(p)
      PROVE  SearchInv'
  BY <1>7 DEF DaemonOpens, NoProc
<1>8. ASSUME NEW p \in Pids, ExamineRaces(p)
      PROVE  SearchInv'
  BY <1>8 DEF ExamineRaces
<1>9. ASSUME NEW p \in Pids, Examine(p)
      PROVE  SearchInv'
  BY <1>9 DEF Examine, HasFile
<1>10. CASE SearchEnds \/ Abort
  BY <1>10 DEF SearchEnds, Abort
<1>11. CASE Keep
  BY <1>1, <1>11 DEF Keep, NextEntry
<1>12. CASE Kill
  BY <1>12 DEF Kill, killcmd, NoProc
<1>13. CASE Start
  <2>1. PICK p \in Pids \ Live : proc' = [proc EXCEPT ![p] = [st |-> "starting", cmd |-> Entry]]
    BY <1>13 DEF Start
  <2>2. \A q \in Pids : proc'[q].st \in {"none", "starting", "open"}
    BY <2>1
  <2>3. proc' = [q \in Pids |-> proc'[q]]
    BY <2>1
  <2>4. at' \in {"idle", "search"} /\ idx' \in Nat /\ (at' # "idle" => idx' \in 1 .. nrport')
    BY <1>1, <1>13 DEF Start, NextEntry
  <2> QED
    BY <2>2, <2>3, <2>4
<1>14. CASE Rest \/ UNCHANGED vars
  BY <1>14 DEF Rest, vars
<1> QED
  BY <1>2, <1>3, <1>4, <1>5, <1>6, <1>7, <1>8, <1>9, <1>10, <1>11, <1>12, <1>13, <1>14
  DEF Next, advttyd

\* advttyd never reads behind its entries, nor forgets which daemon it has found.
THEOREM SearchInvariant == Spec => []SearchInv
  BY SearchInit, SearchNext, PTL DEF Spec

----------------------------------------------------------------------------
(* What advttyd knows, unless it is blind.                                 *)

\* The daemons that have not opened their files are those of earlier entries, and the
\* search has not missed one that has: when advttyd starts a daemon the port has none.
PortsKnown ==
    /\ stale => blind
    /\ ~blind =>
          /\ OneEntryPerPort
          /\ \A p, q \in Live : proc[p].cmd.minor = proc[q].cmd.minor => p = q
          /\ at # "idle" =>
                \A p \in Pids : proc[p].st = "starting" =>
                    \E i \in 1 .. idx - 1 : proc[p].cmd = ttyinfo[i]
          /\ at = "search" => \A p \in seen \cap Live : proc[p].cmd.minor # Entry.minor
          /\ at = "found" => \A p \in Live : proc[p].cmd.minor = Entry.minor => p = old.pid
          /\ at = "start" => \A p \in Live : proc[p].cmd.minor # Entry.minor

\* Without daemons there is nothing to know.
LEMMA PortsInit == Init => PortsKnown
  BY DEF Init, PortsKnown, NoProc, Live, OneEntryPerPort, nrport

\* Daemons that end, or open their files, change nothing of it.
LEMMA PortsKept ==
    ASSUME SearchInv, PortsKnown,
           UNCHANGED <<at, ttyinfo, idx, seen, old>>,
           stale' => stale, blind => blind',
           \A p \in Pids :
               \/ proc'[p].st = "none"
               \/ /\ proc[p].st # "none" /\ proc'[p].cmd = proc[p].cmd
                  /\ proc'[p].st = "starting" => proc[p].st = "starting"
    PROVE  PortsKnown'
<1> USE DEF PortsKnown, nrport, Entry, OneEntryPerPort
<1>1. \A p \in Live' : p \in Live /\ proc'[p].cmd = proc[p].cmd
  BY DEF Live
<1>2. \A p \in Pids : proc'[p].st = "starting" =>
          proc[p].st = "starting" /\ proc'[p].cmd = proc[p].cmd
  OBVIOUS
<1> QED
  BY <1>1, <1>2

\* No step starts a second daemon or lets the search miss one.
LEMMA PortsNext == SearchInv /\ PortsKnown /\ [Next]_vars => PortsKnown'
<1> SUFFICES ASSUME SearchInv, PortsKnown, [Next]_vars PROVE PortsKnown'
  OBVIOUS
<1> USE DEF files, search
<1>1. CASE Edit \/ cleanUp \/ Rest \/ UNCHANGED vars
  BY <1>1, PortsKept DEF Edit, cleanUp, Rest, vars, SearchInv
<1>2. CASE startDeamon
  <2>1. ~blind' => OneEntryPerPort' /\ ~blind /\ \A p \in Pids : proc'[p].st # "starting"
    BY <1>2 DEF startDeamon, Settled
  <2>2. ~blind => \A p, q \in Live : proc[p].cmd.minor = proc[q].cmd.minor => p = q
    BY DEF PortsKnown
  <2>3. Live' = Live /\ proc' = proc /\ seen' = {} /\ at' \in {"idle", "search"} /\ ~stale'
    BY <1>2 DEF startDeamon, Live
  <2> QED
    BY <2>1, <2>2, <2>3 DEF PortsKnown
<1>3. CASE stopService
  <2>1. \A p \in Pids : proc'[p].st = "none"
    BY <1>3 DEF stopService, NoProc
  <2> QED
    BY <1>3, <2>1, PortsKept DEF stopService
<1>4. CASE stopDeamon
  <2>1. Live' = Live /\ OneEntryPerPort' = OneEntryPerPort
    BY <1>4 DEF stopDeamon, Live, OneEntryPerPort, nrport
  <2> QED
    BY <1>4, <2>1 DEF stopDeamon, PortsKnown
<1>5. ASSUME NEW p \in Pids, DaemonDies(p)
      PROVE  PortsKnown'
  <2>1. \A q \in Pids : q # p => proc'[q] = proc[q]
    BY <1>5 DEF DaemonDies, SearchInv
  <2>2. proc'[p].st = "none"
    BY <1>5 DEF DaemonDies, SearchInv, NoProc
  <2>3. \A q \in Pids :
            \/ proc'[q].st = "none"
            \/ proc[q].st # "none" /\ proc'[q] = proc[q]
    BY <2>1, <2>2
  <2> QED
    BY <1>5, <2>3, PortsKept DEF DaemonDies
<1>6. ASSUME NEW p \in Pids, DaemonOpens(p)
      PROVE  PortsKnown'
  <2>1. \A q \in Pids : q # p => proc'[q] = proc[q]
    BY <1>6 DEF DaemonOpens, SearchInv
  <2>2. \/ proc'[p].st = "none"
        \/ proc[p].st = "starting" /\ proc'[p].st = "open" /\ proc'[p].cmd = proc[p].cmd
    BY <1>6 DEF DaemonOpens, SearchInv, NoProc
  <2>3. \A q \in Pids :
            \/ proc'[q].st = "none"
            \/ /\ proc[q].st # "none" /\ proc'[q].cmd = proc[q].cmd
               /\ proc'[q].st = "starting" => proc[q].st = "starting"
    BY <2>1, <2>2
  <2> QED
    BY <1>6, <2>3, PortsKept DEF DaemonOpens
<1>7. ASSUME NEW p \in Pids, ExamineRaces(p)
      PROVE  PortsKnown'
  BY <1>7 DEF ExamineRaces, PortsKnown
<1>8. ASSUME NEW p \in Pids, Examine(p)
      PROVE  PortsKnown'
  <2> USE DEF PortsKnown
  <2>1. Live' = Live /\ OneEntryPerPort' = OneEntryPerPort /\ Entry' = Entry /\ nrport' = nrport
    BY <1>8 DEF Examine, Live, OneEntryPerPort, nrport, Entry
  <2>2. CASE blind
    BY <1>8, <2>2 DEF Examine
  <2>3. CASE ~blind
    <3>1. ~stale /\ p \in Live /\ at = "search" /\ UNCHANGED <<proc, ttyinfo, idx, blind>> /\ ~stale'
      BY <1>8, <2>3 DEF Examine
    <3>2. \A q \in Live : proc[q].st = "starting" => proc[q].cmd.minor # Entry.minor
      <4>1. SUFFICES ASSUME NEW q \in Live, proc[q].st = "starting"
                     PROVE  proc[q].cmd.minor # Entry.minor
        OBVIOUS
      <4>2. PICK i \in 1 .. idx - 1 : proc[q].cmd = ttyinfo[i]
        BY <2>3, <3>1, <4>1 DEF Live
      <4>3. idx \in 1 .. nrport /\ nrport \in Nat
        BY <3>1 DEF SearchInv, nrport
      <4>4. i \in 1 .. nrport /\ i # idx
        BY <4>3
      <4> QED
        BY <2>3, <4>2, <4>3, <4>4 DEF OneEntryPerPort, Entry
    <3>3. CASE HasFile(p) /\ at' = "found" /\ old' = [pid |-> p, cmd |-> proc[p].cmd]
      BY <2>1, <2>3, <3>1, <3>3 DEF HasFile, Entry
    <3>4. CASE ~HasFile(p) /\ at' = at /\ old' = old
      <4>1. proc[p].cmd.minor # Entry.minor
        <5>1. proc[p].st \in {"starting", "open"}
          BY <3>1 DEF SearchInv, Live
        <5> QED
          BY <3>1, <3>2, <3>4, <5>1 DEF HasFile
      <4>2. seen' = seen \cup {p}
        BY <1>8 DEF Examine, Looked
      <4> QED
        BY <2>1, <2>3, <3>1, <3>4, <4>1, <4>2
    <3> QED
      BY <1>8, <3>1, <3>3, <3>4 DEF Examine
  <2> QED
    BY <2>2, <2>3
<1>9. CASE SearchEnds \/ Abort
  <2>1. Live' = Live /\ OneEntryPerPort' = OneEntryPerPort /\ Entry' = Entry
    BY <1>9 DEF SearchEnds, Abort, Live, OneEntryPerPort, nrport, Entry
  <2> QED
    BY <1>9, <2>1 DEF SearchEnds, Abort, PortsKnown
<1>10. CASE Keep
  <2>1. Live' = Live /\ OneEntryPerPort' = OneEntryPerPort
    BY <1>10 DEF Keep, Live, OneEntryPerPort, nrport
  <2>2. /\ UNCHANGED <<proc, ttyinfo, blind, stale>> /\ seen' = {} /\ at = "found"
        /\ at' \in {"idle", "search"} /\ (at' # "idle" => idx' = idx + 1)
    BY <1>10 DEF Keep, NextEntry
  <2>3. idx \in Nat
    BY DEF SearchInv
  <2>4. at' # "idle" => \A i \in 1 .. idx - 1 : i \in 1 .. idx' - 1
    BY <2>2, <2>3
  <2> QED
    BY <2>1, <2>2, <2>4 DEF PortsKnown
<1>11. CASE Kill
  <2>1. /\ UNCHANGED <<ttyinfo, idx, seen, old, stale, blind>> /\ at = "found" /\ at' = "start"
        /\ proc' = [proc EXCEPT ![old.pid] = NoProc]
    BY <1>11 DEF Kill, killcmd
  <2>2. \A q \in Pids : q # old.pid => proc'[q] = proc[q]
    BY <2>1 DEF SearchInv
  <2>3. old.pid \in Pids /\ proc'[old.pid].st = "none"
    BY <2>1 DEF SearchInv, NoProc
  <2>4. \A q \in Live' : q \in Live /\ q # old.pid /\ proc'[q] = proc[q]
    BY <2>2, <2>3 DEF Live
  <2>5. \A q \in Pids : proc'[q].st = "starting" => proc'[q] = proc[q]
    BY <2>2, <2>3
  <2>6. OneEntryPerPort' = OneEntryPerPort /\ Entry' = Entry
    BY <2>1 DEF OneEntryPerPort, nrport, Entry
  <2> QED
    BY <2>1, <2>4, <2>5, <2>6 DEF PortsKnown
<1>12. CASE Start
  <2>1. PICK p \in Pids \ Live : proc' = [proc EXCEPT ![p] = [st |-> "starting", cmd |-> Entry]]
    BY <1>12 DEF Start
  <2>2. /\ UNCHANGED <<ttyinfo, blind, stale>> /\ seen' = {} /\ at = "start"
        /\ at' \in {"idle", "search"} /\ (at' # "idle" => idx' = idx + 1)
    BY <1>12 DEF Start, NextEntry
  <2>3. proc'[p] = [st |-> "starting", cmd |-> Entry] /\ \A q \in Pids : q # p => proc'[q] = proc[q]
    BY <2>1 DEF SearchInv
  <2>4. Live' = Live \cup {p}
    BY <2>3 DEF Live
  <2>5. OneEntryPerPort' = OneEntryPerPort
    BY <2>2 DEF OneEntryPerPort, nrport
  <2>6. idx \in Nat /\ idx \in 1 .. nrport /\ nrport \in Nat
    BY <2>2 DEF SearchInv, nrport
  <2>7. at' # "idle" => idx \in 1 .. idx' - 1 /\ \A i \in 1 .. idx - 1 : i \in 1 .. idx' - 1
    BY <2>2, <2>6
  <2>8. ~blind => \A q \in Live : proc[q].cmd.minor # Entry.minor
    BY <2>2 DEF PortsKnown
  <2>9. ~blind => \A q, r \in Live' : proc'[q].cmd.minor = proc'[r].cmd.minor => q = r
    BY <2>3, <2>4, <2>8 DEF PortsKnown, Live
  <2>10. ~blind /\ at' # "idle" =>
            \A q \in Pids : proc'[q].st = "starting" =>
                \E i \in 1 .. idx' - 1 : proc'[q].cmd = ttyinfo[i]
    BY <2>2, <2>3, <2>7 DEF PortsKnown, Entry
  <2> QED
    BY <2>2, <2>5, <2>9, <2>10 DEF PortsKnown
<1> QED
  BY <1>1, <1>2, <1>3, <1>4, <1>5, <1>6, <1>7, <1>8, <1>9, <1>10, <1>11, <1>12 DEF Next, advttyd

\* No port has two daemons, unless advttyd was run too early, with two entries for a
\* port, or has raced in __pid_search_fd.
THEOREM OneDaemon == Spec => []OneDaemonPerPort
<1>1. PortsKnown => OneDaemonPerPort
  BY DEF PortsKnown, OneDaemonPerPort
<1> QED
  BY <1>1, SearchInvariant, PortsInit, PortsNext, PTL DEF Spec

----------------------------------------------------------------------------
(* What is killed, and what is served.                                     *)

\* advttyd never kills the daemon of a configured command, if no port has two: the
\* one it kills has the entry's port and not its command.
THEOREM ConfiguredSurvives == Spec => ConfiguredDaemonSurvives
<1>1. ASSUME SearchInv, [Next]_vars, NEW p \in Pids, NEW i \in 1 .. nrport, OneEntryPerPort,
             at = "found", at' # "found", proc[p].st # "none", proc[p].cmd = ttyinfo[i]
      PROVE  proc'[p] = proc[p]
  <2>1. proc' = proc \/ Kill
    BY <1>1 DEF Next, Edit, cleanUp, startDeamon, stopService, stopDeamon, DaemonDies,
       DaemonOpens, ExamineRaces, advttyd, SearchEnds, Keep, Start, Examine, Abort, Rest, vars
  <2>2. CASE Kill
    <3>1. ~SameCommand /\ proc' = [proc EXCEPT ![old.pid] = NoProc]
      BY <2>2 DEF Kill, killcmd
    <3>2. idx \in 1 .. nrport /\ old.cmd.minor = ttyinfo[idx].minor
      BY <1>1 DEF SearchInv, Entry
    <3>3. p # old.pid
      <4>1. SUFFICES ASSUME p = old.pid PROVE FALSE
        OBVIOUS
      <4>2. old.cmd = ttyinfo[i]
        BY <1>1, <4>1 DEF SearchInv
      <4>3. i = idx
        BY <1>1, <3>2, <4>2 DEF OneEntryPerPort
      <4> QED
        BY <3>1, <4>2, <4>3 DEF SameCommand, Entry
    <3> QED
      BY <3>1, <3>3 DEF SearchInv
  <2> QED
    BY <2>1, <2>2
<1>2. SearchInv /\ [Next]_vars =>
          [\A p \in Pids, i \in 1 .. nrport :
               /\ OneEntryPerPort
               /\ at = "found" /\ at' # "found"
               /\ proc[p].st # "none" /\ proc[p].cmd = ttyinfo[i]
               => proc'[p] = proc[p]]_vars
  BY <1>1
<1> QED
  BY <1>2, SearchInvariant, PTL DEF Spec, ConfiguredDaemonSurvives

\* Command c has a daemon.
Served(c) == \E p \in Live : proc[p].cmd = c

\* While nothing disturbs advttyd, the entries behind it are served, the one it has
\* found a daemon for still has it.  What cut advttyd short has disturbed it.
EntriesKnown ==
    /\ stopping \/ stale => ~undisturbed
    /\ undisturbed /\ OneEntryPerPort =>
          /\ \A i \in 1 .. nrport :
                (at = "idle" \/ i < idx) /\ Serviceable(ttyinfo[i]) => Served(ttyinfo[i])
          /\ at = "found" => proc[old.pid].st = "open"

\* Nothing has been undisturbed yet.
LEMMA EntriesInit == Init => EntriesKnown
  BY DEF Init, EntriesKnown

\* What serves an entry goes on doing so.
LEMMA EntriesKept ==
    ASSUME EntriesKnown, UNCHANGED <<at, ttyinfo, idx, old, stopping>>,
           stale' => stale \/ ~undisturbed', undisturbed' => undisturbed,
           undisturbed' => \A p \in Live :
               \/ /\ p \in Live' /\ proc'[p].cmd = proc[p].cmd
                  /\ proc[p].st = "open" => proc'[p].st = "open"
               \/ ~Serviceable(proc[p].cmd) /\ proc[p].st # "open",
           at = "found" => old.pid \in Pids
    PROVE  EntriesKnown'
<1> USE DEF EntriesKnown, nrport, OneEntryPerPort
<1>1. ASSUME undisturbed', NEW c, Served(c), Serviceable(c)
      PROVE  Served(c)'
  BY <1>1 DEF Served
<1>2. ASSUME undisturbed', at = "found", proc[old.pid].st = "open"
      PROVE  proc'[old.pid].st = "open"
  BY <1>2 DEF Live
<1>3. stopping' \/ stale' => ~undisturbed'
  OBVIOUS
<1>4. undisturbed' /\ OneEntryPerPort' =>
          \A i \in 1 .. nrport' :
              (at' = "idle" \/ i < idx') /\ Serviceable(ttyinfo'[i]) => Served(ttyinfo[i])'
  BY <1>1
<1> QED
  BY <1>2, <1>3, <1>4 DEF Served

\* An entry is left only when it is served, and what is killed serves none.
LEMMA EntriesNext == SearchInv /\ EntriesKnown /\ [Next]_vars => EntriesKnown'
<1> SUFFICES ASSUME SearchInv, EntriesKnown, [Next]_vars PROVE EntriesKnown'
  OBVIOUS
<1> USE DEF files, search
<1>1. CASE Edit \/ cleanUp \/ SearchEnds \/ Rest \/ UNCHANGED vars
  <2>1. UNCHANGED <<proc, ttyinfo, idx, old, stale, stopping, undisturbed>>
    BY <1>1 DEF Edit, cleanUp, SearchEnds, Rest, vars
  <2>2. at' = at \/ SearchEnds
    BY <1>1 DEF Edit, cleanUp, Rest, vars
  <2>3. \A c : Served(c)' <=> Served(c)
    BY <2>1 DEF Served, Live
  <2>4. (at' = "idle" <=> at = "idle") /\ (at' = "found" <=> at = "found")
    BY <2>2 DEF SearchEnds
  <2> QED
    BY <2>1, <2>3, <2>4 DEF EntriesKnown, OneEntryPerPort, nrport
<1>2. CASE startDeamon
  <2>1. /\ ~stopping' /\ ~stale' /\ idx' = 1 /\ at' # "found"
        /\ at' = "idle" => nrport' = 0
    BY <1>2 DEF startDeamon
  <2>2. \A i \in 1 .. nrport' : ~(at' = "idle" \/ i < idx')
    BY <2>1
  <2> QED
    BY <2>1, <2>2 DEF EntriesKnown
<1>3. CASE stopService
  BY <1>3 DEF stopService, EntriesKnown
<1>4. CASE stopDeamon
  BY <1>4 DEF stopDeamon, EntriesKnown
<1>5. CASE Abort
  BY <1>5 DEF Abort, EntriesKnown
<1>6. ASSUME NEW p \in Pids, DaemonDies(p) \/ ExamineRaces(p)
      PROVE  EntriesKnown'
  BY <1>6 DEF DaemonDies, ExamineRaces, EntriesKnown
<1>7. ASSUME NEW p \in Pids, DaemonOpens(p)
      PROVE  EntriesKnown'
  <2>1. \A q \in Pids : q # p => proc'[q] = proc[q]
    BY <1>7 DEF DaemonOpens, SearchInv
  <2>2. /\ proc[p].st = "starting"
        /\ Serviceable(proc[p].cmd) => proc'[p].st = "open" /\ proc'[p].cmd = proc[p].cmd
    BY <1>7 DEF DaemonOpens, SearchInv
  <2>3. \A q \in Live :
            \/ /\ q \in Live' /\ proc'[q].cmd = proc[q].cmd
               /\ proc[q].st = "open" => proc'[q].st = "open"
            \/ ~Serviceable(proc[q].cmd) /\ proc[q].st # "open"
    BY <2>1, <2>2 DEF Live
  <2>4. at = "found" => old.pid \in Pids
    BY DEF SearchInv
  <2> QED
    BY <1>7, <2>3, <2>4, EntriesKept DEF DaemonOpens
<1>8. ASSUME NEW p \in Pids, Examine(p)
      PROVE  EntriesKnown'
  <2>1. UNCHANGED <<proc, ttyinfo, idx, stopping, undisturbed>> /\ at = "search"
        /\ (stale' => stale)
    BY <1>8 DEF Examine
  <2>2. \/ at' = "found" /\ proc'[old'.pid].st = "open"
        \/ at' = "search"
    BY <1>8 DEF Examine, HasFile
  <2>3. \A c : Served(c)' <=> Served(c)
    BY <2>1 DEF Served, Live
  <2> QED
    BY <2>1, <2>2, <2>3 DEF EntriesKnown, OneEntryPerPort, nrport
<1>9. ASSUME NextEntry, UNCHANGED <<ttyinfo, stopping, undisturbed>>, at # "idle",
             undisturbed => \A c : Served(c) => Served(c)',
             undisturbed /\ OneEntryPerPort => \E p \in Live' : proc'[p].cmd = Entry
      PROVE  EntriesKnown'
  <2>1. idx \in 1 .. nrport /\ nrport \in Nat
    BY <1>9 DEF SearchInv, nrport
  <2>2. \/ at' = "idle" /\ idx = nrport
        \/ at' = "search" /\ idx' = idx + 1
    BY <1>9, <2>1 DEF NextEntry
  <2>3. \A i \in 1 .. nrport : at' = "idle" \/ i < idx' => i < idx \/ i = idx
    BY <2>1, <2>2
  <2>4. stopping' \/ stale' => ~undisturbed'
    BY <1>9 DEF NextEntry, EntriesKnown
  <2>5. nrport' = nrport /\ OneEntryPerPort' = OneEntryPerPort /\ at' # "found"
    BY <1>9, <2>2 DEF nrport, OneEntryPerPort
  <2>6. ASSUME undisturbed, OneEntryPerPort, NEW i \in 1 .. nrport, at' = "idle" \/ i < idx',
               Serviceable(ttyinfo[i])
        PROVE  Served(ttyinfo[i])'
    <3>1. CASE i < idx
      BY <1>9, <2>6, <3>1 DEF EntriesKnown
    <3>2. CASE i = idx
      BY <1>9, <2>6, <3>2 DEF Entry, Served
    <3> QED
      BY <2>3, <2>6, <3>1, <3>2
  <2>7. \A i \in 1 .. nrport : ttyinfo'[i] = ttyinfo[i]
    BY <1>9
  <2> QED
    BY <1>9, <2>4, <2>5, <2>6, <2>7 DEF EntriesKnown, Served
<1>10. CASE Keep
  <2>1. /\ NextEntry /\ UNCHANGED <<proc, ttyinfo, stopping, undisturbed>>
        /\ at = "found" /\ old.cmd = Entry
    BY <1>10 DEF Keep, SameCommand
  <2>2. \A c : Served(c) => Served(c)'
    BY <2>1 DEF Served, Live
  <2>3. ASSUME undisturbed, OneEntryPerPort PROVE \E p \in Live' : proc'[p].cmd = Entry
    <3>1. old.pid \in Pids /\ proc' = proc
      BY <2>1 DEF SearchInv
    <3>2. CASE proc[old.pid].st = "open"
      BY <2>1, <3>1, <3>2 DEF SearchInv, Live
    <3> QED
      BY <2>1, <2>3, <3>2 DEF EntriesKnown
  <2> QED
    BY <1>9, <2>1, <2>2, <2>3
<1>11. CASE Kill
  <2>1. /\ UNCHANGED <<ttyinfo, idx, old, stale, stopping, undisturbed>>
        /\ at = "found" /\ at' = "start"
        /\ proc' = [proc EXCEPT ![old.pid] = NoProc]
    BY <1>11 DEF Kill, killcmd
  <2>2. \A q \in Pids : q # old.pid => proc'[q] = proc[q]
    BY <2>1 DEF SearchInv
  <2>3. ASSUME OneEntryPerPort, NEW i \in 1 .. nrport, i < idx, Served(ttyinfo[i])
        PROVE  Served(ttyinfo[i])'
    <3>1. PICK q \in Live : proc[q].cmd = ttyinfo[i]
      BY <2>3 DEF Served
    <3>2. idx \in 1 .. nrport /\ i # idx
      BY <2>1, <2>3 DEF SearchInv
    <3>3. proc[q].cmd.minor # old.cmd.minor
      BY <2>1, <2>3, <3>1, <3>2 DEF SearchInv, OneEntryPerPort, Entry
    <3>4. q # old.pid
      BY <2>1, <3>1, <3>3 DEF SearchInv, Live
    <3> QED
      BY <2>1, <2>2, <3>1, <3>4 DEF Served, Live
  <2> QED
    BY <2>1, <2>3 DEF EntriesKnown, OneEntryPerPort, nrport
<1>12. CASE Start
  <2>1. PICK p \in Pids \ Live : proc' = [proc EXCEPT ![p] = [st |-> "starting", cmd |-> Entry]]
    BY <1>12 DEF Start
  <2>2. proc'[p] = [st |-> "starting", cmd |-> Entry] /\ \A q \in Pids : q # p => proc'[q] = proc[q]
    BY <2>1 DEF SearchInv
  <2>3. \A c : Served(c) => Served(c)'
    BY <2>2 DEF Served, Live
  <2>4. \E q \in Live' : proc'[q].cmd = Entry
    BY <2>2 DEF Live
  <2>5. NextEntry /\ UNCHANGED <<ttyinfo, stopping, undisturbed>> /\ at # "idle"
    BY <1>12 DEF Start
  <2> QED
    BY <1>9, <2>3, <2>4, <2>5
<1> QED
  BY <1>1, <1>2, <1>3, <1>4, <1>5, <1>6, <1>7, <1>8, <1>10, <1>11, <1>12 DEF Next, advttyd

\* When advttyd is through and nothing has disturbed it, every line it accepted that
\* can be served has its daemon.
THEOREM EntriesAreServed == Spec => []EntriesServed
<1>1. EntriesKnown => EntriesServed
  BY DEF EntriesKnown, EntriesServed, Served
<1> QED
  BY <1>1, SearchInvariant, EntriesInit, EntriesNext, PTL DEF Spec

----------------------------------------------------------------------------
(* How long a run of advttyd may take.                                     *)

\* What is left to do for an entry: the processes not looked at, what becomes of the
\* daemon found, the start of a new one.
LeftOfEntry == IF at = "search" THEN Cardinality(Pids \ seen) + 2
               ELSE IF at = "found" THEN 1 ELSE 0

\* A step to a later entry, or one that leaves less of the same.
Nearer == idx' > idx \/ (idx' = idx /\ LeftOfEntry' < LeftOfEntry)

\* Until its run ends, every step of advttyd brings its end nearer: it looks at each
\* process at most once for each entry, and at each entry once.  What others do meanwhile
\* (edits, daemons that open their files or die) gives it nothing more to do.
RunShrinks ==
    [][at # "idle" /\ at' # "idle" =>
          /\ ttyinfo' = ttyinfo
          /\ Nearer \/ UNCHANGED <<at, idx, seen>>
          /\ advttyd => Nearer]_vars

\* A process that is looked at is one less to look at.
LEMMA LookShrinks ==
    ASSUME NEW p \in Pids, p \notin seen, seen' = seen \cup {p}
    PROVE  /\ Cardinality(Pids \ seen) \in Nat
           /\ Cardinality(Pids \ seen') = Cardinality(Pids \ seen) - 1
<1> DEFINE rest == Pids \ seen
<1>1. IsFiniteSet(rest) /\ Cardinality(rest) \in Nat
  BY ServiceAssumption, FS_Difference, FS_CardinalityType
<1>2. p \in rest /\ Pids \ seen' = rest \ {p}
  OBVIOUS
<1>3. Cardinality(rest \ {p}) = Cardinality(rest) - 1
  <2> HIDE DEF rest
  <2> QED
    BY <1>1, <1>2, FS_RemoveElement
<1> QED
  BY <1>1, <1>2, <1>3

\* Every run of advttyd (spawn_ttyp, initd/advttyd.c) is bounded by the entries and the
\* processes there are; where it is, there is an entry.
THEOREM RunIsBounded ==
    Spec => [](LeftOfEntry \in Nat /\ (at # "idle" => idx \in 1 .. nrport)) /\ RunShrinks
<1>1. SearchInv => LeftOfEntry \in Nat /\ (at # "idle" => idx \in 1 .. nrport)
  <2>1. Cardinality(Pids \ seen) \in Nat
    BY ServiceAssumption, FS_Difference, FS_CardinalityType
  <2> QED
    BY <2>1 DEF SearchInv, LeftOfEntry
<1>2. SearchInv /\ [Next]_vars
      => [at # "idle" /\ at' # "idle" =>
             /\ ttyinfo' = ttyinfo
             /\ Nearer \/ UNCHANGED <<at, idx, seen>>
             /\ advttyd => Nearer]_vars
  <2> SUFFICES ASSUME SearchInv, Next, at # "idle", at' # "idle"
               PROVE  /\ ttyinfo' = ttyinfo
                      /\ Nearer \/ UNCHANGED <<at, idx, seen>>
                      /\ advttyd => Nearer
    OBVIOUS
  <2>1. idx \in Nat /\ nrport \in Nat
    BY DEF SearchInv, nrport
  <2>2. ASSUME NEW p \in Pids, Examine(p) \/ ExamineRaces(p)
        PROVE  Nearer /\ ttyinfo' = ttyinfo
    <3>1. /\ at = "search" /\ at' \in {"search", "found"} /\ idx' = idx
          /\ p \notin seen /\ seen' = seen \cup {p} /\ ttyinfo' = ttyinfo
      BY <2>2 DEF Examine, ExamineRaces, Looked
    <3>2. /\ Cardinality(Pids \ seen) \in Nat
          /\ Cardinality(Pids \ seen') = Cardinality(Pids \ seen) - 1
      BY <3>1, LookShrinks
    <3> QED
      BY <2>1, <3>1, <3>2 DEF Nearer, LeftOfEntry
  <2>3. CASE SearchEnds \/ Kill
    <3>1. at \in {"search", "found"} /\ at' = "start" /\ idx' = idx /\ ttyinfo' = ttyinfo
      BY <2>3 DEF SearchEnds, Kill
    <3>2. Cardinality(Pids \ seen) \in Nat
      BY ServiceAssumption, FS_Difference, FS_CardinalityType
    <3> QED
      BY <2>1, <3>1, <3>2 DEF Nearer, LeftOfEntry
  <2>4. CASE Keep \/ Start
    <3>1. NextEntry /\ ttyinfo' = ttyinfo
      BY <2>4 DEF Keep, Start
    <3>2. idx' = idx + 1
      BY <3>1 DEF NextEntry
    <3> QED
      BY <2>1, <3>1, <3>2 DEF Nearer
  <2>5. ASSUME Edit \/ cleanUp \/ stopService \/ Rest
               \/ \E p \in Pids : DaemonDies(p) \/ DaemonOpens(p)
        PROVE  UNCHANGED <<ttyinfo, at, idx, seen>>
    BY <2>5 DEF Edit, cleanUp, stopService, Rest, DaemonDies, DaemonOpens, search, vars
  <2>6. ~startDeamon /\ ~stopDeamon /\ ~Abort
    BY DEF startDeamon, stopDeamon, Abort
  <2>7. advttyd => Nearer
    BY <2>2, <2>3, <2>4 DEF advttyd
  <2> QED
    BY <2>2, <2>3, <2>4, <2>5, <2>6, <2>7 DEF Next, advttyd
<1> QED
  BY <1>1, <1>2, SearchInvariant, PTL DEF Spec, RunShrinks

============================================================================
