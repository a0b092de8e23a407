------------------------------ MODULE Connect ------------------------------
(***************************************************************************)
(* vc_connect (daemon/vc_client_netdown.c): how the daemon gets from a     *)
(* name and an optional redundant name to one connected socket.  Each name *)
(* may stand for several addresses; _create_sklist starts a non-blocking   *)
(* connect to each of them, and one select() waits for the first answer.   *)
(* Descriptors are numbers, the lowest free one is allocated.  The         *)
(* function is called again and again while the daemon is in Net Down.     *)
(***************************************************************************)
EXTENDS Integers, Sequences, FiniteSets

CONSTANTS
    Primary,       \* how many addresses the name has
    Redundant,     \* and how many the redundant name; 0 for no redundant name
    VC_MAX_SKNUM,  \* the length of sklist
    MaxFd,         \* the highest descriptor the process may have
    Held           \* descriptors of other files: the proc file, the monitor

Fd == 0 .. MaxFd
NoSk == -1

ASSUME ConnectAssumption ==
    /\ Primary \in Nat /\ Redundant \in Nat
    /\ VC_MAX_SKNUM \in Nat \ {0} /\ MaxFd \in Nat /\ Held \subseteq Fd

\* A connect under way will succeed or fail within ten seconds, or not be answered.
Pending == {"accepting", "refusing", "silent"}
Connections == Pending \cup {"none", "connected", "failed"}

VARIABLES
    open,          \* the descriptors in use
    conn,          \* the state of each one's connection
    at,            \* "down", "list", "select", "close", "up" or "dead"
    names,         \* how many names are left, the current one included
    addr,          \* how many addresses are left of the current name
    sklist,        \* the sockets kept
    rfds,          \* the descriptors select() is to watch
    wild,          \* sknum or skmax was never set: getaddrinfo failed
    sk,            \* the socket chosen, the result in the end
    unresolved     \* getaddrinfo has failed since the process was started

connectVars == <<open, conn, at, names, addr, sklist, rfds, wild, sk, unresolved>>
lists == <<names, addr, sklist, rfds, wild, unresolved>>

InUse(s) == {s[i] : i \in DOMAIN s}

ConnectInit ==
    /\ open = Held /\ conn = [f \in Fd |-> "none"]
    /\ at = "down" /\ names = 0 /\ addr = 0 /\ sklist = <<>> /\ rfds = {}
    /\ wild = FALSE /\ sk = NoSk /\ unresolved = FALSE

----------------------------------------------------------------------------

\* getaddrinfo for a name of n addresses.  If it fails the list's length and
\* highest descriptor keep what happened to be there.
Lookup(n) ==
    /\ at' = "list"
    /\ \/ addr' = n /\ UNCHANGED <<wild, unresolved>>
       \/ addr' = 0 /\ wild' = TRUE /\ unresolved' = TRUE

\* vc_netdown_open calls vc_connect.
Call ==
    /\ at = "down"
    /\ names' = IF Redundant = 0 THEN 1 ELSE 2
    /\ Lookup(Primary)
    /\ UNCHANGED <<open, conn, sklist, rfds, sk>>

FreeFd == CHOOSE f \in Fd \ open : \A g \in Fd \ open : f <= g

MoreRoom_BUG == Len(sklist) <= VC_MAX_SKNUM
MoreRoom == Len(sklist) < VC_MAX_SKNUM

Trying == at = "list" /\ sk = NoSk /\ addr > 0 /\ MoreRoom

\* One round of _create_sklist: the connect is under way, or done at once.
TryAddress ==
    /\ Trying /\ open # Fd
    /\ addr' = addr - 1
    /\ open' = open \cup {FreeFd}
    /\ sklist' = Append(sklist, FreeFd) /\ rfds' = rfds \cup {FreeFd}
    /\ \E c \in Pending \cup {"connected"} :
          /\ conn' = [conn EXCEPT ![FreeFd] = c]
          /\ sk' = IF c = "connected" THEN FreeFd ELSE NoSk
    /\ UNCHANGED <<at, names, wild, unresolved>>

\* There is no socket, or the connect fails at once: nothing is left behind.
CloseFailed_BUG(f) == open \cup {f}
CloseFailed(f) == open \ {f}

SkipAddress ==
    /\ Trying
    /\ addr' = addr - 1
    /\ open' = IF open = Fd THEN open ELSE CloseFailed(FreeFd)
    /\ UNCHANGED <<conn, at, names, sklist, rfds, wild, sk, unresolved>>

\* The list of one name is done.  The redundant name is looked up only if nothing
\* is connected yet.
ListDone ==
    /\ at = "list" /\ (sk # NoSk \/ addr = 0 \/ ~MoreRoom)
    /\ \/ /\ sk = NoSk /\ names = 2
          /\ names' = 1 /\ Lookup(Redundant)
       \/ /\ sk # NoSk
          /\ at' = "close" /\ UNCHANGED <<names, addr, wild, unresolved>>
       \/ /\ sk = NoSk /\ names = 1
          /\ at' = "select" /\ UNCHANGED <<names, addr, wild, unresolved>>
    /\ UNCHANGED <<open, conn, sklist, rfds, sk>>

\* With sknum not set, the sockets of the redundant name are written to anywhere and
\* its list is as long as anything: the process may end.
Corrupted ==
    /\ at = "list" /\ wild
    /\ at' = "dead"
    /\ UNCHANGED <<open, conn, lists, sk>>

\* An answer arrives from the network.
Arrives(f) ==
    /\ at \in {"list", "select"} /\ f \in open
    /\ \/ conn[f] = "accepting" /\ conn' = [conn EXCEPT ![f] = "connected"]
       \/ conn[f] = "refusing" /\ conn' = [conn EXCEPT ![f] = "failed"]
    /\ UNCHANGED <<open, at, lists, sk>>

Ready == {f \in rfds : conn[f] \notin Pending}

\* The first ready one in the list's order that has no error.
Good_BUG == {i \in DOMAIN sklist : sklist[i] \in Ready}
Good_LIST == {i \in DOMAIN sklist : i = 1 /\ sklist[i] \in Ready /\ conn[sklist[i]] = "connected"}
Good == {i \in DOMAIN sklist : sklist[i] \in Ready /\ conn[sklist[i]] = "connected"}

Select ==
    /\ at = "select" /\ Ready # {}
    /\ IF Good = {} THEN sk' = NoSk
       ELSE \E i \in Good : (wild \/ \A j \in Good : i <= j) /\ sk' = sklist[i]
    /\ at' = "close"
    /\ UNCHANGED <<open, conn, lists>>

\* Ten seconds without an answer.  With skmax not set select() may look at too few
\* descriptors or fail, and with sknum not set the loop may look at too few.
TimedOut_BUG == rfds # {} /\ \A f \in rfds : conn[f] = "silent"
TimedOut == \A f \in rfds : conn[f] = "silent"

SelectFails ==
    /\ at = "select" /\ (wild \/ TimedOut)
    /\ at' = "close"
    /\ UNCHANGED <<open, conn, lists, sk>>

\* All sockets of the list but the chosen one are closed.  With sknum not set the
\* loop runs over whatever follows in memory, or over too little.
Return ==
    /\ at = "close"
    /\ \/ ~wild /\ open' = open \ (InUse(sklist) \ {sk})
       \/ wild /\ \E S \in SUBSET (open \ {sk}) : open' = open \ S
    /\ conn' = [f \in Fd |-> IF f = sk THEN conn[f] ELSE "none"]
    /\ at' = IF sk = NoSk THEN "down" ELSE "up"
    /\ names' = 0 /\ addr' = 0 /\ sklist' = <<>> /\ rfds' = {} /\ wild' = FALSE
    /\ UNCHANGED <<sk, unresolved>>

\* The connection is lost or closed: vc_netdown_init closes the socket.
Lost ==
    /\ at = "up" /\ at' = "down"
    /\ open' = open \ {sk} /\ conn' = [conn EXCEPT ![sk] = "none"] /\ sk' = NoSk
    /\ UNCHANGED lists

connect == TryAddress \/ SkipAddress \/ ListDone \/ Select \/ SelectFails \/ Return

----------------------------------------------------------------------------

\* Every variable has its type.  The lists of both names together never outgrow the
\* array, and it holds each socket once.
ConnectTypeOK ==
    /\ open \subseteq Fd /\ rfds \subseteq Fd /\ sk \in Fd \cup {NoSk}
    /\ conn \in [Fd -> Connections]
    /\ at \in {"down", "list", "select", "close", "up", "dead"}
    /\ names \in 0 .. 2 /\ addr \in Nat
    /\ sklist \in Seq(Fd) /\ {wild, unresolved} \subseteq BOOLEAN
    /\ Len(sklist) <= VC_MAX_SKNUM
    /\ Cardinality(InUse(sklist)) = Len(sklist)

\* However many addresses fail, answer late or answer together, call after call: in
\* Net Down the daemon has the descriptors it started with, and while it is connected
\* one more.  Nothing leaks and nothing else is closed, if the names resolve.
NoLeak ==
    ~unresolved =>
        /\ at = "down" => open = Held
        /\ at = "up" => open = Held \cup {sk} /\ sk \notin Held

\* The socket returned is open and connected, even if a name could not be resolved
\* and the lengths of the lists are arbitrary.
ReturnedConnected == at = "up" => sk \in open /\ conn[sk] = "connected"

\* If an address accepts in time, a socket for it could be made and no address that
\* was tried refuses, the call ends connected.  (A refusal can hide an address that
\* would have accepted: all sockets are closed when the first answers are errors.)
AcceptingWins ==
    at = "close" /\ sk = NoSk /\ ~wild =>
        \/ \A f \in rfds : conn[f] = "silent"
        \/ \E f \in rfds : conn[f] \in {"refusing", "failed"}

\* Every call returns, unless the process ends.
Returns == at = "list" ~> at \in {"up", "down", "dead"}

============================================================================
