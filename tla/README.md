# A TLA+ model of the Advantech virtual serial port

The repository reads instruments (vacuum gauges, a cooling bath, thermometers) over
modbus RTU. The instruments hang on an Advantech EKI-1526 serial device server;
`src/EKI1526/vcom_linux_2.2.1` is the software that makes the server's ports look like
local serial ports. That software is what is modelled here: a kernel driver and a daemon
that share memory and talk by ioctl, poll and TCP, and around them the scripts and
services that configure, start and watch the daemons. Paths below are relative to that
directory.

## 1. Inventory

    application - tty - driver (tty side) == rings, attributes == driver (proc side)
                                                                       | ioctl, poll, mmap
                                                                    daemon
                                                                       | TCP
                                                                 device server

    advadd, advrm, advls -> advttyd.conf -> advttyd -> starts and kills daemons
    daemon -> monitor file -> vcinot -> system log

| component | state | operations | talks to | what makes it correct |
|---|---|---|---|---|
| ring buffer (`driver/advvcom.h`) | head, tail, ENABLED, CLEAN, a page of bytes | move head/tail, length, room | tty side, proc side, daemon (through mmap) | cursors stay in range; one side moves each cursor; unread bytes are never overwritten |
| driver, tty side (`driver/adv_uart.c`) | the serial core's buffer, throttled, attributes | startup, shutdown, start/stop_tx, stop_rx, set_termios, set_mctrl, throttle, unthrottle | serial core; rings under spin locks; wakes the proc file | no byte of the application is lost or reordered on its way into the ring |
| driver, proc side (`driver/adv_main.c`) | the double attribute buffer | cursor ioctls, SINTER, SCLR, GATTRPTR, SETMS, poll | daemon | poll reports whatever the daemon has yet to see |
| daemon (`daemon/vcom_client.c`, `daemon/vc_client_*.c`) | state stack, socket, `eki` (what was told to the device), `xmit_pending`, copies of both rings' cursors, packet timer | main loop dispatching open, close, ioctl, xmit, pause, event, poll, recv, resume, err, init to the state on top of the stack | driver by ioctl; device by packets | the stack matches the connection; WRITEs are answered before their bytes are dropped; flow control agrees with the device |
| protocol (`daemon/vcom_proto*.h`) | none | pack and check packets | daemon, device | an answer is accepted only if it fits the request |
| device server (not in the repository) | settings, leave to send, event mask | answers packets, sends data | daemon | external |
| `vc_connect` (`daemon/vc_client_netdown.c`) | a list of sockets | connect to every address of the name, then of the redundant name; wait for the first answer | resolver, TCP | one connected socket survives, the others are closed, call after call |
| reading a packet (`vc_recv_desp`) | a buffer, the length field | two reads of the header, two of the payload | TCP, the state on top of the stack | packets are handed on whole, once, in order |
| silence timer (`main`) | `lrecv` | counts, is reset, drops the connection | `select`, Idle | a silent device is noticed, a speaking one is kept |
| monitor file (`daemon/vcom_monitor_dbg.h`), vcinot (`inotify/`) | a mapped file of 1 KB; a queue of file events | header, history of exceptions; log the file | the kernel's file events, logger | newest exception first, none forgotten |
| configuration scripts (`script/`) | `advttyd.conf` | advadd, advrm, advls | file | one line per port, other lines untouched |
| advttyd (`initd/`), advman | the configuration read, the place in the search through /proc | filter, find, kill and start daemons | shell, /proc | one daemon per port, each with its configured command |
| advps | none | lists daemons | /proc | reporting only |
| loggers (`src/used`, `src/controltest`, `src/ref`) | none | poll and print | serial port | straight-line programs |

What is hard: the tty side runs at any time between two steps of the daemon, which
decides on stale copies of the cursors; answers arrive after the ring has grown, after
the connection was replaced, after the daemon was killed; flow control is asynchronous;
the application may close and reopen before the daemon looks; packets come in pieces; a
daemon that was started has not yet opened its file when the next search looks for it;
files are rewritten while others read them. `PROJECT.json` lists each hazard at its line
with the properties that would catch it.

## 2. Modules

| module | models | status |
|---|---|---|
| `RingBuf` | the ring and its arithmetic | done |
| `VcomDriver` | both sides of the driver; one action per `adv_uart_ops` operation, the ioctls as relations the daemon's handlers use | done |
| `VcomDevice` | device server and connection (external) | done |
| `VcomDaemon` | the loop of `main()`: one action per dispatched handler | done |
| `Vcom` | the whole port, properties, fairness | done |
| `TtyPipe` | abstract: an at-least-once queue | done |
| `UartXmit` | the copy loop of `adv_uart_xmit` piece by piece | done |
| `UartRecv` | the copy loop of `adv_uart_recv_chars` piece by piece | done |
| `PullTimer` | `lrecv`, the timeout of `select`, Idle, over many connections | done |
| `Connect` | `vc_connect` and `_create_sklist` with every descriptor | done |
| `Link` | `Connect` and `PullTimer` together: a daemon's connections one after the other | done |
| `Framing` | `vc_recv_desp` and `recv_second_chance` on a stream in pieces | done |
| `PacketChannel` | abstract: packets are handed on whole, once, in order, or lost with the connection | done |
| `Monitor` | the monitor file and vcinot | done |
| `AdvConf` | the configuration file: what the scripts do to it, what advttyd accepts | done |
| `AdvScripts` | sequences of calls of the scripts | done |
| `Advttyd` | advttyd, advman, the daemons' start and end, an administrator | done |
| `MCVcom`, `MCMonitor`, `MCAdvScripts`, `MCAdvttyd` | instances for TLC | done |
| `RingBufProofs` | lemmas and theorems about the ring's operators | done |
| `VcomProofs` | theorems, in three parts: the types, the state stack, open and close; from the tty to the device, and the refinement of `TtyPipe`; from the device to the tty, flow control, settings | done |
| `UartProofs` | theorems: the two copying loops, and that each adds up to the one step `VcomDriver` takes for it | done |
| `LinkProofs` | theorems: `PullTimer` and `Connect`, as `Link` composes them | done |
| `FramingProofs` | theorems: `Framing`, and the refinement of `PacketChannel` | done |
| `MonitorProofs` | theorems: the monitor file | done |
| `AdvScriptsProofs` | theorems: the scripts | done |
| `AdvttydProofs` | theorems: the service | done |

`RingBuf <- VcomDriver <- VcomDevice <- VcomDaemon <- Vcom <- MCVcom` by EXTENDS; `Vcom`
instantiates `TtyPipe` under a refinement mapping. `UartXmit` extends `RingBuf` and
`UartRecv` extends `UartXmit`: the two loops work on one ring type, and the run `Uart`
makes a call of either. `AdvScripts` and `Advttyd` extend `AdvConf`. `Framing`
instantiates `PacketChannel` under a refinement mapping. `Link` composes `PullTimer` and
`Connect`. Each proof module extends the module it is about; `VcomProofs` and
`UartProofs` also extend `RingBufProofs`. `Link`, `Framing` and `Monitor` each take one
step of the daemon apart that `VcomDaemon` has as a whole, and stand by themselves.

An operator whose name ends in upper-case letters after an underscore (`_BUG`, `_EKI`,
`_PENDING`, `_STALE`, `_LOST`, `_CLOSE`, `_LINE`, `_LIST`, `_LOOSE`) and stands right
before a definition is a deliberately wrong variant of that definition. Nothing uses it;
put in its place, the run named in `PROJECT.json` "mutants" fails.

### How state and steps correspond to the code

* `rx`, `tx` are the kernel's two rings in the proc side's names (rx: tty to device),
  `rxd`, `txd` their pages. A byte is the number of its production, so that order and
  repetition are visible.
* `attr` is `attr._attr`; `usr` the slot of the double buffer that `usr_ptr` names.
  Baud, parity, stop bits, byte size and flow control are one field `line`; RTS and DTR
  are `ms`. `eki` is `port.eki`.
* `circ` is the serial core's transmit buffer, `flip` what has been given to the tty
  layer.
* `pc` walks through one pass of `main()`'s loop: `open`, `ioctl`, `xmit`, `pause`,
  `event`, `sinter`, `select`, `efds`, `recv`, `rfds`, `wfds`. The tty and the device
  may act between any two steps.
* `stk` is the state stack. Sync is pushed and popped within single handlers, so it
  never shows.
* A handler with its ioctls is one step. Each cursor is moved by one side only, so a
  head and a tail read by two calls are the pair that holds at one of the two.
  `vc_buf_clear` moves tx at once; rx is marked CLEAN and emptied by the following
  SRXHEAD, whatever is appended in between, which equals doing both at once.
* Every failing `send`, `fdcheck` or framing check ends in `stk_excp` followed by the
  init of Net Down; these are `SendFails`, `vc_netdown_open_fails`, `NoPacket`'s second
  disjunct and `RecvExcp`. `event` has no failing branch: the query SIOCINQ
  (`daemon/vc_client_pause.c:109`) fails only for a socket that listens, and the daemon
  has none; where a handler also sends, `SendFails` stands for its queries too.
* `left` bounds how often each kind of environment event happens (`Budget`); nothing
  else bounds a run. `slow` is a timeout while the device still owes an answer; timeouts
  with nothing outstanding are free.

* `Connect`: `at` is the place in `vc_connect`; `open` the process's descriptors, `conn`
  the state of each one's connection, which while it is under way says what the address
  will do. `unresolved` is history. `wild` says that a name did not resolve:
  `_create_sklist` then returns without setting the number and the maximum of its
  sockets, and the caller goes on with what was in memory. That is a choice over what
  can follow: too few or too many sockets looked at or closed, a failing `select`, the
  end of the process.
* `Link`: while `Connect` works the timer stands still; `Return` with a socket is
  `PullTimer`'s `Connects`, and what ends a connection there is `Lost` in `Connect`. A
  killed daemon loses its descriptors and its `lrecv`.
* `Framing`: a unit of the stream is known by its packet and its place in it, so that
  any misalignment is visible. Each `recv` is a step that takes what is there; `broken`
  is the end of the connection. `MakePacket` fixes the next packet and puts its units
  into `coming`, which holds all that has not arrived, be it still with the device or on
  its way; `Arrive` brings any number of them, at any time or never. So a device may stop
  after a header, or in the middle of anything, with the connection left open: two queues
  in a row, of the device and of the network, would show the daemon nothing else.
* `PullTimer`: time is counted in `lrecv`'s unit; a pass that took no time counts as one
  unit (`VC_TIME_USED`), which `rounded` records. `silence`, `inherited`, `rounded` and
  `last` are history, not in the code.
* `Monitor`: a cell of the file is a blank, a NUL or a part of the header or of a
  message; every write to the mapping is a step of its own, so that vcinot and logger
  may read between any two. `history`, what the file should show, is auxiliary.
* `AdvConf`: a line is a record; its number and its type stand for their digits, so that
  the scripts' unanchored expressions match what they match. The sorting of advadd goes
  to another file (`INSTALLPTATH` at `script/advadd:39`) and leaves the configuration as
  it is; that of advrm and advls empties it first. The order of lines with the same
  number depends on text the model does not have, so what is left after a sort is one of
  several files: `advrm` and `advls` are sets of them.
* `Advttyd`: `proc` has one record per process number; numbers are used again. A daemon
  is `starting` until it has opened its proc file. `at`, `idx`, `seen` and `old` are the
  place in `spawn_ttyp` and `__cmd_search_file`; each look at one process is a step.
  `rewriting` is the time in which the file is empty. `undisturbed` and `blind` are
  history: what the properties that take a condition refer to.

### Abstractions

* `tty_insert_flip_string` takes any number of bytes from none to all.
* A DATAREADY carries one byte. QUEUEFREE, CLOSE and PURGE have no answers (the daemon
  ignores them). The transaction number `tid` is never checked by the code and left out.
* What was sent and not yet seen by the device is lost with the connection, the PURGE
  and the CLOSE of `vc_common_close` among it; what is in the daemon's socket can still
  be read before the end of the connection is. The device forgets a session whose
  connection is gone in either case, and no property speaks of how it learns of it.
* The serial core stops the receiver before `shutdown` and empties its buffer before
  `startup`; both are kernel behaviour the driver relies on.
* In `VcomDaemon` the timer `lrecv` is a `fault` that may strike in any pass while
  connected, `vc_connect` connects or fails in one step, and packets are read whole;
  `PullTimer`, `Connect` and `Framing` have the detail. So the liveness of `Vcom`
  supposes that a packet that was begun is also ended; `ComesBack` of `Framing` says
  what is left of it otherwise.
* `kill -9` takes effect at once. One advttyd runs at a time; an advadd or advrm is not
  cut short, so an emptied file is always filled again.
* `logger` is not in the repository; in `Monitor` it takes a NUL for the end of a line's
  text, as programs that read lines into C strings do, and the file is one line. "Net
  Down" is the longest name of a state.
* In `Connect` answers that an address gives within ten seconds arrive before the
  timeout; the timeout belongs to calls in which nobody answers.
* The modem inputs are one line; the driver never initialises `mctrl`, so its first
  value is arbitrary.
* In Net Down `FD_SET(port.sk)` is called with -1, which is undefined. The library's
  plain macro then sets a bit that `select()` neither looks at nor returns; the model
  has no socket event without a socket.

## 3. Runs

| run | bounds | shows |
|---|---|---|
| `Write` | ring 4, WRITE up to 2 bytes, 3 bytes, 2 opens, 1 busy, 1 fault | `CopySound`, `PendingSound`, `AcceptedInOrder`, `AcceptedOnce`; `Vcom` implements `TtyPipe` |
| `Stop` | ring 3, 3 bytes, output stopped once, 1 late answer, 1 kill | `TypeOK`, `PendingAnswered` |
| `Read` | ring 3, 3 bytes, 2 opens, throttled once | `ReadInOrder`, `FlowAgrees` |
| `Settings` | ring 2, 2 settings, 2 opens, 2 changes, 1 modem event, 1 fault | `StackSound`, `OpenCloseMatched`, `SettingsAgree` |
| `Live` | ring 2; seven scenarios of up to 2 opens, 2 bytes each way, 1 busy, 1 fault, 1 kill, 1 change, output stopped once, throttled once | `WrittenArrives`, `ResumeArrives`, `CloseArrives`, `SettingsArrive` |
| `Uart` | ring 7, buffer 8, every position, amount and part taken | `PieceInBounds`, `AllCopied`, `NoByteLost`, `RoomIsAnnounced` |
| `Link` | timeout 3, 2 names of 2 addresses, list of 3, 5 descriptors of which 2 are held; any number of calls and connections | `SilenceBounded`, `CountExplained`, `EarlyOnlyInherited` of `PullTimer`; `ConnectTypeOK`, `NoLeak`, `ReturnedConnected`, `AcceptingWins`, `Returns` of `Connect` |
| `Framing` | header 3, payloads 0, 1, 3 (all there is room for) and 4 (too long), 3 packets per connection, any number of connections | `TypeOK`, `DropJustified`, `ComesBack`; `Framing` implements `PacketChannel` (`PacketsKept`) |
| `Monitor` | file of 14 cells, names of 2 to 4, messages of 2, 3 and 9 (one that does not fit), 4 exceptions | `MostRecentFirst`, `Pushed` |
| `Advttyd` | 2 ports, 4 process numbers, 2 edits, 2 runs, 1 stop, 1 death, 1 race | `OneDaemonPerPort`, `EntriesServed`, `ConfiguredDaemonSurvives`, `LineTakesEffect` |
| `AdvScripts` | ports 1, 2, 11, types with and without letters, IPv4 and IPv6, 3 lines, any number of calls | `OneLinePerPort`, `RemovedIsGone` |
| `Pause` | ring 3, 2 bytes, never throttled | a violation: see below |

Why the bounds are enough: with three bytes through a ring of three or four positions
every cursor wraps around, the ring fills, and a WRITE is cut off by its maximum length
and by the wrap; a pending WRITE meets growth of the ring, a busy answer, a lost
connection and a reopen; two bytes of data suffice to leave tx non-empty, pause,
overflow and resume. In `Live` the ring holds one byte, so that the second one waits in
the serial core until the daemon pokes the driver. One fault already interrupts every
step of every handler, since it may come anywhere. The scenarios of `Live` are the
smallest that exercise each kind of trouble with each promise; all four promises are
checked in all seven, since liveness over their union is out of TLC's reach. `Uart` needs
sizes at which each buffer can wrap before, after and together with the other. In `Link`
both names together have more addresses than the list holds, and both lists more than
the process has descriptors left, so each limit is met before the other. In `Framing` a
header of three units is cut in every way two reads can see, a payload may be none, a
part of the room, all of it or one more. In `Monitor` a long message
finds no room, three short ones fill the file, and the next pushes the oldest out. In
`Advttyd` a port's line can change its server, vanish and come back, or get a second
one beside it, with runs of advttyd in between.

The time in `Link` needs no bound: `lrecv` and the silences are bounded by what the code
does, and `rounded` and `inherited` by `lrecv`.

`PauseMeansThrottled` is what section 4.2.1.5 of `readme.txt` says: "Data pause is
triggered by TTY throttle." The code pauses whenever the daemon's copy of tx is not
empty, and tx also stays non-empty when the tty layer is short of memory or its receiver
is stopped. The run `Pause` shows it. The behaviour is harmless (`ResumeArrives`); the
sentence is narrower than the code.

Other places where the code does less than its documents or messages suggest were met
while modelling. They have no run, since no more is to be shown than the lines
themselves show; the models have them and the properties are stated with them in mind:

* `advadd -m 1` beside a line for port 11 changes port 11 and says it changed port 1:
  the expression at `script/advadd:45` is not anchored. A line with a type such as C524,
  the readme's own example, or with an IPv6 address is not recognised, and adding the
  port again gives it a second line. `OneLinePerPort` says what is left.
* `advrm -m 1` also removes port 11, `advrm -p 1` also index 10 (`script/advrm:76`).
  `RemovedIsGone` demands what should go, not what should stay.
* The filter lets a minor number equal to `CF_MAXPORTS` pass (`initd/advttyd.c:357`);
  its daemon ends at once, at every start of the service. `EntriesServed` leaves it out.
* The daemon of a removed port goes on after `advman -o restart`, since only configured
  entries are looked at (`initd/advttyd.c:415`).
* With a history in the file the `memmove` at `daemon/vcom_monitor_dbg.h:118` writes one
  byte behind `MSIZE`: within the mapped page and not in the file.
* The header of a state with a shorter name carries `snprintf`'s NUL into the file, so
  an exception is not logged if the daemon reconnects before logger reads. `Pushed`
  shows that this, and being pushed out, is all that stands between an exception and the
  log.
* If a name does not resolve, `vc_connect` goes on with uninitialised lengths.
  `ReturnedConnected` holds even then, `NoLeak` does not.

A packet that stops behind its header holds the daemon: the first `recv` of a payload
(`daemon/vcom_client.c:108`) blocks, the socket has neither SO_RCVTIMEO nor a keepalive
(ENKALIVE in `vc_config_sock` does nothing), and while it blocks neither the
application is answered nor `lrecv` counted. A device that goes away there without
closing the connection keeps the daemon until it is killed. `ComesBack` is the whole
truth about it: the daemon always returns to its loop, unless it stays at that `recv`,
of which nothing has come, for ever. TLC refutes it without that exception; the header
and the second reads need none.

What holds only on a condition: `OneDaemonPerPort` takes an administrator who does not
run advttyd with two lines for a port or before the daemons it has started have opened
their files, and no race in `__pid_search_fd` (`blind`); `EntriesServed` a run that
nothing disturbs, and `LineTakesEffect`, which says that the daemon stays, a last run
that nothing disturbs then or later. A run that finds the file emptied counts as
disturbed: it starts nothing, but kills nothing either (`ConfiguredDaemonSurvives`). With two lines for a port, which `advadd` can leave, both get a daemon
if the second is looked for before the first has opened its file, and otherwise the
second's replaces the first's; so `EntriesServed`, `ConfiguredDaemonSurvives` and
`LineTakesEffect` are stated for a configuration with one entry per port. `AcceptedOnce` supposes, besides
faults, late answers and kills, that the device sends no data: data that overruns tx
breaks the connection, and what the device had accepted is then sent again. `Advttyd`'s
instance has no port whose number ends in another's.

### Fairness

`WF_vars(DaemonStep)`: the daemon is one thread in an endless loop and its `select` has
a timeout, so it goes on taking steps. `WF_vars(DeviceAnswers)`: the device goes on
answering what it was sent. In `Advttyd`, advttyd, a started daemon and a running sort
each go on (`WF`), since they are programs with nothing to wait for. In `Link` the
daemon goes on with a call of `vc_connect`, and what an address answers in time arrives
(that is what in time means). In `Framing` the daemon goes on within `vc_recv_desp`, and
the timeout of its second reads expires; nothing is assumed of the device and the
network, nor that a new connection can be had. In `Monitor` both programs go on;
the daemon need not change its state ever again. No fairness is assumed of the
application, of the administrator, of data, of faults, or of one alternative within the
loop over another. Liveness is stated up to events that legitimately end the obligation:
the port is closed, the output stopped, or the tty throttles again. `WrittenArrives` holds without late
answers only: Idle drops whatever packet arrives first, so an answer that comes after
ten seconds of silence is lost and its bytes wait until the connection is replaced.

## 4. Proofs

| theorem | states | of |
|---|---|---|
| `TypeCorrect`, `StackCorrect`, `OpenCloseCorrect` | `[]TypeOK`, `[]StackSound`, `[]OpenCloseMatched` | `Vcom` |
| `CopyCorrect`, `PendingCorrect` | `[]CopySound`, `[]PendingSound` | `Vcom` |
| `AcceptedCorrect`, `OnceCorrect` | `[]AcceptedInOrder`, `[]AcceptedOnce` | `Vcom` |
| `AnsweredCorrect` | `[]PendingAnswered` | `Vcom` |
| `PipeCorrect` | `PipeImplemented`: `Vcom` implements `TtyPipe` | `Vcom` |
| `ReadCorrect`, `FlowCorrect`, `SettingsCorrect` | `[]ReadInOrder`, `[]FlowAgrees`, `[]SettingsAgree` | `Vcom` |
| `PokeKeeps`, `UnreadPut`, `UnreadGet` | what a ring holds after a copy into it and after a move of its head | `RingBuf` |
| `PieceCorrect`, `CopiedCorrect`, `HandedCorrect`, `RoomCorrect` | `[]PieceInBounds`, `[]AllCopied`, `[]NoByteLost`, `[]RoomIsAnnounced` | `UartXmit`, `UartRecv` |
| `XmitOneStep`, `RecvOneStep` | each loop returns with the ring, the memory and the bytes of the one step `VcomDriver` takes | `UartXmit`, `UartRecv` |
| `SilenceIsBounded`, `CountIsExplained`, `EarlyIsInherited`, `TimerTypeCorrect` | `[]SilenceBounded`, `[]CountExplained`, `EarlyOnlyInherited`, `[]TypeOK` | `PullTimer` within `Link` |
| `ConnectTypeCorrect`, `NothingLeaks`, `ReturnedIsConnected`, `AcceptingIsTaken` | `[]ConnectTypeOK`, `[]NoLeak`, `[]ReturnedConnected`, `[]AcceptingWins` | `Connect` within `Link` |
| `CallIsBounded`, `SelectIsWoken` | a call of `vc_connect` takes a bounded number of steps and never waits for an answer it would not see | `Connect` within `Link` |
| `FramingTypeCorrect`, `DropIsJustified` | `[]TypeOK`, `DropJustified` | `Framing` |
| `PacketsAreKept` | `PacketsKept`: `Framing` implements `PacketChannel` | `Framing` |
| `OneDaemon`, `ConfiguredSurvives`, `EntriesAreServed` | `[]OneDaemonPerPort`, `ConfiguredDaemonSurvives`, `[]EntriesServed` | `Advttyd` |
| `RunIsBounded` | a run of advttyd takes a bounded number of steps, whatever happens beside it | `Advttyd` |
| `MonitorMostRecentFirst`, `MonitorReportsTheVisible` | `[]MostRecentFirst`; what is reported to vcinot can be read | `Monitor` |
| `ScriptsOneLinePerPort`, `ScriptsRemovedIsGone` | `[]OneLinePerPort`, `[]RemovedIsGone` | `AdvScripts` |

These are all the safety properties of the passing runs. Each holds of the specification
its run checks, though no proof uses fairness, and for all values of the constants that
satisfy the named assumptions: `SizeAssumption` and `XmitAssumption` (a buffer has more
than one byte), `DriverAssumption`, `DaemonAssumption` (there is at least one line
setting, a WRITE carries something, budgets are numbers), `PullAssumption` (the timeout
is not 0), `ConnectAssumption` (the array holds a socket; what other files hold are
descriptors), `FramingAssumption` (a header is not empty), `MonitorAssumption` (a header
leaves room in the file, "Net Down" is the longest name, no message is empty) and
`StateNamesAssumption` (the header of a state is told from a message),
`ConfAssumption`, `ScriptsAssumption` and `ServiceAssumption` (what lines, numbers and
budgets are; there are finitely many process numbers). Nothing else is supposed; the
theorems about `Advttyd` suppose nothing of what the filter makes of a configuration.

### The port

`TypeOK` is inductive by itself. It has four parts (rings, port, link, loop), each
preserved per action by lemmas about the operators the action is built from
(`MoveHeadType`, `PokeType`, `PacketType`, `AnswersType`, ...). `StackSound` is
inductive relative to `TypeOK`: the lemma `Shapes` says what each of the five shapes of
the stack means for `Top`, push and pop, `ExcpStack` that the exception path
re-establishes it from any state, and `DaemonStack` goes through the handlers. That
`sk`, `eki.open` and the emptiness of the link are part of it is what makes it
inductive: `vc_netdown_open` only tests `eki.open`, and the reason that nothing is left
over from an earlier connection is the last conjunct. `OpenCloseMatched` follows from
both without a further induction.

On the way to the device the invariants build on one another:

1. `CopyInv`: rx is never left marked CLEAN, the daemon's copy of it has its head and
   no more bytes than it. With `Grown` (the tty only appends) this gives `CopySound`.
2. `OneWrite`: at most one WRITE or answer to one is under way, the WRITE carries the
   front of rx, as many bytes as `xmit_pending`, and the answer names their number. It
   is needed as a whole: that the answer may drop that many bytes rests on there being
   no second WRITE. It gives `PendingSound`.
3. `InOrder`: the stream (rx and what is behind it in the serial core) ascends; a byte
   smaller than one accepted was accepted before that or will not be sent; the bytes an
   answer is about to drop have been accepted. `OpeningInv` adds that during the first
   opening the stream has no gap and starts where the accepted bytes end, or within
   them. Together they give `AcceptedInOrder`.
4. `PipeCorrect` needs no further invariant: under `OneWrite` and `InOrder` every step
   appends to the stream, accepts its front, drops an accepted front, empties it, or
   stutters, and these are the actions of `TtyPipe`.
5. `LostInv`: the end of a connection stands behind everything else in the socket, and
   Idle is entered only when nothing is outstanding; hence `PendingAnswered`.
6. `OnceInv`: in an untroubled run (`CleanSocket`) a byte that is accepted and still in
   the stream is one of the pending, and its answer waits in the socket.

On the way back `ReadInv` is `ReadInOrder` with the facts that tx is never left marked
CLEAN, no byte runs ahead of the device, and each DATAREADY carries one. `Settling`
says, for the leave to send and for each kind of setting, that the packets under way
take the device from what it has to what the daemon believes: if there are none the two
agree, and otherwise the last one carries that value (`SettlesIn`). A daemon's step
appends packets that settle its own change (`Tells`), a device's step takes the first
one; both keep it. `FlowAgrees` and `SettingsAgree` follow by the existence of a last
packet, which is a least-element argument over the natural numbers.

Two properties were sharpened on the way. The attempt to prove `AcceptedOnce` for every
ring size showed that data overrunning tx repeats bytes, which the bounds of the run
`Write` do not reach, so the property now says that no data comes. `ReadInOrder` is
stated over the bytes read and the packets of data that wait, not over one concatenated
sequence.

### The copying loops

`XmitInv` says of `adv_uart_xmit`, in the middle of its loop, how many bytes are copied,
that they lie behind the old ones in order (by `UnreadPut`), and that `max_retry` exceeds
`WrapsLeft`, the number of wraps, of either buffer, the rest has still to make. A round
that does not finish ends at a wrap; hence three rounds suffice. `RecvInv` says of
`adv_uart_recv_chars` that what the tty layer has taken and what is left make up what
there was (by `UnreadGet`), and `RoundsSuffice`: unless something was refused, the second
round starts at the beginning of the memory.

`VcomDriver` takes each loop in one step. `XmitOneStep` and `RecvOneStep` show that this
leaves nothing out: what has been moved after any number of rounds is one move of the
cursor and one copy (`XmitOnce`, `RecvOnce`), because two moves are one by their sum
(`MoveTwice`) and two copies behind one another are one (`PokeTwice`). The step ends with
`least(pending, room)` bytes copied by `AllCopied`, and with the front of what was unread
taken by `NoByteLost`; `VcomDriver` has these operators under the names
`adv_uart_xmit` and `adv_uart_recv_chars`.

### Connections and packets

`PullTimer`'s theorems follow from one inductive invariant: the types, and that while
connected `lrecv` is at most `silence + inherited + rounded` (which explains every drop
that is too early), and that in Net Up `silence + rounded` is at most `lrecv` (which
bounds the silence, since `lrecv` is bounded), with one timeout more in Idle. That a
drop resets `lrecv` is what makes two early drops in a row impossible: after an early
one the count that the next connection inherits is what the passes of Net Down leave of
it, none. A step of `Link` is one of `PullTimer` or leaves its variables alone
(`LinkTimes`), so they hold in `Link`.

`ConnectInv` adds to the types that the descriptors of the list are open and apart from
those of other files, that if every name resolved no others are open, and that the
socket chosen is one of the list and connected. What carries the induction is that
`socket()` returns a descriptor that is not open (the lowest free one).

That a call ends needs fairness and stays with TLC (`Returns`); that it cannot go on for
ever is proved. `Ahead` counts what is left of a call: two steps for each address, the
lookup of the redundant name, `select` and the closing, and the answers on their way.
Each step of the daemon within a call, and each answer, lessens it (`CallIsBounded`), and
in `select` something will end the wait (`SelectIsWoken`). So `Returns` lacks only that
the daemon is scheduled and that answers in time arrive.

`FrameInv` says that what is on its way (read, in the socket, in the net) is the packets
after those handed on, one behind the other. Written as a concatenation that would take
an induction over the list of packets; instead `Laid` asks for positions: a function `f`
with the place where each packet begins, each `HdrLen + s[k]` behind the one before. A
step of the daemon then only shifts `f`, and a packet sent extends it. `Place` adds how
much of the packet at hand has been read at each of the two reads.

### The service

`SearchInv`: advttyd is at an entry there is, and the daemon it has found has the
entry's port, or has ended (its number is not used again before the search goes on).
That alone gives `ConfiguredSurvives`. `PortsKnown`, unless `blind`: the daemons that
have not opened their files belong to earlier entries, the processes looked at do not
have this entry's port, so when a daemon is started the port has none. `EntriesKnown`,
while undisturbed: the entries behind advttyd are served, and what it kills has the port
of another entry.

`RunIsBounded`: a step of advttyd goes on to a later entry or leaves fewer processes to
look at for this one, and no step of the administrator, of a daemon or of a sort gives it
more. With the scheduling of advttyd that is the part of `LineTakesEffect` that says its
runs end.

### The monitor file and the scripts

`FileOK` says what the file shows at each place of `mon_update`. Outside an exception
that is `history` behind the first `max_statl` cells, filled up with blanks. Between an
exception and the writing of its message the file still shows an older history, of which
`history` is the extension by the new message (an existential, `Extended`): so the
invariant holds at every write to the mapping, where vcinot may look, and not only at the
end. The write of a header keeps it because the shift (`Grown`) is by exactly the growth
of the header; the write of a message because the shift (`Shifted`) makes room for the
message and its blank, though it moves as many cells as fit behind the *present* state's
name, which is the longest at that place. `NewestShown` at the report gives
`MonitorReportsTheVisible`.

`ScriptsInv` is that the file is a sequence of lines in which no port has two that the
scripts recognise, and that what the last call removed is gone. A line replaced by advadd was itself
recognisable, for its own number (`OwnLine`), so the new one stands in for it and for no
other; one is appended only where none is recognised (`AddKeepsUnique`). Sorting is a
bijection on the lines that stay (`SortedLines`): it makes up none and doubles none.

The new inductive invariants were checked with TLC, on the bounds of the runs, before or
beside their proofs; for `FrameInv` with `f` computed.

### What only TLC checks

* Every liveness property (`WrittenArrives`, `ResumeArrives`, `CloseArrives`,
  `SettingsArrive`, `Returns`, `ComesBack`, `Pushed`, `LineTakesEffect`): fairness and
  `ENABLED` are beyond the prover. For `Returns` and the end of advttyd's runs the
  theorems above have the part that does not rest on fairness.
* What the filter `paser_config` makes of a file (`SelectSeq` is defined by recursion).
  The theorems hold for whatever it makes of it.

## 5. Not modelled, and plan

Not modelled: mmap and the registration of the module and its devices (run once, by the
kernel's rules; `PROJECT.json` lists the order of registration as a hazard), the second
slot of the attribute buffer (with one daemon per port nobody reads it), the bytes of a
packet, advps, advrm by type and address, vcinot on a whole directory, the two variants
of the monitor that are not compiled, and the instrument loggers of `src/used`,
`src/controltest` and `src/ref`, which poll and print without state of their own.

Left to prove: bounds of the kind of `CallIsBounded` for the port itself (a WRITE is
answered, or its connection given up, after a bounded number of steps of daemon and
device), so that `WrittenArrives` would lack only the fairness. They need a measure that
the application's writes may raise and every other step lowers.
