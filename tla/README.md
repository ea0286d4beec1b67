# A TLA+ verification project for the CAPWAP WLAN controller

The repository extends openCAPWAP 2.0: an access controller (AC) and wireless
termination points (WTP), both multi-threaded C daemons under `src/capwap/`.
The project models them as the Makefile builds them (`CW_NO_DTLS`, `SPLIT_MAC`,
no `CW_DTLS_DATA_CHANNEL`). hostapd and netconf under `src/auto/` are
third-party code and out of scope.

The modules cover the timer library under both daemons; on the AC the life of
the sessions, the commands of management applications with the retransmission
of requests, and the table of stations; on the WTP the way into Run and the
supervision of the two channels in Run. TLC checks all of them on small
instances; the safety invariants of all of them but the recursive functions of
the station table are proved with TLAPS for every instance (section 4).

## 1. Inventory

### Parts of the system, their state and operations

| Part | State | Operations |
|---|---|---|
| Timer library (`timerlib.c`, wrappers in `CWThread.c`) | queue of timers by absolute expiry, one process-wide interval timer, one ticker thread | `timer_add`, `timer_rem`, the ticker loop `cronometer`; `CWTimerRequest`, `CWTimerCancel`, `CWHandleTimer` |
| AC session management (`ACMainLoop.c`, `AC.c`, `CWAC.h`) | table `gWTPs` of session slots, `gActiveWTPs`, per slot a packet list with mutex and condition variable, a current timer, a state | `CWACManageIncomingPacket` on the main thread; `CWManageWTP` and `_CWCloseThread` on each session thread; `CWCriticalTimerExpiredHandler` |
| AC protocol states (`ACJoinState.c`, `ACConfigureState.c`, `ACDataCheckState.c`, `ACRunState.c`) | the slot's `currentState`, its timer, what the WTP said about itself | `ACEnterJoin`, `ACEnterConfigure`, `ACEnterDataCheck`, `ACEnterRun` |
| AC application interface (`ACInterface.c`) | `appsManager`, the table of client sockets; per slot a command, its parameters and the index of the client | listener `CWInterface`, one `CWManageApplication` thread per client, the four `...SetValues` functions |
| AC retransmission (`ACRetransmission.c`, `ACMainLoop.c`) | per slot the messages, the expected response, a retransmission timer | `CWACSendAcknowledgedPacket`, `CWACStopRetransmission`, `CWSoftTimerExpiredHandler` |
| Station table (`CWAVL.c`, used in `ACRunState.c`, `ACMainLoop.c`, `WTPRadio.c`) | AVL tree of stations with their WTP (or BSS) and radio | insert, move and delete on association, deauthentication and session close |
| WTP state machine (`WTP.c`, `WTP*State.c`) | current state, discovery results, two sockets with fixed ports, receiving threads, packet list, retransmission count, WaitJoin timer | Discovery, Sulking, Join, Configure, DataCheck, Run; `CWWTPSendAcknowledgedPacket` |
| WTP run state (`WTPRunState.c`, `WTPRunStateCheck.c`, `WTPRetransmission.c`) | flags of the main thread, the data thread and the timer handlers; Echo, KeepAlive and DataChannelDead timers; boxes of pending requests | `CWWTPEnterRun`, `CWWTPManageDataPacket`, the handlers of the timers; send, retransmit, match a response |
| Message layer (`CWProtocol.c`, `CWBinding.c`) | fragment lists | assemble, parse, fragment, reassemble |
| Radio, driver, hostapd, configuration, DTLS, update tools, relay | | I/O and conversions, see `PROJECT.json` |

### How the parts interact

* The AC's main thread reads every packet, finds the slot that serves the
  sender (`gWTPsMutex`), and appends the packet to the slot's list and signals
  the session's thread (the slot's `interfaceMutex` and `interfaceWait`, which
  every new session of the slot destroys and creates again).
  Packets of unknown senders are Discovery Requests, answered at once, or the
  start of a session: a slot, a list and a thread.
* A session thread waits for a packet, a command or a request to close. It
  handles one of them with its timer signals blocked.
* A timer of a session is an entry in the timer library. The ticker thread
  takes it off the queue and sends a POSIX signal to the session's thread,
  whose handler asks the session to close (critical timers) or retransmits
  (soft timer).
* A client's thread puts its command in the slot, signals the session's thread
  and waits on `interfaceComplete` until the session thread has had an answer
  from the WTP, has failed to send, or closes.
* An association on the AC enters the station in the table and makes the
  session send a Station Configuration Request, through the same fields and
  timer that a client's command uses.
* The WTP's main thread sends a request and waits on its packet list, which
  the receiving thread of the control socket fills; the session the AC has for
  the WTP's address answers, or does not, according to its own state.
* In the WTP's Run the main thread, the data thread and the ticker thread, on
  which the timer handlers run, share flags and start and stop each other's
  timers.

### What is hard

Lookup and use of a slot under different locks; counts and flags that change
at different times (`gActiveWTPs`, `isNotFree`); signals that interrupt a
thread between a test and a wait; cancelling a timer that has just been taken
off the queue; one interval timer and one pending signal for many timers;
one slot for the commands of several clients; one set of retransmission fields
for two kinds of request; sequence numbers that wrap; a retransmitted request
meeting a session that has moved on; sockets closed under a thread that reads
from them; timers that outlive the state that started them;
a mutex that is re-initialised under its holder; waits without a timeout for
the rest of a message; lost, late and duplicated messages; error paths that leave the thread or the
process. `PROJECT.json` lists each hazard at its line with the properties
aimed at it, and says why where there is none yet.

### What makes each part correct

* Timer library: no lost wake-up, order, no use of removed timers, no double
  free, every timer ends.
* Sessions: one session per slot and per WTP, packets reach the session of
  their sender, the count is right, slots are not leaked, every session that
  should end can end, no packet waits forever.
* Applications: own socket per client, a completion for each command and only
  for the right one, parameters outlive their use, requests are answered,
  repeated or given up.
* Stations: the tree is a search tree with right heights, and to its users a
  table from stations to WTPs.
* WTP: in Run both sides agree that they are; what retransmission is for does
  not keep the WTP from Run; a silent AC is noticed; Run can be left.

## 2. Modules

| Module | Contents |
|---|---|
| `TimerLib` | the timer library with clock, kernel timer and ticker |
| `TimerService` | what its callers may rely on; `TimerLib` implements it |
| `ACMainLoop` | main thread, session threads and critical timers of the AC |
| `ACInterface` | listener, client threads, one slot with its session and the network |
| `StationTable` | the table of stations as a function; `CWAVLTable` implements it |
| `CWAVLNode` | the nodes of the search tree, the rotations, and what each function of the tree does at one node |
| `CWAVLTable` | the sections under `mutexAvlTree` and their properties; the tree's functions are parameters |
| `CWAVL` | `CWAVLTable` and the recursive functions that are the values of its parameters |
| `WTPMain` | the WTP from Discovery to Run, the network, and the AC's session for it |
| `WTPRun` | the three threads of the WTP's Run with their flags and timers |
| `TimerLibProof`, `ACMainLoopProof`, `ACInterfaceProof`, `WTPRunProof`, `WTPMainProof` | the theorems about the module in the name; its inductive invariant `IInv` is at its end |
| `TimerServiceProof` | that `TimerLib` does only what `TimerService` allows |
| `CWAVLNodeProof` | what the rotations of `CWAVLNode` preserve and restore |
| `CWAVLTableProof` | what the functions of the tree compute, and the theorems about `CWAVLTable` |
| `MC*` | instances for TLC, symmetry sets |

Operators named `<definition>_<change>` are plausible mistakes in a definition;
each property is violated when one of them takes the definition's place.

### TimerLib

`queue` is the linked list from `timerq.first` to `timerq.last`, each entry
with its expiry and the flags `in_use` and `cancelled`; `arg` says that
`handler_arg` is not NULL. `itimer` and `sigalrm` are the kernel's: `Expire`
turns an expired interval timer into a pending SIGALRM, of which there is at
most one. An absolute time is a number of ticks; a tick is a microsecond, and
`Second` of them are a second. `TV_MINUS` is translated with its borrow, which
is `MAX_USEC` and so one tick short: an interval comes out a tick too small when
the microseconds wrap, and `setitimer` disarms the timer when it comes out as
zero. `WakeupLost` names the state this leads to. `AlmostNow` is `ALMOST_NOW`.
A section under `timerq.mutex` is one step. The ticker's steps are
`Arm` (condition wait and `timer_start`), `SigWait`, `Discard` (a cancelled
timer), `Fire` (dequeue, start the handler) and `HandlerReturn`. Other threads
and the handlers themselves call `timer_add` and `timer_rem` at any time,
also while the ticker waits, has been woken or runs a handler. `timer_rem` is
called with `CWTimerFreeArg` (AC) and without (WTP). `removed`, `started` and
`freed` are history. Allocation failure of `timer_add` changes nothing and is
not a step. `timer_destroy` is not modelled.

`TimerService` has neither clock, interval timer nor signal: a set of pending
timers, from which one that is due no later than any other runs its handler,
one at a time. The refinement mapping takes as pending the queue without its
cancelled entries and as running the handler the ticker is in. The service
does not say that a handler does not run early, nor that it runs at all, because
neither is true (see section 3): it is about which handler starts next, and
about none starting after its timer was cancelled. That handlers start is
`EveryTimerEnds`, with its exception.

### ACMainLoop

`gWTPs` has one entry more than the table: the search for a free slot can stop
there. A slot's `packets` and `listValid` are `packetReceiveList` and whether
it is allocated. A thread has a place in `CWManageWTP` (`pc`), its slot, its
critical timer (`armed`), a pending critical signal and the signal's mask.

A slot's `interfaceMutex` is state (`locked`), because it does not protect what
it should. `CWManageWTP` destroys and creates it, and the conditions, when the
session begins (`InitSession`), while the main thread, which has just started
the session, may be between lock and append, and a client of the slot's previous
session may be anywhere in its wait (`client`). Afterwards the mutex is free,
whoever held it. From then on the main thread's append and the session's removal
of a packet can overlap: the count of the list may lose the new packet
(`"torn"`), or the program crashes (`BrokenList`). Destroying a condition with
a client waiting on it may block the session for ever, as glibc does.
`_CWCloseThread` unlocks the mutex without having locked it
(`ACMainLoop.c:1114`), which is part of `UncountSession`. `reinit` records that
a re-initialisation met somebody; it is what `QueueDrains` excepts.

Main thread: `Receive` (lookup and data address), `CheckActiveWTPs` (limit and
discovery), `TakeSlot`, `StartSession`, `LockList`, `AppendPacket`. They are
separate steps because the code holds different locks, or none, in each. Session thread:
`CountSession`, `InitSession`, `TestForWork`, `Sleep`, `TestForClose`,
`BlockSignals`, then one packet (`NeedFragment`, `ACEnter...`, `Reject`,
`NoErrorPending`) or `HandleCommand`; and `UncountSession`, `DestroyList`,
`FreeSlot` for `_CWCloseThread`. Timers: `Expire` (the ticker dequeues; from
here on a cancel has no effect), `CWHandleTimer`, and
`CWCriticalTimerExpiredHandler` on the session's thread.

`pthread_cond_wait` is two steps: `TestForWork` leaves the thread at
`"presleep"` with the mutex, `Sleep` lets go of it. That is where a signal
handler can come in between. Spurious wake-ups are included. With `Failures`
memory, threads and sends fail, along the code's error paths: a thread out of
memory ends inside `CWErrorHandleLast` (`"exited"`), and `CWErr` on a failure
that raised no error ends the process (`main.pc = "crashed"`). Undefined
behaviour (an append to a freed list, the comparison with a NULL session id)
is a choice of outcomes that includes the crash.

What a message contains is a choice when it is handled: complete or not,
understood, ignored or fatal. Packets only have a sender and a channel.
`WTPCount` of an interface goes up and down with `gActiveWTPs` and is not
repeated. `CWThreadSetSpecific` is assumed to succeed, and data packets with
a malformed transport header are dropped before they matter. Encrypted packets
do not occur in this build.

### ACInterface

One slot with its successive sessions, the clients, the listener and the
network. `network` is the set of everything ever sent, from which messages are
received in any order, any number of times or never. `SetValues` is the post
of a command up to its wait; `Complete` is the signal on `interfaceComplete`,
which wakes any one of the waiting clients. The command branch of the session
loop is `SendCommand`, the response `HandleResponse`, the retransmission timer
`CWSoftTimerExpiredHandler`. `CloseSession`, `ReleaseClient`, `FreeSlot`,
`TakeSlot`, `ResetSlot` and `EnterRun` are the parts of a session's life that
touch these fields; what makes a session close is ACMainLoop's subject, so
here it may close at any time. `ResetSlot` recreates the condition variable on
which clients may be waiting: undefined, so they are lost or the session
hangs. `"lost"` clients never return. A client that leaves may come back.

Station Configuration Requests are sent by the slot's session, or for it by the
session that takes over one of its stations (`ACRunState.c:858`), at any time
in Run. They overwrite the messages, the expected response and the timer of an
outstanding command. When another session sends, these are several writes
without a lock, here one step; no property depends on their order. Spurious wake-ups of `interfaceComplete` are not modelled:
the code does not test why it woke, so what `apps_single` shows holds on
condition that there are none.

### CWAVL, CWAVLNode and CWAVLTable

A node contains its children, so a tree is a value and each function of the
code returns the new root, as in C; `Crash` stands for a dereferenced NULL.
`AVLfindWTPNode` does not return what its recursive calls find: the build
(no optimisation) leaves the last call's result in the return register, and so
does the model. `AVLdeleteNode` exchanges the two rotations when it rebalances.
The actions are the sections under `mutexAvlTree`: `Associate` and `Delete` on
the AC, `Close` at the end of a session, `Add` and `Delete` on the WTP. A
node's BSSID follows its index and is left out. `StationTable` maps every
station to an index and radio or to nothing; its `Close` may leave stations of
the slot behind, because the search for them does. The mapping is `AVLfind`.

The model is in three modules because the prover cannot be used in a module
with a `RECURSIVE` definition. `CWAVLNode` says what each function does at one
node, with an operator as a parameter in place of the recursive calls
(`AVLinsertAt(Insert, ...)`). `CWAVLTable` has the recursive functions as
parameters, and `CWAVLFunctions` is the list of the equations that define them
(`AVLinsert(i, s, r, t) = AVLinsertAt(AVLinsert, i, s, r, t)`). `CWAVL` has a
definition by the same equation for each (`Insert`), which the configurations
give to the parameter as its value (`AVLinsert <- Insert`); the proofs use the
equations only.

### WTPMain

`main` has the state the main thread is in, its place there, the sequence
number, the retransmission count and whether its last error was
`CW_ERROR_SUCCESS`, by which `CWErr` decides about functions that fail without
raising an error (bind, a refused Join); after responses were read it may be
either. `sock` says which sockets are open,
`rx` where the receiving threads are, two for each Join. `CWNetworkCloseSocket`
passes the arguments of `shutdown` in the wrong order, so a thread blocked in
`recvfrom` is not woken and keeps the port (`Abandoned`, `PortHeld`).

`ac` is the session the AC has for the WTP's address, as far as the WTP can
tell: its state, which decides whether a request is answered, and whether a
critical timer runs. One step takes a packet and answers it; `ACMainLoop` has
the threads behind it. `net` is a set of packets; a request and its
retransmissions are told apart by `copy`. `Faults` names what may go wrong, up
to `MaxFaults` times: losses, duplicates, waits that end too soon, failing
resources (each early error return of Join, bind and thread creation, sends
and reads), wake-ups for something else and expiring timers. `excused` records
a fault that retransmission cannot repair.

Left out: a choice between several ACs, a forced AC address, the wrap of the
sequence number at 255, and what the exchanged messages configure.

### WTPRun

`pc` has the places of the main thread, the data thread and the ticker.
`timer` has, for Echo, KeepAlive and DataChannelDead, whether the timer whose
id is stored is on the queue, and how many are there whose id was overwritten
and which nobody can remove. When timers expire is left open. A section under
`gInterfaceMutex` is one step, and so is each function that starts or stops a
timer: the handler on the ticker thread and the other two threads come between
any two of them. `CWWTPKeepAliveDataTimerExpiredHandler` is also called by the
data thread, and is a parameterised action of both. The AC answers until
`ACFallsSilent`. A packet need not complete a message: then the main thread is
in `CWReceiveMessage`, or the data thread in `CWReceiveDataMessage`, until more
packets do (`"receive"`), without a timeout and without looking at the flags.
On the data thread a packet that cannot be parsed has the same effect, because
in this build `CWReceiveDataMessage` never returns `CW_FALSE`; a frame that
cannot be passed on ends the thread at once (`DataFrameFails`).
`CWStartEchoRequestTimer` is one step although it stores the id and the flag
after `timer_add`: the new timer is seconds from expiring. With `Failures` one
thread, timer, message or frame fails anywhere, along the code's error paths;
without a data thread, `pthread_join` gets an id that was never set, and
returns or crashes.

## 3. Runs

Passing runs:

| Run | Instance | What it shows |
|---|---|---|
| `timers` | 3 timers, delays 1 and 2, requests up to time 4, a second of 3 ticks | `FirstStaysInQueue`, `QueueSorted`, `WakeupArmed`, `RemovedNeverStarts`, `FreedAtMostOnce`, `StartedAtMostOnce`, `EveryTimerEnds`, the last and `WakeupArmed` with the exception of an interval that `TV_MINUS` takes for zero, and that the library implements `TimerService` (`ImplementsService`) |
| `ac_sessions` | 2 WTPs, 2 slots, 3 control packets, Discovery Requests or commands, 3 sessions | `SlotExclusive`, `SlotOwned`, `OneSessionPerWTP`, `PacketsToOwner`, `ActiveCount`, `JoinGuarded`, `SessionUndisturbed` |
| `ac_inputs` | 1 WTP, 1 slot, control packets, keep-alives and commands, 4 of them, 2 sessions, failures | `SlotExclusive`, `JoinGuarded`, and `QueueDrains`: no session leaves a packet unread, except one that re-initialised the mutex and conditions while somebody was using them |
| `apps_single` | 1 client, 3 commands, 2 Station Configuration Requests, sequence numbers 0 to 4, failures | `ParametersAlive`, `ReturnMeansFinished`, `NoStaleCompletion`, `ClosedSessionReleases` |
| `apps_many` | 3 clients, 2 sockets, 2 commands, failures | `EnoughWaiters`, `SocketCount`, `OwnSocket` |
| `stations` | 5 stations, 2 slots, 2 radio ids | `SearchTree`, `HeightsRight`, `InsertKeepsBalance`, and that the tree implements `StationTable` (`ImplementsTable`) |
| `wtp_join` | 2 Joins, 2 transmissions of a request, one fault of any kind | `RunAgreement`, `ReachesRun` |
| `wtp_run` | 2 Runs, 1 Echo retransmission, 1 failure | `EchoGuarded`, `DeadGuarded`, and, except where a thread waits for the rest of a message, `SilenceNoticed` and `LeavesRun` |

`TypeOK` is an invariant of a run of each module that defines it. Deadlock is
not checked: a system whose bounded inputs are used up, and whose sessions have
all ended or wait, has nothing left to do.

Runs in which TLC finds a line of the repository contradicted by the code
(details in `PROJECT.json`, "findings"):

| Run | Property | What happens |
|---|---|---|
| `ac_capacity` | `AtMostMaxWTPs` | more sessions than `gMaxWTPs`, one on the entry behind the table |
| `apps_resend` | `RequestResolved` | a lost request is neither repeated nor given up |
| `avl_rotate` | `RotationsAllowed` | a deletion rotates about the child that is not there |
| `wtp_restart` | `RestartsDiscovery` | a WTP whose data channel died ends: a thread blocked on the closed socket keeps the port |

Other behaviour of the code that the models contain and that limits what can be
said of it, listed with the hazards:

* Timers: where the microseconds have to borrow, `TV_MINUS` (`timerlib.c:70`)
  adds 999999 for a second. One microsecond across a full second becomes zero,
  `setitimer` disarms the timer, contrary to the comment of `timer_start`
  (line 129), and the ticker stays in `sigwait` until an earlier timer is added
  (`WakeupLost`). A pending SIGALRM is taken for a timer that overtook the one it was
  for, which then fires early (the comment at `timerlib.c:209` says otherwise).
* Sessions: the re-initialisation of a slot's mutex and conditions under the
  main thread or a client can lose a packet, crash the program or hang the
  session (`InitSession`); a packet may be appended to the list of a session that freed it
  between lookup and append (`AppendPacket`); the request to close may be
  signalled between test and wait and be lost; after a fragment or a malformed
  packet the critical signal stays blocked; a session enters Run without a
  timer, and one that is joined but not configured has none either; a
  keep-alive may be matched with the session id of the slot's previous session
  (`Serves`); a thread that is out of memory keeps its slot (`Exiting`).
* Applications: with several clients a response goes to the one whose command
  came last; a duplicate of the response numbered 0 is accepted when none is
  awaited.
* Stations: closing a session may leave stations behind; deletion may unbalance
  the tree.
* WTP: when the AC falls silent in the middle of a message, the main thread
  stays in `CWReceiveMessage` (`WTP.c:163`) although the Echo handler declares
  the peer dead, after which the WTP should leave Run (comment at
  `WTPRunState.c:654`); or the data thread stays in `CWReceiveDataMessage` and
  the main thread in `pthread_join`. A lost response is not repaired, since the AC's session has moved on and
  ignores the repeated request; once the WaitJoin timer has expired no later
  Join succeeds. From the second Run on, a DataChannelDead timer that the data
  thread or the KeepAlive handler started after the main thread stopped it can
  still be on the queue: `EchoGuarded`, `DeadGuarded` and `LeavesRun` then fail,
  and are stated for the first Run.

### Bounds and why they are enough

* Timers: three are the least with which one can overtake the timer the ticker
  waits for while a third is behind it; two delays give equal, earlier and
  later expiries. The clock runs on past `MaxTime` until the last one is due.
  With a second of three ticks every distance between a timer and a full
  second occurs, and the wrong borrow with and without an interval of zero.
* Sessions: three successive sessions on two slots reuse a slot while the other
  is in use. One slot is enough for everything that concerns a session alone;
  four packets take it from Join to Run, and four inputs let a client of the
  first session wait while the second begins and a packet arrives (`ac_inputs`).
  Frames, which are data packets that carry no session id, do what keep-alives
  do but for the comparison of that id; they are in no run, and neither is the
  failing answer to a Discovery Request, which ends the process. The proofs
  cover both.
* Applications: three clients for two sockets make the table full and make
  clients compete; with sequence numbers 0 to 4, three commands and two Station
  Configuration Requests use the last number and the counter wraps. No number
  is used twice: with a network that delays messages without limit, a response
  could then be taken for another's.
* Stations: with five, deletions meet nodes with two children at the root and
  below it, and both sides of a rebalanced node; with equal radio ids on two
  slots a station can move, with different ones it stays.
* WTP: two Joins let the threads and timers of the first meet the sockets of
  the second; two transmissions allow one loss. Any single fault is tried at
  every point. In Run, one Echo retransmission gives both outcomes of the
  count; the second Run starts with what the first left behind; one overwritten
  timer of each kind is the least that shows the effect.

`SlotOwned` and `ActiveCount` are checked with resources that do not run out;
without that they fail, because a thread that is out of memory neither gives
back its slot nor lowers the count. `QueueDrains` speaks of the list of a
session whose thread runs.
`ParametersAlive`, `ReturnMeansFinished` and `ClosedSessionReleases` are
checked for one client: with several, a completion wakes any of them.

### Fairness

* `TimerLib`: time passes, the kernel delivers an expired timer, the ticker
  thread is scheduled. Nobody has to add or remove timers.
* `ACMainLoop`: the main thread and a client that hold the mutex go on, every
  session thread is scheduled, with unblocked signals delivered first (weak
  fairness). No timer need expire, nobody need get the mutex (`LockList`,
  `CommandComplete`), and WTPs, clients and spurious wake-ups owe nothing. A
  session that wants the mutex is kept from it only finitely often, since the
  inputs are bounded, so weak fairness is enough for it.
* `ACInterface`: the retransmission timer expires and its handler runs, a
  session that was asked to close does, one that began to close continues.
  The WTP need not answer.
* `WTPMain`: the WTP's threads run, what is not lost arrives, waits end; faults
  and timers need not happen.
* `WTPRun`: the threads and a started handler run (weak fairness). Nothing
  obliges the AC to send the rest of a message, so nothing obliges a thread to
  leave `"receive"`. That a timer on the queue expires although the ticker is
  busy now and then with another timer's handler is a premise of
  `SilenceNoticed` (`TimersServed`, strong fairness of each kind's `Expire`) and
  not part of the specification: the library keeps it, as `EveryTimerEnds`
  shows, except after `WakeupLost`. `SilenceNoticed` also assumes
  `DataThreadPrompt`: the Echo interval is seconds long, so its handler does
  not run before the new data thread has taken its first two steps.

## 4. Proofs

The theorems hold for every value of the constants that satisfies the named
assumptions of the modules: any number of timers, WTPs, slots, sessions,
clients, sockets, commands, retransmissions, faults and Runs. The temporal
theorems are about `Spec`, without fairness: invariants, action properties
and two refinements, of services that state no fairness, so that both are
complete. Each proof module shows its inductive invariant (`Invariance`)
with a lemma per action or group of actions, and takes the properties from it.

| Module | Theorems | Further hypotheses |
|---|---|---|
| `TimerLibProof` | `TypeCorrect`, `FirstStays` (`FirstStaysInQueue`), `Sorted` (`QueueSorted`), `NoLostWakeup` (`WakeupArmed`), `RemovedStaysQuiet` (`RemovedNeverStarts`), `NoDoubleFree` (`FreedAtMostOnce`), `StartedOnce` (`StartedAtMostOnce`) | |
| `TimerServiceProof` | `RequestsOrdered`, `ServiceImplemented` (`ImplementsService`) | |
| `ACMainLoopProof` | `TypeCorrect`, `SessionsExclusive` (`SlotExclusive`), `OneSession` (`OneSessionPerWTP`), `OwnPackets` (`PacketsToOwner`), `WaitJoinGuarded` (`JoinGuarded`), `SessionsUndisturbed` (the action property `SessionUndisturbed`) | |
| | `CountExact` (`ActiveCount`), `NoSlotLeaked` (`SlotOwned`) | `~Failures` |
| `ACInterfaceProof` | `TypeCorrect`, `CompletionsAwaited` (`EnoughWaiters`), `SocketFound` (`SocketCount`), `SocketsExclusive` (`OwnSocket`) | |
| | `SingleClientParameters` (`ParametersAlive`) | one client |
| | `OwnCommandReturns` (`ReturnMeansFinished`), `ResponsesMatch` (`NoStaleCompletion`) | one client, no more requests than sequence numbers |
| `WTPRunProof` | `TypeCorrect`, `EchoTimerKept` (`EchoGuarded`), `DeadTimerKept` (`DeadGuarded`) | |
| `WTPMainProof` | `TypeCorrect`, `RunAgreed` (`RunAgreement`) | |
| `CWAVLNodeProof` | `InsertedLeftRestores`, `InsertedRightRestores`, `RotationsKeepTable` | on one node and its children |
| `CWAVLTableProof` | `Searchable` (`SearchTree`), `Heights` (`HeightsRight`), `BalanceKept` (the action property `InsertKeepsBalance`), `InsertionSurvives`, `TableImplemented` (`ImplementsTable`) | `CWAVLFunctions` |

The further hypotheses are the conditions under which the code keeps the
property. A thread that is out of memory ends in `CWErrorHandleLast` with its
slot and its count (`~Failures`). With several clients a completion wakes any
of them, and the last command overwrites the others. Once a sequence number is
used again, a delayed response to its first use is taken for the answer.
`CWAVLFunctions` is not a condition on the code but its definition. The
instances of the runs satisfy the hypotheses of the theorems whose property
they check.

### Why the properties need more than themselves

*Timer library.* `FirstStaysInQueue` needs that only the first timer is ever in
use (`OnlyFirstInUse`), because `timer_add` moves the flag; `WakeupArmed` needs
that the queue is sorted when a timer is put in front, and that of two times
only one tick apart `TV_MINUS` makes zero just when the later one is a full
second, which is what `WakeupLost` says of the first timer; `RemovedNeverStarts`
needs distinct ids (`IdsDistinct`) and that a removed timer still in the queue
is marked (`EntriesOK`); `FreedAtMostOnce` needs that fresh ids have no history
(`FreshIds`), that a queued timer whose argument is still there was not freed
(`EntriesOK`), and the same of the running handler (`RunningOK`). Lemmas on
`InsertAt`, `RemoveAt` and `Tail` carry the reasoning about the queue.

*Timer service.* The mapping takes the queue without its cancelled entries as
the set of pending timers. That the first of them is one the service may start
follows from `QueueSorted` and, for timers due at the same time, from
`RequestOrder`: insertion goes behind equals, and ids grow. `Tick`, `Expire`,
`Arm`, `SigWait` and `Discard` are stutters, and so is the second removal of a
timer in use.

*AC sessions.* What binds the packet in the main thread's hand to the slot it
will be appended to is spread over three locks. `SenderKnown` says that from
the lookup to the taking of a slot no slot has the sender's address, since only
the main thread gives out slots; `ListPhases` that a slot has a list only
between `StartSession` and `DestroyList`, and while the main thread creates one
no live session is on its slot; `CountBound` that a thread lowers the count
only after it raised it, which keeps `gActiveWTPs` a natural number even when
threads end in between. `SessionsUndisturbed` follows step by step: a thread
writes to its own slot only, the main thread takes and fills only slots on
which no session lives, and what else is written to a slot are requests, the
data address, and packets at the end of the list. None of it rests on the
slot's mutex, which a new session re-initialises: the invariant says nothing of
`locked`. All of it speaks of slots of the table. The entry behind the table,
where `ac_capacity` puts a session, is shared, and nothing is claimed of it.

*Applications.* `EnoughWaiters` needs that progress and the command in progress
agree (`ProgressKnown`), and that the index stored with a command is that of a
client's socket (`CommandHasSender`): otherwise a completion may go to nobody.
`SocketCount` needs the exact count, which is one off while the listener undoes
a failed thread (`SocketsCounted`), and `ListenerOwns` for that moment. With one
client, `ClientWaits` ties the command in the slot or in progress to the one
the client waits for through every closing and reopening; `FreshSeqNum` and
`ExpectsOwn` say that a response with the number the session expects answers
the command in progress, although a Station Configuration Request may have
replaced that number.

*WTP in Run.* `EchoBelowLimit` carries the test of the Echo count over the two
steps before its increment. `ChannelUntouched` says that in the first Run
nothing of the data channel's timers exists before the data thread starts them,
so that no flag is set early; `EchoBelieved` that the handler never takes the
Echo timer for stopped while Run is served; `DeadStarted` extends `DeadGuarded`
to the steps before the loops of both threads.

*WTP and AC.* `RunConfirmed` says that every successful Change State response
with the WTP's current number, still in the network or in the packet list, was
sent by a session that is in Run and has stayed there; it needs that no message
carries a number that was not taken yet (`SeqNumsTaken`). Each number is used
for one request, so that a duplicate of an earlier response cannot pass.

*Rotations.* `InsertedLeftRestores` and `InsertedRightRestores` are the step of
`InsertKeepsBalance` at one node: the rotation `AVLinsert` chooses by comparing
addresses is the right one, and gives the subtree its old height back.
`RotationsKeepTable` is the step of `SearchTree`, `HeightsRight` and
`ImplementsTable`: a rotation that does not dereference NULL keeps what
`AVLfind` finds, even where a deletion rotates to the wrong side.

*Station table.* The inductive invariant is `SearchInv`: the tree is a search
tree with right heights for some finite set of entries (`Search(t, E)`). The
exact set is what makes it inductive: the order of the addresses alone does not
say what a deletion leaves, and the deletion of a node with two children is
right only because `AVLminValueNode` finds the entry with the smallest address
of the right subtree, which is then deleted there by its address. The lemmas `FindIs`, `MinIs`, `InsertSearch`, `RemoveSearch`,
`NodesFound` and `DepthIs` say what the functions compute for every tree, in
terms of its entries. `RemoveWTPSearch` says that the end of a session, whose
search may miss stations of the slot, removes none of another slot.
`BalanceKept` needs in addition to balance that a subtree which grew is higher
on the side on which the new address went (`InsertBalances`), because
`AVLinsert` chooses the rotation by the address and not by the balance.

The induction theorems of the library have an operator as a parameter, which
the provers do not instantiate. Induction over trees is done without them:
a tree with its entries is a member of a set of such pairs that is closed under
children (`SearchIs`), and a least counterexample in height, or in the
number of entries for `RemoveWTP`, exists because the naturals are well-founded
(`LeastNatural`, `TreeInduction`).

There are functions that satisfy `CWAVLFunctions`: the recursion goes to the
children of a node, which are parts of it, except in `RemoveWTP`, which returns
what its recursive call returns and so leaves its value open where it would not
end.

### What the proofs changed

* `SlotOwned` is false of a process that ended: a session thread may end it
  (`NoErrorPending`) while the main thread is between the taking of a slot and
  the start of its session, which takes more packets than the run has. It is
  now stated for a program that runs.
* `DeadGuarded` allowed for the handler being about to start the timer. The
  proof shows that the timer is on the queue or has expired, and the property
  now says so.

### Only model-checked

* Liveness under fairness: `EveryTimerEnds`, `QueueDrains`,
  `ClosedSessionReleases`, `ReachesRun`, `SilenceNoticed`, `LeavesRun`.

## 5. Plan

1. The agreement of `WTPMain` in the other direction: which state of the AC's
   session a WTP in Configure or Data Check can rely on.
2. The nodes of the tree as memory: a node found under `mutexAvlTree` is used
   after the mutex was released (`ACRunState.c:841`), which a tree that is a
   value cannot show.

## 6. Not modelled

* The table of pending requests of the WTP (`WTPRetransmission.c`,
  `WTPRunStateCheck.c`): boxes with a timer each. The handler frees the
  argument it has just given to the new timer, so that after the first
  retransmission nothing can be said.
* Fragmentation and reassembly (`CWProtocolParseFragment`): `ACMainLoop` and
  `WTPRun` take whether a packet completes a message as a choice. Message contents and their
  byte-level encoding.
* DTLS (not built); radio, driver, netlink and hostapd interfaces; the TAP
  device and forwarding of user data; configuration files; start-up and
  shutdown; the update tools and the relay programs. They are I/O and
  conversions around other programs' state.
* The vendored code under `src/auto/` (hostapd, netconf), which is most of the
  repository's lines and not this program's.

`PROJECT.json` gives the reason for each part.
