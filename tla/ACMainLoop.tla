------------------------------ MODULE ACMainLoop ------------------------------
(***************************************************************************)
(* The access controller: the main thread that reads packets and hands     *)
(* them to sessions, one thread per session that takes its WTP from Join   *)
(* to Run, and the critical timers that end sessions (ACMainLoop.c with    *)
(* the state handlers it calls).                                           *)
(*                                                                         *)
(* A session's thread keeps its slot of gWTPs in thread-specific data, so  *)
(* threads and slots are modelled apart.  The work done on one packet, for *)
(* which the thread blocks its timer signals, is one step.  The critical   *)
(* timer is the part of the timer library that matters here: armed, taken  *)
(* off the queue by the ticker thread (after which cancelling it has no    *)
(* effect), then a signal.                                                 *)
(*                                                                         *)
(* A section under a mutex is one step, except under a slot's              *)
(* interfaceMutex: a new session re-initialises it, whoever holds it, so   *)
(* there the mutex is state of its own (locked) and the main thread and    *)
(* the applications take and release it in separate steps.                 *)
(*                                                                         *)
(* What a message says is a choice made when it is handled.  The command   *)
(* of an application (ACInterface.c) only matters as one more reason to    *)
(* wake up and as one more user of the mutex.                              *)
(***************************************************************************)
EXTENDS Integers, Sequences, FiniteSets

CONSTANTS
    MaxWTPs,     \* gMaxWTPs
    WTPs,        \* each has a control address, a data address, a session id
    Kinds,       \* the inputs: packets of these kinds, "command"
    MaxInputs,   \* bound: how many inputs arrive
    MaxThreads,  \* bound: how many sessions are ever started
    Failures     \* whether resources (memory, threads, sockets) run out

ASSUME MaxWTPsAssumption == MaxWTPs \in Nat \ {0}
ASSUME KindsAssumption ==
    Kinds \subseteq {"discovery", "control", "keepalive", "data", "command"}
ASSUME BoundsAssumption == MaxInputs \in Nat /\ MaxThreads \in Nat
ASSUME FailuresAssumption == Failures \in BOOLEAN

VARIABLES
    gWTPs,        \* the table of sessions
    gActiveWTPs,
    main,         \* where the main thread is in CWACManageIncomingPacket
    thread,       \* the session threads
    firing,       \* the thread whose timer's handler the ticker is running
    inputs        \* how many inputs have arrived

vars == <<gWTPs, gActiveWTPs, main, thread, firing, inputs>>

Table == 0 .. MaxWTPs - 1
\* The search for a free slot may stop one past the table.
Slots == 0 .. MaxWTPs
Threads == 1 .. MaxThreads
NoThread == 0

Nobody == "nobody"
Packet == [wtp: WTPs, kind: Kinds \ {"command"}]
NoPacket == [wtp |-> Nobody, kind |-> "none"]
Address == [wtp: WTPs, data: BOOLEAN]
NoAddress == [wtp |-> Nobody, data |-> FALSE]

\* dataaddress is Nobody for AF_UNSPEC, sessionID is Nobody for NULL.  locked
\* is the state of interfaceMutex; client is where the application that has
\* a command for the slot is (bound: one at a time).  reinit records what the
\* re-initialisation of the mutex and the conditions met: nobody, somebody
\* ("taken"), or a main thread whose append then ran into the removal of
\* another packet and was not counted ("torn").
CWWTPManager ==
    [isNotFree: BOOLEAN, address: Address \cup {NoAddress},
     dataaddress: WTPs \cup {Nobody}, sessionID: WTPs \cup {Nobody},
     isRequestClose: BOOLEAN, interfaceCommand: BOOLEAN,
     currentState: {"join", "configure", "data_check", "run"},
     packets: Seq(Packet), listValid: BOOLEAN, locked: BOOLEAN,
     client: {"none", "posting", "waiting", "leaving"},
     reinit: {"clean", "taken", "torn"}]

\* blocked: the thread's mask of the critical signal.
Thread ==
    [pc: {"none", "start", "init", "loop", "presleep", "asleep", "checked",
          "block", "busy", "close", "cleanup", "free", "done", "exited"},
     slot: Slots, armed: BOOLEAN, pending: BOOLEAN, blocked: BOOLEAN]

\* "crashed": the program crashed or called exit.
Main == [pc: {"recv", "test", "alloc", "create", "append", "locked",
              "crashed"},
         packet: Packet \cup {NoPacket}, slot: Slots]
Reading == [pc |-> "recv", packet |-> NoPacket, slot |-> 0]

TypeOK ==
    /\ gWTPs \in [Slots -> CWWTPManager]
    /\ gActiveWTPs \in Nat
    /\ main \in Main
    /\ thread \in [Threads -> Thread]
    /\ firing \in Threads \cup {NoThread}
    /\ inputs \in 0 .. MaxInputs

Init ==
    /\ gWTPs = [i \in Slots |->
                  [isNotFree |-> FALSE, address |-> NoAddress,
                   dataaddress |-> Nobody, sessionID |-> Nobody,
                   isRequestClose |-> FALSE, interfaceCommand |-> FALSE,
                   currentState |-> "join", packets |-> <<>>,
                   listValid |-> FALSE, locked |-> FALSE,
                   client |-> "none", reinit |-> "clean"]]
    /\ gActiveWTPs = 0
    /\ main = Reading
    /\ thread = [t \in Threads |->
                   [pc |-> "none", slot |-> 0, armed |-> FALSE,
                    pending |-> FALSE, blocked |-> TRUE]]
    /\ firing = NoThread
    /\ inputs = 0

\* The threads after a signal to the slot's interfaceWait: one waiter, if
\* there is one, wakes up.
Signal(i, th) ==
    LET waiters == {t \in Threads : th[t].pc = "asleep" /\ th[t].slot = i}
    IN  IF waiters = {} THEN {th}
        ELSE {[th EXCEPT ![t].pc = "loop"] : t \in waiters}

-----------------------------------------------------------------------------
(* The main thread.                                                        *)

IsData(p) == p.kind \in {"keepalive", "data"}

\* Mutant: the control address is not compared.
Serves_any_address(i, p) ==
    /\ gWTPs[i].isNotFree
    /\ \/ ~IsData(p)
       \/ p.kind = "keepalive" /\ gWTPs[i].sessionID = p.wtp
       \/ IsData(p) /\ gWTPs[i].dataaddress = p.wtp

\* Does slot i serve the sender of p?  A keep-alive is also recognised by the
\* session id it carries.
Serves(i, p) ==
    /\ gWTPs[i].isNotFree
    /\ \/ ~IsData(p) /\ gWTPs[i].address = [wtp |-> p.wtp, data |-> FALSE]
       \/ p.kind = "keepalive" /\ gWTPs[i].sessionID = p.wtp
       \/ IsData(p) /\ gWTPs[i].dataaddress = p.wtp

\* Mutant: the search stops one slot too early.
CWWTPByAddress_off_by_one(i, p) ==
    /\ i < MaxWTPs - 1
    /\ Serves(i, p)
    /\ \A j \in 0 .. i - 1 : ~Serves(j, p)

\* CWWTPByAddress: the first slot of the table that serves the sender.
CWWTPByAddress(i, p) == Serves(i, p) /\ \A j \in 0 .. i - 1 : ~Serves(j, p)

\* The comparison with a keep-alive's session id dereferences the session id
\* of every slot in use before the one that matches, NULL before its Join.
LookupFaults(p) ==
    /\ p.kind = "keepalive"
    /\ \E i \in Table : /\ gWTPs[i].isNotFree
                        /\ gWTPs[i].sessionID = Nobody
                        /\ \A j \in 0 .. i - 1 : ~Serves(j, p)

Receive(p) ==
    /\ main.pc = "recv"
    /\ inputs < MaxInputs
    /\ inputs' = inputs + 1
    /\ \/ /\ LookupFaults(p)
          /\ main' = [main EXCEPT !.pc = "crashed"]
          /\ UNCHANGED gWTPs
       \/ \E i \in Table :
             /\ ~LookupFaults(p)
             /\ CWWTPByAddress(i, p)
             /\ gWTPs' = IF IsData(p) /\ gWTPs[i].dataaddress = Nobody
                         THEN [gWTPs EXCEPT ![i].dataaddress = p.wtp]
                         ELSE gWTPs
             /\ main' = [pc |-> "append", packet |-> p, slot |-> i]
       \/ /\ ~LookupFaults(p)
          /\ \A i \in Table : ~CWWTPByAddress(i, p)
          /\ main' = [pc |-> "test", packet |-> p, slot |-> 0]
          /\ UNCHANGED gWTPs
    /\ UNCHANGED <<gActiveWTPs, thread, firing>>

\* An unknown sender.  A Discovery Request is answered and forgotten; anything
\* else is taken for the start of a session.
CheckActiveWTPs ==
    /\ main.pc = "test"
    /\ \/ /\ gActiveWTPs >= MaxWTPs \/ main.packet.kind = "discovery"
          /\ main' = Reading
       \/ /\ gActiveWTPs < MaxWTPs
          /\ main.packet.kind # "discovery"
          /\ main' = [main EXCEPT !.pc = "alloc"]
       \/ /\ Failures
          /\ gActiveWTPs < MaxWTPs
          /\ main.packet.kind = "discovery"
          /\ main' = [main EXCEPT !.pc = "crashed"]
    /\ UNCHANGED <<gWTPs, gActiveWTPs, thread, firing, inputs>>

\* Where the search of lines 429-430 stops.
FirstFree(i) ==
    /\ \A j \in 0 .. i - 1 : gWTPs[j].isNotFree
    /\ i < MaxWTPs => ~gWTPs[i].isNotFree

TakeSlot ==
    /\ main.pc = "alloc"
    /\ \E i \in Slots :
          /\ FirstFree(i)
          /\ gWTPs' = [gWTPs EXCEPT
                ![i].isNotFree = TRUE,
                ![i].isRequestClose = FALSE,
                ![i].address = [wtp |-> main.packet.wtp,
                                data |-> IsData(main.packet)],
                ![i].dataaddress = Nobody]
          /\ main' = [main EXCEPT !.pc = "create", !.slot = i]
    /\ UNCHANGED <<gActiveWTPs, thread, firing, inputs>>

\* A new list and a new thread for the slot.  A list that cannot be created
\* gives the slot back, an argument that cannot be allocated leaves it taken,
\* and a thread that cannot be created makes CWDestroySafeList free the
\* address of the list pointer (line 502).
StartSession ==
    /\ main.pc = "create"
    /\ \/ \E t \in Threads :
             /\ thread[t].pc = "none"
             /\ \A u \in 1 .. t - 1 : thread[u].pc # "none"
             /\ thread' = [thread EXCEPT ![t].pc = "start",
                                         ![t].slot = main.slot]
             /\ gWTPs' = [gWTPs EXCEPT ![main.slot].packets = <<>>,
                                       ![main.slot].listValid = TRUE,
                                       ![main.slot].reinit = "clean"]
             /\ main' = [main EXCEPT !.pc = "append"]
       \/ /\ Failures
          /\ gWTPs' = [gWTPs EXCEPT ![main.slot].isNotFree = FALSE]
          /\ main' = Reading
          /\ UNCHANGED thread
       \/ /\ Failures
          /\ gWTPs' = [gWTPs EXCEPT ![main.slot].packets = <<>>,
                                    ![main.slot].listValid = TRUE]
          /\ main' = Reading
          /\ UNCHANGED thread
       \/ /\ Failures
          /\ main' = [main EXCEPT !.pc = "crashed"]
          /\ UNCHANGED <<gWTPs, thread>>
    /\ UNCHANGED <<gActiveWTPs, firing, inputs>>

\* CWLockSafeList, on the slot's interfaceMutex.  Without memory for its copy
\* the packet is dropped.
LockList ==
    /\ main.pc = "append"
    /\ \/ /\ ~gWTPs[main.slot].locked
          /\ gWTPs' = [gWTPs EXCEPT ![main.slot].locked = TRUE]
          /\ main' = [main EXCEPT !.pc = "locked"]
       \/ /\ Failures
          /\ main' = Reading
          /\ UNCHANGED gWTPs
    /\ UNCHANGED <<gActiveWTPs, thread, firing, inputs>>

\* Mutant: the session is not signalled.
AppendPacket_no_signal ==
    /\ main.pc = "locked"
    /\ gWTPs[main.slot].listValid
    /\ gWTPs' = [gWTPs EXCEPT ![main.slot].packets = Append(@, main.packet),
                              ![main.slot].locked = FALSE]
    /\ main' = Reading
    /\ UNCHANGED <<gActiveWTPs, thread, firing, inputs>>

\* Appends the packet, signals the session and unlocks the mutex, whoever
\* holds it by now.  The list may have been freed since the slot was found:
\* the packet is lost or the program crashes.  Without memory for the element
\* of the list the packet is dropped.
AppendPacket ==
    /\ main.pc = "locked"
    /\ \/ /\ gWTPs[main.slot].listValid
          /\ gWTPs' = [gWTPs EXCEPT
                          ![main.slot].packets = Append(@, main.packet),
                          ![main.slot].locked = FALSE]
          /\ thread' \in Signal(main.slot, thread)
          /\ main' = Reading
       \/ /\ Failures \/ ~gWTPs[main.slot].listValid
          /\ gWTPs' = [gWTPs EXCEPT ![main.slot].locked = FALSE]
          /\ main' = Reading
          /\ UNCHANGED thread
       \/ /\ ~gWTPs[main.slot].listValid
          /\ main' = [main EXCEPT !.pc = "crashed"]
          /\ UNCHANGED <<gWTPs, thread>>
    /\ UNCHANGED <<gActiveWTPs, firing, inputs>>

-----------------------------------------------------------------------------
(* Timers and applications.                                                *)

\* The ticker thread takes an expired timer off the queue; from here on
\* CWTimerCancel does not find it.
Expire(t) ==
    /\ thread[t].armed
    /\ firing = NoThread
    /\ firing' = t
    /\ thread' = [thread EXCEPT ![t].armed = FALSE]
    /\ UNCHANGED <<gWTPs, gActiveWTPs, main, inputs>>

\* The signal goes to the thread that asked for the timer, dead or alive.
CWHandleTimer ==
    /\ firing # NoThread
    /\ thread' = [thread EXCEPT ![firing].pending =
                                   thread[firing].pc \notin {"done", "exited"}]
    /\ firing' = NoThread
    /\ UNCHANGED <<gWTPs, gActiveWTPs, main, inputs>>

\* Runs on the session's own thread, wherever it is, without the mutex.  The
\* mask the handler sets is undone when it returns.
CWCriticalTimerExpiredHandler(t) ==
    /\ thread[t].pending
    /\ ~thread[t].blocked
    /\ gWTPs' = [gWTPs EXCEPT ![thread[t].slot].isRequestClose = TRUE]
    /\ thread' \in Signal(thread[t].slot,
                          [thread EXCEPT ![t].pending = FALSE])
    /\ UNCHANGED <<gActiveWTPs, main, firing, inputs>>

\* An application that has a command for a slot in use takes the mutex;
PostCommand(i) ==
    /\ "command" \in Kinds
    /\ inputs < MaxInputs
    /\ gWTPs[i].isNotFree
    /\ gWTPs[i].client = "none"
    /\ ~gWTPs[i].locked
    /\ inputs' = inputs + 1
    /\ gWTPs' = [gWTPs EXCEPT ![i].locked = TRUE, ![i].client = "posting"]
    /\ UNCHANGED <<gActiveWTPs, main, thread, firing>>

\* leaves the command, signals the session and waits on interfaceComplete,
\* which releases the mutex;
WaitComplete(i) ==
    /\ gWTPs[i].client = "posting"
    /\ gWTPs' = [gWTPs EXCEPT ![i].interfaceCommand = TRUE,
                              ![i].locked = FALSE, ![i].client = "waiting"]
    /\ thread' \in Signal(i, thread)
    /\ UNCHANGED <<gActiveWTPs, main, firing, inputs>>

\* takes the mutex again when it wakes up, signalled or not,
CommandComplete(i) ==
    /\ gWTPs[i].client = "waiting"
    /\ ~gWTPs[i].locked
    /\ gWTPs' = [gWTPs EXCEPT ![i].locked = TRUE, ![i].client = "leaving"]
    /\ UNCHANGED <<gActiveWTPs, main, thread, firing, inputs>>

\* and unlocks it.
LeaveCommand(i) ==
    /\ gWTPs[i].client = "leaving"
    /\ gWTPs' = [gWTPs EXCEPT ![i].locked = FALSE, ![i].client = "none"]
    /\ UNCHANGED <<gActiveWTPs, main, thread, firing, inputs>>

-----------------------------------------------------------------------------
(* A session thread: CWManageWTP.                                          *)

Goto(t, pc) == thread' = [thread EXCEPT ![t].pc = pc]
Loop == {"loop", "presleep", "asleep", "checked", "block", "busy"}

\* Mutant: the new session is not counted.
CountSession_skipped(t) ==
    /\ thread[t].pc = "start"
    /\ Goto(t, "init")
    /\ UNCHANGED <<gWTPs, gActiveWTPs, main, firing, inputs>>

\* WTPCount of the interface goes up and down together with gActiveWTPs.
CountSession(t) ==
    /\ thread[t].pc = "start"
    /\ gActiveWTPs' = gActiveWTPs + 1
    /\ Goto(t, "init")
    /\ UNCHANGED <<gWTPs, main, firing, inputs>>

\* Somebody else is using the slot's mutex or conditions.
InUse(i) == \/ main.pc = "locked" /\ main.slot = i
            \/ gWTPs[i].client # "none"

\* Resets the slot, re-initialises its mutex and its conditions, and starts
\* the WaitJoin timer.  A mutex that was held is free afterwards; destroying
\* interfaceComplete with an application waiting on it may block for ever.
\* The timer signals, which every thread inherits blocked, stay blocked.  A
\* timer that cannot be started raises no error, and CWErr exits when no
\* error was ever raised.
InitSession(t) ==
    LET i == thread[t].slot IN
    /\ thread[t].pc = "init"
    /\ gWTPs[i].reinit = "clean"
    /\ gWTPs' = [gWTPs EXCEPT
                    ![i].currentState = "join", ![i].interfaceCommand = FALSE,
                    ![i].sessionID = Nobody, ![i].locked = FALSE,
                    ![i].reinit = IF InUse(i) THEN "taken" ELSE "clean"]
    /\ \/ /\ thread' = [thread EXCEPT ![t].pc = "loop", ![t].armed = TRUE]
          /\ UNCHANGED main
       \/ /\ gWTPs[i].client = "waiting"
          /\ UNCHANGED <<main, thread>>
       \/ /\ Failures
          /\ main' = [main EXCEPT !.pc = "crashed"]
          /\ UNCHANGED thread
    /\ UNCHANGED <<gActiveWTPs, firing, inputs>>

\* CWGetCountElementFromSafeList.
HasPackets(i) == \/ gWTPs[i].packets # <<>> /\ gWTPs[i].reinit # "torn"
                 \/ Len(gWTPs[i].packets) > 1

HasWork(i) == \/ gWTPs[i].isRequestClose
              \/ HasPackets(i)
              \/ gWTPs[i].interfaceCommand

\* The loop of lines 726-733, under interfaceMutex.
TestForWork(t) ==
    LET i == thread[t].slot IN
    /\ thread[t].pc = "loop"
    /\ ~gWTPs[i].locked
    /\ gWTPs' = [gWTPs EXCEPT ![i].locked = ~HasWork(i)]
    /\ Goto(t, IF HasWork(i) THEN "checked" ELSE "presleep")
    /\ UNCHANGED <<gActiveWTPs, main, firing, inputs>>

\* pthread_cond_wait, which may also return without a signal.
Sleep(t) ==
    /\ thread[t].pc = "presleep"
    /\ Goto(t, "asleep")
    /\ gWTPs' = [gWTPs EXCEPT ![thread[t].slot].locked = FALSE]
    /\ UNCHANGED <<gActiveWTPs, main, firing, inputs>>

SpuriousWakeup(t) ==
    /\ thread[t].pc = "asleep"
    /\ Goto(t, "loop")
    /\ UNCHANGED <<gWTPs, gActiveWTPs, main, firing, inputs>>

\* Lines 737-741; _CWCloseThread starts by blocking the signals.
TestForClose(t) ==
    /\ thread[t].pc = "checked"
    /\ thread' = IF gWTPs[thread[t].slot].isRequestClose
                 THEN [thread EXCEPT ![t].pc = "close", ![t].blocked = TRUE]
                 ELSE [thread EXCEPT ![t].pc = "block"]
    /\ UNCHANGED <<gWTPs, gActiveWTPs, main, firing, inputs>>

BlockSignals(t) ==
    /\ thread[t].pc = "block"
    /\ thread' = [thread EXCEPT ![t].pc = "busy", ![t].blocked = TRUE]
    /\ UNCHANGED <<gWTPs, gActiveWTPs, main, firing, inputs>>

\* The main thread is appending to the list under a mutex that is no longer
\* its own.
Racing(t) == main.pc = "locked" /\ main.slot = thread[t].slot

\* The first packet of the list, handled in state s, with the slot left as
\* slot and the thread as thr.  The removal may overwrite the count of a
\* concurrent append.
Handle(t, s, slot, thr) ==
    LET i == thread[t].slot IN
    /\ gWTPs[i].currentState = s
    /\ \E r \in {slot.reinit} \cup (IF Racing(t) THEN {"torn"} ELSE {}) :
          gWTPs' = [gWTPs EXCEPT ![i] = [slot EXCEPT !.packets = Tail(@),
                                                     !.reinit = r]]
    /\ thread' = [thread EXCEPT ![t] = thr]
    /\ UNCHANGED <<gActiveWTPs, main, firing, inputs>>

\* What is left of thread t after a message: the signals are unblocked.
Ready(t) == [thread[t] EXCEPT !.pc = "loop", !.blocked = FALSE]
Closing(t) == [thread[t] EXCEPT !.pc = "close"]
\* CWErrorHandleLast ends a thread that is out of memory where it is.
Exiting(t) == [thread[t] EXCEPT !.pc = "exited", !.pending = FALSE]
Mine(t) == gWTPs[thread[t].slot]
First(t) == Head(Mine(t).packets)

\* A fragment that does not complete a message, or is malformed: only the
\* soft signal is unblocked (lines 790-807).
NeedFragment(t) ==
    \E s \in {"join", "configure", "data_check", "run"} :
        \/ Handle(t, s, Mine(t), [thread[t] EXCEPT !.pc = "loop"])
        \/ Failures /\ Handle(t, s, Mine(t), Exiting(t))

\* CWErrorHandleLast exits when the thread never raised an error: the handlers
\* of Run return CW_FALSE without raising one, those of the other states only
\* where a timer cannot be started.
NoErrorPending(t) ==
    /\ Mine(t).currentState = "run" \/ Failures
    /\ main' = [main EXCEPT !.pc = "crashed"]
    /\ UNCHANGED <<gWTPs, gActiveWTPs, thread, firing, inputs>>

\* A removal and an append at the same time may use an element that was just
\* freed, or leave a count without element, whose packet is then read at NULL.
BrokenList(t) ==
    /\ Racing(t)
    /\ main' = [main EXCEPT !.pc = "crashed"]
    /\ UNCHANGED <<gWTPs, gActiveWTPs, thread, firing, inputs>>

\* A message the state's handler rejects: ignored if it is of the wrong
\* format, the end of the session otherwise.
Reject(t, s) ==
    \/ Handle(t, s, Mine(t), Ready(t))
    \/ Handle(t, s, Mine(t), Closing(t))
    \/ Failures /\ Handle(t, s, Mine(t), Exiting(t))

\* Mutant: the WaitJoin timer is cancelled before the message is parsed.
ACEnterJoin_cancels_first(t) ==
    \/ Handle(t, "join", Mine(t), [Ready(t) EXCEPT !.armed = FALSE])
    \/ Handle(t, "join", Mine(t), [Closing(t) EXCEPT !.armed = FALSE])
    \/ /\ First(t).kind = "control"
       /\ Handle(t, "join",
                 [Mine(t) EXCEPT !.sessionID = First(t).wtp,
                                 !.currentState = "configure"],
                 [Ready(t) EXCEPT !.armed = FALSE])

ACEnterJoin(t) ==
    \/ Reject(t, "join")
    \/ /\ First(t).kind = "control"
       /\ Handle(t, "join",
                 [Mine(t) EXCEPT !.sessionID = First(t).wtp,
                                 !.currentState = "configure"],
                 [Ready(t) EXCEPT !.armed = FALSE])
    \/ /\ Failures
       /\ First(t).kind = "control"
       /\ \E thr \in {Closing(t), Exiting(t)} :
             Handle(t, "join", [Mine(t) EXCEPT !.sessionID = First(t).wtp],
                    [thr EXCEPT !.armed = FALSE])

ACEnterConfigure(t) ==
    \/ Reject(t, "configure")
    \/ /\ First(t).kind = "control"
       /\ Handle(t, "configure",
                 [Mine(t) EXCEPT !.currentState = "data_check"],
                 [Ready(t) EXCEPT !.armed = TRUE])

\* The timer is cancelled before the message is parsed.
ACEnterDataCheck(t) ==
    \/ Handle(t, "data_check", Mine(t), [Ready(t) EXCEPT !.armed = FALSE])
    \/ Handle(t, "data_check", Mine(t), [Closing(t) EXCEPT !.armed = FALSE])
    \/ /\ Failures
       /\ Handle(t, "data_check", Mine(t), [Exiting(t) EXCEPT !.armed = FALSE])
    \/ /\ First(t).kind = "control"
       /\ Handle(t, "data_check", [Mine(t) EXCEPT !.currentState = "run"],
                 [Ready(t) EXCEPT !.armed = FALSE])

\* A control message that is understood restarts the NeighborDead timer.  The
\* response to a committed update of the WTP also asks for the session to be
\* closed (CWSaveConfigurationUpdateResponseMessage).
ACEnterRun(t) ==
    \/ Reject(t, "run")
    \/ /\ First(t).kind = "control"
       /\ \/ \E close \in {Mine(t).isRequestClose, TRUE} :
                Handle(t, "run", [Mine(t) EXCEPT !.isRequestClose = close],
                       [Ready(t) EXCEPT !.armed = TRUE])
          \/ Handle(t, "run", Mine(t), [Closing(t) EXCEPT !.armed = TRUE])
          \/ /\ Failures
             /\ Handle(t, "run", Mine(t), [Exiting(t) EXCEPT !.armed = TRUE])

\* Lines 929-1098: nothing to read, so there is a command.
HandleCommand(t) ==
    /\ thread[t].pc = "busy"
    /\ ~HasPackets(thread[t].slot)
    /\ ~Mine(t).locked
    /\ gWTPs' = [gWTPs EXCEPT ![thread[t].slot].interfaceCommand = FALSE]
    /\ thread' = [thread EXCEPT ![t] = Ready(t)]
    /\ UNCHANGED <<gActiveWTPs, main, firing, inputs>>

\* Mutants: the slot is given back first; the session stays counted.
UncountSession_frees_slot(t) ==
    /\ thread[t].pc = "close"
    /\ gActiveWTPs' = gActiveWTPs - 1
    /\ gWTPs' = [gWTPs EXCEPT ![thread[t].slot].isNotFree = FALSE]
    /\ Goto(t, "cleanup")
    /\ UNCHANGED <<main, firing, inputs>>

UncountSession_skipped(t) ==
    /\ thread[t].pc = "close"
    /\ Goto(t, "cleanup")
    /\ UNCHANGED <<gWTPs, gActiveWTPs, main, firing, inputs>>

\* _CWCloseThread, in the order of the code.  It unlocks interfaceMutex,
\* which it does not hold (line 1114).
UncountSession(t) ==
    /\ thread[t].pc = "close"
    /\ gWTPs' = [gWTPs EXCEPT ![thread[t].slot].locked = FALSE]
    /\ gActiveWTPs' = gActiveWTPs - 1
    /\ Goto(t, "cleanup")
    /\ UNCHANGED <<main, firing, inputs>>

DestroyList(t) ==
    /\ thread[t].pc = "cleanup"
    /\ thread' = [thread EXCEPT ![t].pc = "free", ![t].armed = FALSE]
    /\ gWTPs' = [gWTPs EXCEPT ![thread[t].slot].packets = <<>>,
                              ![thread[t].slot].listValid = FALSE]
    /\ UNCHANGED <<gActiveWTPs, main, firing, inputs>>

\* Mutant: the slot is not given back.
FreeSlot_skipped(t) ==
    /\ thread[t].pc = "free"
    /\ thread' = [thread EXCEPT ![t].pc = "done", ![t].pending = FALSE]
    /\ UNCHANGED <<gWTPs, gActiveWTPs, main, firing, inputs>>

FreeSlot(t) ==
    /\ thread[t].pc = "free"
    /\ gWTPs' = [gWTPs EXCEPT ![thread[t].slot].isNotFree = FALSE]
    /\ thread' = [thread EXCEPT ![t].pc = "done", ![t].pending = FALSE]
    /\ UNCHANGED <<gActiveWTPs, main, firing, inputs>>

-----------------------------------------------------------------------------
MainThread ==
    \/ \E p \in Packet : Receive(p)
    \/ CheckActiveWTPs
    \/ TakeSlot
    \/ StartSession
    \/ LockList
    \/ AppendPacket

Application(i) ==
    \/ PostCommand(i)
    \/ WaitComplete(i)
    \/ CommandComplete(i)
    \/ LeaveCommand(i)

HandlePacket(t) ==
    /\ thread[t].pc = "busy"
    /\ HasPackets(thread[t].slot)
    /\ ~Mine(t).locked
    /\ \/ NeedFragment(t)
       \/ NoErrorPending(t)
       \/ BrokenList(t)
       \/ ACEnterJoin(t)
       \/ ACEnterConfigure(t)
       \/ ACEnterDataCheck(t)
       \/ ACEnterRun(t)

\* A signal that is not blocked is delivered before the thread goes on.
CWManageWTP(t) ==
    /\ ~(thread[t].pending /\ ~thread[t].blocked)
    /\ \/ CountSession(t)
       \/ InitSession(t)
       \/ TestForWork(t)
       \/ Sleep(t)
       \/ TestForClose(t)
       \/ BlockSignals(t)
       \/ HandlePacket(t)
       \/ HandleCommand(t)
       \/ UncountSession(t)
       \/ DestroyList(t)
       \/ FreeSlot(t)

Next ==
    /\ main.pc # "crashed"
    /\ \/ MainThread
       \/ CWHandleTimer
       \/ \E i \in Table : Application(i)
       \/ \E t \in Threads : \/ Expire(t)
                             \/ CWCriticalTimerExpiredHandler(t)
                             \/ CWManageWTP(t)
                             \/ SpuriousWakeup(t)

Spec == Init /\ [][Next]_vars

\* The kernel schedules every session's thread, on which a signal that is not
\* blocked is delivered first, and the main thread and an application that
\* hold a mutex.  Nothing obliges WTPs or applications to do anything; the
\* main thread may block for ever on a mutex that was re-initialised under
\* it, and no timer is obliged to expire.
FairSpec ==
    /\ Spec
    /\ WF_vars(main.pc # "crashed" /\ AppendPacket)
    /\ \A i \in Table :
          WF_vars(main.pc # "crashed" /\ (WaitComplete(i) \/ LeaveCommand(i)))
    /\ \A t \in Threads :
          WF_vars(/\ main.pc # "crashed"
                  /\ CWManageWTP(t) \/ CWCriticalTimerExpiredHandler(t))

-----------------------------------------------------------------------------
(* Properties.                                                             *)

\* The threads between CWACManageIncomingPacket starting them and
\* _CWCloseThread giving their slot back.
Live(t) == thread[t].pc \notin {"none", "done", "exited"}

\* While a session is on a slot of the table nobody else is, and the slot is
\* not given away and its list not freed under it: the main thread takes a
\* slot only after _CWCloseThread has finished with it.
SlotExclusive ==
    \A t \in Threads :
        Live(t) /\ thread[t].slot \in Table =>
            /\ gWTPs[thread[t].slot].isNotFree
            /\ thread[t].pc # "free" => gWTPs[thread[t].slot].listValid
            /\ \A u \in Threads \ {t} :
                  Live(u) => thread[u].slot # thread[t].slot

\* As long as the program runs, a slot in use is in somebody's hands, a
\* session's or the main thread's while it starts one: closing a session at
\* any point of its life does not leak its slot.
SlotOwned ==
    \A i \in Table : main.pc # "crashed" /\ gWTPs[i].isNotFree =>
        \/ main.pc = "create" /\ main.slot = i
        \/ \E t \in Threads : Live(t) /\ thread[t].slot = i

\* No WTP has two sessions: CWWTPByAddress finds the one it has, whatever
\* sessions were closed and started in between.
OneSessionPerWTP ==
    \A i, j \in Table :
        /\ gWTPs[i].isNotFree /\ gWTPs[j].isNotFree
        /\ gWTPs[i].address = gWTPs[j].address
        /\ ~gWTPs[i].address.data
        => i = j

\* A control packet is only ever queued to the session of its sender, although
\* CWACManageIncomingPacket looks the session up and appends the packet under
\* different locks.
PacketsToOwner ==
    \A i \in Table : \A n \in 1 .. Len(gWTPs[i].packets) :
        LET p == gWTPs[i].packets[n] IN
        ~IsData(p) => gWTPs[i].address = [wtp |-> p.wtp, data |-> FALSE]

\* The slot i still serves the same session, in the state it was in, and of
\* its packets none is lost.
Undisturbed(i) ==
    /\ gWTPs'[i].isNotFree = gWTPs[i].isNotFree
    /\ gWTPs'[i].address = gWTPs[i].address
    /\ gWTPs'[i].sessionID = gWTPs[i].sessionID
    /\ gWTPs'[i].currentState = gWTPs[i].currentState
    /\ gWTPs'[i].listValid = gWTPs[i].listValid
    /\ Len(gWTPs'[i].packets) >= Len(gWTPs[i].packets)
    /\ \A n \in 1 .. Len(gWTPs[i].packets) :
          gWTPs'[i].packets[n] = gWTPs[i].packets[n]

\* Only the session's own thread changes the state of its slot or takes its
\* packets: the main thread, the timers, the applications and the sessions
\* that start and end meanwhile, without a common lock, only append packets
\* and leave requests.
SessionUndisturbed ==
    [][\A t \in Threads :
         Live(t) /\ thread[t].slot \in Table /\ ~CWManageWTP(t) =>
             Undisturbed(thread[t].slot)]_vars

\* gActiveWTPs, which decides whether a WTP is let in, counts the threads
\* that entered CWManageWTP and did not begin to close.
ActiveCount ==
    gActiveWTPs = Cardinality({t \in Threads :
                      thread[t].pc \in Loop \cup {"init", "close"}})

\* A session that has not joined has the WaitJoin timer running, or the
\* timer's signal or its request to close is on the way.
JoinGuarded ==
    \A t \in Threads :
        /\ thread[t].pc \in Loop
        /\ thread[t].slot \in Table
        /\ gWTPs[thread[t].slot].currentState = "join"
        => \/ thread[t].armed
           \/ thread[t].pending
           \/ firing = t
           \/ gWTPs[thread[t].slot].isRequestClose

\* No packet is left waiting: the signal of CWAddElementToSafeListTail is not
\* lost, so as long as a session is on the slot its list is emptied.  The
\* exception is a session that re-initialised the mutex and the conditions of
\* its slot while the main thread or an application was using them.
QueueDrains ==
    \A i \in Table :
        gWTPs[i].packets # <<>> ~> (\/ gWTPs[i].packets = <<>>
                                    \/ gWTPs[i].reinit # "clean"
                                    \/ ~\E t \in Threads :
                                          Live(t) /\ thread[t].slot = i
                                    \/ main.pc = "crashed")

\* "max WTPs" (AC.c:66): no more than gMaxWTPs sessions are active.
AtMostMaxWTPs == gActiveWTPs <= MaxWTPs

-----------------------------------------------------------------------------
(* The inductive invariant of the proofs in ACMainLoopProof.               *)

Counted == {t \in Threads : thread[t].pc \in Loop \cup {"init", "close"}}

\* A thread that ends where it is, out of memory, stays counted.
CountBound ==
    /\ Cardinality(Counted) <= gActiveWTPs
    /\ ~Failures => ActiveCount

\* The main thread holds a packet while it serves one.
PacketInHand ==
    main.pc \in {"test", "alloc", "create", "append", "locked"} =>
        main.packet \in Packet

\* A slot has a list from StartSession to DestroyList and nothing is queued
\* without one; between TakeSlot and StartSession only the main thread has it.
ListPhases ==
    /\ \A t \in Threads : thread[t].pc = "free" /\ thread[t].slot \in Table =>
          ~gWTPs[thread[t].slot].listValid
    /\ \A i \in Table : ~gWTPs[i].isNotFree => ~gWTPs[i].listValid
    /\ \A i \in Slots : ~gWTPs[i].listValid => gWTPs[i].packets = <<>>
    /\ main.pc = "create" /\ main.slot \in Table =>
          /\ gWTPs[main.slot].isNotFree
          /\ ~gWTPs[main.slot].listValid
          /\ \A t \in Threads : Live(t) => thread[t].slot # main.slot

\* The sender of the control packet the main thread holds has no session until
\* the main thread takes a slot for it; from then on that slot has its address.
SenderKnown ==
    ~IsData(main.packet) =>
        LET sender == [wtp |-> main.packet.wtp, data |-> FALSE] IN
        /\ main.pc \in {"test", "alloc"} =>
              \A i \in Table : gWTPs[i].isNotFree => gWTPs[i].address # sender
        /\ main.pc \in {"create", "append", "locked"} /\ main.slot \in Table =>
              gWTPs[main.slot].address = sender

SlotInv ==
    /\ SlotExclusive
    /\ ListPhases
    /\ PacketInHand
    /\ SenderKnown
    /\ OneSessionPerWTP
    /\ PacketsToOwner
    /\ ~Failures => SlotOwned

IInv == TypeOK /\ CountBound /\ SlotInv /\ JoinGuarded

=============================================================================
