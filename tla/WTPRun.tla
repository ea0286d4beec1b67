------------------------------- MODULE WTPRun -------------------------------
(***************************************************************************)
(* The WTP in Run (WTPRunState.c): the main thread in CWWTPEnterRun, the   *)
(* thread of CWWTPManageDataPacket, and the timer library's ticker thread, *)
(* which runs the handlers of the Echo, KeepAlive and DataChannelDead      *)
(* timers one at a time.  They share flags, partly under gInterfaceMutex,  *)
(* and start and stop the timers without any lock.                         *)
(*                                                                         *)
(* A section under the mutex is one step; so is each call of a function    *)
(* that starts or stops a timer.  Packets are not queued: one is there to  *)
(* be read at any time until the AC falls silent.  It need not complete a  *)
(* message: then its reader is in CWReceiveMessage or CWReceiveDataMessage *)
(* until more packets do ("receive").  When timers expire is left open.    *)
(***************************************************************************)
EXTENDS Naturals

CONSTANTS
    MaxRetransmitEcho,  \* gWTPMaxRetransmitEcho
    MaxRuns,            \* bound: how often Run is entered
    MaxStray,           \* bound: timers of a kind whose id was overwritten
    Failures            \* whether memory, threads or messages fail, once

ASSUME RetransmitAssumption == MaxRetransmitEcho \in Nat
ASSUME BoundsAssumption == MaxRuns \in Nat /\ MaxStray \in Nat
ASSUME FailuresAssumption == Failures \in BOOLEAN

VARIABLES
    pc,         \* where the three threads are
    deadFlag,   \* gWTPDataChannelDeadFlag
    exitEcho,   \* gWTPExitRunEcho
    dataState,  \* gWTPThreadDataPacketState
    echoSet,    \* gEchoTimerSet
    deadSet,    \* gDataChannelDeadTimerSet
    echoCount,  \* gWTPEchoRetransmissionCount
    timer,      \* the timers on the timer library's queue
    answers,    \* the AC answers
    runs,       \* how often Run was entered
    failed      \* something failed (history)

flags == <<deadFlag, exitEcho, dataState>>
vars == <<pc, flags, echoSet, deadSet, echoCount, timer, answers, runs, failed>>

Kinds == {"echo", "keepAlive", "dead"}

\* mine: the timer of the id that is stored is on the queue; stray: how many
\* others are.
Timer == [mine: BOOLEAN, stray: Nat]

KeepAlivePc == {"keepAlive", "testDead", "startDead", "send"}
Pc == [main: {"out", "enter", "echo", "loop", "work", "receive", "reset",
              "stopEcho", "stopKeepAlive", "stopDead", "mark", "join", "clear",
              "crashed"},
       data: {"none", "created", "alive", "loop", "work", "receive", "restart",
              "end", "ended"} \cup KeepAlivePc,
       ticker: {"idle", "echo", "testChannel", "sendEcho", "expired"}
                   \cup KeepAlivePc]

TypeOK ==
    /\ pc \in Pc
    /\ deadFlag \in BOOLEAN
    /\ exitEcho \in BOOLEAN
    /\ dataState \in 0 .. 2
    /\ echoSet \in BOOLEAN
    /\ deadSet \in BOOLEAN
    /\ echoCount \in 0 .. MaxRetransmitEcho
    /\ timer \in [Kinds -> Timer]
    /\ answers \in BOOLEAN
    /\ runs \in 0 .. MaxRuns
    /\ failed \in BOOLEAN

Init ==
    /\ pc = [main |-> "out", data |-> "none", ticker |-> "idle"]
    /\ deadFlag = FALSE
    /\ exitEcho = FALSE
    /\ dataState = 0
    /\ echoSet = FALSE
    /\ deadSet = FALSE
    /\ echoCount = 0
    /\ timer = [k \in Kinds |-> [mine |-> FALSE, stray |-> 0]]
    /\ answers = TRUE
    /\ runs = 0
    /\ failed = FALSE

Go(who, from, to) == pc[who] = from /\ pc' = [pc EXCEPT ![who] = to]

Fails == Failures /\ ~failed /\ failed' = TRUE
Works == UNCHANGED failed

Dead == deadFlag \/ exitEcho

-----------------------------------------------------------------------------
(* The timer library: timer_add stores the new timer's id over the old     *)
(* one, timer_rem removes the timer whose id is stored.                    *)

timer_add(k) ==
    timer' = [timer EXCEPT ![k] =
                 [mine |-> TRUE, stray |-> @.stray + (IF @.mine THEN 1 ELSE 0)]]

timer_rem(k) == timer' = [timer EXCEPT ![k].mine = FALSE]

\* timer_add fails: the id becomes -1, which no timer has.
no_timer_added(k) ==
    timer' = [timer EXCEPT ![k] =
                 [mine |-> FALSE, stray |-> @.stray + (IF @.mine THEN 1 ELSE 0)]]

\* A timer expires, and its handler begins.
Expire(k, handler) ==
    /\ Go("ticker", "idle", handler)
    /\ \/ /\ timer[k].mine
          /\ timer' = [timer EXCEPT ![k].mine = FALSE]
       \/ /\ timer[k].stray > 0
          /\ timer' = [timer EXCEPT ![k].stray = @ - 1]
    /\ UNCHANGED <<flags, echoSet, deadSet, echoCount, answers, runs, failed>>

Few == \A k \in Kinds : timer[k].stray < MaxStray

-----------------------------------------------------------------------------
(* CWReceiveMessage on the main thread, CWReceiveDataMessage on the data   *)
(* thread: a packet that completes no message makes the thread wait for    *)
(* another one, without a timeout and without looking at the flags.  On    *)
(* the data thread this includes a packet that cannot be parsed.           *)

ReceivePacket(who) ==
    /\ answers
    /\ \/ Go(who, "work", "receive")
       \/ Go(who, "receive", "loop")  \* a message that changes nothing here
    /\ UNCHANGED <<flags, echoSet, deadSet, echoCount, timer, answers, runs,
                   failed>>

\* A packet completes a message that takes the thread to to.
ReceiveMessage(who, to) ==
    answers /\ (Go(who, "work", to) \/ Go(who, "receive", to))

-----------------------------------------------------------------------------
(* The main thread.                                                        *)

\* The beginning of CWWTPEnterRun.  Without a thread, pthread_join() is later
\* called with an id that was never set.
CWWTPEnterRun ==
    /\ answers
    /\ runs < MaxRuns
    /\ runs' = runs + 1
    /\ echoCount' = 0
    /\ pc.main = "out"
    /\ \/ /\ pc' = [pc EXCEPT !.main = "echo", !.data = "created"]
          /\ Works
       \/ /\ pc' = [pc EXCEPT !.main = "stopEcho", !.data = "none"]
          /\ Fails
    /\ UNCHANGED <<flags, echoSet, deadSet, timer, answers>>

\* The id and the flag are stored after timer_add(), without a lock: one step,
\* because the timer that was just added is seconds from expiring.  When the
\* other thread stops or starts the timer in between, its call can be placed
\* before or after this one.
CWStartEchoRequestTimer(from, to) ==
    \/ /\ Go("main", from, to)
       /\ timer_add("echo")
       /\ echoSet' = TRUE
       /\ Works
    \/ /\ Go("main", from, "stopEcho")
       /\ no_timer_added("echo")
       /\ UNCHANGED echoSet
       /\ Fails

StartEcho ==
    /\ CWStartEchoRequestTimer("echo", "loop")
    /\ UNCHANGED <<flags, deadSet, echoCount, answers, runs>>

\* The loop tests the flags ...
RunLoop ==
    /\ \/ Dead /\ Go("main", "loop", "stopEcho")
       \/ ~Dead /\ Go("main", "loop", "work")
    /\ UNCHANGED <<flags, echoSet, deadSet, echoCount, timer, answers, runs,
                   failed>>

\* ... and goes round again when there is nothing to read, or handles a message:
\* most of those that are understood stop the Echo timer and start it again
\* (CWResetEchoRequestRetransmit).
NoMessage ==
    /\ Go("main", "work", "loop")
    /\ UNCHANGED <<flags, echoSet, deadSet, echoCount, timer, answers, runs,
                   failed>>

CWWTPManageGenericRunMessage ==
    /\ \/ /\ Few
          /\ ReceiveMessage("main", "reset")
          /\ timer_rem("echo")
          /\ echoSet' = FALSE
          /\ Works
       \/ /\ ReceiveMessage("main", "stopEcho")
          /\ Fails
          /\ UNCHANGED <<timer, echoSet>>
    /\ UNCHANGED <<flags, deadSet, echoCount, answers, runs>>

CWResetEchoRequestRetransmit ==
    /\ echoCount' = 0
    /\ CWStartEchoRequestTimer("reset", "loop")
    /\ UNCHANGED <<flags, deadSet, answers, runs>>

\* CLEAR_RUN_STATE: the timers are stopped, the data thread is told to end and
\* waited for, the flags are reset.
CWStopEchoRequestsTimer ==
    /\ Go("main", "stopEcho", "stopKeepAlive")
    /\ timer_rem("echo")
    /\ echoSet' = FALSE
    /\ UNCHANGED <<flags, deadSet, echoCount, answers, runs, failed>>

CWStopKeepAliveTimer ==
    /\ Go("main", "stopKeepAlive", "stopDead")
    /\ timer_rem("keepAlive")
    /\ UNCHANGED <<flags, echoSet, deadSet, echoCount, answers, runs, failed>>

CWStopDataChannelDeadTimer ==
    /\ Go("main", "stopDead", "mark")
    /\ timer_rem("dead")
    /\ deadSet' = FALSE
    /\ UNCHANGED <<flags, echoSet, echoCount, answers, runs, failed>>

TellDataThread ==
    /\ Go("main", "mark", "join")
    /\ dataState' = 2
    /\ UNCHANGED <<deadFlag, exitEcho, echoSet, deadSet, echoCount, timer,
                   answers, runs, failed>>

JoinDataThread ==
    /\ \/ pc.data = "ended" /\ Go("main", "join", "clear")
       \/ pc.data = "none" /\ (Go("main", "join", "clear")
                               \/ Go("main", "join", "crashed"))
    /\ UNCHANGED <<flags, echoSet, deadSet, echoCount, timer, answers, runs,
                   failed>>

ClearFlags ==
    /\ Go("main", "clear", "out")
    /\ deadFlag' = FALSE
    /\ exitEcho' = FALSE
    /\ dataState' = 0
    /\ UNCHANGED <<echoSet, deadSet, echoCount, timer, answers, runs, failed>>

-----------------------------------------------------------------------------
(* CWWTPKeepAliveDataTimerExpiredHandler, on the ticker thread and, once,  *)
(* on the data thread.                                                     *)

Return(who) == IF who = "ticker" THEN "idle" ELSE "loop"

TestChannels(who) ==
    /\ \/ Dead /\ Go(who, "keepAlive", Return(who))
       \/ ~Dead /\ Go(who, "keepAlive", "testDead")
    /\ UNCHANGED <<flags, echoSet, deadSet, echoCount, timer, answers, runs,
                   failed>>

TestDeadTimer(who) ==
    /\ \/ deadSet /\ Go(who, "testDead", "send")
       \/ ~deadSet /\ Go(who, "testDead", "startDead")
    /\ UNCHANGED <<flags, echoSet, deadSet, echoCount, timer, answers, runs,
                   failed>>

CWStartDataChannelDeadTimer(who, from, to, otherwise) ==
    \/ /\ Go(who, from, to)
       /\ timer_add("dead")
       /\ deadSet' = TRUE
       /\ Works
    \/ /\ Go(who, from, otherwise)
       /\ no_timer_added("dead")
       /\ deadSet' = FALSE
       /\ Fails

StartDeadTimer(who) ==
    /\ CWStartDataChannelDeadTimer(who, "startDead", "send", Return(who))
    /\ UNCHANGED <<flags, echoSet, echoCount, answers, runs>>

\* The KeepAlive is sent, or not, and the timer started, or not.
CWStartKeepAliveTimer(who) ==
    /\ Go(who, "send", Return(who))
    /\ \/ timer_add("keepAlive") /\ Works
       \/ (no_timer_added("keepAlive") \/ UNCHANGED timer) /\ Fails
    /\ UNCHANGED <<flags, echoSet, deadSet, echoCount, answers, runs>>

CWWTPKeepAliveDataTimerExpiredHandler(who) ==
    TestChannels(who) \/ TestDeadTimer(who) \/ StartDeadTimer(who)
        \/ CWStartKeepAliveTimer(who)

-----------------------------------------------------------------------------
(* The other handlers.                                                     *)

\* Mutant: one Echo Request too many is sent.
TestEcho_off_by_one ==
    /\ \/ ~echoSet /\ Go("ticker", "echo", "idle") /\ UNCHANGED exitEcho
       \/ /\ echoSet /\ echoCount > MaxRetransmitEcho
          /\ Go("ticker", "echo", "idle")
          /\ exitEcho' = TRUE
       \/ /\ echoSet /\ echoCount <= MaxRetransmitEcho
          /\ Go("ticker", "echo", "testChannel")
          /\ UNCHANGED exitEcho
    /\ UNCHANGED <<deadFlag, dataState, echoSet, deadSet, echoCount, timer,
                   answers, runs, failed>>

\* Mutant: the last Echo Request goes unanswered and nobody is told.
TestEcho_tells_nobody ==
    /\ \/ echoSet /\ echoCount < MaxRetransmitEcho
              /\ Go("ticker", "echo", "testChannel")
       \/ ~(echoSet /\ echoCount < MaxRetransmitEcho)
              /\ Go("ticker", "echo", "idle")
    /\ UNCHANGED <<flags, echoSet, deadSet, echoCount, timer, answers, runs,
                   failed>>

\* CWWTPEchoRequestTimerExpiredHandler.
TestEcho ==
    /\ \/ ~echoSet /\ Go("ticker", "echo", "idle") /\ UNCHANGED exitEcho
       \/ /\ echoSet /\ echoCount >= MaxRetransmitEcho
          /\ Go("ticker", "echo", "idle")
          /\ exitEcho' = TRUE
       \/ /\ echoSet /\ echoCount < MaxRetransmitEcho
          /\ Go("ticker", "echo", "testChannel")
          /\ UNCHANGED exitEcho
    /\ UNCHANGED <<deadFlag, dataState, echoSet, deadSet, echoCount, timer,
                   answers, runs, failed>>

TestChannel ==
    /\ \/ deadFlag /\ Go("ticker", "testChannel", "idle") /\ Works
       \/ ~deadFlag /\ Go("ticker", "testChannel", "sendEcho") /\ Works
       \/ ~deadFlag /\ Go("ticker", "testChannel", "idle") /\ Fails
    /\ UNCHANGED <<flags, echoSet, deadSet, echoCount, timer, answers, runs>>

\* Mutant: the timer is not started again.
SendEcho_once ==
    /\ Go("ticker", "sendEcho", "idle")
    /\ echoCount' = echoCount + 1
    /\ UNCHANGED <<flags, echoSet, deadSet, timer, answers, runs, failed>>

SendEcho ==
    /\ Go("ticker", "sendEcho", "idle")
    /\ echoCount' = echoCount + 1
    /\ \/ timer_add("echo") /\ echoSet' = TRUE /\ Works
       \/ no_timer_added("echo") /\ UNCHANGED echoSet /\ Fails
    /\ UNCHANGED <<flags, deadSet, answers, runs>>

CWWTPDataChannelDeadTimerExpired ==
    /\ Go("ticker", "expired", "idle")
    /\ deadFlag' = TRUE
    /\ UNCHANGED <<exitEcho, dataState, echoSet, deadSet, echoCount, timer,
                   answers, runs, failed>>

-----------------------------------------------------------------------------
(* The data thread, CWWTPManageDataPacket.                                 *)

DataThreadStarts ==
    /\ Go("data", "created", "alive")
    /\ dataState' = 1
    /\ UNCHANGED <<deadFlag, exitEcho, echoSet, deadSet, echoCount, timer,
                   answers, runs, failed>>

ChannelIsAlive ==
    /\ Go("data", "alive", "keepAlive")
    /\ deadFlag' = FALSE
    /\ UNCHANGED <<exitEcho, dataState, echoSet, deadSet, echoCount, timer,
                   answers, runs, failed>>

\* Mutant: the data thread does not look at the control channel's flag.
DataLoop_own_channel ==
    /\ LET leave == deadFlag \/ dataState = 2 IN
       \/ leave /\ Go("data", "loop", "end")
       \/ ~leave /\ Go("data", "loop", "work")
    /\ UNCHANGED <<flags, echoSet, deadSet, echoCount, timer, answers, runs,
                   failed>>

DataLoop ==
    /\ LET leave == Dead \/ dataState = 2 IN
       \/ leave /\ Go("data", "loop", "end")
       \/ ~leave /\ Go("data", "loop", "work")
    /\ UNCHANGED <<flags, echoSet, deadSet, echoCount, timer, answers, runs,
                   failed>>

NoDataPacket ==
    /\ Go("data", "work", "loop")
    /\ UNCHANGED <<flags, echoSet, deadSet, echoCount, timer, answers, runs,
                   failed>>

\* Mutant: the timer is stopped and not started again.
ReceiveKeepAlive_stays_set ==
    /\ Few
    /\ deadSet
    /\ ReceiveMessage("data", "loop")
    /\ timer_rem("dead")
    /\ UNCHANGED <<flags, echoSet, deadSet, echoCount, answers, runs, failed>>

\* CWResetDataChannelDeadTimer, first half: the answer to a KeepAlive.
ReceiveKeepAlive ==
    /\ Few
    /\ deadSet
    /\ ReceiveMessage("data", "restart")
    /\ timer_rem("dead")
    /\ deadSet' = FALSE
    /\ UNCHANGED <<flags, echoSet, echoCount, answers, runs, failed>>

\* Second half.
CWResetDataChannelDeadTimer ==
    /\ \/ /\ Go("data", "restart", "loop")
          /\ timer_add("dead")
          /\ deadSet' = TRUE
          /\ Works
       \/ /\ Go("data", "restart", "end")
          /\ no_timer_added("dead")
          /\ UNCHANGED deadSet
          /\ Fails
    /\ UNCHANGED <<flags, echoSet, echoCount, answers, runs>>

\* The frame in a message cannot be handled: the thread ends at once, without
\* a word to the main thread.
DataFrameFails ==
    /\ ReceiveMessage("data", "ended")
    /\ Fails
    /\ UNCHANGED <<flags, echoSet, deadSet, echoCount, timer, answers, runs>>

DataThreadEnds ==
    /\ Go("data", "end", "ended")
    /\ deadFlag' = TRUE
    /\ dataState' = 2
    /\ UNCHANGED <<exitEcho, echoSet, deadSet, echoCount, timer, answers, runs,
                   failed>>

-----------------------------------------------------------------------------
(* The AC.                                                                 *)

ACFallsSilent ==
    /\ answers
    /\ answers' = FALSE
    /\ UNCHANGED <<pc, flags, echoSet, deadSet, echoCount, timer, runs, failed>>

-----------------------------------------------------------------------------
MainThread ==
    \/ StartEcho \/ RunLoop \/ NoMessage
    \/ CWResetEchoRequestRetransmit \/ CWStopEchoRequestsTimer
    \/ CWStopKeepAliveTimer \/ CWStopDataChannelDeadTimer \/ TellDataThread
    \/ JoinDataThread \/ ClearFlags

DataThread ==
    \/ DataThreadStarts \/ ChannelIsAlive \/ DataLoop \/ NoDataPacket
    \/ CWWTPKeepAliveDataTimerExpiredHandler("data")
    \/ CWResetDataChannelDeadTimer \/ DataThreadEnds

Handler ==
    \/ TestEcho \/ TestChannel \/ SendEcho
    \/ CWWTPKeepAliveDataTimerExpiredHandler("ticker")
    \/ CWWTPDataChannelDeadTimerExpired

Expires ==
    \/ Expire("echo", "echo")
    \/ Expire("keepAlive", "keepAlive")
    \/ Expire("dead", "expired")

Next ==
    \/ CWWTPEnterRun
    \/ MainThread \/ ReceivePacket("main") \/ CWWTPManageGenericRunMessage
    \/ DataThread \/ ReceivePacket("data") \/ ReceiveKeepAlive
    \/ DataFrameFails
    \/ Handler \/ Expires
    \/ ACFallsSilent

Spec == Init /\ [][Next]_vars

\* The threads run.  Nothing obliges the AC to send anything, in particular
\* the rest of a message.
FairSpec ==
    /\ Spec
    /\ WF_vars(MainThread)
    /\ WF_vars(DataThread)
    /\ WF_vars(Handler)

-----------------------------------------------------------------------------
(* Properties.                                                             *)

\* The timer library serves its queue in the order of the deadlines, so a timer
\* that stays on it expires, whatever other timers do.  It does so except when
\* it sets its interval timer to zero (WakeupLost of TimerLib).
TimersServed ==
    /\ SF_vars(Expire("echo", "echo"))
    /\ SF_vars(Expire("keepAlive", "keepAlive"))
    /\ SF_vars(Expire("dead", "expired"))

\* The Echo interval is seconds long: its handler never runs before the data
\* thread has taken its first steps.
DataThreadPrompt ==
    [](pc.ticker \in {"echo", "testChannel"} =>
           pc.data \notin {"created", "alive"})

\* An AC that falls silent is noticed, and the main thread gets out of Run,
\* past its wait for the data thread, whatever the three threads do to each
\* other's timers and flags, in the first Run and in one that inherits timers
\* and flags from it; provided that timers expire.  In the first Run even with
\* a failure: each channel's timer covers for the other's.  Later a failure may
\* be one too many, because what is left of the Run before can already have
\* cost a timer.  The exception is an AC that falls silent in the middle of a
\* message: the main thread then stays in CWReceiveMessage, or the data thread
\* in CWReceiveDataMessage and the main thread in pthread_join().
SilenceNoticed ==
    TimersServed /\ DataThreadPrompt =>
        (~answers ~> \/ pc.main \in {"out", "crashed"}
                     \/ failed /\ runs > 1
                     \/ pc.main = "receive"
                     \/ pc.main = "join" /\ pc.data = "receive")

OnQueue(k) == timer[k].mine \/ timer[k].stray > 0

\* In the first Run, while the main thread serves it and no flag is set, the
\* Echo timer is on the queue or its handler is about to decide: the main
\* thread's restarts never lose it to the handler that runs meanwhile.
EchoGuarded ==
    pc.main \in {"loop", "work", "receive"}
            /\ ~Dead /\ ~failed /\ runs = 1 =>
        OnQueue("echo") \/ pc.ticker \in {"echo", "testChannel", "sendEcho"}

\* The same of the data thread and the DataChannelDead timer.
DeadGuarded ==
    pc.data \in {"loop", "work", "receive"}
            /\ pc.main \in {"loop", "work", "receive"}
            /\ ~Dead /\ ~failed /\ runs = 1 =>
        OnQueue("dead") \/ pc.ticker = "expired"

\* "Data Packet Thread must die": in the first Run the data thread sees, by
\* one flag or another, that it has to end, even when it starts so late that
\* it overwrites gWTPThreadDataPacketState, and the main thread's
\* pthread_join() returns.  The AC may go on answering.  The exception is a
\* data thread that waits in CWReceiveDataMessage for ever.
LeavesRun ==
    \/ (pc.main = "join" /\ runs = 1) ~> (pc.main # "join" \/ failed)
    \/ <>[](pc.main = "join" /\ pc.data = "receive")

-----------------------------------------------------------------------------
(* The inductive invariant of the proofs in WTPRunProof.                   *)

\* The handler sends an Echo Request only below the limit, which it tested
\* two steps earlier; meanwhile the main thread can only reset the count.
EchoBelowLimit ==
    pc.ticker \in {"testChannel", "sendEcho"} => echoCount < MaxRetransmitEcho

BeforeFirstRun == runs = 0 => pc.main = "out" /\ pc.data = "none"

\* In the first Run it is the data thread that starts the timers of its
\* channel: before, nothing can find the channel dead.
ChannelUntouched ==
    runs <= 1 /\ pc.data \in {"none", "created", "alive", "keepAlive",
                              "testDead", "startDead"} =>
        /\ ~deadFlag /\ ~deadSet
        /\ ~OnQueue("keepAlive") /\ ~OnQueue("dead")
        /\ pc.ticker \notin KeepAlivePc \cup {"expired"}

\* While the main thread serves Run the handler believes in its timer.
EchoBelieved ==
    pc.main \in {"loop", "work", "receive"} /\ ~failed /\ runs = 1 => echoSet

\* DeadGuarded from the moment the data thread has started the timer.
DeadStarted ==
    pc.data \in {"send", "loop", "work", "receive"}
            /\ pc.main \in {"echo", "loop", "work", "receive", "reset"}
            /\ ~Dead /\ ~failed /\ runs = 1 =>
        OnQueue("dead") \/ pc.ticker = "expired"

IInv == /\ TypeOK
        /\ EchoBelowLimit
        /\ BeforeFirstRun
        /\ ChannelUntouched
        /\ EchoBelieved
        /\ EchoGuarded
        /\ DeadStarted

=============================================================================
