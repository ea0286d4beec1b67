------------------------------ MODULE TimerLib ------------------------------
(***************************************************************************)
(* The timer library under both daemons (timerlib.c) with the thread-timer *)
(* wrappers of CWThread.c.  One process-wide interval timer drives a queue *)
(* of timers kept in order of absolute expiry.  The ticker thread arms the *)
(* interval timer for the first of the queue, waits for SIGALRM and runs   *)
(* the handler of whatever is then first.  Any thread, and the handlers    *)
(* themselves, call timer_add and timer_rem.                               *)
(*                                                                         *)
(* A section under timerq.mutex never blocks with the mutex held, except   *)
(* in pthread_cond_wait, so each section is one step.  SIGALRM is a        *)
(* standard signal: at most one instance is pending.  The doubly linked    *)
(* list is a sequence, and the argument of a timer's handler is identified *)
(* with the timer's id.  An absolute time is the natural number of ticks   *)
(* since the epoch, a tick being the microsecond of struct timeval: tv_sec *)
(* and tv_usec of t are t \div Second and t % Second.                      *)
(***************************************************************************)
EXTENDS Integers, SequencesExt

CONSTANTS
    MaxTimers,   \* bound: how many timers are ever requested
    MaxTime,     \* bound: timers are only requested for times up to this
    Delays,      \* the relative timeouts requested
    Second,      \* ticks in a second; MAX_USEC is one less
    AlmostNow    \* ALMOST_NOW, in ticks

ASSUME TimersAssumption == MaxTimers \in Nat
ASSUME TimeAssumption == MaxTime \in Nat
\* timer_add refuses a timeout that is not in the future (line 346).
ASSUME DelaysAssumption == Delays \subseteq Nat \ {0}
ASSUME SecondAssumption == Second \in Nat \ {0}
ASSUME AlmostNowAssumption == AlmostNow \in Nat \ {0}

VARIABLES
    now,        \* gettimeofday
    queue,      \* timerq.first ... timerq.last
    cur_id,     \* timerq.cur_id
    itimer,     \* expiry of the process's interval timer, Disarmed if none
    sigalrm,    \* a SIGALRM is pending
    ticker,     \* where the ticker thread is in cronometer()
    hdl,        \* the timer whose handler the ticker took off the queue
    removed,    \* ids timer_rem found in the queue (history)
    started,    \* id -> how often its handler was started (history)
    freed       \* id -> how often its argument was freed (history)

libVars == <<queue, cur_id, itimer>>
history == <<removed, started, freed>>
vars == <<now, queue, cur_id, itimer, sigalrm, ticker, hdl, history>>

Ids == 0 .. MaxTimers - 1
Disarmed == -1
NoTimer == -1

\* struct timer; arg is "handler_arg # NULL".
Timer == [id: Ids, timeout: Nat, in_use: BOOLEAN, cancelled: BOOLEAN,
          arg: BOOLEAN]

\* What the ticker copied from the timer it dequeued, and when it did.
Handler == [id: Ids, timeout: Nat, arg: BOOLEAN, at: Nat]
NoHandler == [id |-> NoTimer, timeout |-> 0, arg |-> FALSE, at |-> 0]

Max2(a, b) == IF a < b THEN b ELSE a

\* The borrow is MAX_USEC, not a whole second: an interval in whose second
\* the clock's tv_usec has to wrap comes out one tick short.
TV_MINUS(t1, t2) ==
    IF t1 % Second >= t2 % Second THEN t1 - t2 ELSE t1 - t2 - 1

\* setitimer: it_value {0, 0} disarms the interval timer.
setitimer(value) == itimer' = IF value = 0 THEN Disarmed ELSE now + value

\* Mutant: no clamp of a timeout that has already passed, and the interval
\* taken for the time.
timer_start_unclamped(abs_to) == itimer' = TV_MINUS(abs_to, now)

timer_start(abs_to) ==
    setitimer(IF now < abs_to THEN TV_MINUS(abs_to, now) ELSE AlmostNow)

TypeOK ==
    /\ now \in Nat
    /\ queue \in Seq(Timer)
    /\ cur_id \in 0 .. MaxTimers
    /\ itimer \in Nat \cup {Disarmed}
    /\ sigalrm \in BOOLEAN
    /\ ticker \in {"empty", "sigwait", "woken", "handler"}
    /\ hdl \in Handler \cup {NoHandler}
    /\ removed \subseteq Ids
    /\ started \in [Ids -> Nat]
    /\ freed \in [Ids -> Nat]

Init ==
    /\ now = 0
    /\ queue = <<>>
    /\ cur_id = 0
    /\ itimer = Disarmed
    /\ sigalrm = FALSE
    /\ ticker = "empty"
    /\ hdl = NoHandler
    /\ removed = {}
    /\ started = [i \in Ids |-> 0]
    /\ freed = [i \in Ids |-> 0]

-----------------------------------------------------------------------------
(* The clock and the kernel's interval timer.                              *)

\* Bound: past MaxTime, when no timer is outstanding any more, the clock only
\* moves while the interval timer is running.
Tick ==
    /\ now < MaxTime \/ now < itimer
    /\ now' = now + 1
    /\ UNCHANGED <<libVars, sigalrm, ticker, hdl, history>>

Expire ==
    /\ itimer # Disarmed
    /\ itimer <= now
    /\ itimer' = Disarmed
    /\ sigalrm' = TRUE
    /\ UNCHANGED <<now, queue, cur_id, ticker, hdl, history>>

-----------------------------------------------------------------------------
(* Calls from any thread.                                                  *)

\* Mutant: every timer is put at the end.
IsPlace_last(p, t) == p = Len(queue) + 1

\* Mutant: a timer goes before those that are due with it.
IsPlace_before_equal(p, t) ==
    /\ \A i \in 1 .. p - 1 : queue[i].timeout < t
    /\ p <= Len(queue) => t <= queue[p].timeout

\* Place p of the queue is before the first timer that expires strictly later
\* than t: the loop of lines 386-395 stops there.
IsPlace(p, t) ==
    /\ \A i \in 1 .. p - 1 : queue[i].timeout <= t
    /\ p <= Len(queue) => t < queue[p].timeout

NewTimer(t, inUse) == [id |-> cur_id, timeout |-> t, in_use |-> inUse,
                       cancelled |-> FALSE, arg |-> TRUE]

\* Mutant: the interval timer is left running for the old first timer.
AddFirst_no_start(t) ==
    /\ queue # <<>>
    /\ IsPlace(1, t)
    /\ queue' = InsertAt([queue EXCEPT ![1].in_use = FALSE], 1,
                         NewTimer(t, TRUE))
    /\ UNCHANGED itimer

\* The shortest timer takes over the interval timer from the one that was
\* first (lines 408-419).  A timer added to an empty queue is left to the
\* ticker to arm, and one added elsewhere waits.
AddFirst(t) ==
    /\ queue # <<>>
    /\ IsPlace(1, t)
    /\ queue' = InsertAt([queue EXCEPT ![1].in_use = FALSE], 1,
                         NewTimer(t, TRUE))
    /\ timer_start(t)

AddBehind(t) ==
    \E p \in 1 .. Len(queue) + 1 :
        /\ p > 1 \/ queue = <<>>
        /\ IsPlace(p, t)
        /\ queue' = InsertAt(queue, p, NewTimer(t, FALSE))
        /\ UNCHANGED itimer

timer_add(d) ==
    /\ cur_id < MaxTimers
    /\ now + d <= MaxTime
    /\ cur_id' = cur_id + 1
    /\ AddFirst(now + d) \/ AddBehind(now + d)
    /\ UNCHANGED <<now, sigalrm, ticker, hdl, history>>

\* Mutants: the timer the ticker is waiting for is dequeued; is not marked as
\* cancelled; keeps the pointer to its freed argument.
timer_rem_dequeues(id, free_arg) ==
    \E p \in 1 .. Len(queue) :
        /\ queue[p].id = id
        /\ queue' = RemoveAt(queue, p)
        /\ freed' = IF free_arg /\ queue[p].arg
                    THEN [freed EXCEPT ![id] = @ + 1] ELSE freed
        /\ removed' = removed \cup {id}
        /\ UNCHANGED <<now, cur_id, itimer, sigalrm, ticker, hdl, started>>

timer_rem_no_flag(id, free_arg) ==
    \E p \in 1 .. Len(queue) :
        /\ queue[p].id = id
        /\ queue' = IF queue[p].in_use
                    THEN [queue EXCEPT ![p].arg = @ /\ ~free_arg]
                    ELSE RemoveAt(queue, p)
        /\ freed' = IF free_arg /\ queue[p].arg
                    THEN [freed EXCEPT ![id] = @ + 1] ELSE freed
        /\ removed' = removed \cup {id}
        /\ UNCHANGED <<now, cur_id, itimer, sigalrm, ticker, hdl, started>>

timer_rem_keeps_arg(id, free_arg) ==
    \E p \in 1 .. Len(queue) :
        /\ queue[p].id = id
        /\ queue' = IF queue[p].in_use
                    THEN [queue EXCEPT ![p].cancelled = TRUE]
                    ELSE RemoveAt(queue, p)
        /\ freed' = IF free_arg /\ queue[p].arg
                    THEN [freed EXCEPT ![id] = @ + 1] ELSE freed
        /\ removed' = removed \cup {id}
        /\ UNCHANGED <<now, cur_id, itimer, sigalrm, ticker, hdl, started>>

\* Mutant: removing the timer the ticker is waiting for stops the interval
\* timer.
timer_rem_disarms(id, free_arg) ==
    \E p \in 1 .. Len(queue) :
        /\ queue[p].id = id
        /\ queue' = IF queue[p].in_use
                    THEN [queue EXCEPT ![p].cancelled = TRUE,
                                       ![p].arg = @ /\ ~free_arg]
                    ELSE RemoveAt(queue, p)
        /\ itimer' = IF queue[p].in_use THEN Disarmed ELSE itimer
        /\ freed' = IF free_arg /\ queue[p].arg
                    THEN [freed EXCEPT ![id] = @ + 1] ELSE freed
        /\ removed' = removed \cup {id}
        /\ UNCHANGED <<now, cur_id, sigalrm, ticker, hdl, started>>

\* free_arg is CWTimerFreeArg (a no-op on NULL) for CWTimerCancel and absent
\* in the WTP's direct calls.  An id that is not in the queue is left alone.
timer_rem(id, free_arg) ==
    \E p \in 1 .. Len(queue) :
        /\ queue[p].id = id
        /\ queue' = IF queue[p].in_use
                    THEN [queue EXCEPT ![p].cancelled = TRUE,
                                       ![p].arg = @ /\ ~free_arg]
                    ELSE RemoveAt(queue, p)
        /\ freed' = IF free_arg /\ queue[p].arg
                    THEN [freed EXCEPT ![id] = @ + 1] ELSE freed
        /\ removed' = removed \cup {id}
        /\ UNCHANGED <<now, cur_id, itimer, sigalrm, ticker, hdl, started>>

-----------------------------------------------------------------------------
(* The ticker thread.                                                      *)

\* Lines 196-204: wait for a timer, arm the interval timer for it.
Arm ==
    /\ ticker = "empty"
    /\ queue # <<>>
    /\ timer_start(queue[1].timeout)
    /\ queue' = [queue EXCEPT ![1].in_use = TRUE]
    /\ ticker' = "sigwait"
    /\ UNCHANGED <<now, cur_id, sigalrm, hdl, history>>

SigWait ==
    /\ ticker = "sigwait"
    /\ sigalrm
    /\ sigalrm' = FALSE
    /\ ticker' = "woken"
    /\ UNCHANGED <<now, libVars, hdl, history>>

\* Lines 221-228: the first of the queue was cancelled.
Discard ==
    /\ ticker = "woken"
    /\ queue[1].cancelled
    /\ queue' = Tail(queue)
    /\ ticker' = "empty"
    /\ UNCHANGED <<now, cur_id, itimer, sigalrm, hdl, history>>

\* Mutant: the timer stays in the queue while its handler runs.
Fire_keeps_timer ==
    /\ ticker = "woken"
    /\ ~queue[1].cancelled
    /\ hdl' = [id |-> queue[1].id, timeout |-> queue[1].timeout,
               arg |-> queue[1].arg, at |-> now]
    /\ started' = [started EXCEPT ![queue[1].id] = @ + 1]
    /\ ticker' = "handler"
    /\ UNCHANGED <<now, queue, cur_id, itimer, sigalrm, removed, freed>>

\* Lines 233-243: take the first of the queue and start its handler.
Fire ==
    /\ ticker = "woken"
    /\ ~queue[1].cancelled
    /\ hdl' = [id |-> queue[1].id, timeout |-> queue[1].timeout,
               arg |-> queue[1].arg, at |-> now]
    /\ queue' = Tail(queue)
    /\ started' = [started EXCEPT ![queue[1].id] = @ + 1]
    /\ ticker' = "handler"
    /\ UNCHANGED <<now, cur_id, itimer, sigalrm, removed, freed>>

\* CWHandleTimer has raised its signal and frees its argument.
HandlerReturn ==
    /\ ticker = "handler"
    /\ freed' = IF hdl.arg THEN [freed EXCEPT ![hdl.id] = @ + 1] ELSE freed
    /\ hdl' = NoHandler
    /\ ticker' = "empty"
    /\ UNCHANGED <<now, libVars, sigalrm, removed, started>>

-----------------------------------------------------------------------------
Ticker == Arm \/ SigWait \/ Discard \/ Fire \/ HandlerReturn

Next ==
    \/ Tick
    \/ Expire
    \/ \E d \in Delays : timer_add(d)
    \/ \E id \in Ids, free_arg \in BOOLEAN : timer_rem(id, free_arg)
    \/ Ticker

Spec == Init /\ [][Next]_vars

\* Time passes, the kernel delivers an expired timer and the ticker thread
\* is scheduled; nobody is obliged to add or remove a timer.
FairSpec == Spec /\ WF_vars(Tick) /\ WF_vars(Expire) /\ WF_vars(Ticker)

-----------------------------------------------------------------------------
(* Properties.                                                             *)

\* cronometer() dereferences timerq.first after sigwait without testing it
\* (line 223): while the ticker waits or has just been woken, the queue is
\* not empty and its first timer is in use, so that no timer_rem frees it.
FirstStaysInQueue ==
    ticker \in {"sigwait", "woken"} => queue # <<>> /\ queue[1].in_use

\* timer_add keeps the queue in order of expiry, whatever was added, removed
\* or cancelled before.
QueueSorted ==
    \A i, j \in 1 .. Len(queue) :
        i < j => queue[i].timeout <= queue[j].timeout

\* TV_MINUS lost the one tick there was between now and the first timer,
\* which is due on a full second, and setitimer stopped the interval timer:
\* the ticker is in sigwait and nothing will wake it until an earlier timer
\* is added.
WakeupLost ==
    /\ ticker = "sigwait"
    /\ ~sigalrm
    /\ itimer = Disarmed
    /\ queue[1].timeout % Second = 0
    /\ queue[1].timeout <= now + 1

\* While the ticker is in sigwait a signal is on its way, and no later than
\* the first timer of the queue is due, also when that timer was put in
\* front of the one the ticker armed.  The one exception is the interval
\* that TV_MINUS takes for zero.
WakeupArmed ==
    ticker = "sigwait" =>
        \/ sigalrm
        \/ /\ itimer # Disarmed
           /\ itimer <= Max2(queue[1].timeout, now + AlmostNow)
        \/ WakeupLost

\* Once timer_rem found a timer in the queue its handler is never started:
\* the ticker honours the cancelled flag.
RemovedNeverStarts ==
    ticker = "handler" => hdl.id \notin removed

\* "otherwise we risk to free it more than one time" (lines 457-460): the
\* argument of a timer is freed at most once, by timer_rem or by the handler,
\* however often the timer is removed, and a handler's argument is not freed
\* before the handler has run.
FreedAtMostOnce ==
    /\ \A i \in Ids : freed[i] <= 1
    /\ ticker = "handler" => hdl.arg /\ freed[hdl.id] = 0

\* A handler runs at most once for each timer_add.
StartedAtMostOnce == \A i \in Ids : started[i] <= 1

\* What holds of every timer in the queue.
EntriesOK ==
    \A i \in 1 .. Len(queue) : LET e == queue[i] IN
        /\ e.id < cur_id
        /\ started[e.id] = 0
        /\ e.id \in removed => e.cancelled
        /\ e.arg => freed[e.id] = 0
        /\ e.cancelled \/ e.arg

\* Ids in the queue are distinct.
IdsDistinct ==
    \A i, j \in 1 .. Len(queue) : queue[i].id = queue[j].id => i = j

\* Only the first timer is ever in use.
OnlyFirstInUse == \A i \in 2 .. Len(queue) : ~queue[i].in_use

\* Nothing has happened yet to an id that was not given out.
FreshIds ==
    \A i \in Ids : cur_id <= i => /\ started[i] = 0
                                  /\ freed[i] = 0
                                  /\ i \notin removed

\* What holds of the timer whose handler is running.
RunningOK ==
    ticker = "handler" =>
        /\ hdl \in Handler
        /\ hdl.id < cur_id
        /\ hdl.arg
        /\ hdl.id \notin removed
        /\ freed[hdl.id] = 0
        /\ started[hdl.id] = 1

\* The inductive invariant: the safety properties above with what they need.
IInv ==
    /\ TypeOK
    /\ EntriesOK
    /\ IdsDistinct
    /\ OnlyFirstInUse
    /\ FreshIds
    /\ RunningOK
    /\ QueueSorted
    /\ FirstStaysInQueue
    /\ WakeupArmed
    /\ \A i \in Ids : freed[i] <= 1
    /\ StartedAtMostOnce

\* Every timer that was added is eventually fired or removed, although the
\* library has a single interval timer and a single pending signal, unless
\* the ticker is left for ever in the sigwait that TV_MINUS spoiled.
EveryTimerEnds ==
    \/ \A i \in Ids : (i < cur_id) ~> (started[i] = 1 \/ i \in removed)
    \/ <>[]WakeupLost

-----------------------------------------------------------------------------
(* The library implements the service its callers rely on.                 *)

\* The timers whose handler may still start: those in the queue that were
\* not removed while the ticker was waiting for them.
Outstanding ==
    {[id |-> e.id, due |-> e.timeout] : e \in {queue[i] : i \in
        {j \in 1 .. Len(queue) : ~queue[j].cancelled}}}

\* Timers that are due together are in the order of their requests.
RequestOrder ==
    \A i, j \in 1 .. Len(queue) :
        i < j /\ queue[i].timeout = queue[j].timeout => queue[i].id < queue[j].id

Service == INSTANCE TimerService WITH
    Times <- 0 .. MaxTime,
    requested <- cur_id,
    pending <- Outstanding,
    running <- IF ticker = "handler" THEN {hdl.id} ELSE {}

\* The linked list with its flags, the single interval timer, the signal and
\* the ticker thread behave as TimerService says: handlers start in the order
\* in which the timers are due, none of a removed timer, none twice.
ImplementsService == Service!Spec

=============================================================================
