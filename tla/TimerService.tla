---------------------------- MODULE TimerService ----------------------------
(***************************************************************************)
(* What the timer library promises to the AC's sessions and to the WTP: a  *)
(* timer that was requested and not cancelled runs its handler at most     *)
(* once; handlers run one at a time, in the order in which the timers are  *)
(* due, and in the order of the requests when they are due together.       *)
(*                                                                         *)
(* It does not promise that every handler runs: see TimerLib!WakeupLost.   *)
(* It does not promise that a handler does not run early: a signal that    *)
(* was pending when a shorter timer was requested is taken for that timer. *)
(* It has neither interval timer nor signal; TimerLib implements it.       *)
(***************************************************************************)
EXTENDS Naturals

CONSTANTS
    Ids,        \* the ids the service gives out, in this order
    Times       \* when a timer may be due

VARIABLES
    requested,  \* how many timers were requested
    pending,    \* the timers that may still run: id and the time it is due
    running     \* the ids of the handlers that are running

vars == <<requested, pending, running>>

Init ==
    /\ requested = 0
    /\ pending = {}
    /\ running = {}

Request(due) ==
    /\ requested \in Ids
    /\ requested' = requested + 1
    /\ pending' = pending \cup {[id |-> requested, due |-> due]}
    /\ UNCHANGED running

Cancel(t) ==
    /\ t \in pending
    /\ pending' = pending \ {t}
    /\ UNCHANGED <<requested, running>>

\* t is due before u, or together with it but was requested first.
Before(t, u) == t.due < u.due \/ (t.due = u.due /\ t.id <= u.id)

Start(t) ==
    /\ running = {}
    /\ t \in pending
    /\ \A u \in pending : Before(t, u)
    /\ pending' = pending \ {t}
    /\ running' = {t.id}
    /\ UNCHANGED requested

Return ==
    /\ running # {}
    /\ running' = {}
    /\ UNCHANGED <<requested, pending>>

Next ==
    \/ \E due \in Times : Request(due)
    \/ \E t \in pending : Cancel(t) \/ Start(t)
    \/ Return

Spec == Init /\ [][Next]_vars

=============================================================================
