-------------------------- MODULE TimerServiceProof --------------------------
(* TimerLib implements the safety of TimerService, step by step, for every *)
(* number of timers, every horizon and every set of timeouts.              *)
EXTENDS TimerLibProof

\* What the service sees of a timer of the queue.
AsPending(e) == [id |-> e.id, due |-> e.timeout]

\* Two timers of the queue that are the same for the service.
Same(e, f) ==
    e.id = f.id /\ e.timeout = f.timeout /\ e.cancelled = f.cancelled

\* Where the timer at place i of a queue was before one was put at place p.
PlaceBefore(i, p) == IF i < p THEN i ELSE i - 1

\* What is outstanding, timer by timer.
LEMMA OutstandingIs ==
    \A x : x \in Outstanding <=>
              \E i \in 1 .. Len(queue) :
                  ~queue[i].cancelled /\ x = AsPending(queue[i])
BY DEF Outstanding, AsPending

\* The same after a step.
LEMMA OutstandingIsAfter ==
    \A x : x \in Outstanding' <=>
              \E i \in 1 .. Len(queue') :
                  ~queue'[i].cancelled /\ x = AsPending(queue'[i])
BY DEF Outstanding, AsPending

\* Timers with different ids are different to the service.
LEMMA PendingDistinct ==
    ASSUME IInv, NEW i \in 1 .. Len(queue), NEW j \in 1 .. Len(queue),
           AsPending(queue[i]) = AsPending(queue[j])
    PROVE  i = j
<1>1. queue[i].id = queue[j].id
  BY DEF AsPending
<1> QED BY <1>1 DEF IInv, IdsDistinct

-----------------------------------------------------------------------------
(* What the operations do to the queue.                                    *)

\* timer_add puts one timer at its place.
LEMMA AddShape ==
    ASSUME IInv, NEW d \in Delays, timer_add(d)
    PROVE  \E p \in 1 .. Len(queue) + 1 :
              /\ IsPlace(p, now + d)
              /\ Len(queue') = Len(queue) + 1
              /\ queue'[p].id = cur_id /\ queue'[p].timeout = now + d
              /\ ~queue'[p].cancelled
              /\ \A i \in 1 .. Len(queue') : i # p =>
                    /\ PlaceBefore(i, p) \in 1 .. Len(queue)
                    /\ Same(queue'[i], queue[PlaceBefore(i, p)])
<1>0. /\ TypeOK /\ queue \in Seq(Timer) /\ Len(queue) \in Nat /\ now + d \in Nat
      /\ queue # <<>> => 1 \in 1 .. Len(queue) /\ queue[1] \in Timer
  BY QueueTypes, DelaysAssumption DEF IInv, TypeOK
<1>1. cur_id \in Ids
  BY <1>0, TimersAssumption DEF TypeOK, Ids, timer_add
<1>2. PICK t \in Nat : t = now + d
  BY <1>0
<1>3. \E p \in 1 .. Len(queue) + 1, u \in BOOLEAN, q \in Seq(Timer) :
         /\ IsPlace(p, t)
         /\ Len(q) = Len(queue)
         /\ \A i \in 1 .. Len(q) : Same(q[i], queue[i])
         /\ queue' = InsertAt(q, p, NewTimer(t, u))
  <2>1. CASE AddFirst(t)
    <3>1. queue # <<>> /\ IsPlace(1, t)
      BY <2>1 DEF AddFirst
    <3>2. PICK f \in Timer : f = [queue[1] EXCEPT !.in_use = FALSE]
      BY <1>0, <3>1 DEF Timer
    <3>3. PICK q \in Seq(Timer) : q = [queue EXCEPT ![1] = f]
      BY <1>0, <3>1, ExceptSeq
    <3>4. /\ Len(q) = Len(queue)
          /\ \A j \in 1 .. Len(queue) : q[j] = IF j = 1 THEN f ELSE queue[j]
      BY <1>0, <3>1, <3>3, ExceptSeq
    <3>5. Same(f, queue[1])
      BY <1>0, <3>1, <3>2 DEF Timer, Same
    <3>6. \A i \in 1 .. Len(q) : Same(q[i], queue[i])
      BY <3>4, <3>5 DEF Same
    <3>7. queue' = InsertAt(q, 1, NewTimer(t, TRUE))
      BY <2>1, <3>2, <3>3 DEF AddFirst
    <3>8. 1 \in 1 .. Len(queue) + 1
      BY <1>0
    <3> QED BY <3>1, <3>4, <3>6, <3>7, <3>8
  <2>2. CASE AddBehind(t)
    <3>1. PICK p \in 1 .. Len(queue) + 1 :
             IsPlace(p, t) /\ queue' = InsertAt(queue, p, NewTimer(t, FALSE))
      BY <2>2 DEF AddBehind
    <3>2. \A i \in 1 .. Len(queue) : Same(queue[i], queue[i])
      BY DEF Same
    <3> QED BY <1>0, <3>1, <3>2
  <2> QED BY <1>2, <2>1, <2>2 DEF timer_add
<1>4. PICK p \in 1 .. Len(queue) + 1, u \in BOOLEAN, q \in Seq(Timer) :
         /\ IsPlace(p, t)
         /\ Len(q) = Len(queue)
         /\ \A i \in 1 .. Len(q) : Same(q[i], queue[i])
         /\ queue' = InsertAt(q, p, NewTimer(t, u))
  BY <1>3
<1>5. PICK n \in Timer : n = NewTimer(t, u)
  BY <1>1 DEF NewTimer, Timer
<1>6. n.id = cur_id /\ n.timeout = t /\ ~n.cancelled
  BY <1>5 DEF NewTimer
<1>7. /\ Len(queue') = Len(queue) + 1
      /\ \A i \in 1 .. Len(queue) + 1 :
            queue'[i] = IF i < p THEN q[i] ELSE IF i = p THEN n ELSE q[i - 1]
  <2>1. queue' = InsertAt(q, p, n) /\ p \in 1 .. Len(q) + 1
    BY <1>4, <1>5
  <2>2. /\ Len(InsertAt(q, p, n)) = Len(q) + 1
        /\ \A i \in 1 .. Len(q) + 1 :
              InsertAt(q, p, n)[i] = IF i < p THEN q[i]
                                     ELSE IF i = p THEN n ELSE q[i - 1]
    BY <2>1, InsertTimer
  <2> QED BY <1>4, <2>1, <2>2
<1>8. queue'[p] = n
  BY <1>0, <1>7
<1>9. \A i \in 1 .. Len(queue') : i # p =>
         /\ PlaceBefore(i, p) \in 1 .. Len(queue)
         /\ queue'[i] = q[PlaceBefore(i, p)]
  BY <1>0, <1>7 DEF PlaceBefore
<1>10. \A i \in 1 .. Len(queue') : i # p =>
         /\ PlaceBefore(i, p) \in 1 .. Len(queue)
         /\ Same(queue'[i], queue[PlaceBefore(i, p)])
  BY <1>4, <1>9
<1> QED BY <1>2, <1>4, <1>6, <1>7, <1>8, <1>10

\* timer_rem marks a timer that is in use, and takes any other out.
LEMMA RemShape ==
    ASSUME IInv, NEW id \in Ids, NEW free_arg \in BOOLEAN,
           timer_rem(id, free_arg)
    PROVE  \E p \in 1 .. Len(queue) :
              \/ /\ Len(queue') = Len(queue)
                 /\ queue'[p].cancelled
                 /\ queue'[p].id = queue[p].id
                 /\ queue'[p].timeout = queue[p].timeout
                 /\ \A i \in 1 .. Len(queue) : i # p => queue'[i] = queue[i]
              \/ /\ Len(queue') = Len(queue) - 1
                 /\ \A i \in 1 .. Len(queue') :
                       queue'[i] = IF i < p THEN queue[i] ELSE queue[i + 1]
<1>0. TypeOK /\ queue \in Seq(Timer) /\ Len(queue) \in Nat
  BY QueueTypes DEF IInv
<1>1. PICK p \in 1 .. Len(queue) :
        queue' = IF queue[p].in_use
                 THEN [queue EXCEPT ![p].cancelled = TRUE,
                                    ![p].arg = @ /\ ~free_arg]
                 ELSE RemoveAt(queue, p)
  BY DEF timer_rem
<1>2. queue[p] \in Timer /\ queue[p].arg \in BOOLEAN
  BY <1>0, QueueTypes
<1>3. CASE queue[p].in_use
  <2>1. PICK c \in Timer :
           c = [queue[p] EXCEPT !.cancelled = TRUE,
                                !.arg = queue[p].arg /\ ~free_arg]
    BY <1>2 DEF Timer
  <2>2. queue' = [queue EXCEPT ![p] = c]
    BY <1>1, <1>3, <2>1
  <2>3. /\ Len(queue') = Len(queue)
        /\ \A j \in 1 .. Len(queue) : queue'[j] = IF j = p THEN c ELSE queue[j]
    BY <1>0, <2>2, ExceptSeq
  <2>4. c.id = queue[p].id /\ c.timeout = queue[p].timeout /\ c.cancelled
    BY <1>2, <2>1 DEF Timer
  <2> QED BY <2>3, <2>4
<1>4. CASE ~queue[p].in_use
  <2>1. queue' = RemoveAt(queue, p)
    BY <1>1, <1>4
  <2> QED BY <1>0, <2>1, RemoveTimer
<1> QED BY <1>3, <1>4

\* The ticker takes the first timer out.
LEMMA TakeShape ==
    ASSUME IInv, Discard \/ Fire
    PROVE  /\ 1 \in 1 .. Len(queue)
           /\ Len(queue') = Len(queue) - 1
           /\ \A i \in 1 .. Len(queue') : queue'[i] = queue[i + 1]
<1>0. TypeOK /\ queue \in Seq(Timer) /\ Len(queue) \in Nat
  BY QueueTypes DEF IInv
<1>1. queue # <<>> /\ queue' = Tail(queue)
  BY DEF IInv, FirstStaysInQueue, Discard, Fire
<1> QED BY <1>0, <1>1, QueueTypes

\* The ticker marks the first timer as in use.
LEMMA ArmShape ==
    ASSUME IInv, Arm
    PROVE  /\ Len(queue') = Len(queue)
           /\ \A i \in 1 .. Len(queue) : Same(queue'[i], queue[i])
<1>0. /\ TypeOK /\ queue \in Seq(Timer) /\ Len(queue) \in Nat
      /\ 1 \in 1 .. Len(queue) /\ queue[1] \in Timer
  BY QueueTypes DEF IInv, Arm
<1>1. PICK f \in Timer : f = [queue[1] EXCEPT !.in_use = TRUE]
  BY <1>0 DEF Timer
<1>2. queue' = [queue EXCEPT ![1] = f]
  BY <1>1 DEF Arm
<1>3. /\ Len(queue') = Len(queue)
      /\ \A j \in 1 .. Len(queue) : queue'[j] = IF j = 1 THEN f ELSE queue[j]
  BY <1>0, <1>2, ExceptSeq
<1>4. Same(f, queue[1])
  BY <1>0, <1>1 DEF Timer, Same
<1> QED BY <1>3, <1>4 DEF Same

-----------------------------------------------------------------------------
(* Timers that are due together.                                           *)

\* What the queue's types say of its ids and times.
LEMMA QueueNumbers ==
    ASSUME IInv
    PROVE  /\ Len(queue) \in Nat /\ cur_id \in Nat
           /\ \A i \in 1 .. Len(queue) :
                 /\ queue[i].id \in Nat /\ queue[i].id < cur_id
                 /\ queue[i].timeout \in Nat
<1>1. TypeOK /\ Len(queue) \in Nat
  BY QueueTypes DEF IInv
<1>2. \A i \in 1 .. Len(queue) : queue[i].id \in Nat /\ queue[i].timeout \in Nat
  BY <1>1, QueueTypes DEF Ids
<1> QED BY <1>1, <1>2 DEF IInv, EntriesOK, TypeOK

\* They stay in the order of their requests.
LEMMA RequestOrderStep ==
    ASSUME IInv, RequestOrder, [Next]_vars
    PROVE  RequestOrder'
<1>0. /\ Len(queue) \in Nat /\ cur_id \in Nat
      /\ \A i \in 1 .. Len(queue) :
            /\ queue[i].id \in Nat /\ queue[i].id < cur_id
            /\ queue[i].timeout \in Nat
  BY QueueNumbers
<1>1. ASSUME NEW d \in Delays, timer_add(d) PROVE RequestOrder'
  <2>1. PICK p \in 1 .. Len(queue) + 1 :
              /\ IsPlace(p, now + d)
              /\ Len(queue') = Len(queue) + 1
              /\ queue'[p].id = cur_id /\ queue'[p].timeout = now + d
              /\ \A i \in 1 .. Len(queue') : i # p =>
                    /\ PlaceBefore(i, p) \in 1 .. Len(queue)
                    /\ Same(queue'[i], queue[PlaceBefore(i, p)])
    BY <1>1, AddShape
  <2>2. now + d \in Nat
    BY DelaysAssumption DEF IInv, TypeOK
  <2> SUFFICES ASSUME NEW i \in 1 .. Len(queue'), NEW j \in 1 .. Len(queue'),
                      i < j, queue'[i].timeout = queue'[j].timeout
               PROVE  queue'[i].id < queue'[j].id
    BY DEF RequestOrder
  <2>3. CASE i # p /\ j # p
    <3> DEFINE a == PlaceBefore(i, p)
               b == PlaceBefore(j, p)
    <3>1. a < b
      BY <1>0, <2>1, <2>3 DEF PlaceBefore
    <3>2. /\ a \in 1 .. Len(queue) /\ b \in 1 .. Len(queue)
          /\ Same(queue'[i], queue[a]) /\ Same(queue'[j], queue[b])
      BY <2>1, <2>3
    <3> HIDE DEF a, b
    <3> QED BY <3>1, <3>2 DEF Same, RequestOrder
  <2>4. CASE j = p
    <3>1. /\ PlaceBefore(i, p) \in 1 .. Len(queue)
          /\ Same(queue'[i], queue[PlaceBefore(i, p)])
      BY <2>1, <2>4
    <3> QED BY <1>0, <2>1, <2>4, <3>1 DEF Same
  <2>5. CASE i = p
    <3>1. /\ j - 1 \in 1 .. Len(queue) /\ p \in 1 .. Len(queue) /\ p <= j - 1
          /\ PlaceBefore(j, p) = j - 1
      BY <1>0, <2>1, <2>5 DEF PlaceBefore
    <3>2. queue'[j].timeout = queue[j - 1].timeout
      BY <2>1, <2>5, <3>1 DEF Same
    <3>3. now + d < queue[p].timeout
      BY <1>0, <2>1, <3>1 DEF IsPlace
    <3>4. queue[p].timeout <= queue[j - 1].timeout
      <4>1. CASE p = j - 1
        BY <1>0, <3>1, <4>1
      <4>2. CASE p < j - 1
        BY <3>1, <4>2 DEF IInv, QueueSorted
      <4> QED BY <1>0, <3>1, <4>1, <4>2
    <3>5. queue[p].timeout \in Nat /\ queue[j - 1].timeout \in Nat
      BY <1>0, <3>1
    <3> QED BY <2>1, <2>2, <2>5, <3>2, <3>3, <3>4, <3>5
  <2> QED BY <2>3, <2>4, <2>5
<1>2. ASSUME NEW id \in Ids, NEW free_arg \in BOOLEAN, timer_rem(id, free_arg)
      PROVE  RequestOrder'
  <2>1. PICK p \in 1 .. Len(queue) :
              \/ /\ Len(queue') = Len(queue)
                 /\ queue'[p].id = queue[p].id
                 /\ queue'[p].timeout = queue[p].timeout
                 /\ \A i \in 1 .. Len(queue) : i # p => queue'[i] = queue[i]
              \/ /\ Len(queue') = Len(queue) - 1
                 /\ \A i \in 1 .. Len(queue') :
                       queue'[i] = IF i < p THEN queue[i] ELSE queue[i + 1]
    BY <1>2, RemShape
  <2>2. CASE /\ Len(queue') = Len(queue)
             /\ \A i \in 1 .. Len(queue) :
                   /\ queue'[i].id = queue[i].id
                   /\ queue'[i].timeout = queue[i].timeout
    BY <2>2 DEF RequestOrder
  <2>3. CASE /\ Len(queue') = Len(queue) - 1
             /\ \A i \in 1 .. Len(queue') :
                   queue'[i] = IF i < p THEN queue[i] ELSE queue[i + 1]
    <3> DEFINE old(i) == IF i < p THEN i ELSE i + 1
    <3>1. \A i \in 1 .. Len(queue') :
             old(i) \in 1 .. Len(queue) /\ queue'[i] = queue[old(i)]
      BY <1>0, <2>3
    <3>2. \A i, j \in 1 .. Len(queue') : i < j => old(i) < old(j)
      BY <1>0, <2>3
    <3> HIDE DEF old
    <3> QED BY <3>1, <3>2 DEF RequestOrder
  <2> QED BY <2>1, <2>2, <2>3
<1>3. CASE Discard \/ Fire
  <2>1. /\ Len(queue') = Len(queue) - 1
        /\ \A i \in 1 .. Len(queue') : queue'[i] = queue[i + 1]
    BY <1>3, TakeShape
  <2>2. \A i \in 1 .. Len(queue') : i + 1 \in 1 .. Len(queue)
    BY <1>0, <2>1
  <2>3. \A i, j \in 1 .. Len(queue') : i < j => i + 1 < j + 1
    OBVIOUS
  <2> QED BY <2>1, <2>2, <2>3 DEF RequestOrder
<1>4. CASE Arm
  BY <1>4, ArmShape DEF RequestOrder, Same
<1>5. CASE Tick \/ Expire \/ SigWait \/ HandlerReturn \/ UNCHANGED vars
  <2>1. queue' = queue
    BY <1>5 DEF Tick, Expire, SigWait, HandlerReturn, vars, libVars
  <2> QED BY <2>1 DEF RequestOrder
<1> QED BY <1>1, <1>2, <1>3, <1>4, <1>5 DEF Next, Ticker

-----------------------------------------------------------------------------
(* Every step of the library is a step of the service, or none.            *)

\* timer_add is Request.
LEMMA AddIsRequest ==
    ASSUME IInv, NEW d \in Delays, timer_add(d)
    PROVE  Service!Next
<1> DEFINE t == [id |-> cur_id, due |-> now + d]
<1>0. Len(queue) \in Nat
  BY QueueNumbers
<1>1. /\ cur_id \in Ids /\ cur_id' = cur_id + 1 /\ now + d \in 0 .. MaxTime
      /\ UNCHANGED <<ticker, hdl>>
  <2>1. /\ cur_id \in 0 .. MaxTimers /\ cur_id < MaxTimers /\ now \in Nat
        /\ d \in Nat
    BY DelaysAssumption DEF IInv, TypeOK, timer_add
  <2>2. /\ now + d <= MaxTime /\ cur_id' = cur_id + 1
        /\ UNCHANGED <<ticker, hdl>>
    BY DEF timer_add
  <2> QED BY <2>1, <2>2, TimersAssumption, TimeAssumption DEF Ids
<1>2. PICK p \in 1 .. Len(queue) + 1 :
              /\ Len(queue') = Len(queue) + 1
              /\ queue'[p].id = cur_id /\ queue'[p].timeout = now + d
              /\ ~queue'[p].cancelled
              /\ \A i \in 1 .. Len(queue') : i # p =>
                    /\ PlaceBefore(i, p) \in 1 .. Len(queue)
                    /\ Same(queue'[i], queue[PlaceBefore(i, p)])
  BY AddShape
<1>3. AsPending(queue'[p]) = t /\ p \in 1 .. Len(queue')
  BY <1>2 DEF AsPending
<1>4. ASSUME NEW x \in Outstanding' PROVE x \in Outstanding \cup {t}
  <2>1. PICK i \in 1 .. Len(queue') :
           ~queue'[i].cancelled /\ x = AsPending(queue'[i])
    BY <1>4, OutstandingIsAfter
  <2>2. CASE i = p
    BY <1>3, <2>1, <2>2
  <2>3. CASE i # p
    <3>1. PICK k \in 1 .. Len(queue) : Same(queue'[i], queue[k])
      BY <1>2, <2>3
    <3>2. ~queue[k].cancelled /\ x = AsPending(queue[k])
      BY <2>1, <3>1 DEF Same, AsPending
    <3> QED BY <3>2, OutstandingIs
  <2> QED BY <2>2, <2>3
<1>5. ASSUME NEW x \in Outstanding PROVE x \in Outstanding'
  <2>1. PICK k \in 1 .. Len(queue) :
           ~queue[k].cancelled /\ x = AsPending(queue[k])
    BY <1>5, OutstandingIs
  <2>2. PICK i \in 1 .. Len(queue') : i # p /\ PlaceBefore(i, p) = k
    <3>1. CASE k < p
      BY <1>0, <1>2, <3>1 DEF PlaceBefore
    <3>2. CASE ~(k < p)
      <4>1. k + 1 \in 1 .. Len(queue') /\ k + 1 # p /\ PlaceBefore(k + 1, p) = k
        BY <1>0, <1>2, <3>2 DEF PlaceBefore
      <4> QED BY <4>1
    <3> QED BY <3>1, <3>2
  <2>3. ~queue'[i].cancelled /\ x = AsPending(queue'[i])
    BY <1>2, <2>1, <2>2 DEF Same, AsPending
  <2> QED BY <2>3, OutstandingIsAfter
<1>6. t \in Outstanding'
  BY <1>2, <1>3, OutstandingIsAfter
<1>7. Outstanding' = Outstanding \cup {t}
  BY <1>4, <1>5, <1>6
<1>8. Service!Request(now + d)
  BY <1>1, <1>7 DEF Service!Request
<1> QED BY <1>1, <1>8 DEF Service!Next

\* A timer that leaves the queue or is cancelled is no longer outstanding.
LEMMA OneLess ==
    ASSUME IInv, NEW p \in 1 .. Len(queue),
           \/ /\ Len(queue') = Len(queue)
              /\ queue'[p].cancelled
              /\ \A i \in 1 .. Len(queue) : i # p => queue'[i] = queue[i]
           \/ /\ Len(queue') = Len(queue) - 1
              /\ \A i \in 1 .. Len(queue') :
                    queue'[i] = IF i < p THEN queue[i] ELSE queue[i + 1]
    PROVE  Outstanding' = Outstanding \ {AsPending(queue[p])}
<1>0. Len(queue) \in Nat
  BY QueueNumbers
<1>1. ASSUME NEW i \in 1 .. Len(queue'), ~queue'[i].cancelled
      PROVE  \E k \in 1 .. Len(queue) : k # p /\ queue'[i] = queue[k]
  <2>1. CASE /\ Len(queue') = Len(queue)
             /\ queue'[p].cancelled
             /\ \A j \in 1 .. Len(queue) : j # p => queue'[j] = queue[j]
    BY <1>1, <2>1
  <2>2. CASE /\ Len(queue') = Len(queue) - 1
             /\ \A j \in 1 .. Len(queue') :
                   queue'[j] = IF j < p THEN queue[j] ELSE queue[j + 1]
    <3>1. CASE i < p
      BY <1>0, <2>2, <3>1
    <3>2. CASE ~(i < p)
      <4>1. i + 1 \in 1 .. Len(queue) /\ i + 1 # p /\ queue'[i] = queue[i + 1]
        BY <1>0, <2>2, <3>2
      <4> QED BY <4>1
    <3> QED BY <3>1, <3>2
  <2> QED BY <2>1, <2>2
<1>2. ASSUME NEW k \in 1 .. Len(queue), k # p
      PROVE  \E i \in 1 .. Len(queue') : queue'[i] = queue[k]
  <2>1. CASE /\ Len(queue') = Len(queue)
             /\ \A j \in 1 .. Len(queue) : j # p => queue'[j] = queue[j]
    BY <1>2, <2>1
  <2>2. CASE /\ Len(queue') = Len(queue) - 1
             /\ \A j \in 1 .. Len(queue') :
                   queue'[j] = IF j < p THEN queue[j] ELSE queue[j + 1]
    <3>1. CASE k < p
      BY <1>0, <2>2, <3>1
    <3>2. CASE ~(k < p)
      <4>1. /\ k - 1 \in 1 .. Len(queue') /\ ~(k - 1 < p) /\ (k - 1) + 1 = k
        BY <1>0, <1>2, <2>2, <3>2
      <4> QED BY <2>2, <4>1
    <3> QED BY <3>1, <3>2
  <2> QED BY <2>1, <2>2
<1>3. ASSUME NEW x \in Outstanding'
      PROVE  x \in Outstanding /\ x # AsPending(queue[p])
  <2>1. PICK i \in 1 .. Len(queue') :
           ~queue'[i].cancelled /\ x = AsPending(queue'[i])
    BY <1>3, OutstandingIsAfter
  <2>2. PICK k \in 1 .. Len(queue) : k # p /\ queue'[i] = queue[k]
    BY <1>1, <2>1
  <2>3. ~queue[k].cancelled /\ x = AsPending(queue[k])
    BY <2>1, <2>2
  <2>4. AsPending(queue[k]) # AsPending(queue[p])
    BY <2>2, PendingDistinct
  <2> QED BY <2>3, <2>4, OutstandingIs
<1>4. ASSUME NEW x \in Outstanding, x # AsPending(queue[p])
      PROVE  x \in Outstanding'
  <2>1. PICK k \in 1 .. Len(queue) :
           ~queue[k].cancelled /\ x = AsPending(queue[k])
    BY <1>4, OutstandingIs
  <2>2. PICK i \in 1 .. Len(queue') : queue'[i] = queue[k]
    BY <1>2, <1>4, <2>1
  <2> QED BY <2>1, <2>2, OutstandingIsAfter
<1> QED BY <1>3, <1>4

\* timer_rem is Cancel, or removes a timer that was cancelled before.
LEMMA RemIsCancel ==
    ASSUME IInv, NEW id \in Ids, NEW free_arg \in BOOLEAN,
           timer_rem(id, free_arg)
    PROVE  [Service!Next]_(Service!vars)
<1>1. PICK p \in 1 .. Len(queue) :
              \/ /\ Len(queue') = Len(queue)
                 /\ queue'[p].cancelled
                 /\ \A i \in 1 .. Len(queue) : i # p => queue'[i] = queue[i]
              \/ /\ Len(queue') = Len(queue) - 1
                 /\ \A i \in 1 .. Len(queue') :
                       queue'[i] = IF i < p THEN queue[i] ELSE queue[i + 1]
  BY RemShape
<1>2. Outstanding' = Outstanding \ {AsPending(queue[p])}
  BY <1>1, OneLess
<1>3. UNCHANGED <<cur_id, ticker, hdl>>
  BY DEF timer_rem
<1>4. CASE AsPending(queue[p]) \in Outstanding
  <2>1. Service!Cancel(AsPending(queue[p]))
    BY <1>2, <1>3, <1>4 DEF Service!Cancel
  <2> QED BY <1>4, <2>1 DEF Service!Next
<1>5. CASE AsPending(queue[p]) \notin Outstanding
  <2>1. Outstanding' = Outstanding
    BY <1>2, <1>5
  <2> QED BY <1>3, <2>1 DEF Service!vars
<1> QED BY <1>4, <1>5

\* Fire is Start: the first timer is the one that is due first, and of those
\* the one that was requested first.
LEMMA FireIsStart ==
    ASSUME IInv, RequestOrder, Fire
    PROVE  Service!Next
<1> DEFINE t == AsPending(queue[1])
<1>0. /\ Len(queue) \in Nat
      /\ \A i \in 1 .. Len(queue) :
            queue[i].id \in Nat /\ queue[i].timeout \in Nat
  BY QueueNumbers
<1>1. /\ 1 \in 1 .. Len(queue)
      /\ Len(queue') = Len(queue) - 1
      /\ \A i \in 1 .. Len(queue') : queue'[i] = queue[i + 1]
  BY TakeShape
<1>2. \A i \in 1 .. Len(queue') :
         queue'[i] = IF i < 1 THEN queue[i] ELSE queue[i + 1]
  BY <1>1
<1>3. Outstanding' = Outstanding \ {t}
  BY <1>1, <1>2, OneLess
<1>4. /\ ticker = "woken" /\ ticker' = "handler" /\ ~queue[1].cancelled
      /\ hdl'.id = queue[1].id /\ UNCHANGED cur_id
  BY DEF Fire
<1>5. t \in Outstanding
  BY <1>1, <1>4, OutstandingIs
<1>6. ASSUME NEW u \in Outstanding PROVE Service!Before(t, u)
  <2>1. PICK k \in 1 .. Len(queue) : u = AsPending(queue[k])
    BY <1>6, OutstandingIs
  <2>2. /\ t.id = queue[1].id /\ t.due = queue[1].timeout
        /\ u.id = queue[k].id /\ u.due = queue[k].timeout
    BY <2>1 DEF AsPending
  <2>3. CASE k = 1
    BY <1>0, <2>2, <2>3 DEF Service!Before
  <2>4. CASE k # 1
    <3>1. 1 < k
      BY <1>0, <2>4
    <3>2. queue[1].timeout <= queue[k].timeout
      BY <1>1, <3>1 DEF IInv, QueueSorted
    <3>3. queue[1].timeout = queue[k].timeout => queue[1].id < queue[k].id
      BY <1>1, <3>1 DEF RequestOrder
    <3>4. /\ queue[1].timeout \in Nat /\ queue[k].timeout \in Nat
          /\ queue[1].id \in Nat /\ queue[k].id \in Nat
      BY <1>0, <1>1
    <3> QED BY <2>2, <3>2, <3>3, <3>4 DEF Service!Before
  <2> QED BY <2>3, <2>4
<1>7. t.id = queue[1].id
  BY DEF AsPending
<1> HIDE DEF t
<1>8. Service!Start(t)
  BY <1>3, <1>4, <1>5, <1>6, <1>7 DEF Service!Start
<1> QED BY <1>5, <1>8 DEF Service!Next

\* The steps the service does not see.
LEMMA HiddenSteps ==
    ASSUME IInv, Discard \/ Arm \/ Tick \/ Expire \/ SigWait \/ UNCHANGED vars
    PROVE  UNCHANGED Service!vars
<1>1. /\ UNCHANGED cur_id
      /\ \/ UNCHANGED <<ticker, hdl>>
         \/ ticker # "handler" /\ ticker' # "handler"
  BY DEF Discard, Arm, Tick, Expire, SigWait, vars, libVars
<1>2. Outstanding' = Outstanding
  <2>1. CASE Discard
    <3>1. /\ 1 \in 1 .. Len(queue)
          /\ Len(queue') = Len(queue) - 1
          /\ \A i \in 1 .. Len(queue') : queue'[i] = queue[i + 1]
      BY <2>1, TakeShape
    <3>2. \A i \in 1 .. Len(queue') :
             queue'[i] = IF i < 1 THEN queue[i] ELSE queue[i + 1]
      BY <3>1
    <3>3. Outstanding' = Outstanding \ {AsPending(queue[1])}
      BY <3>1, <3>2, OneLess
    <3>4. queue[1].cancelled
      BY <2>1 DEF Discard
    <3>5. AsPending(queue[1]) \notin Outstanding
      BY <3>1, <3>4, PendingDistinct, OutstandingIs
    <3> QED BY <3>3, <3>5
  <2>2. CASE Arm
    <3>1. /\ Len(queue') = Len(queue)
          /\ \A i \in 1 .. Len(queue) : Same(queue'[i], queue[i])
      BY <2>2, ArmShape
    <3>2. \A i \in 1 .. Len(queue) :
             /\ queue'[i].cancelled = queue[i].cancelled
             /\ AsPending(queue'[i]) = AsPending(queue[i])
      BY <3>1 DEF Same, AsPending
    <3>3. \A x : x \in Outstanding' <=> x \in Outstanding
      BY <3>1, <3>2, OutstandingIs, OutstandingIsAfter
    <3> QED BY <3>3
  <2>3. CASE Tick \/ Expire \/ SigWait \/ UNCHANGED vars
    <3>1. queue' = queue
      BY <2>3 DEF Tick, Expire, SigWait, vars, libVars
    <3> QED BY <3>1 DEF Outstanding
  <2> QED BY <2>1, <2>2, <2>3
<1> QED BY <1>1, <1>2 DEF Service!vars

\* HandlerReturn is Return.
LEMMA HandlerReturnIsReturn ==
    ASSUME HandlerReturn
    PROVE  Service!Next
<1>1. /\ ticker = "handler" /\ ticker' = "empty" /\ UNCHANGED <<cur_id, queue>>
  BY DEF HandlerReturn, libVars
<1>2. Outstanding' = Outstanding
  BY <1>1 DEF Outstanding
<1>3. Service!Return
  BY <1>1, <1>2 DEF Service!Return
<1> QED BY <1>3 DEF Service!Next

\* Timers that are due together are always in the order of their requests.
THEOREM RequestsOrdered == Spec => []RequestOrder
<1>1. Init => RequestOrder
  BY DEF Init, RequestOrder
<1>2. IInv /\ RequestOrder /\ [Next]_vars => RequestOrder'
  BY RequestOrderStep
<1> QED BY <1>1, <1>2, Invariance, PTL DEF Spec

\* The list, the interval timer, the signal and the ticker do nothing that the
\* timer service does not allow: handlers start one at a time, in the order in
\* which the timers are due and were requested, once, and not after timer_rem.
THEOREM ServiceImplemented == Spec => ImplementsService
<1>1. Init => Service!Init
  <2> SUFFICES ASSUME Init PROVE Service!Init
    OBVIOUS
  <2>1. Outstanding = {}
    BY DEF Init, Outstanding
  <2> QED BY <2>1 DEF Init, Service!Init
<1>2. IInv /\ RequestOrder /\ [Next]_vars => [Service!Next]_(Service!vars)
  <2> SUFFICES ASSUME IInv, RequestOrder, [Next]_vars
               PROVE  [Service!Next]_(Service!vars)
    OBVIOUS
  <2>1. CASE \E d \in Delays : timer_add(d)
    BY <2>1, AddIsRequest
  <2>2. CASE \E id \in Ids, free_arg \in BOOLEAN : timer_rem(id, free_arg)
    BY <2>2, RemIsCancel
  <2>3. CASE Fire
    BY <2>3, FireIsStart
  <2>4. CASE HandlerReturn
    BY <2>4, HandlerReturnIsReturn
  <2>5. CASE Discard \/ Arm \/ Tick \/ Expire \/ SigWait \/ UNCHANGED vars
    BY <2>5, HiddenSteps
  <2> QED BY <2>1, <2>2, <2>3, <2>4, <2>5 DEF Next, Ticker
<1> QED
  BY <1>1, <1>2, Invariance, RequestsOrdered, PTL DEF Spec, ImplementsService, Service!Spec

=============================================================================
