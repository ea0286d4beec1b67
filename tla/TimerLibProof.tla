---------------------------- MODULE TimerLibProof ----------------------------
(* The safety properties of TimerLib for every number of timers, every     *)
(* horizon and every set of timeouts.                                      *)
EXTENDS TimerLib, SequenceTheorems, TLAPS

\* What insertion into the timer queue returns, element by element.
LEMMA InsertTimer ==
    \A q \in Seq(Timer), e \in Timer : \A p \in 1 .. Len(q) + 1 :
        /\ InsertAt(q, p, e) \in Seq(Timer)
        /\ Len(InsertAt(q, p, e)) = Len(q) + 1
        /\ \A i \in 1 .. Len(q) + 1 :
              InsertAt(q, p, e)[i] = IF i < p THEN q[i]
                                     ELSE IF i = p THEN e ELSE q[i - 1]
<1> TAKE q \in Seq(Timer), e \in Timer
<1> TAKE p \in 1 .. Len(q) + 1
<1> DEFINE l == SubSeq(q, 1, p - 1)
           r == SubSeq(q, p, Len(q))
           m == l \o <<e>>
<1>1. /\ Len(q) \in Nat
      /\ \A i \in 1 .. Len(q) : q[i] \in Timer
  BY ElementOfSeq, LenProperties
<1>2. /\ l \in Seq(Timer)
      /\ Len(l) = p - 1
      /\ \A i \in 1 .. p - 1 : l[i] = q[i]
  <2>1. \A i \in 1 .. p - 1 : q[i] \in Timer
    BY <1>1
  <2> QED BY <1>1, <2>1, SubSeqProperties
<1>3. /\ r \in Seq(Timer)
      /\ Len(r) = Len(q) - p + 1
      /\ \A i \in 1 .. Len(q) - p + 1 : r[i] = q[p + i - 1]
  <2>1. \A i \in p .. Len(q) : q[i] \in Timer
    BY <1>1
  <2> QED BY <1>1, <2>1, SubSeqProperties
<1>4. /\ <<e>> \in Seq(Timer)
      /\ Len(<<e>>) = 1
      /\ <<e>>[1] = e
  OBVIOUS
<1>5. /\ m \in Seq(Timer)
      /\ Len(m) = p
      /\ \A i \in 1 .. p : m[i] = IF i < p THEN q[i] ELSE e
  <2> HIDE DEF l
  <2>1. /\ m \in Seq(Timer)
        /\ Len(m) = p - 1 + 1
        /\ \A i \in 1 .. p - 1 + 1 :
              m[i] = IF i <= p - 1 THEN l[i] ELSE <<e>>[i - (p - 1)]
    BY <1>2, <1>4, ConcatProperties
  <2> QED BY <1>1, <1>2, <1>4, <2>1
<1> HIDE DEF m, r
<1>6. /\ m \o r \in Seq(Timer)
      /\ Len(m \o r) = p + (Len(q) - p + 1)
      /\ \A i \in 1 .. p + (Len(q) - p + 1) :
            (m \o r)[i] = IF i <= p THEN m[i] ELSE r[i - p]
  BY <1>3, <1>5, ConcatProperties
<1>7. InsertAt(q, p, e) = m \o r
  BY DEF InsertAt, m, r, l
<1> QED BY <1>1, <1>3, <1>5, <1>6, <1>7

\* What removal from the timer queue returns, element by element.
LEMMA RemoveTimer ==
    \A q \in Seq(Timer) : \A p \in 1 .. Len(q) :
        /\ RemoveAt(q, p) \in Seq(Timer)
        /\ Len(RemoveAt(q, p)) = Len(q) - 1
        /\ \A i \in 1 .. Len(q) - 1 :
              RemoveAt(q, p)[i] = IF i < p THEN q[i] ELSE q[i + 1]
<1> TAKE q \in Seq(Timer)
<1> TAKE p \in 1 .. Len(q)
<1> DEFINE l == SubSeq(q, 1, p - 1)
           r == SubSeq(q, p + 1, Len(q))
<1>1. /\ Len(q) \in Nat
      /\ \A i \in 1 .. Len(q) : q[i] \in Timer
  BY ElementOfSeq, LenProperties
<1>2. /\ l \in Seq(Timer)
      /\ Len(l) = p - 1
      /\ \A i \in 1 .. p - 1 : l[i] = q[i]
  <2>1. \A i \in 1 .. p - 1 : q[i] \in Timer
    BY <1>1
  <2> QED BY <1>1, <2>1, SubSeqProperties
<1>3. /\ r \in Seq(Timer)
      /\ Len(r) = Len(q) - p
      /\ \A i \in 1 .. Len(q) - p : r[i] = q[p + i]
  <2>1. \A i \in p + 1 .. Len(q) : q[i] \in Timer
    BY <1>1
  <2>2. /\ r \in Seq(Timer)
        /\ Len(r) = IF p + 1 <= Len(q) THEN Len(q) - (p + 1) + 1 ELSE 0
        /\ \A i \in 1 .. Len(q) - (p + 1) + 1 : r[i] = q[p + 1 + i - 1]
    BY <1>1, <2>1, SubSeqProperties
  <2> QED BY <1>1, <2>2
<1> HIDE DEF l, r
<1>4. /\ l \o r \in Seq(Timer)
      /\ Len(l \o r) = Len(l) + Len(r)
      /\ \A i \in 1 .. Len(l) + Len(r) :
            (l \o r)[i] = IF i <= Len(l) THEN l[i] ELSE r[i - Len(l)]
  <2>1. l \in Seq(Timer) /\ r \in Seq(Timer)
    BY <1>2, <1>3
  <2> QED BY <2>1, ConcatProperties
<1>5. RemoveAt(q, p) = l \o r
  BY DEF RemoveAt, l, r
<1>6. /\ Len(l \o r) = Len(q) - 1
      /\ \A i \in 1 .. Len(q) - 1 :
            (l \o r)[i] = IF i < p THEN q[i] ELSE q[i + 1]
  <2>1. Len(l \o r) = Len(q) - 1
    BY <1>1, <1>2, <1>3, <1>4
  <2>2. ASSUME NEW i \in 1 .. Len(q) - 1
        PROVE  (l \o r)[i] = IF i < p THEN q[i] ELSE q[i + 1]
    <3>1. CASE i < p
      BY <1>1, <1>2, <1>3, <1>4, <3>1
    <3>2. CASE ~(i < p)
      <4>1. (l \o r)[i] = r[i - (p - 1)]
        BY <1>1, <1>2, <1>3, <1>4, <3>2
      <4>2. i - (p - 1) \in 1 .. Len(q) - p
        BY <1>1, <3>2
      <4>3. r[i - (p - 1)] = q[p + (i - (p - 1))]
        BY <1>3, <4>2
      <4>4. p + (i - (p - 1)) = i + 1
        BY <1>1
      <4> QED BY <3>2, <4>1, <4>3, <4>4
    <3> QED BY <3>1, <3>2
  <2> QED BY <2>1, <2>2
<1> QED BY <1>4, <1>5, <1>6

\* The initial state satisfies the inductive invariant.
LEMMA InitIInv == Init => IInv
<1> SUFFICES ASSUME Init PROVE IInv
  OBVIOUS
<1> USE TimersAssumption DEF Init
<1>1. TypeOK
  <2>1. queue \in Seq(Timer)
    OBVIOUS
  <2>2. started \in [Ids -> Nat] /\ freed \in [Ids -> Nat]
    OBVIOUS
  <2>3. removed \subseteq Ids
    OBVIOUS
  <2>4. hdl \in Handler \cup {NoHandler}
    OBVIOUS
  <2>5. now \in Nat /\ cur_id \in 0 .. MaxTimers
    OBVIOUS
  <2>6. itimer \in Nat \cup {Disarmed} /\ sigalrm \in BOOLEAN
    OBVIOUS
  <2>7. ticker \in {"empty", "sigwait", "woken", "handler"}
    OBVIOUS
  <2> HIDE DEF Init
  <2> QED BY <2>1, <2>2, <2>3, <2>4, <2>5, <2>6, <2>7 DEF TypeOK
<1>2. EntriesOK /\ IdsDistinct /\ OnlyFirstInUse /\ QueueSorted
  BY DEF EntriesOK, IdsDistinct, OnlyFirstInUse, QueueSorted
<1>3. FreshIds /\ StartedAtMostOnce /\ \A i \in Ids : freed[i] <= 1
  BY DEF FreshIds, StartedAtMostOnce
<1>4. RunningOK /\ FirstStaysInQueue /\ WakeupArmed
  BY DEF RunningOK, FirstStaysInQueue, WakeupArmed
<1> QED BY <1>1, <1>2, <1>3, <1>4 DEF IInv

\* What the type invariant says of the timers in the queue.
LEMMA QueueTypes ==
    ASSUME TypeOK
    PROVE  /\ queue \in Seq(Timer)
           /\ Len(queue) \in Nat
           /\ \A i \in 1 .. Len(queue) :
                 /\ queue[i] \in Timer
                 /\ queue[i].id \in Ids
                 /\ queue[i].timeout \in Nat
                 /\ queue[i].in_use \in BOOLEAN
                 /\ queue[i].cancelled \in BOOLEAN
                 /\ queue[i].arg \in BOOLEAN
           /\ queue # <<>> => 1 \in 1 .. Len(queue)
<1>1. queue \in Seq(Timer)
  BY DEF TypeOK
<1>2. Len(queue) \in Nat /\ \A i \in 1 .. Len(queue) : queue[i] \in Timer
  BY <1>1, ElementOfSeq, LenProperties
<1>3. queue # <<>> => Len(queue) \in Nat \ {0}
  BY <1>1, EmptySeq
<1> QED BY <1>1, <1>2, <1>3 DEF Timer

\* The steps that leave the queue alone.
LEMMA QuietSteps ==
    ASSUME IInv, Tick \/ Expire \/ SigWait \/ HandlerReturn \/ UNCHANGED vars
    PROVE  IInv'
<1>0. TypeOK
  BY DEF IInv
<1>1. queue' = queue /\ cur_id' = cur_id /\ removed' = removed /\ started' = started
  BY DEF Tick, Expire, SigWait, HandlerReturn, vars, libVars, history
<1>2. (IdsDistinct /\ OnlyFirstInUse /\ QueueSorted /\ StartedAtMostOnce)'
  BY <1>1 DEF IInv, IdsDistinct, OnlyFirstInUse, QueueSorted, StartedAtMostOnce
<1>3. CASE HandlerReturn
  <2>1. /\ hdl \in Handler /\ hdl.id \in Ids /\ hdl.id < cur_id
        /\ started[hdl.id] = 1
        /\ freed' = [freed EXCEPT ![hdl.id] = 1]
    <3>1. hdl \in Handler /\ hdl.id < cur_id /\ hdl.arg /\ freed[hdl.id] = 0 /\ started[hdl.id] = 1
      BY <1>3 DEF IInv, RunningOK, HandlerReturn
    <3>2. freed' = [freed EXCEPT ![hdl.id] = freed[hdl.id] + 1]
      BY <1>3, <3>1 DEF HandlerReturn
    <3> QED BY <3>1, <3>2 DEF Handler
  <2>2. TypeOK'
    BY <1>0, <1>3, <2>1 DEF TypeOK, HandlerReturn, libVars
  <2>3. \A i \in 1 .. Len(queue) : queue[i].id # hdl.id
    BY <2>1 DEF IInv, EntriesOK
  <2>4. EntriesOK'
    BY <1>0, <1>1, <2>1, <2>3, QueueTypes DEF IInv, EntriesOK, TypeOK
  <2>5. FreshIds' /\ \A i \in Ids : freed'[i] <= 1
    <3>1. freed \in [Ids -> Nat] /\ cur_id \in Nat /\ \A i \in Ids : freed[i] <= 1
      BY <1>0 DEF IInv, TypeOK
    <3>2. \A i \in Ids : freed'[i] <= 1
      BY <2>1, <3>1
    <3>3. ASSUME NEW i \in Ids, cur_id <= i
          PROVE  started[i] = 0 /\ freed'[i] = 0 /\ i \notin removed
      <4>1. i # hdl.id
        BY <2>1, <3>1, <3>3 DEF Ids
      <4>2. started[i] = 0 /\ freed[i] = 0 /\ i \notin removed
        BY <3>3 DEF IInv, FreshIds
      <4> QED BY <2>1, <3>1, <4>1, <4>2
    <3> QED BY <1>1, <3>2, <3>3 DEF FreshIds
  <2>6. (RunningOK /\ FirstStaysInQueue /\ WakeupArmed)'
    BY <1>3 DEF HandlerReturn, RunningOK, FirstStaysInQueue, WakeupArmed
  <2> QED BY <1>2, <2>2, <2>4, <2>5, <2>6 DEF IInv
<1>4. CASE ~HandlerReturn
  <2>1. freed' = freed /\ hdl' = hdl
    BY <1>4 DEF Tick, Expire, SigWait, vars, libVars, history
  <2>2. (EntriesOK /\ FreshIds)' /\ \A i \in Ids : freed'[i] <= 1
    BY <1>1, <2>1 DEF IInv, EntriesOK, FreshIds
  <2>3. TypeOK'
    <3>1. now' \in Nat
      BY <1>0, <1>4 DEF TypeOK, Tick, Expire, SigWait, vars
    <3>2. itimer' \in Nat \cup {Disarmed}
      BY <1>0, <1>4 DEF TypeOK, Tick, Expire, SigWait, vars, libVars
    <3>3. sigalrm' \in BOOLEAN
      BY <1>0, <1>4 DEF TypeOK, Tick, Expire, SigWait, vars
    <3>4. ticker' \in {"empty", "sigwait", "woken", "handler"}
      BY <1>0, <1>4 DEF TypeOK, Tick, Expire, SigWait, vars
    <3> QED BY <1>0, <1>1, <2>1, <3>1, <3>2, <3>3, <3>4 DEF TypeOK
  <2>4. ticker' \in {"sigwait", "woken"} => ticker \in {"sigwait", "woken"}
    BY <1>4 DEF Tick, Expire, SigWait, vars
  <2>5. FirstStaysInQueue'
    BY <1>1, <2>4 DEF IInv, FirstStaysInQueue
  <2>6. RunningOK'
    BY <1>1, <1>4, <2>1 DEF IInv, RunningOK, Tick, Expire, SigWait, vars
  <2>7. WakeupArmed'
    <3>1. SUFFICES ASSUME ticker' = "sigwait", ~sigalrm'
                   PROVE  \/ /\ itimer' # Disarmed
                             /\ itimer' <= Max2(queue[1].timeout, now' + AlmostNow)
                          \/ WakeupLost'
      BY <1>1 DEF WakeupArmed
    <3>2. ticker = "sigwait" /\ itimer' = itimer /\ ~sigalrm /\ (now' = now \/ now' = now + 1)
      BY <1>4, <3>1 DEF Tick, Expire, SigWait, vars, libVars
    <3>3. PICK t \in Nat : t = queue[1].timeout
      BY <1>0, <3>2, QueueTypes DEF IInv, FirstStaysInQueue
    <3>4. now \in Nat /\ itimer \in Nat \cup {Disarmed}
      BY <1>0 DEF TypeOK
    <3>5. CASE itimer # Disarmed /\ itimer <= Max2(t, now + AlmostNow)
      <4>1. itimer' <= Max2(t, now' + AlmostNow)
        BY <3>2, <3>4, <3>5, AlmostNowAssumption DEF Max2, Disarmed
      <4> QED BY <3>2, <3>3, <3>5, <4>1
    <3>6. CASE WakeupLost
      <4>1. t <= now' + 1
        BY <3>2, <3>3, <3>4, <3>6 DEF WakeupLost
      <4> QED BY <1>1, <3>1, <3>2, <3>3, <3>6, <4>1 DEF WakeupLost
    <3> QED BY <3>2, <3>3, <3>5, <3>6 DEF IInv, WakeupArmed
  <2> QED BY <1>2, <2>2, <2>3, <2>5, <2>6, <2>7 DEF IInv
<1> QED BY <1>3, <1>4

\* Putting a new timer at its place, with the in_use flags of the others
\* changed or not, keeps what holds of the timers in the queue.
LEMMA InsertStep ==
    ASSUME IInv, cur_id < MaxTimers,
           NEW t \in Nat, NEW u \in BOOLEAN, NEW p \in 1 .. Len(queue) + 1,
           NEW q \in Seq(Timer), Len(q) = Len(queue),
           \A i \in 1 .. Len(q) :
               /\ q[i].id = queue[i].id
               /\ q[i].timeout = queue[i].timeout
               /\ q[i].cancelled = queue[i].cancelled
               /\ q[i].arg = queue[i].arg,
           IsPlace(p, t),
           queue' = InsertAt(q, p, NewTimer(t, u)),
           cur_id' = cur_id + 1,
           UNCHANGED history
    PROVE  /\ queue' \in Seq(Timer)
           /\ Len(queue') = Len(queue) + 1
           /\ \A i \in 1 .. Len(queue) + 1 :
                 queue'[i] = IF i < p THEN q[i]
                             ELSE IF i = p THEN NewTimer(t, u) ELSE q[i - 1]
           /\ (EntriesOK /\ IdsDistinct /\ FreshIds /\ QueueSorted)'
<1> USE TimersAssumption
<1>0. /\ TypeOK /\ Len(queue) \in Nat /\ cur_id \in Ids /\ cur_id \in Nat
      /\ cur_id' \in Nat /\ cur_id' = cur_id + 1
  <2>1. TypeOK
    BY DEF IInv
  <2>2. Len(queue) \in Nat
    BY <2>1, QueueTypes
  <2>3. cur_id \in 0 .. MaxTimers
    BY <2>1 DEF TypeOK
  <2> QED BY <2>1, <2>2, <2>3 DEF Ids
<1>1. PICK n \in Timer : n = NewTimer(t, u)
  BY <1>0 DEF NewTimer, Timer
<1>2. /\ n.id = cur_id /\ n.timeout = t /\ n.cancelled = FALSE /\ n.arg = TRUE
  BY <1>1 DEF NewTimer
<1>3. /\ queue' \in Seq(Timer)
      /\ Len(queue') = Len(queue) + 1
      /\ \A i \in 1 .. Len(queue) + 1 :
            queue'[i] = IF i < p THEN q[i] ELSE IF i = p THEN n ELSE q[i - 1]
  <2>1. queue' = InsertAt(q, p, n) /\ p \in 1 .. Len(q) + 1
    BY <1>1
  <2>2. /\ InsertAt(q, p, n) \in Seq(Timer)
        /\ Len(InsertAt(q, p, n)) = Len(q) + 1
        /\ \A i \in 1 .. Len(q) + 1 :
              InsertAt(q, p, n)[i] = IF i < p THEN q[i]
                                     ELSE IF i = p THEN n ELSE q[i - 1]
    BY <2>1, InsertTimer
  <2> QED BY <2>1, <2>2
\* Every old place keeps its timer and every new place but p has an old one.
<1> DEFINE old(i) == IF i < p THEN i ELSE i - 1
<1>4. \A i \in 1 .. Len(queue') : i # p =>
         /\ old(i) \in 1 .. Len(queue)
         /\ queue'[i] = q[old(i)]
  BY <1>0, <1>3
<1>5. removed' = removed /\ started' = started /\ freed' = freed
  BY DEF history
<1>6. started[cur_id] = 0 /\ freed[cur_id] = 0 /\ cur_id \notin removed
  BY <1>0 DEF IInv, FreshIds
<1>7. EntriesOK'
  <2> SUFFICES ASSUME NEW i \in 1 .. Len(queue')
               PROVE  LET e == queue'[i] IN
                      /\ e.id < cur_id'
                      /\ started[e.id] = 0
                      /\ e.id \in removed => e.cancelled
                      /\ e.arg => freed[e.id] = 0
                      /\ e.cancelled \/ e.arg
    BY <1>5 DEF EntriesOK
  <2>1. CASE i = p
    <3>1. queue'[i] = n
      BY <1>0, <1>3, <2>1
    <3> QED BY <1>0, <1>2, <1>6, <3>1
  <2>2. CASE i # p
    <3> DEFINE k == old(i)
    <3>1. k \in 1 .. Len(queue) /\ queue'[i] = q[k]
      BY <1>4, <2>2
    <3> HIDE DEF k
    <3>2. LET e == queue[k] IN
                      /\ e.id < cur_id /\ e.id \in Nat
                      /\ started[e.id] = 0
                      /\ e.id \in removed => e.cancelled
                      /\ e.arg => freed[e.id] = 0
                      /\ e.cancelled \/ e.arg
      BY <1>0, <3>1, QueueTypes DEF IInv, EntriesOK, Ids
    <3> QED BY <1>0, <3>1, <3>2
  <2> QED BY <2>1, <2>2
<1>8. \A k \in 1 .. Len(queue) : q[k].id \in Nat /\ q[k].id < cur_id
  BY <1>0, QueueTypes DEF IInv, EntriesOK, Ids
<1>9. IdsDistinct'
  <2> SUFFICES ASSUME NEW i \in 1 .. Len(queue'), NEW j \in 1 .. Len(queue'),
                      queue'[i].id = queue'[j].id
               PROVE  i = j
    BY DEF IdsDistinct
  <2>0. \A k \in 1 .. Len(queue') : k # p <=> queue'[k].id # cur_id
    <3>1. \A k \in 1 .. Len(queue') : k # p => queue'[k].id < cur_id /\ queue'[k].id \in Nat
      BY <1>4, <1>8
    <3>2. queue'[p] = n
      BY <1>0, <1>3
    <3> QED BY <1>0, <1>2, <3>1, <3>2
  <2>1. CASE i = p
    <3>1. queue'[j].id = cur_id
      BY <2>0, <2>1
    <3> QED BY <2>0, <2>1, <3>1
  <2>3. CASE j = p
    <3>1. queue'[i].id = cur_id
      BY <2>0, <2>3
    <3> QED BY <2>0, <2>3, <3>1
  <2>2. CASE i # p /\ j # p
    <3>1. queue[old(i)].id = queue[old(j)].id
      BY <1>4, <2>2
    <3>2. old(i) = old(j)
      BY <1>4, <2>2, <3>1 DEF IInv, IdsDistinct
    <3> QED BY <1>0, <1>3, <2>2, <3>2
  <2> QED BY <2>1, <2>2, <2>3
<1>10. FreshIds'
  BY <1>0, <1>5 DEF IInv, FreshIds, Ids
<1>11. QueueSorted'
  <2> SUFFICES ASSUME NEW i \in 1 .. Len(queue'), NEW j \in 1 .. Len(queue'),
                      i < j
               PROVE  queue'[i].timeout <= queue'[j].timeout
    BY DEF QueueSorted
  <2>0. /\ \A k \in 1 .. Len(queue) : queue[k].timeout \in Nat
        /\ \A k, m \in 1 .. Len(queue) : k < m => queue[k].timeout <= queue[m].timeout
    BY <1>0, QueueTypes DEF IInv, QueueSorted
  <2>1. CASE i # p /\ j # p
    <3>1. old(i) < old(j)
      BY <1>0, <1>3, <2>1
    <3>2. queue'[i].timeout = queue[old(i)].timeout /\ queue'[j].timeout = queue[old(j)].timeout
      BY <1>4, <2>1
    <3>3. old(i) \in 1 .. Len(queue) /\ old(j) \in 1 .. Len(queue)
      BY <1>4, <2>1
    <3> QED BY <2>0, <3>1, <3>2, <3>3
  <2>2. CASE j = p
    <3>1. i \in 1 .. p - 1 /\ i # p /\ i \in 1 .. Len(queue)
      BY <1>0, <1>3, <2>2
    <3>2. queue'[i].timeout = queue[i].timeout /\ queue'[j].timeout = t
      BY <1>0, <1>2, <1>3, <2>2, <3>1
    <3> QED BY <3>1, <3>2 DEF IsPlace
  <2>3. CASE i = p
    <3>1. p \in 1 .. Len(queue) /\ j - 1 \in 1 .. Len(queue) /\ p <= j - 1
      BY <1>0, <1>3, <2>3
    <3>2. queue'[i].timeout = t /\ queue'[j].timeout = queue[j - 1].timeout
      BY <1>0, <1>2, <1>3, <2>3, <3>1
    <3>3. t < queue[p].timeout
      BY <1>0, <3>1 DEF IsPlace
    <3>4. queue[p].timeout <= queue[j - 1].timeout
      <4>1. CASE p = j - 1
        BY <2>0, <3>1, <4>1
      <4>2. CASE p # j - 1
        <5>1. p < j - 1
          BY <1>0, <3>1, <4>2
        <5> QED BY <2>0, <3>1, <5>1
      <4> QED BY <4>1, <4>2
    <3>5. queue[p].timeout \in Nat /\ queue[j - 1].timeout \in Nat
      BY <2>0, <3>1
    <3>6. t <= queue[j - 1].timeout
      BY <3>3, <3>4, <3>5
    <3> QED BY <3>2, <3>6
  <2> QED BY <2>1, <2>2, <2>3
<1> QED BY <1>1, <1>3, <1>7, <1>9, <1>10, <1>11

\* The only number whose remainder is less than its predecessor's is a
\* multiple.
LEMMA Wraps ==
    ASSUME NEW S \in Nat \ {0}, NEW n \in Nat, (n + 1) % S < n % S
    PROVE  (n + 1) % S = 0
<1>1. n = S * (n \div S) + (n % S) /\ n % S \in 0 .. S - 1 /\ n \div S \in Nat
  OBVIOUS
<1>2. /\ n + 1 = S * ((n + 1) \div S) + ((n + 1) % S)
      /\ (n + 1) % S \in 0 .. S - 1 /\ (n + 1) \div S \in Nat
  OBVIOUS
<1>3. PICK q1 \in Nat, r1 \in 0 .. S - 1 : q1 = n \div S /\ r1 = n % S
  BY <1>1
<1>4. PICK q2 \in Nat, r2 \in 0 .. S - 1 : q2 = (n + 1) \div S /\ r2 = (n + 1) % S
  BY <1>2
<1>5. r2 < r1 /\ S * (q2 - q1) = r1 + 1 - r2
  BY <1>1, <1>2, <1>3, <1>4
<1>6. q2 - q1 >= 1
  BY <1>5
<1>7. S * (q2 - q1) >= S
  BY <1>6
<1> QED BY <1>4, <1>5, <1>7

\* timer_start arms the interval timer for the timeout, or almost now, except
\* one tick before a timeout that falls on a full second.
LEMMA TimerStart ==
    ASSUME now \in Nat, NEW t \in Nat, timer_start(t)
    PROVE  /\ itimer' \in Nat \cup {Disarmed}
           /\ \/ itimer' # Disarmed /\ itimer' <= Max2(t, now + AlmostNow)
              \/ itimer' = Disarmed /\ t % Second = 0 /\ t <= now + 1
<1> USE SecondAssumption, AlmostNowAssumption
<1>1. CASE ~(now < t)
  BY <1>1 DEF timer_start, setitimer, Max2, Disarmed
<1>2. CASE now < t /\ t % Second >= now % Second
  BY <1>2 DEF timer_start, setitimer, TV_MINUS, Max2, Disarmed
<1>3. CASE now < t /\ ~(t % Second >= now % Second)
  <2>0. t % Second \in Nat /\ now % Second \in Nat
    OBVIOUS
  <2>1. itimer' = IF t - now - 1 = 0 THEN Disarmed ELSE t - 1
    BY <1>3 DEF timer_start, setitimer, TV_MINUS
  <2>2. CASE t = now + 1
    <3>1. t % Second = 0
      <4>1. (now + 1) % Second < now % Second
        BY <1>3, <2>0, <2>2
      <4>2. (now + 1) % Second = 0
        BY <4>1, Wraps
      <4> QED BY <2>2, <4>2
    <3> QED BY <2>1, <2>2, <3>1
  <2>3. CASE t # now + 1
    BY <1>3, <2>1, <2>3 DEF Max2, Disarmed
  <2> QED BY <2>2, <2>3
<1> QED BY <1>1, <1>2, <1>3

\* timer_add keeps the invariant.
LEMMA AddSteps ==
    ASSUME IInv, NEW d \in Delays, timer_add(d)
    PROVE  IInv'
<1> USE TimersAssumption, DelaysAssumption
<1>0. TypeOK /\ now \in Nat /\ now + d \in Nat /\ now + 1 <= now + d
  BY DEF IInv, TypeOK
<1>1. /\ cur_id < MaxTimers /\ cur_id' = cur_id + 1 /\ cur_id' \in 0 .. MaxTimers
      /\ UNCHANGED history /\ UNCHANGED <<now, sigalrm, ticker, hdl>>
      /\ removed' = removed /\ started' = started /\ freed' = freed
  BY <1>0 DEF timer_add, history, TypeOK
<1>2. PICK t \in Nat : t = now + d
  BY <1>0
<1>3. (StartedAtMostOnce /\ RunningOK)' /\ \A i \in Ids : freed'[i] <= 1
  <2>1. hdl \in Handler => hdl.id \in Nat
    BY DEF Handler, Ids
  <2> QED BY <1>0, <1>1, <2>1 DEF IInv, StartedAtMostOnce, RunningOK, TypeOK
<1>4. queue # <<>> => 1 \in 1 .. Len(queue) /\ queue[1] \in Timer
  BY <1>0, QueueTypes
<1>5. CASE AddFirst(t)
  <2>1. queue # <<>> /\ IsPlace(1, t) /\ timer_start(t)
    BY <1>5 DEF AddFirst
  <2>2. PICK f \in Timer : f = [queue[1] EXCEPT !.in_use = FALSE]
    BY <1>4, <2>1 DEF Timer
  <2>3. PICK q \in Seq(Timer) : q = [queue EXCEPT ![1] = f]
    BY <1>0, <1>4, <2>1, QueueTypes, ExceptSeq
  <2>4. /\ Len(q) = Len(queue)
        /\ \A j \in 1 .. Len(queue) : q[j] = IF j = 1 THEN f ELSE queue[j]
    BY <1>0, <1>4, <2>1, <2>3, QueueTypes, ExceptSeq
  <2>5. queue' = InsertAt(q, 1, NewTimer(t, TRUE))
    BY <1>5, <2>2, <2>3 DEF AddFirst
  <2>6. \A i \in 1 .. Len(q) :
               /\ q[i].id = queue[i].id
               /\ q[i].timeout = queue[i].timeout
               /\ q[i].cancelled = queue[i].cancelled
               /\ q[i].arg = queue[i].arg
    <3>1. /\ f.id = queue[1].id /\ f.timeout = queue[1].timeout
          /\ f.cancelled = queue[1].cancelled /\ f.arg = queue[1].arg
      BY <1>4, <2>1, <2>2 DEF Timer
    <3>2. \A i \in 1 .. Len(q) : q[i] = IF i = 1 THEN f ELSE queue[i]
      BY <2>4
    <3> QED BY <3>1, <3>2
  <2>7. Len(queue) \in Nat /\ 1 \in 1 .. Len(queue) + 1
    BY <1>0, QueueTypes
  <2>8. /\ queue' \in Seq(Timer)
        /\ Len(queue') = Len(queue) + 1
        /\ \A i \in 1 .. Len(queue) + 1 :
              queue'[i] = IF i < 1 THEN q[i]
                          ELSE IF i = 1 THEN NewTimer(t, TRUE) ELSE q[i - 1]
        /\ (EntriesOK /\ IdsDistinct /\ FreshIds /\ QueueSorted)'
    BY <1>1, <2>1, <2>4, <2>5, <2>6, <2>7, InsertStep
  <2>9. queue'[1] = NewTimer(t, TRUE) /\ queue'[1].in_use = TRUE /\ queue'[1].timeout = t
    BY <2>7, <2>8 DEF NewTimer
  <2>10. OnlyFirstInUse'
    <3> SUFFICES ASSUME NEW i \in 2 .. Len(queue') PROVE ~queue'[i].in_use
      BY DEF OnlyFirstInUse
    <3>0. i \in 1 .. Len(queue) + 1 /\ ~(i < 1) /\ i # 1
      BY <2>7, <2>8
    <3>1. i - 1 \in 1 .. Len(queue) /\ queue'[i] = q[i - 1]
      <4>1. i - 1 \in 1 .. Len(queue)
        BY <2>7, <3>0
      <4>2. queue'[i] = q[i - 1]
        BY <2>8, <3>0
      <4> QED BY <4>1, <4>2
    <3>2. CASE i = 2
      BY <1>4, <2>1, <2>2, <2>4, <3>1, <3>2 DEF Timer
    <3>3. CASE i # 2
      <4>1. i - 1 \in 2 .. Len(queue) /\ i - 1 # 1
        BY <2>7, <3>1, <3>3
      <4>2. ~queue[i - 1].in_use
        BY <4>1 DEF IInv, OnlyFirstInUse
      <4> QED BY <2>4, <3>1, <4>1, <4>2
    <3> QED BY <3>2, <3>3
  <2>11. FirstStaysInQueue'
    <3>1. queue' # <<>>
      <4>1. Len(queue') # 0
        BY <2>7, <2>8
      <4> QED BY <4>1
    <3> QED BY <2>9, <3>1 DEF FirstStaysInQueue
  <2>12. /\ itimer' \in Nat \cup {Disarmed}
         /\ \/ itimer' # Disarmed /\ itimer' <= Max2(t, now + AlmostNow)
            \/ itimer' = Disarmed /\ t % Second = 0 /\ t <= now + 1
    BY <1>0, <2>1, TimerStart
  <2>13. WakeupArmed'
    BY <1>1, <2>9, <2>12 DEF WakeupArmed, WakeupLost
  <2>14. TypeOK'
    BY <1>0, <1>1, <2>8, <2>12 DEF TypeOK
  <2> QED BY <1>3, <2>8, <2>10, <2>11, <2>13, <2>14 DEF IInv
<1>6. CASE AddBehind(t)
  <2>1. PICK p \in 1 .. Len(queue) + 1 :
           /\ p > 1 \/ queue = <<>>
           /\ IsPlace(p, t)
           /\ queue' = InsertAt(queue, p, NewTimer(t, FALSE))
           /\ itimer' = itimer
    BY <1>6 DEF AddBehind
  <2>2. queue \in Seq(Timer) /\ Len(queue) \in Nat
    BY <1>0, QueueTypes
  <2>3. /\ queue' \in Seq(Timer)
        /\ Len(queue') = Len(queue) + 1
        /\ \A i \in 1 .. Len(queue) + 1 :
              queue'[i] = IF i < p THEN queue[i]
                          ELSE IF i = p THEN NewTimer(t, FALSE) ELSE queue[i - 1]
        /\ (EntriesOK /\ IdsDistinct /\ FreshIds /\ QueueSorted)'
    BY <1>1, <2>1, <2>2, InsertStep
  <2>4. OnlyFirstInUse'
    <3> SUFFICES ASSUME NEW i \in 2 .. Len(queue') PROVE ~queue'[i].in_use
      BY DEF OnlyFirstInUse
    <3>0. i \in 1 .. Len(queue) + 1 /\ i \in Int /\ i >= 2
      BY <2>2, <2>3
    <3>1. CASE i < p
      <4>1. i \in 2 .. Len(queue) /\ queue'[i] = queue[i]
        <5>1. i \in 2 .. Len(queue)
          BY <2>2, <3>0, <3>1
        <5>2. queue'[i] = queue[i]
          BY <2>3, <3>0, <3>1
        <5> QED BY <5>1, <5>2
      <4> QED BY <4>1 DEF IInv, OnlyFirstInUse
    <3>2. CASE i = p
      BY <2>2, <2>3, <3>2 DEF NewTimer
    <3>3. CASE i > p
      <4>1. i - 1 \in 1 .. Len(queue) /\ queue'[i] = queue[i - 1]
        <5>1. i - 1 \in 1 .. Len(queue)
          BY <2>2, <3>0
        <5>2. ~(i < p) /\ i # p
          BY <2>2, <3>0, <3>3
        <5>3. queue'[i] = queue[i - 1]
          BY <2>3, <3>0, <5>2
        <5> QED BY <5>1, <5>3
      <4>2. i - 1 \in 2 .. Len(queue)
        BY <2>1, <2>2, <3>3, <4>1
      <4> QED BY <4>1, <4>2 DEF IInv, OnlyFirstInUse
    <3> QED BY <2>2, <3>1, <3>2, <3>3
  <2>5. queue # <<>> => queue' # <<>> /\ queue'[1] = queue[1]
    <3> SUFFICES ASSUME queue # <<>> PROVE queue' # <<>> /\ queue'[1] = queue[1]
      OBVIOUS
    <3>1. 1 \in 1 .. Len(queue) + 1 /\ 1 < p /\ Len(queue') # 0
      <4>1. 1 \in 1 .. Len(queue) + 1 /\ 1 < p
        BY <2>1, <2>2
      <4>2. Len(queue) + 1 # 0
        BY <2>2
      <4> QED BY <2>3, <4>1, <4>2
    <3>2. queue'[1] = queue[1]
      BY <2>3, <3>1
    <3>3. queue' # <<>>
      BY <3>1
    <3> QED BY <3>2, <3>3
  <2>6. (FirstStaysInQueue /\ WakeupArmed)'
    <3>1. ticker \in {"sigwait", "woken"} => queue # <<>>
      BY DEF IInv, FirstStaysInQueue
    <3> QED BY <1>1, <2>1, <2>5, <3>1 DEF IInv, FirstStaysInQueue, WakeupArmed, WakeupLost
  <2>7. TypeOK'
    BY <1>0, <1>1, <2>1, <2>3 DEF TypeOK
  <2> QED BY <1>3, <2>3, <2>4, <2>6, <2>7 DEF IInv
<1> QED BY <1>2, <1>5, <1>6 DEF timer_add

\* timer_rem keeps the invariant: the first timer of a waiting ticker is in
\* use and is only marked; any other is not in use and leaves the queue.
LEMMA RemSteps ==
    ASSUME IInv, NEW id \in Ids, NEW free_arg \in BOOLEAN, timer_rem(id, free_arg)
    PROVE  IInv'
<1>0. TypeOK /\ queue \in Seq(Timer) /\ Len(queue) \in Nat
  BY QueueTypes DEF IInv
<1>1. PICK p \in 1 .. Len(queue) :
        /\ queue[p].id = id
        /\ queue' = IF queue[p].in_use
                    THEN [queue EXCEPT ![p].cancelled = TRUE,
                                       ![p].arg = @ /\ ~free_arg]
                    ELSE RemoveAt(queue, p)
        /\ freed' = IF free_arg /\ queue[p].arg
                    THEN [freed EXCEPT ![id] = @ + 1] ELSE freed
        /\ removed' = removed \cup {id}
        /\ UNCHANGED <<now, cur_id, itimer, sigalrm, ticker, hdl, started>>
  BY DEF timer_rem
<1>2. queue[p] \in Timer /\ queue[p].id = id /\ queue[p].arg \in BOOLEAN /\ queue[p].in_use \in BOOLEAN
  BY <1>0, <1>1, QueueTypes
<1>3. id < cur_id /\ started[id] = 0 /\ (queue[p].arg => freed[id] = 0)
  BY <1>2 DEF IInv, EntriesOK
<1>4. cur_id' = cur_id /\ started' = started /\ hdl' = hdl /\ ticker' = ticker
  BY <1>1
<1>5. freed \in [Ids -> Nat] /\ freed' \in [Ids -> Nat] /\ \A i \in Ids : i # id => freed'[i] = freed[i]
  BY <1>0, <1>1 DEF TypeOK
<1>6. (StartedAtMostOnce /\ FreshIds)' /\ \A i \in Ids : freed'[i] <= 1
  <2>1. freed'[id] <= 1
    BY <1>1, <1>3, <1>5 DEF IInv
  <2>2. cur_id \in Nat /\ id \in Nat
    BY <1>0 DEF TypeOK, Ids
  <2>3. \A i \in Ids : cur_id <= i => i # id
    BY <1>3, <2>2 DEF Ids
  <2>4. FreshIds'
    BY <1>1, <1>4, <1>5, <2>3 DEF IInv, FreshIds
  <2> QED BY <1>4, <1>5, <2>1, <2>4 DEF IInv, StartedAtMostOnce
<1>7. RunningOK'
  <2> SUFFICES ASSUME ticker = "handler" PROVE hdl.id # id
    <3>1. ticker = "handler" => hdl \in Handler /\ hdl.id \in Ids
      BY DEF IInv, RunningOK, Handler
    <3> QED BY <1>1, <1>4, <1>5, <3>1 DEF IInv, RunningOK
  <2> QED BY <1>3 DEF IInv, RunningOK
<1>8. now' = now /\ itimer' = itimer /\ sigalrm' = sigalrm /\ removed' \subseteq Ids
  BY <1>0, <1>1 DEF TypeOK
<1>9. queue' \in Seq(Timer) => TypeOK'
  BY <1>0, <1>4, <1>5, <1>8 DEF TypeOK
<1>10. CASE queue[p].in_use
  <2>1. PICK c \in Timer : c = [queue[p] EXCEPT !.cancelled = TRUE, !.arg = queue[p].arg /\ ~free_arg]
    BY <1>2 DEF Timer
  <2>2. queue' = [queue EXCEPT ![p] = c]
    BY <1>1, <1>10, <2>1
  <2>3. /\ queue' \in Seq(Timer)
        /\ Len(queue') = Len(queue)
        /\ \A j \in 1 .. Len(queue) : queue'[j] = IF j = p THEN c ELSE queue[j]
    BY <1>0, <2>2, ExceptSeq
  <2>4. /\ c.id = id /\ c.timeout = queue[p].timeout /\ c.in_use = queue[p].in_use
        /\ c.cancelled = TRUE /\ c.arg = (queue[p].arg /\ ~free_arg)
    BY <1>2, <2>1 DEF Timer
  <2>5. EntriesOK'
    <3> SUFFICES ASSUME NEW i \in 1 .. Len(queue)
                 PROVE  LET e == queue'[i] IN
                        /\ e.id < cur_id
                        /\ started[e.id] = 0
                        /\ e.id \in removed' => e.cancelled
                        /\ e.arg => freed'[e.id] = 0
                        /\ e.cancelled \/ e.arg
      BY <1>4, <2>3 DEF EntriesOK
    <3>1. CASE i = p
      <4>1. c.arg => freed'[id] = 0
        BY <1>1, <1>3, <2>4
      <4> QED BY <1>3, <2>3, <2>4, <3>1, <4>1
    <3>2. CASE i # p
      <4>1. queue'[i] = queue[i]
        BY <2>3, <3>2
      <4>2. queue[i].id # id /\ queue[i].id \in Ids
        BY <1>0, <1>2, <3>2, QueueTypes DEF IInv, IdsDistinct
      <4> QED BY <1>1, <1>5, <4>1, <4>2 DEF IInv, EntriesOK
    <3> QED BY <3>1, <3>2
  <2>6. \A i \in 1 .. Len(queue) :
           queue'[i].id = queue[i].id /\ queue'[i].timeout = queue[i].timeout /\ queue'[i].in_use = queue[i].in_use
    BY <1>2, <2>3, <2>4
  <2>7. (IdsDistinct /\ QueueSorted)'
    BY <2>3, <2>6 DEF IInv, IdsDistinct, QueueSorted
  <2>8. OnlyFirstInUse'
    BY <1>0, <2>3, <2>6 DEF IInv, OnlyFirstInUse
  <2>9. queue # <<>> => /\ queue' # <<>> /\ queue'[1].in_use = queue[1].in_use
                        /\ queue'[1].timeout = queue[1].timeout
    <3>1. queue # <<>> => 1 \in 1 .. Len(queue)
      BY <1>0, QueueTypes
    <3>2. queue # <<>> => queue' # <<>>
      BY <1>0, <2>3
    <3> QED BY <2>6, <3>1, <3>2
  <2>10. (FirstStaysInQueue /\ WakeupArmed)'
    BY <1>4, <1>8, <2>9 DEF IInv, FirstStaysInQueue, WakeupArmed, WakeupLost
  <2> QED BY <1>6, <1>7, <1>9, <2>3, <2>5, <2>7, <2>8, <2>10 DEF IInv
<1>11. CASE ~queue[p].in_use
  <2>1. queue' = RemoveAt(queue, p)
    BY <1>1, <1>11
  <2>2. /\ queue' \in Seq(Timer)
        /\ Len(queue') = Len(queue) - 1
        /\ \A i \in 1 .. Len(queue) - 1 :
              queue'[i] = IF i < p THEN queue[i] ELSE queue[i + 1]
    BY <1>0, <2>1, RemoveTimer
  <2> DEFINE old(i) == IF i < p THEN i ELSE i + 1
  <2>3. \A i \in 1 .. Len(queue') : old(i) \in 1 .. Len(queue) /\ old(i) # p /\ queue'[i] = queue[old(i)]
    BY <1>0, <2>2
  <2>4. \A i, j \in 1 .. Len(queue') : (old(i) = old(j) => i = j) /\ (i < j => old(i) < old(j))
    BY <1>0, <2>2
  <2>5. \A i \in 1 .. Len(queue') : i >= 2 => old(i) \in 2 .. Len(queue)
    BY <1>0, <2>2, <2>3
  <2> HIDE DEF old
  <2>6. EntriesOK'
    <3> SUFFICES ASSUME NEW i \in 1 .. Len(queue')
                 PROVE  LET e == queue'[i] IN
                        /\ e.id < cur_id
                        /\ started[e.id] = 0
                        /\ e.id \in removed' => e.cancelled
                        /\ e.arg => freed'[e.id] = 0
                        /\ e.cancelled \/ e.arg
      BY <1>4 DEF EntriesOK
    <3>1. old(i) \in 1 .. Len(queue) /\ queue'[i] = queue[old(i)] /\ old(i) # p
      BY <2>3
    <3>2. queue[old(i)].id # id /\ queue[old(i)].id \in Ids
      BY <1>0, <1>2, <3>1, QueueTypes DEF IInv, IdsDistinct
    <3>3. PICK k \in 1 .. Len(queue) : k = old(i)
      BY <3>1
    <3>4. LET e == queue[k] IN
                        /\ e.id < cur_id
                        /\ started[e.id] = 0
                        /\ e.id \in removed => e.cancelled
                        /\ e.arg => freed[e.id] = 0
                        /\ e.cancelled \/ e.arg
      BY DEF IInv, EntriesOK
    <3>5. queue[k].id \in removed' => queue[k].id \in removed
      BY <1>1, <3>2, <3>3
    <3>6. freed'[queue[k].id] = freed[queue[k].id]
      BY <1>5, <3>2, <3>3
    <3> QED BY <3>1, <3>3, <3>4, <3>5, <3>6
  <2>7. IdsDistinct'
    BY <2>3, <2>4 DEF IInv, IdsDistinct
  <2>8. QueueSorted'
    BY <2>3, <2>4 DEF IInv, QueueSorted
  <2>9. OnlyFirstInUse'
    <3> SUFFICES ASSUME NEW i \in 2 .. Len(queue') PROVE ~queue'[i].in_use
      BY DEF OnlyFirstInUse
    <3>1. i \in 1 .. Len(queue') /\ i >= 2
      BY <1>0, <2>2
    <3> QED BY <2>3, <2>5, <3>1 DEF IInv, OnlyFirstInUse
  <2>10. ticker \in {"sigwait", "woken"} => queue' # <<>> /\ queue'[1] = queue[1]
    <3> SUFFICES ASSUME queue # <<>>, queue[1].in_use PROVE queue' # <<>> /\ queue'[1] = queue[1]
      BY DEF IInv, FirstStaysInQueue
    <3>1. p # 1
      BY <1>11
    <3>2. 1 \in 1 .. Len(queue) - 1 /\ 1 < p
      BY <1>0, <3>1
    <3>3. queue'[1] = queue[1]
      BY <2>2, <3>2
    <3>4. Len(queue') # 0
      BY <1>0, <2>2, <3>2
    <3> QED BY <3>3, <3>4
  <2>11. (FirstStaysInQueue /\ WakeupArmed)'
    BY <1>4, <1>8, <2>10 DEF IInv, FirstStaysInQueue, WakeupArmed, WakeupLost
  <2> QED BY <1>6, <1>7, <1>9, <2>2, <2>6, <2>7, <2>8, <2>9, <2>11 DEF IInv
<1> QED BY <1>2, <1>10, <1>11

\* The ticker's steps on the queue keep the invariant.
LEMMA ArmStep ==
    ASSUME IInv, Arm
    PROVE  IInv'
<1>0. TypeOK /\ queue \in Seq(Timer) /\ Len(queue) \in Nat
  BY QueueTypes DEF IInv
<1>1. 1 \in 1 .. Len(queue) /\ queue[1] \in Timer /\ queue[1].timeout \in Nat
  BY <1>0, QueueTypes DEF Arm
<1>2. PICK f \in Timer : f = [queue[1] EXCEPT !.in_use = TRUE]
  BY <1>1 DEF Timer
<1>3. queue' = [queue EXCEPT ![1] = f]
  BY <1>2 DEF Arm
<1>4. /\ queue' \in Seq(Timer)
      /\ Len(queue') = Len(queue)
      /\ \A j \in 1 .. Len(queue) : queue'[j] = IF j = 1 THEN f ELSE queue[j]
  BY <1>0, <1>1, <1>3, ExceptSeq
<1>5. /\ f.id = queue[1].id /\ f.timeout = queue[1].timeout /\ f.in_use = TRUE
      /\ f.cancelled = queue[1].cancelled /\ f.arg = queue[1].arg
  BY <1>1, <1>2 DEF Timer
<1>6. \A i \in 1 .. Len(queue) :
         /\ queue'[i].id = queue[i].id /\ queue'[i].timeout = queue[i].timeout
         /\ queue'[i].cancelled = queue[i].cancelled /\ queue'[i].arg = queue[i].arg
  BY <1>4, <1>5
<1>7. /\ now' = now /\ cur_id' = cur_id /\ sigalrm' = sigalrm /\ hdl' = hdl
      /\ removed' = removed /\ started' = started /\ freed' = freed
      /\ ticker' = "sigwait"
  BY DEF Arm, history
<1>8. EntriesOK'
  BY <1>4, <1>6, <1>7 DEF IInv, EntriesOK
<1>9. (IdsDistinct /\ QueueSorted)'
  BY <1>4, <1>6 DEF IInv, IdsDistinct, QueueSorted
<1>10. OnlyFirstInUse'
  <2>1. \A i \in 2 .. Len(queue) : i \in 1 .. Len(queue) /\ i # 1
    BY <1>0
  <2> QED BY <1>4, <2>1 DEF IInv, OnlyFirstInUse
<1>11. (FreshIds /\ StartedAtMostOnce /\ RunningOK)' /\ \A i \in Ids : freed'[i] <= 1
  BY <1>7 DEF IInv, FreshIds, StartedAtMostOnce, RunningOK
<1>12. queue'[1] = f /\ queue' # <<>>
  BY <1>0, <1>1, <1>4
<1>13. FirstStaysInQueue'
  BY <1>5, <1>12 DEF FirstStaysInQueue
<1>14. PICK t \in Nat : t = queue[1].timeout /\ timer_start(t) /\ now \in Nat
  BY <1>0, <1>1 DEF Arm, TypeOK
<1>15. /\ itimer' \in Nat \cup {Disarmed}
       /\ \/ itimer' # Disarmed /\ itimer' <= Max2(t, now + AlmostNow)
          \/ itimer' = Disarmed /\ t % Second = 0 /\ t <= now + 1
  BY <1>14, TimerStart
<1>16. WakeupArmed'
  BY <1>5, <1>7, <1>12, <1>14, <1>15 DEF WakeupArmed, WakeupLost
<1>17. TypeOK'
  BY <1>0, <1>4, <1>7, <1>15 DEF TypeOK
<1> QED BY <1>8, <1>9, <1>10, <1>11, <1>13, <1>16, <1>17 DEF IInv

\* The ticker takes the first timer out of the queue, to discard or to run it.
LEMMA TakeStep ==
    ASSUME IInv, Discard \/ Fire
    PROVE  IInv'
<1>0. TypeOK /\ queue \in Seq(Timer) /\ Len(queue) \in Nat
  BY QueueTypes DEF IInv
<1>1. queue # <<>> /\ 1 \in 1 .. Len(queue) /\ queue[1] \in Timer /\ queue[1].id \in Ids
  BY <1>0, QueueTypes DEF IInv, FirstStaysInQueue, Discard, Fire
<1>2. /\ queue' \in Seq(Timer)
      /\ Len(queue') = Len(queue) - 1
      /\ \A i \in 1 .. Len(queue') : queue'[i] = queue[i + 1] /\ i + 1 \in 2 .. Len(queue)
  <2>1. queue' = Tail(queue)
    BY DEF Discard, Fire
  <2> QED BY <1>0, <1>1, <2>1, HeadTailProperties
<1>3. /\ now' = now /\ cur_id' = cur_id /\ itimer' = itimer /\ sigalrm' = sigalrm
      /\ removed' = removed /\ freed' = freed /\ ticker' \in {"empty", "handler"}
  BY DEF Discard, Fire, history
<1>4. /\ started \in [Ids -> Nat] /\ started' \in [Ids -> Nat]
      /\ \A i \in Ids : i # queue[1].id => started'[i] = started[i]
      /\ started[queue[1].id] = 0
      /\ started'[queue[1].id] \in {0, 1}
  <2>1. started \in [Ids -> Nat] /\ started[queue[1].id] = 0
    BY <1>0, <1>1 DEF IInv, EntriesOK, TypeOK
  <2>2. started' \in {started, [started EXCEPT ![queue[1].id] = 1]}
    BY <2>1 DEF Discard, Fire, history
  <2> QED BY <1>1, <2>1, <2>2
<1>5. \A i \in 1 .. Len(queue') : /\ i + 1 \in 1 .. Len(queue)
                                  /\ queue[i + 1].id # queue[1].id
                                  /\ queue[i + 1].id \in Ids
  <2>1. \A i \in 1 .. Len(queue') : i + 1 \in 1 .. Len(queue) /\ i + 1 # 1
    BY <1>0, <1>2
  <2> QED BY <1>0, <1>1, <2>1, QueueTypes DEF IInv, IdsDistinct
<1>6. EntriesOK'
  <2> SUFFICES ASSUME NEW i \in 1 .. Len(queue')
               PROVE  LET e == queue'[i] IN
                      /\ e.id < cur_id
                      /\ started'[e.id] = 0
                      /\ e.id \in removed => e.cancelled
                      /\ e.arg => freed[e.id] = 0
                      /\ e.cancelled \/ e.arg
    BY <1>3 DEF EntriesOK
  <2>1. PICK k \in 1 .. Len(queue) : k = i + 1
    BY <1>5
  <2>2. queue'[i] = queue[k] /\ started'[queue[k].id] = started[queue[k].id]
    BY <1>2, <1>4, <1>5, <2>1
  <2> QED BY <2>2 DEF IInv, EntriesOK
<1>7. IdsDistinct'
  <2> SUFFICES ASSUME NEW i \in 1 .. Len(queue'), NEW j \in 1 .. Len(queue'),
                      queue'[i].id = queue'[j].id
               PROVE  i = j
    BY DEF IdsDistinct
  <2>1. i + 1 = j + 1
    BY <1>2, <1>5 DEF IInv, IdsDistinct
  <2> QED BY <1>0, <1>2, <2>1
<1>8. QueueSorted'
  <2> SUFFICES ASSUME NEW i \in 1 .. Len(queue'), NEW j \in 1 .. Len(queue'), i < j
               PROVE  queue'[i].timeout <= queue'[j].timeout
    BY DEF QueueSorted
  <2>1. i + 1 < j + 1
    BY <1>0, <1>2
  <2> QED BY <1>2, <1>5, <2>1 DEF IInv, QueueSorted
<1>9. OnlyFirstInUse'
  <2>1. \A i \in 2 .. Len(queue') : i \in 1 .. Len(queue')
    BY <1>0, <1>2
  <2> QED BY <1>2, <2>1 DEF IInv, OnlyFirstInUse
<1>10. queue[1].id < cur_id /\ queue[1].id \in Nat /\ cur_id \in Nat
  BY <1>0, <1>1 DEF IInv, EntriesOK, TypeOK, Ids
<1>11. FreshIds'
  <2>1. \A i \in Ids : cur_id <= i => i # queue[1].id
    BY <1>10 DEF Ids
  <2> QED BY <1>3, <1>4, <2>1 DEF IInv, FreshIds
<1>12. StartedAtMostOnce' /\ \A i \in Ids : freed'[i] <= 1
  <2>1. \A i \in Ids : started'[i] <= 1
    BY <1>1, <1>4 DEF IInv, StartedAtMostOnce
  <2> QED BY <1>3, <2>1 DEF IInv, StartedAtMostOnce
<1>13. (FirstStaysInQueue /\ WakeupArmed)'
  BY <1>3 DEF FirstStaysInQueue, WakeupArmed
<1>14. CASE Discard
  <2>1. hdl' = hdl /\ ticker' = "empty"
    BY <1>14 DEF Discard
  <2>2. TypeOK'
    BY <1>0, <1>2, <1>3, <1>4, <2>1 DEF TypeOK
  <2>3. RunningOK'
    BY <2>1 DEF RunningOK
  <2> QED BY <1>6, <1>7, <1>8, <1>9, <1>11, <1>12, <1>13, <2>2, <2>3 DEF IInv
<1>15. CASE Fire
  <2>1. /\ ticker' = "handler" /\ ~queue[1].cancelled
        /\ hdl' = [id |-> queue[1].id, timeout |-> queue[1].timeout,
                    arg |-> queue[1].arg, at |-> now]
        /\ started' = [started EXCEPT ![queue[1].id] = @ + 1]
    BY <1>15 DEF Fire
  <2>2. started'[queue[1].id] = 1
    BY <1>1, <1>4, <2>1
  <2>3. /\ queue[1].id \notin removed /\ queue[1].arg /\ freed[queue[1].id] = 0
        /\ queue[1].arg = TRUE
    BY <1>0, <1>1, <2>1, QueueTypes DEF IInv, EntriesOK
  <2>4. hdl' \in Handler
    BY <1>0, <1>1, <2>1, <2>3 DEF Handler, Timer, TypeOK
  <2>5. hdl'.id = queue[1].id /\ hdl'.arg = queue[1].arg
    BY <2>1
  <2>6. RunningOK'
    BY <1>3, <1>10, <2>2, <2>3, <2>4, <2>5 DEF RunningOK
  <2>7. TypeOK'
    BY <1>0, <1>2, <1>3, <1>4, <2>4 DEF TypeOK
  <2> QED BY <1>6, <1>7, <1>8, <1>9, <1>11, <1>12, <1>13, <2>6, <2>7 DEF IInv
<1> QED BY <1>14, <1>15

\* The inductive invariant holds in every reachable state.
THEOREM Invariance == Spec => []IInv
<1>1. IInv /\ [Next]_vars => IInv'
  BY QuietSteps, AddSteps, RemSteps, ArmStep, TakeStep DEF Next, Ticker
<1> QED BY InitIInv, <1>1, PTL DEF Spec

\* The types of the variables, for every value of the constants.
THEOREM TypeCorrect == Spec => []TypeOK
<1>1. IInv => TypeOK
  BY DEF IInv
<1> QED BY Invariance, <1>1, PTL

\* cronometer() never finds the queue empty after sigwait.
THEOREM FirstStays == Spec => []FirstStaysInQueue
<1>1. IInv => FirstStaysInQueue
  BY DEF IInv
<1> QED BY Invariance, <1>1, PTL

\* The queue stays in order of expiry.
THEOREM Sorted == Spec => []QueueSorted
<1>1. IInv => QueueSorted
  BY DEF IInv
<1> QED BY Invariance, <1>1, PTL

\* A ticker in sigwait has its signal on the way in time, except when the
\* first timer was one tick ahead, across a full second, as it was armed.
THEOREM NoLostWakeup == Spec => []WakeupArmed
<1>1. IInv => WakeupArmed
  BY DEF IInv
<1> QED BY Invariance, <1>1, PTL

\* A removed timer never starts its handler.
THEOREM RemovedStaysQuiet == Spec => []RemovedNeverStarts
<1>1. IInv => RemovedNeverStarts
  BY DEF IInv, RunningOK, RemovedNeverStarts
<1> QED BY Invariance, <1>1, PTL

\* No argument is freed twice, nor before the handler that uses it ran.
THEOREM NoDoubleFree == Spec => []FreedAtMostOnce
<1>1. IInv => FreedAtMostOnce
  BY DEF IInv, RunningOK, FreedAtMostOnce
<1> QED BY Invariance, <1>1, PTL

\* A timer's handler is started at most once for each timer_add.
THEOREM StartedOnce == Spec => []StartedAtMostOnce
<1>1. IInv => StartedAtMostOnce
  BY DEF IInv
<1> QED BY Invariance, <1>1, PTL

=============================================================================
