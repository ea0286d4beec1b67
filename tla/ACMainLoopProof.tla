--------------------------- MODULE ACMainLoopProof ---------------------------
(***************************************************************************)
(* The safety properties of ACMainLoop for every table size, every set of  *)
(* WTPs, every kind of input and every number of sessions.  Most steps of  *)
(* a session thread change neither who has which slot nor a list, except   *)
(* by taking a packet off it: they are quiet, and quiet steps preserve the *)
(* invariants of the slots.  The others are taken one by one.              *)
(***************************************************************************)
EXTENDS ACMainLoop, FiniteSetTheorems, SequenceTheorems, WellFoundedInduction,
        TLAPS

\* The threads whose slot has a list.
Working == Loop \cup {"start", "init", "close", "cleanup"}

Quiet ==
    /\ main' \in {main, [main EXCEPT !.pc = "crashed"]}
    /\ \A i \in Slots :
          /\ gWTPs'[i].isNotFree = gWTPs[i].isNotFree
          /\ gWTPs'[i].address = gWTPs[i].address
          /\ gWTPs'[i].listValid = gWTPs[i].listValid
          /\ \/ gWTPs'[i].packets = gWTPs[i].packets
             \/ /\ gWTPs[i].packets # <<>>
                /\ gWTPs'[i].packets = Tail(gWTPs[i].packets)
    /\ \A t \in Threads :
          /\ thread'[t].slot = thread[t].slot
          /\ \/ thread'[t].pc = thread[t].pc
             \/ /\ thread[t].pc \in Working
                /\ \/ thread'[t].pc \in Working
                   \/ thread'[t].pc = "exited" /\ Failures

\* A step of thread t that leaves its slot as x and the thread as y: quiet,
\* with the WaitJoin timer running and the count kept.
SessionStep(t, x, y) ==
    LET own == gWTPs[thread[t].slot] IN
    /\ x \in CWWTPManager /\ y \in Thread
    /\ gWTPs' = [gWTPs EXCEPT ![thread[t].slot] = x]
    /\ thread' = [thread EXCEPT ![t] = y]
    /\ main' \in {main, [main EXCEPT !.pc = "crashed"]}
    /\ UNCHANGED <<firing, inputs>>
    /\ x.isNotFree = own.isNotFree
    /\ x.address = own.address
    /\ x.listValid = own.listValid
    /\ \/ x.packets = own.packets
       \/ own.packets # <<>> /\ x.packets = Tail(own.packets)
    /\ y.slot = thread[t].slot
    /\ thread[t].pc \in Working
    /\ y.pc \in Working \/ (y.pc = "exited" /\ Failures)
    /\ y.pc \in Loop /\ y.slot \in Table /\ x.currentState = "join" =>
          y.armed \/ y.pending \/ x.isRequestClose \/ firing = t
    /\ \/ /\ gActiveWTPs' = gActiveWTPs
          /\ \/ Failures /\ y.pc = "exited"
             \/ t \in Counted <=> y.pc \in Loop \cup {"init", "close"}
       \/ /\ gActiveWTPs' = gActiveWTPs + 1
          /\ t \notin Counted /\ y.pc = "init"
       \/ /\ gActiveWTPs' = gActiveWTPs - 1
          /\ t \in Counted /\ y.pc = "cleanup"

-----------------------------------------------------------------------------
(* What quiet steps preserve.                                              *)

\* The tail of a list of packets is a list, of the same packets.
LEMMA TailOfPackets ==
    ASSUME NEW q \in Seq(Packet), q # <<>>
    PROVE  /\ Tail(q) \in Seq(Packet)
           /\ Len(Tail(q)) = Len(q) - 1
           /\ \A n \in 1 .. Len(q) - 1 : Tail(q)[n] = q[n + 1]
BY HeadTailProperties, ElementOfSeq

\* Quiet steps preserve the invariants of the slots.
LEMMA QuietSlots ==
    ASSUME TypeOK, SlotInv, Quiet PROVE SlotInv'
<1> USE DEF SlotInv
<1>0. Table \subseteq Slots
  BY MaxWTPsAssumption DEF Table, Slots
<1>1. \A t \in Threads : Live(t)' => Live(t)
  BY DEF Quiet, Live, Working, Loop
<1>2. ~Failures => \A t \in Threads : Live(t) => Live(t)'
  BY DEF Quiet, Live, Working, Loop
<1>3. \A t \in Threads : thread'[t].pc = "free" <=> thread[t].pc = "free"
  BY DEF Quiet, Working, Loop
<1>4. /\ main'.slot = main.slot
      /\ main'.packet = main.packet
      /\ main'.pc = main.pc \/ main'.pc = "crashed"
  BY DEF Quiet, TypeOK, Main
<1>5. SlotExclusive'
  BY <1>0, <1>1, <1>3 DEF Quiet, SlotExclusive
<1>6. ListPhases'
  BY <1>0, <1>1, <1>3, <1>4 DEF Quiet, ListPhases
<1>7. PacketInHand'
  BY <1>4 DEF PacketInHand
<1>8. SenderKnown'
  BY <1>0, <1>4 DEF Quiet, SenderKnown, IsData
<1>9. OneSessionPerWTP'
  BY <1>0 DEF Quiet, OneSessionPerWTP
<1>10. PacketsToOwner'
  <2> SUFFICES ASSUME NEW i \in Table, NEW n \in 1 .. Len(gWTPs'[i].packets),
                      ~IsData(gWTPs'[i].packets[n])
               PROVE  gWTPs'[i].address
                        = [wtp |-> gWTPs'[i].packets[n].wtp, data |-> FALSE]
    BY DEF PacketsToOwner, IsData
  <2>1. i \in Slots /\ gWTPs[i].packets \in Seq(Packet)
    BY <1>0 DEF TypeOK, CWWTPManager
  <2>2. CASE gWTPs'[i].packets = gWTPs[i].packets
    BY <2>1, <2>2 DEF Quiet, PacketsToOwner
  <2>3. CASE gWTPs[i].packets # <<>>
             /\ gWTPs'[i].packets = Tail(gWTPs[i].packets)
    <3>1. /\ n + 1 \in 1 .. Len(gWTPs[i].packets)
          /\ gWTPs'[i].packets[n] = gWTPs[i].packets[n + 1]
      BY <2>1, <2>3, TailOfPackets
    <3> QED BY <2>1, <3>1 DEF Quiet, PacketsToOwner
  <2> QED BY <2>1, <2>2, <2>3 DEF Quiet
<1>11. ~Failures => SlotOwned'
  BY <1>0, <1>2, <1>4, FailuresAssumption DEF Quiet, SlotOwned
<1> QED BY <1>5, <1>6, <1>7, <1>8, <1>9, <1>10, <1>11

\* The sets of counted threads are finite.
LEMMA CountedFinite ==
    /\ IsFiniteSet(Counted) /\ Cardinality(Counted) \in Nat
    /\ IsFiniteSet(Counted') /\ Cardinality(Counted') \in Nat
<1>1. IsFiniteSet(Threads)
  BY FS_Interval, BoundsAssumption DEF Threads
<1>2. Counted \subseteq Threads /\ Counted' \subseteq Threads
  BY DEF Counted
<1> QED BY <1>1, <1>2, FS_Subset, FS_CardinalityType

\* A step that leaves the counter and the counted threads alone.
LEMMA SameCount ==
    ASSUME CountBound, gActiveWTPs' = gActiveWTPs, Counted' = Counted
    PROVE  CountBound'
BY DEF CountBound, ActiveCount, Counted

\* Session steps preserve the count.
LEMMA SessionCount ==
    ASSUME TypeOK, CountBound,
           NEW t \in Threads, NEW x, NEW y, SessionStep(t, x, y)
    PROVE  gActiveWTPs' \in Nat /\ CountBound'
<1> DEFINE now == y.pc \in Loop \cup {"init", "close"}
<1>0. gActiveWTPs \in Nat
  BY DEF TypeOK
<1>1. Counted' = IF now THEN Counted \cup {t} ELSE Counted \ {t}
  BY DEF Counted, SessionStep, TypeOK
<1>2. CountBound <=> /\ Cardinality(Counted) <= gActiveWTPs
                     /\ ~Failures => gActiveWTPs = Cardinality(Counted)
  BY DEF CountBound, ActiveCount, Counted
<1>3. CountBound' <=> /\ Cardinality(Counted') <= gActiveWTPs'
                      /\ ~Failures => gActiveWTPs' = Cardinality(Counted')
  BY DEF CountBound, ActiveCount, Counted
<1>4. /\ Cardinality(Counted \cup {t})
           = IF t \in Counted THEN Cardinality(Counted)
             ELSE Cardinality(Counted) + 1
      /\ Cardinality(Counted \ {t})
           = IF t \in Counted THEN Cardinality(Counted) - 1
             ELSE Cardinality(Counted)
  BY CountedFinite, FS_AddElement, FS_RemoveElement
<1>5. y.pc = "init" => now
  OBVIOUS
<1>6. y.pc \in {"exited", "cleanup"} => ~now
  BY DEF Loop
<1>7. \/ /\ gActiveWTPs' = gActiveWTPs
         /\ (Failures /\ ~now) \/ (t \in Counted <=> now)
      \/ gActiveWTPs' = gActiveWTPs + 1 /\ t \notin Counted /\ now
      \/ gActiveWTPs' = gActiveWTPs - 1 /\ t \in Counted /\ ~now
  BY <1>5, <1>6 DEF SessionStep
<1> HIDE DEF now
<1> QED BY <1>0, <1>1, <1>2, <1>3, <1>4, <1>7, CountedFinite

\* Session steps preserve the inductive invariant.
LEMMA SessionStepInv ==
    ASSUME IInv, NEW t \in Threads, NEW x, NEW y, SessionStep(t, x, y)
    PROVE  IInv'
<1> USE DEF IInv
<1> DEFINE s == thread[t].slot
<1>0. /\ s \in Slots /\ gWTPs[s] \in CWWTPManager
      /\ thread[t].pc \in Working
      /\ DOMAIN thread = Threads /\ DOMAIN gWTPs = Slots
  BY DEF TypeOK, Thread, SessionStep
<1>1. TypeOK'
  <2>1. gWTPs' \in [Slots -> CWWTPManager]
    BY <1>0 DEF TypeOK, SessionStep
  <2>2. thread' \in [Threads -> Thread]
    BY DEF TypeOK, SessionStep
  <2>3. main' \in Main
    BY DEF TypeOK, SessionStep, Main
  <2>4. gActiveWTPs' \in Nat
    BY SessionCount
  <2> QED BY <2>1, <2>2, <2>3, <2>4 DEF TypeOK, SessionStep
<1>2. Quiet
  BY <1>0 DEF SessionStep, Quiet
<1>3. JoinGuarded'
  <2> SUFFICES ASSUME NEW u \in Threads, thread'[u].pc \in Loop,
                      thread'[u].slot \in Table,
                      gWTPs'[thread'[u].slot].currentState = "join"
               PROVE  \/ thread'[u].armed \/ thread'[u].pending
                      \/ firing' = u
                      \/ gWTPs'[thread'[u].slot].isRequestClose
    BY DEF JoinGuarded
  <2>1. CASE u = t
    BY <1>0, <2>1 DEF SessionStep
  <2>2. CASE u # t
    <3>1. thread'[u] = thread[u] /\ firing' = firing
      BY <1>0, <2>2 DEF SessionStep
    <3>2. Live(u) /\ Live(t)
      BY <1>0, <3>1 DEF Live, Loop, Working
    <3>3. thread[u].slot # s
      BY <2>2, <3>1, <3>2 DEF SlotInv, SlotExclusive
    <3>4. gWTPs'[thread[u].slot] = gWTPs[thread[u].slot]
      BY <1>0, <3>3 DEF SessionStep
    <3> QED BY <3>1, <3>4 DEF JoinGuarded
  <2> QED BY <2>1, <2>2
<1>4. CountBound'
  BY SessionCount
<1>5. SlotInv'
  BY <1>2, QuietSlots
<1> QED BY <1>1, <1>3, <1>4, <1>5

-----------------------------------------------------------------------------
(* The steps of a session thread.                                          *)

\* What the invariant says of a thread and of its slot.
LEMMA ThreadFacts ==
    ASSUME IInv, NEW t \in Threads
    PROVE  /\ thread[t] \in Thread
           /\ thread[t].slot \in Slots
           /\ gWTPs[thread[t].slot] \in CWWTPManager
           /\ thread \in [Threads -> Thread]
           /\ gWTPs \in [Slots -> CWWTPManager]
           /\ main \in Main
BY DEF IInv, TypeOK, Thread

\* A thread in the loop of a session that has not joined is guarded.
LEMMA OwnGuard ==
    ASSUME IInv, NEW t \in Threads, thread[t].pc \in Loop,
           thread[t].slot \in Table,
           gWTPs[thread[t].slot].currentState = "join"
    PROVE  \/ thread[t].armed \/ thread[t].pending \/ firing = t
           \/ gWTPs[thread[t].slot].isRequestClose
BY DEF IInv, JoinGuarded

\* What a slot keeps when only its mutex is taken or released.
SameUse(w, x) ==
    /\ x.isNotFree = w.isNotFree
    /\ x.address = w.address
    /\ x.sessionID = w.sessionID
    /\ x.listValid = w.listValid
    /\ x.packets = w.packets
    /\ x.currentState = w.currentState
    /\ x.isRequestClose = w.isRequestClose

\* Taking or releasing the mutex changes nothing else in the slot.
LEMMA LockingKeeps ==
    ASSUME NEW w \in CWWTPManager, NEW l \in BOOLEAN
    PROVE  /\ [w EXCEPT !.locked = l] \in CWWTPManager
           /\ SameUse(w, [w EXCEPT !.locked = l])
BY DEF CWWTPManager, SameUse

\* CountSession, InitSession, and what _CWCloseThread does first.
LEMMA CountSessionInv ==
    ASSUME IInv, NEW t \in Threads, CountSession(t) PROVE IInv'
<1> DEFINE x == gWTPs[thread[t].slot]
           y == [thread[t] EXCEPT !.pc = "init"]
<1>1. SessionStep(t, x, y)
  BY ThreadFacts DEF CountSession, Goto, SessionStep, Thread, Working, Loop, Counted
<1> QED BY <1>1, SessionStepInv

\* The new thread resets the state of its slot and starts the join timer.
LEMMA InitSessionInv ==
    ASSUME IInv, NEW t \in Threads, InitSession(t) PROVE IInv'
<1> DEFINE r == IF InUse(thread[t].slot) THEN "taken" ELSE "clean"
           x == [gWTPs[thread[t].slot] EXCEPT !.currentState = "join",
                     !.interfaceCommand = FALSE, !.sessionID = Nobody,
                     !.locked = FALSE, !.reinit = r]
           y == [thread[t] EXCEPT !.pc = "loop", !.armed = TRUE]
<1>1. gWTPs' = [gWTPs EXCEPT ![thread[t].slot] = x]
  BY ThreadFacts DEF InitSession
<1>r. r \in {"clean", "taken", "torn"}
  OBVIOUS
<1> HIDE DEF r
<1>2. /\ x \in CWWTPManager
      /\ x.isNotFree = gWTPs[thread[t].slot].isNotFree
      /\ x.address = gWTPs[thread[t].slot].address
      /\ x.listValid = gWTPs[thread[t].slot].listValid
      /\ x.packets = gWTPs[thread[t].slot].packets
  BY <1>r, ThreadFacts DEF CWWTPManager
<1>3. /\ y \in Thread /\ y.slot = thread[t].slot
      /\ y.pc = "loop" /\ y.armed = TRUE
  BY ThreadFacts DEF Thread
<1> HIDE DEF x, y
<1>4. CASE thread' = thread
  <2>1. SessionStep(t, x, thread[t])
    BY <1>1, <1>2, <1>4, ThreadFacts
       DEF InitSession, SessionStep, Thread, Working, Loop, Counted
  <2> QED BY <2>1, SessionStepInv
<1>5. CASE thread' = [thread EXCEPT ![t] = y] /\ UNCHANGED main
  <2>1. SessionStep(t, x, y)
    BY <1>1, <1>2, <1>3, <1>5, ThreadFacts
       DEF InitSession, SessionStep, Working, Loop, Counted
  <2> QED BY <2>1, SessionStepInv
<1> QED BY <1>4, <1>5, ThreadFacts DEF InitSession, y

\* The thread of a closed session lowers gActiveWTPs.
LEMMA UncountSessionInv ==
    ASSUME IInv, NEW t \in Threads, UncountSession(t) PROVE IInv'
<1> DEFINE x == [gWTPs[thread[t].slot] EXCEPT !.locked = FALSE]
           y == [thread[t] EXCEPT !.pc = "cleanup"]
<1>1. gWTPs' = [gWTPs EXCEPT ![thread[t].slot] = x]
  BY ThreadFacts DEF UncountSession
<1>2. x \in CWWTPManager /\ SameUse(gWTPs[thread[t].slot], x)
  BY ThreadFacts, LockingKeeps
<1>3. /\ y \in Thread /\ y.slot = thread[t].slot /\ y.pc = "cleanup"
      /\ thread' = [thread EXCEPT ![t] = y]
  BY ThreadFacts DEF UncountSession, Goto, Thread
<1> HIDE DEF x, y
<1>4. SessionStep(t, x, y)
  BY <1>1, <1>2, <1>3, ThreadFacts
     DEF UncountSession, SessionStep, SameUse, Working, Loop, Counted
<1> QED BY <1>4, SessionStepInv

\* A step inside the loop that changes no more than the mutex of the thread's
\* slot, or closes.
LEMMA LoopStepInv ==
    ASSUME IInv, NEW t \in Threads, thread[t].pc \in Loop,
           NEW x \in CWWTPManager, SameUse(gWTPs[thread[t].slot], x),
           gWTPs' = [gWTPs EXCEPT ![thread[t].slot] = x],
           NEW y \in Thread, thread' = [thread EXCEPT ![t] = y],
           y.slot = thread[t].slot,
           y.pc \in Loop \cup {"close"},
           y.armed = thread[t].armed, y.pending = thread[t].pending,
           UNCHANGED <<gActiveWTPs, main, firing, inputs>>
    PROVE  IInv'
<1>1. SessionStep(t, x, y)
  BY ThreadFacts, OwnGuard DEF SessionStep, SameUse, Working, Loop, Counted
<1> QED BY <1>1, SessionStepInv

\* The loop of CWManageWTP around the session's work.
LEMMA LoopInv ==
    ASSUME IInv, NEW t \in Threads,
           \/ TestForWork(t) \/ Sleep(t) \/ SpuriousWakeup(t)
           \/ TestForClose(t) \/ BlockSignals(t)
    PROVE  IInv'
<1>1. ASSUME TestForWork(t) \/ Sleep(t) \/ SpuriousWakeup(t)
      PROVE  IInv'
  <2>1. /\ thread[t].pc \in Loop
        /\ \E to \in Loop : thread' = [thread EXCEPT ![t].pc = to]
        /\ UNCHANGED <<gActiveWTPs, main, firing, inputs>>
    BY <1>1 DEF TestForWork, Sleep, SpuriousWakeup, Goto, Loop
  <2>s. PICK x \in CWWTPManager :
              /\ SameUse(gWTPs[thread[t].slot], x)
              /\ gWTPs' = [gWTPs EXCEPT ![thread[t].slot] = x]
    <3> DEFINE w == gWTPs[thread[t].slot]
    <3>1. CASE TestForWork(t)
      <4> DEFINE l == ~HasWork(thread[t].slot)
      <4>1. /\ l \in BOOLEAN
            /\ gWTPs' = [gWTPs EXCEPT ![thread[t].slot] =
                                         [w EXCEPT !.locked = l]]
        BY <3>1, ThreadFacts DEF TestForWork
      <4> QED BY <4>1, ThreadFacts, LockingKeeps
    <3>2. CASE Sleep(t)
      <4>1. gWTPs' = [gWTPs EXCEPT ![thread[t].slot] =
                                     [w EXCEPT !.locked = FALSE]]
        BY <3>2, ThreadFacts DEF Sleep
      <4> QED BY <4>1, ThreadFacts, LockingKeeps
    <3>3. CASE SpuriousWakeup(t)
      <4>1. gWTPs' = [gWTPs EXCEPT ![thread[t].slot] = w]
        BY <3>3, ThreadFacts DEF SpuriousWakeup
      <4> QED BY <4>1, ThreadFacts DEF SameUse
    <3> QED BY <1>1, <3>1, <3>2, <3>3
  <2>2. PICK to \in Loop : thread' = [thread EXCEPT ![t].pc = to]
    BY <2>1
  <2> DEFINE y == [thread[t] EXCEPT !.pc = to]
  <2>3. /\ y \in Thread /\ y.slot = thread[t].slot /\ y.pc = to
        /\ y.armed = thread[t].armed /\ y.pending = thread[t].pending
        /\ thread' = [thread EXCEPT ![t] = y]
    BY <2>2, ThreadFacts DEF Thread, Loop
  <2> HIDE DEF y
  <2> QED BY <2>1, <2>s, <2>3, LoopStepInv
<1>2. ASSUME TestForClose(t) \/ BlockSignals(t)
      PROVE  IInv'
  <2>1. /\ thread[t].pc \in Loop
        /\ \E to \in Loop \cup {"close"} : \E b \in BOOLEAN :
              thread' = [thread EXCEPT ![t].pc = to, ![t].blocked = b]
        /\ UNCHANGED <<gWTPs, gActiveWTPs, main, firing, inputs>>
    BY <1>2, ThreadFacts DEF TestForClose, BlockSignals, Loop, Thread
  <2>2. PICK to \in Loop \cup {"close"}, b \in BOOLEAN :
              thread' = [thread EXCEPT ![t].pc = to, ![t].blocked = b]
    BY <2>1
  <2> DEFINE y == [thread[t] EXCEPT !.pc = to, !.blocked = b]
  <2>3. /\ y \in Thread /\ y.slot = thread[t].slot /\ y.pc = to
        /\ y.armed = thread[t].armed /\ y.pending = thread[t].pending
        /\ thread' = [thread EXCEPT ![t] = y]
    BY <2>2, ThreadFacts DEF Thread, Loop
  <2> HIDE DEF y
  <2>4. /\ gWTPs' = [gWTPs EXCEPT ![thread[t].slot] = gWTPs[thread[t].slot]]
        /\ SameUse(gWTPs[thread[t].slot], gWTPs[thread[t].slot])
    BY <2>1, ThreadFacts DEF SameUse
  <2> QED BY <2>1, <2>2, <2>3, <2>4, ThreadFacts, LoopStepInv
<1> QED BY <1>1, <1>2

\* A command is taken out of the slot.
LEMMA HandleCommandInv ==
    ASSUME IInv, NEW t \in Threads, HandleCommand(t) PROVE IInv'
<1> DEFINE x == [gWTPs[thread[t].slot] EXCEPT !.interfaceCommand = FALSE]
           y == [thread[t] EXCEPT !.pc = "loop", !.blocked = FALSE]
<1>1. gWTPs' = [gWTPs EXCEPT ![thread[t].slot] = x]
  BY ThreadFacts DEF HandleCommand
<1>2. /\ x \in CWWTPManager
      /\ x.isNotFree = gWTPs[thread[t].slot].isNotFree
      /\ x.address = gWTPs[thread[t].slot].address
      /\ x.listValid = gWTPs[thread[t].slot].listValid
      /\ x.packets = gWTPs[thread[t].slot].packets
      /\ x.currentState = gWTPs[thread[t].slot].currentState
      /\ x.isRequestClose = gWTPs[thread[t].slot].isRequestClose
  BY ThreadFacts DEF CWWTPManager
<1>3. /\ y \in Thread /\ y.slot = thread[t].slot /\ y.pc = "loop"
      /\ y.armed = thread[t].armed /\ y.pending = thread[t].pending
  BY ThreadFacts DEF Thread
<1>4. thread' = [thread EXCEPT ![t] = y]
  BY DEF HandleCommand, Ready
<1> HIDE DEF x, y
<1>5. SessionStep(t, x, y)
  BY <1>1, <1>2, <1>3, <1>4, ThreadFacts, OwnGuard
     DEF HandleCommand, SessionStep, Working, Loop, Counted
<1> QED BY <1>5, SessionStepInv

\* A packet is handled: what every branch of the state handlers does.
LEMMA HandleInv ==
    ASSUME IInv, NEW t \in Threads, thread[t].pc = "busy",
           gWTPs[thread[t].slot].packets # <<>>,
           NEW s, NEW slot \in CWWTPManager, NEW y \in Thread,
           Handle(t, s, slot, y),
           slot.isNotFree = gWTPs[thread[t].slot].isNotFree,
           slot.address = gWTPs[thread[t].slot].address,
           slot.listValid = gWTPs[thread[t].slot].listValid,
           slot.packets = gWTPs[thread[t].slot].packets,
           y.slot = thread[t].slot,
           y.pc \in {"loop", "close"} \/ (y.pc = "exited" /\ Failures),
           y.pc = "loop" /\ slot.currentState = "join" =>
               /\ gWTPs[thread[t].slot].currentState = "join"
               /\ y.armed = thread[t].armed
               /\ y.pending = thread[t].pending
               /\ slot.isRequestClose = gWTPs[thread[t].slot].isRequestClose
    PROVE  IInv'
<1>0. slot.reinit \in {"clean", "taken", "torn"}
  BY DEF CWWTPManager
<1>r. PICK r \in {"clean", "taken", "torn"} :
        gWTPs' = [gWTPs EXCEPT ![thread[t].slot] =
                     [slot EXCEPT !.packets = Tail(@), !.reinit = r]]
  BY <1>0 DEF Handle
<1> DEFINE own == gWTPs[thread[t].slot]
           x == [slot EXCEPT !.packets = Tail(@), !.reinit = r]
<1>1. gWTPs' = [gWTPs EXCEPT ![thread[t].slot] = x]
  BY <1>r
<1>2. own.packets \in Seq(Packet)
  BY ThreadFacts DEF CWWTPManager
<1>3. Tail(own.packets) \in Seq(Packet)
  BY <1>2, TailOfPackets
<1>4. /\ x \in CWWTPManager
      /\ x.isNotFree = own.isNotFree
      /\ x.address = own.address
      /\ x.listValid = own.listValid
      /\ x.packets = Tail(own.packets)
      /\ x.currentState = slot.currentState
      /\ x.isRequestClose = slot.isRequestClose
  BY <1>3 DEF CWWTPManager
<1> HIDE DEF x
<1>5. SessionStep(t, x, y)
  BY <1>1, <1>4, ThreadFacts, OwnGuard
     DEF Handle, SessionStep, Working, Loop, Counted
<1> QED BY <1>5, SessionStepInv

\* What the state handlers leave of the thread.
LEMMA AfterMessage ==
    ASSUME IInv, NEW t \in Threads
    PROVE  /\ [thread[t] EXCEPT !.pc = "loop"] \in Thread
           /\ \A b \in BOOLEAN :
                /\ [Ready(t) EXCEPT !.armed = b] \in Thread
                /\ [Ready(t) EXCEPT !.armed = b].pc = "loop"
                /\ [Ready(t) EXCEPT !.armed = b].slot = thread[t].slot
                /\ [Closing(t) EXCEPT !.armed = b] \in Thread
                /\ [Closing(t) EXCEPT !.armed = b].pc = "close"
                /\ [Closing(t) EXCEPT !.armed = b].slot = thread[t].slot
                /\ [Exiting(t) EXCEPT !.armed = b] \in Thread
                /\ [Exiting(t) EXCEPT !.armed = b].pc = "exited"
                /\ [Exiting(t) EXCEPT !.armed = b].slot = thread[t].slot
           /\ Ready(t) \in Thread /\ Ready(t).pc = "loop"
           /\ Ready(t).slot = thread[t].slot
           /\ Ready(t).armed = thread[t].armed
           /\ Ready(t).pending = thread[t].pending
           /\ Closing(t) \in Thread /\ Closing(t).pc = "close"
           /\ Closing(t).slot = thread[t].slot
           /\ Exiting(t) \in Thread /\ Exiting(t).pc = "exited"
           /\ Exiting(t).slot = thread[t].slot
BY ThreadFacts DEF Thread, Ready, Closing, Exiting

\* A packet that changes nothing in the slot.
LEMMA RejectInv ==
    ASSUME IInv, NEW t \in Threads, thread[t].pc = "busy",
           gWTPs[thread[t].slot].packets # <<>>,
           NEW s, Reject(t, s)
    PROVE  IInv'
<1>1. ASSUME NEW y \in {Ready(t), Closing(t)}, Handle(t, s, Mine(t), y)
      PROVE  IInv'
  BY <1>1, AfterMessage, ThreadFacts, HandleInv DEF Mine
<1>2. ASSUME Failures, Handle(t, s, Mine(t), Exiting(t)) PROVE IInv'
  BY <1>2, AfterMessage, ThreadFacts, HandleInv DEF Mine
<1> QED BY <1>1, <1>2 DEF Reject

\* A fragment of a message: the rest is waited for, or the session is closed.
LEMMA NeedFragmentInv ==
    ASSUME IInv, NEW t \in Threads, thread[t].pc = "busy",
           gWTPs[thread[t].slot].packets # <<>>, NeedFragment(t)
    PROVE  IInv'
<1> DEFINE y == [thread[t] EXCEPT !.pc = "loop"]
<1>1. /\ y \in Thread /\ y.pc = "loop" /\ y.slot = thread[t].slot
      /\ y.armed = thread[t].armed /\ y.pending = thread[t].pending
  BY ThreadFacts DEF Thread
<1>2. ASSUME NEW s, Handle(t, s, Mine(t), y) PROVE IInv'
  <2> HIDE DEF y
  <2> QED BY <1>1, <1>2, ThreadFacts, HandleInv DEF Mine
<1>3. ASSUME NEW s, Failures, Handle(t, s, Mine(t), Exiting(t)) PROVE IInv'
  BY <1>3, AfterMessage, ThreadFacts, HandleInv DEF Mine
<1> QED BY <1>2, <1>3 DEF NeedFragment

\* An error that is not of the last call ends the program.
LEMMA NoErrorPendingInv ==
    ASSUME IInv, NEW t \in Threads, thread[t].pc = "busy", NoErrorPending(t)
    PROVE  IInv'
<1>1. SessionStep(t, gWTPs[thread[t].slot], thread[t])
  BY ThreadFacts, OwnGuard
     DEF NoErrorPending, SessionStep, Working, Loop, Counted
<1> QED BY <1>1, SessionStepInv

\* An append and a removal at the same time may end the program.
LEMMA BrokenListInv ==
    ASSUME IInv, NEW t \in Threads, thread[t].pc = "busy", BrokenList(t)
    PROVE  IInv'
<1>1. SessionStep(t, gWTPs[thread[t].slot], thread[t])
  BY ThreadFacts, OwnGuard
     DEF BrokenList, SessionStep, Working, Loop, Counted
<1> QED BY <1>1, SessionStepInv

\* The Join Request: refused, or the session gets its id.
LEMMA ACEnterJoinInv ==
    ASSUME IInv, NEW t \in Threads, thread[t].pc = "busy",
           gWTPs[thread[t].slot].packets # <<>>, ACEnterJoin(t)
    PROVE  IInv'
<1> DEFINE own == gWTPs[thread[t].slot]
           named == [own EXCEPT !.sessionID = First(t).wtp]
           joined == [own EXCEPT !.sessionID = First(t).wtp,
                                 !.currentState = "configure"]
<1>1. First(t).wtp \in WTPs
  <2>1. own.packets \in Seq(Packet)
    BY ThreadFacts DEF CWWTPManager
  <2>2. Head(own.packets) \in Packet
    BY <2>1, HeadTailProperties
  <2> QED BY <2>2 DEF First, Mine, Packet
<1>2. /\ joined \in CWWTPManager /\ joined.currentState = "configure"
      /\ joined.isNotFree = own.isNotFree /\ joined.address = own.address
      /\ joined.listValid = own.listValid /\ joined.packets = own.packets
      /\ named \in CWWTPManager
      /\ named.isNotFree = own.isNotFree /\ named.address = own.address
      /\ named.listValid = own.listValid /\ named.packets = own.packets
  BY <1>1, ThreadFacts DEF CWWTPManager
<1>3. ASSUME Handle(t, "join", joined, [Ready(t) EXCEPT !.armed = FALSE])
      PROVE  IInv'
  <2> HIDE DEF joined, named
  <2> QED BY <1>2, <1>3, AfterMessage, HandleInv
<1>4. ASSUME NEW thr \in {Closing(t), Exiting(t)}, Failures,
             Handle(t, "join", named, [thr EXCEPT !.armed = FALSE])
      PROVE  IInv'
  <2> HIDE DEF joined, named
  <2>1. CASE thr = Closing(t)
    BY <1>2, <1>4, <2>1, AfterMessage, HandleInv
  <2>2. CASE thr = Exiting(t)
    BY <1>2, <1>4, <2>2, AfterMessage, HandleInv
  <2> QED BY <2>1, <2>2
<1> QED BY <1>3, <1>4, RejectInv DEF ACEnterJoin, Mine

\* The Configuration Status Request.
LEMMA ACEnterConfigureInv ==
    ASSUME IInv, NEW t \in Threads, thread[t].pc = "busy",
           gWTPs[thread[t].slot].packets # <<>>, ACEnterConfigure(t)
    PROVE  IInv'
<1> DEFINE own == gWTPs[thread[t].slot]
           x == [own EXCEPT !.currentState = "data_check"]
<1>1. /\ x \in CWWTPManager /\ x.currentState = "data_check"
      /\ x.isNotFree = own.isNotFree /\ x.address = own.address
      /\ x.listValid = own.listValid /\ x.packets = own.packets
  BY ThreadFacts DEF CWWTPManager
<1>2. ASSUME Handle(t, "configure", x, [Ready(t) EXCEPT !.armed = TRUE])
      PROVE  IInv'
  <2> HIDE DEF x
  <2> QED BY <1>1, <1>2, AfterMessage, HandleInv
<1> QED BY <1>2, RejectInv DEF ACEnterConfigure, Mine

\* The Change State Event Request, which stops the timer.
LEMMA ACEnterDataCheckInv ==
    ASSUME IInv, NEW t \in Threads, thread[t].pc = "busy",
           gWTPs[thread[t].slot].packets # <<>>, ACEnterDataCheck(t)
    PROVE  IInv'
<1> DEFINE own == gWTPs[thread[t].slot]
           x == [own EXCEPT !.currentState = "run"]
<1>1. /\ x \in CWWTPManager /\ x.currentState = "run"
      /\ x.isNotFree = own.isNotFree /\ x.address = own.address
      /\ x.listValid = own.listValid /\ x.packets = own.packets
  BY ThreadFacts DEF CWWTPManager
<1>2. ASSUME Handle(t, "data_check", x, [Ready(t) EXCEPT !.armed = FALSE])
      PROVE  IInv'
  <2> HIDE DEF x
  <2> QED BY <1>1, <1>2, AfterMessage, HandleInv
<1>3. ASSUME Handle(t, "data_check", Mine(t), [Ready(t) EXCEPT !.armed = FALSE])
      PROVE  IInv'
  <2>1. own.currentState = "data_check"
    BY <1>3 DEF Handle
  <2> QED BY <1>3, <2>1, AfterMessage, ThreadFacts, HandleInv DEF Mine
<1>4. ASSUME Handle(t, "data_check", Mine(t), [Closing(t) EXCEPT !.armed = FALSE])
      PROVE  IInv'
  BY <1>4, AfterMessage, ThreadFacts, HandleInv DEF Mine
<1>5. ASSUME Failures,
             Handle(t, "data_check", Mine(t), [Exiting(t) EXCEPT !.armed = FALSE])
      PROVE  IInv'
  BY <1>5, AfterMessage, ThreadFacts, HandleInv DEF Mine
<1> QED BY <1>2, <1>3, <1>4, <1>5 DEF ACEnterDataCheck, Mine

\* Messages of the Run state.
LEMMA ACEnterRunInv ==
    ASSUME IInv, NEW t \in Threads, thread[t].pc = "busy",
           gWTPs[thread[t].slot].packets # <<>>, ACEnterRun(t)
    PROVE  IInv'
<1> DEFINE own == gWTPs[thread[t].slot]
<1>1. ASSUME NEW close \in {own.isRequestClose, TRUE},
             Handle(t, "run", [own EXCEPT !.isRequestClose = close],
                    [Ready(t) EXCEPT !.armed = TRUE])
      PROVE  IInv'
  <2> DEFINE x == [own EXCEPT !.isRequestClose = close]
  <2>1. own.currentState = "run"
    BY <1>1 DEF Handle
  <2>2. /\ x \in CWWTPManager /\ x.currentState = "run"
        /\ x.isNotFree = own.isNotFree /\ x.address = own.address
        /\ x.listValid = own.listValid /\ x.packets = own.packets
    BY <2>1, ThreadFacts DEF CWWTPManager
  <2>3. Handle(t, "run", x, [Ready(t) EXCEPT !.armed = TRUE])
    BY <1>1
  <2> HIDE DEF x
  <2> QED BY <2>2, <2>3, AfterMessage, HandleInv
<1>2. ASSUME Handle(t, "run", Mine(t), [Closing(t) EXCEPT !.armed = TRUE])
      PROVE  IInv'
  BY <1>2, AfterMessage, ThreadFacts, HandleInv DEF Mine
<1>3. ASSUME Failures,
             Handle(t, "run", Mine(t), [Exiting(t) EXCEPT !.armed = TRUE])
      PROVE  IInv'
  BY <1>3, AfterMessage, ThreadFacts, HandleInv DEF Mine
<1> QED BY <1>1, <1>2, <1>3, RejectInv DEF ACEnterRun, Mine

\* The first packet of the list, in whatever state the session is.
LEMMA HandlePacketInv ==
    ASSUME IInv, NEW t \in Threads, HandlePacket(t) PROVE IInv'
<1>1. thread[t].pc = "busy" /\ gWTPs[thread[t].slot].packets # <<>>
  BY DEF HandlePacket, HasPackets
<1> QED BY <1>1, NeedFragmentInv, NoErrorPendingInv, BrokenListInv,
           ACEnterJoinInv, ACEnterConfigureInv, ACEnterDataCheckInv,
           ACEnterRunInv
        DEF HandlePacket

\* The list is freed under its slot's only session.
LEMMA DestroyListInv ==
    ASSUME IInv, NEW t \in Threads, DestroyList(t) PROVE IInv'
<1> DEFINE s == thread[t].slot
           x == [gWTPs[s] EXCEPT !.packets = <<>>, !.listValid = FALSE]
           y == [thread[t] EXCEPT !.pc = "free", !.armed = FALSE]
<1>0. Table \subseteq Slots
  BY MaxWTPsAssumption DEF Table, Slots
<1>1. /\ s \in Slots
      /\ gWTPs' = [gWTPs EXCEPT ![s] = x]
      /\ thread' = [thread EXCEPT ![t] = y]
      /\ UNCHANGED <<gActiveWTPs, main, firing, inputs>>
      /\ thread[t].pc = "cleanup"
  BY ThreadFacts DEF DestroyList
<1>2. /\ x \in CWWTPManager /\ x.packets = <<>> /\ x.listValid = FALSE
      /\ x.isNotFree = gWTPs[s].isNotFree
      /\ x.address = gWTPs[s].address
  BY ThreadFacts, EmptySeq DEF CWWTPManager
<1>3. y \in Thread /\ y.pc = "free" /\ y.slot = s
  BY ThreadFacts DEF Thread
<1> HIDE DEF x, y
<1>4. TypeOK'
  BY <1>1, <1>2, <1>3, ThreadFacts DEF IInv, TypeOK
<1>5. \A u \in Threads : Live(u)' <=> Live(u)
  BY <1>1, <1>3, ThreadFacts DEF Live
<1>6. \A u \in Threads : thread'[u].slot = thread[u].slot
  BY <1>1, <1>3, ThreadFacts
<1>7. \A i \in Slots : /\ gWTPs'[i].isNotFree = gWTPs[i].isNotFree
                       /\ gWTPs'[i].address = gWTPs[i].address
  BY <1>1, <1>2, ThreadFacts
<1>8. \A u \in Threads \ {t} :
         /\ thread'[u] = thread[u]
         /\ Live(u) /\ s \in Table => thread[u].slot # s
  BY <1>1, ThreadFacts DEF IInv, SlotInv, SlotExclusive, Live
<1>9. \A i \in Slots \ {s} : gWTPs'[i] = gWTPs[i]
  BY <1>1, ThreadFacts
<1>10. gWTPs'[s] = x /\ thread'[t] = y
  BY <1>1, ThreadFacts
<1>11. SlotExclusive'
  BY <1>0, <1>3, <1>5, <1>6, <1>7, <1>8, <1>9, <1>10
     DEF IInv, SlotInv, SlotExclusive
<1>12. ListPhases'
  BY <1>0, <1>1, <1>2, <1>3, <1>5, <1>6, <1>7, <1>8, <1>9, <1>10
     DEF IInv, SlotInv, ListPhases
<1>13. PacketInHand' /\ SenderKnown' /\ OneSessionPerWTP'
  BY <1>0, <1>1, <1>7
     DEF IInv, SlotInv, PacketInHand, SenderKnown, OneSessionPerWTP, IsData
<1>14. PacketsToOwner'
  <2> SUFFICES ASSUME NEW i \in Table, NEW n \in 1 .. Len(gWTPs'[i].packets),
                      ~IsData(gWTPs'[i].packets[n])
               PROVE  gWTPs'[i].address
                        = [wtp |-> gWTPs'[i].packets[n].wtp, data |-> FALSE]
    BY DEF PacketsToOwner, IsData
  <2>1. CASE i = s
    BY <1>2, <1>10, <2>1
  <2>2. CASE i # s
    BY <1>0, <1>9, <2>2 DEF IInv, SlotInv, PacketsToOwner
  <2> QED BY <2>1, <2>2
<1>15. ~Failures => SlotOwned'
  BY <1>0, <1>1, <1>5, <1>6, <1>7 DEF IInv, SlotInv, SlotOwned
<1>16. JoinGuarded'
  <2> SUFFICES ASSUME NEW u \in Threads, thread'[u].pc \in Loop,
                      thread'[u].slot \in Table,
                      gWTPs'[thread'[u].slot].currentState = "join"
               PROVE  \/ thread'[u].armed \/ thread'[u].pending
                      \/ firing' = u
                      \/ gWTPs'[thread'[u].slot].isRequestClose
    BY DEF JoinGuarded
  <2>1. u # t
    BY <1>3, <1>10 DEF Loop
  <2>2. thread'[u] = thread[u] /\ gWTPs'[thread[u].slot] = gWTPs[thread[u].slot]
    <3>1. Live(u)
      BY <1>8, <2>1 DEF Live, Loop
    <3> QED BY <1>0, <1>8, <1>9, <2>1, <3>1
  <2> QED BY <1>1, <2>2 DEF IInv, JoinGuarded
<1>17. CountBound'
  <2>1. Counted' = Counted
    BY <1>1, <1>3, <1>8, <1>10 DEF Counted, Loop
  <2> QED BY <1>1, <2>1, SameCount DEF IInv
<1> QED BY <1>4, <1>11, <1>12, <1>13, <1>14, <1>15, <1>16, <1>17
        DEF IInv, SlotInv

\* The slot is given back by its only session.
LEMMA FreeSlotInv ==
    ASSUME IInv, NEW t \in Threads, FreeSlot(t) PROVE IInv'
<1> DEFINE s == thread[t].slot
           x == [gWTPs[s] EXCEPT !.isNotFree = FALSE]
           y == [thread[t] EXCEPT !.pc = "done", !.pending = FALSE]
<1>0. Table \subseteq Slots
  BY MaxWTPsAssumption DEF Table, Slots
<1>1. /\ s \in Slots
      /\ gWTPs' = [gWTPs EXCEPT ![s] = x]
      /\ thread' = [thread EXCEPT ![t] = y]
      /\ UNCHANGED <<gActiveWTPs, main, firing, inputs>>
      /\ thread[t].pc = "free"
  BY ThreadFacts DEF FreeSlot
<1>2. /\ x \in CWWTPManager /\ x.isNotFree = FALSE
      /\ x.packets = gWTPs[s].packets /\ x.listValid = gWTPs[s].listValid
      /\ x.address = gWTPs[s].address
      /\ x.currentState = gWTPs[s].currentState
      /\ x.isRequestClose = gWTPs[s].isRequestClose
  BY ThreadFacts DEF CWWTPManager
<1>3. y \in Thread /\ y.pc = "done" /\ y.slot = s
  BY ThreadFacts DEF Thread
<1> HIDE DEF x, y
<1>4. TypeOK'
  BY <1>1, <1>2, <1>3, ThreadFacts DEF IInv, TypeOK
<1>5. ~Live(t)' /\ \A u \in Threads \ {t} : Live(u)' <=> Live(u)
  BY <1>1, <1>3, ThreadFacts DEF Live
<1>6. \A u \in Threads : thread'[u].slot = thread[u].slot
  BY <1>1, <1>3, ThreadFacts
<1>7. \A i \in Slots : /\ gWTPs'[i].packets = gWTPs[i].packets
                       /\ gWTPs'[i].address = gWTPs[i].address
                       /\ gWTPs'[i].listValid = gWTPs[i].listValid
                       /\ gWTPs'[i].currentState = gWTPs[i].currentState
                       /\ gWTPs'[i].isRequestClose = gWTPs[i].isRequestClose
                       /\ i # s => gWTPs'[i].isNotFree = gWTPs[i].isNotFree
                       /\ i = s => gWTPs'[i].isNotFree = FALSE
  BY <1>1, <1>2, ThreadFacts DEF CWWTPManager
<1>8. \A u \in Threads \ {t} :
         /\ thread'[u] = thread[u]
         /\ Live(u) /\ s \in Table => thread[u].slot # s
  BY <1>1, ThreadFacts DEF IInv, SlotInv, SlotExclusive, Live
<1>9. s \in Table => ~gWTPs[s].listValid
  BY <1>1 DEF IInv, SlotInv, ListPhases
<1>10. main.pc = "create" /\ main.slot \in Table => main.slot # s
  BY <1>1 DEF IInv, SlotInv, ListPhases, Live
<1>11. SlotExclusive'
  BY <1>0, <1>5, <1>6, <1>7, <1>8 DEF IInv, SlotInv, SlotExclusive
<1>12. ListPhases'
  BY <1>0, <1>1, <1>5, <1>6, <1>7, <1>8, <1>9, <1>10
     DEF IInv, SlotInv, ListPhases, Live
<1>13. PacketInHand' /\ SenderKnown' /\ OneSessionPerWTP' /\ PacketsToOwner'
  <2>1. PacketInHand' /\ SenderKnown'
    <3>1. PacketInHand'
      BY <1>1 DEF IInv, SlotInv, PacketInHand
    <3>2. /\ main' = main
          /\ \A i \in Table : /\ gWTPs'[i].isNotFree => gWTPs[i].isNotFree
                             /\ gWTPs'[i].address = gWTPs[i].address
      BY <1>0, <1>1, <1>7
    <3> QED BY <3>1, <3>2 DEF IInv, SlotInv, SenderKnown, IsData
  <2>2. OneSessionPerWTP'
    BY <1>0, <1>7 DEF IInv, SlotInv, OneSessionPerWTP
  <2>3. PacketsToOwner'
    BY <1>0, <1>7 DEF IInv, SlotInv, PacketsToOwner, IsData
  <2> QED BY <2>1, <2>2, <2>3
<1>14. ~Failures => SlotOwned'
  BY <1>0, <1>1, <1>5, <1>6, <1>7 DEF IInv, SlotInv, SlotOwned
<1>15. JoinGuarded'
  <2>1. ~(thread'[t].pc \in Loop)
    BY <1>1, <1>3, ThreadFacts DEF Loop
  <2> QED BY <1>0, <1>1, <1>7, <1>8, <2>1 DEF IInv, JoinGuarded
<1>16. CountBound'
  <2>1. Counted' = Counted
    BY <1>1, <1>3, <1>8, ThreadFacts DEF Counted, Loop
  <2> QED BY <1>1, <2>1, SameCount DEF IInv
<1> QED BY <1>4, <1>11, <1>12, <1>13, <1>14, <1>15, <1>16 DEF IInv, SlotInv

\* Every step of a session's thread.
LEMMA CWManageWTPInv ==
    ASSUME IInv, NEW t \in Threads, CWManageWTP(t) \/ SpuriousWakeup(t)
    PROVE  IInv'
BY CountSessionInv, InitSessionInv, LoopInv, HandlePacketInv,
   HandleCommandInv, UncountSessionInv, DestroyListInv, FreeSlotInv
   DEF CWManageWTP

-----------------------------------------------------------------------------
(* Timers and applications.                                                *)

\* What a signal to interfaceWait does to the threads.
LEMMA Signalled ==
    ASSUME NEW th \in [Threads -> Thread], NEW i, NEW th2 \in Signal(i, th)
    PROVE  /\ th2 \in [Threads -> Thread]
           /\ \A u \in Threads :
                 /\ th2[u].slot = th[u].slot
                 /\ th2[u].armed = th[u].armed
                 /\ th2[u].pending = th[u].pending
                 /\ th2[u].pc = th[u].pc
                       \/ (th[u].pc = "asleep" /\ th2[u].pc = "loop")
BY DEF Signal, Thread

\* The interval of a timer ends.
LEMMA ExpireInv == ASSUME IInv, NEW t \in Threads, Expire(t) PROVE IInv'
<1> DEFINE y == [thread[t] EXCEPT !.armed = FALSE]
<1>1. /\ y \in Thread /\ y.slot = thread[t].slot /\ y.pc = thread[t].pc
      /\ thread' = [thread EXCEPT ![t] = y]
  BY ThreadFacts DEF Expire, Thread
<1> HIDE DEF y
<1>2. \A u \in Threads : /\ thread'[u].slot = thread[u].slot
                         /\ thread'[u].pc = thread[u].pc
                         /\ u # t => thread'[u] = thread[u]
  BY <1>1, ThreadFacts
<1>3. TypeOK'
  BY <1>1, ThreadFacts DEF Expire, IInv, TypeOK
<1>4. SlotInv'
  BY <1>2, QuietSlots DEF Expire, IInv, Quiet
<1>5. JoinGuarded'
  BY <1>2 DEF Expire, IInv, TypeOK, JoinGuarded, NoThread, Threads
<1>6. CountBound'
  <2>1. Counted' = Counted
    BY <1>2 DEF Counted
  <2> QED BY <2>1, SameCount DEF Expire, IInv
<1> QED BY <1>3, <1>4, <1>5, <1>6 DEF IInv

\* The handler of a timer signals the thread it belongs to.
LEMMA CWHandleTimerInv == ASSUME IInv, CWHandleTimer PROVE IInv'
<1> DEFINE alive == thread[firing].pc \notin {"done", "exited"}
           y == [thread[firing] EXCEPT !.pending = alive]
<1>0. firing \in Threads
  BY DEF CWHandleTimer, IInv, TypeOK
<1>1. /\ y \in Thread /\ y.slot = thread[firing].slot
      /\ y.pc = thread[firing].pc
      /\ y.pending = alive
      /\ thread' = [thread EXCEPT ![firing] = y]
  BY <1>0, ThreadFacts DEF CWHandleTimer, Thread
<1>2. y.pc \in Loop => y.pending
  BY <1>1 DEF Loop
<1> HIDE DEF y
<1>3. \A u \in Threads : /\ thread'[u].slot = thread[u].slot
                         /\ thread'[u].pc = thread[u].pc
                         /\ u # firing => thread'[u] = thread[u]
  BY <1>0, <1>1, ThreadFacts
<1>4. TypeOK'
  BY <1>0, <1>1, ThreadFacts DEF CWHandleTimer, IInv, TypeOK
<1>5. SlotInv'
  BY <1>3, QuietSlots DEF CWHandleTimer, IInv, Quiet
<1>6. JoinGuarded'
  BY <1>0, <1>1, <1>2, <1>3, ThreadFacts DEF CWHandleTimer, IInv, JoinGuarded
<1>7. CountBound'
  <2>1. Counted' = Counted
    BY <1>3 DEF Counted
  <2> QED BY <2>1, SameCount DEF CWHandleTimer, IInv
<1> QED BY <1>4, <1>5, <1>6, <1>7 DEF IInv

\* The critical timer requests that the session be closed.
LEMMA CWCriticalTimerExpiredHandlerInv ==
    ASSUME IInv, NEW t \in Threads, CWCriticalTimerExpiredHandler(t)
    PROVE  IInv'
<1> DEFINE s == thread[t].slot
           x == [gWTPs[s] EXCEPT !.isRequestClose = TRUE]
           th == [thread EXCEPT ![t].pending = FALSE]
<1>0. Table \subseteq Slots
  BY MaxWTPsAssumption DEF Table, Slots
<1>1. /\ s \in Slots /\ gWTPs' = [gWTPs EXCEPT ![s] = x]
      /\ x \in CWWTPManager /\ x.isRequestClose = TRUE
      /\ x.isNotFree = gWTPs[s].isNotFree /\ x.address = gWTPs[s].address
      /\ x.listValid = gWTPs[s].listValid /\ x.packets = gWTPs[s].packets
  BY ThreadFacts DEF CWCriticalTimerExpiredHandler, CWWTPManager
<1>2. /\ th \in [Threads -> Thread]
      /\ thread' \in Signal(s, th)
      /\ \A u \in Threads : /\ th[u].slot = thread[u].slot
                            /\ th[u].pc = thread[u].pc
                            /\ th[u].armed = thread[u].armed
                            /\ u # t => th[u].pending = thread[u].pending
  BY ThreadFacts DEF CWCriticalTimerExpiredHandler, Thread
<1> HIDE DEF x, th
<1>3. /\ thread' \in [Threads -> Thread]
      /\ \A u \in Threads :
            /\ thread'[u].slot = thread[u].slot
            /\ thread'[u].armed = thread[u].armed
            /\ u # t => thread'[u].pending = thread[u].pending
            /\ thread'[u].pc = thread[u].pc
                  \/ (thread[u].pc = "asleep" /\ thread'[u].pc = "loop")
  BY <1>2, Signalled
<1>4. TypeOK'
  BY <1>1, <1>3, ThreadFacts DEF CWCriticalTimerExpiredHandler, IInv, TypeOK
<1>5. SlotInv'
  <2>1. Quiet
    BY <1>1, <1>3, ThreadFacts
       DEF CWCriticalTimerExpiredHandler, Quiet, Working, Loop
  <2> QED BY <2>1, QuietSlots DEF IInv
<1>6. JoinGuarded'
  BY <1>0, <1>1, <1>3, ThreadFacts
     DEF CWCriticalTimerExpiredHandler, IInv, JoinGuarded, Loop
<1>7. CountBound'
  <2>1. Counted' = Counted
    BY <1>3 DEF Counted, Loop
  <2> QED BY <2>1, SameCount DEF CWCriticalTimerExpiredHandler, IInv
<1> QED BY <1>4, <1>5, <1>6, <1>7 DEF IInv

\* What the steps of an application write.
LEMMA AppSlot ==
    ASSUME IInv, NEW i \in Table, Application(i)
    PROVE  \E c \in BOOLEAN, l \in BOOLEAN,
              k \in {"none", "posting", "waiting", "leaving"} :
             gWTPs' = [gWTPs EXCEPT ![i] =
                          [gWTPs[i] EXCEPT !.interfaceCommand = c,
                                           !.locked = l, !.client = k]]
<1> DEFINE w == gWTPs[i]
           X(c, l, k) == [w EXCEPT !.interfaceCommand = c, !.locked = l,
                                   !.client = k]
<1>0. gWTPs \in [Slots -> CWWTPManager] /\ i \in Slots /\ w \in CWWTPManager
  BY MaxWTPsAssumption DEF IInv, TypeOK, Table, Slots
<1>1. w.interfaceCommand \in BOOLEAN
  BY <1>0 DEF CWWTPManager
<1>2. \A l, k : [w EXCEPT !.locked = l, !.client = k]
                 = X(w.interfaceCommand, l, k)
  BY <1>0 DEF CWWTPManager
<1>3. CASE PostCommand(i)
  <2>1. gWTPs' = [gWTPs EXCEPT ![i] = X(w.interfaceCommand, TRUE, "posting")]
    BY <1>0, <1>2, <1>3 DEF PostCommand
  <2> QED BY <1>1, <2>1
<1>4. CASE WaitComplete(i)
  <2>1. gWTPs' = [gWTPs EXCEPT ![i] = X(TRUE, FALSE, "waiting")]
    BY <1>0, <1>4 DEF WaitComplete
  <2> QED BY <2>1
<1>5. CASE CommandComplete(i)
  <2>1. gWTPs' = [gWTPs EXCEPT ![i] = X(w.interfaceCommand, TRUE, "leaving")]
    BY <1>0, <1>2, <1>5 DEF CommandComplete
  <2> QED BY <1>1, <2>1
<1>6. CASE LeaveCommand(i)
  <2>1. gWTPs' = [gWTPs EXCEPT ![i] = X(w.interfaceCommand, FALSE, "none")]
    BY <1>0, <1>2, <1>6 DEF LeaveCommand
  <2> QED BY <1>1, <2>1
<1> QED BY <1>3, <1>4, <1>5, <1>6 DEF Application

\* An application takes or releases the mutex of a slot and leaves a command.
LEMMA ApplicationInv ==
    ASSUME IInv, NEW i \in Table, Application(i) PROVE IInv'
<1>0. Table \subseteq Slots
  BY MaxWTPsAssumption DEF Table, Slots
<1>1. gWTPs \in [Slots -> CWWTPManager] /\ thread \in [Threads -> Thread]
  BY DEF IInv, TypeOK
<1>2. PICK c \in BOOLEAN, l \in BOOLEAN,
           k \in {"none", "posting", "waiting", "leaving"} :
        gWTPs' = [gWTPs EXCEPT ![i] =
                     [gWTPs[i] EXCEPT !.interfaceCommand = c,
                                      !.locked = l, !.client = k]]
  BY <1>0, <1>1, AppSlot
<1> DEFINE x == [gWTPs[i] EXCEPT !.interfaceCommand = c, !.locked = l,
                                 !.client = k]
<1>3. x \in CWWTPManager /\ SameUse(gWTPs[i], x)
  <2>1. gWTPs[i] \in CWWTPManager
    BY <1>0, <1>1
  <2> QED BY <2>1 DEF CWWTPManager, SameUse
<1>4. gWTPs' = [gWTPs EXCEPT ![i] = x]
  BY <1>2
<1> HIDE DEF x
<1>5. /\ thread' = thread \/ thread' \in Signal(i, thread)
      /\ inputs' \in 0 .. MaxInputs
      /\ UNCHANGED <<gActiveWTPs, main, firing>>
  BY BoundsAssumption
     DEF Application, PostCommand, WaitComplete, CommandComplete,
         LeaveCommand, IInv, TypeOK
<1>6. /\ thread' \in [Threads -> Thread]
      /\ \A u \in Threads :
            /\ thread'[u].slot = thread[u].slot
            /\ thread'[u].armed = thread[u].armed
            /\ thread'[u].pending = thread[u].pending
            /\ thread'[u].pc = thread[u].pc
                  \/ (thread[u].pc = "asleep" /\ thread'[u].pc = "loop")
  BY <1>1, <1>5, Signalled
<1>7. TypeOK'
  <2>1. gWTPs' \in [Slots -> CWWTPManager]
    BY <1>0, <1>1, <1>3, <1>4
  <2> QED BY <1>5, <1>6, <2>1 DEF IInv, TypeOK
<1>8. SlotInv'
  <2>1. Quiet
    BY <1>0, <1>1, <1>3, <1>4, <1>5, <1>6 DEF Quiet, SameUse, Working, Loop
  <2> QED BY <2>1, QuietSlots DEF IInv
<1>9. JoinGuarded'
  <2>1. \A j \in Table : /\ gWTPs'[j].currentState = gWTPs[j].currentState
                         /\ gWTPs'[j].isRequestClose = gWTPs[j].isRequestClose
    BY <1>0, <1>1, <1>3, <1>4 DEF SameUse
  <2> QED BY <1>5, <1>6, <2>1 DEF IInv, JoinGuarded, Loop
<1>10. CountBound'
  <2>1. Counted' = Counted
    BY <1>6 DEF Counted, Loop
  <2> QED BY <1>5, <2>1, SameCount DEF IInv
<1> QED BY <1>7, <1>8, <1>9, <1>10 DEF IInv

-----------------------------------------------------------------------------
(* The main thread.                                                        *)

\* When CWWTPByAddress finds no slot, no slot of the table serves the sender.
LEMMA FirstServing ==
    ASSUME NEW p, \A i \in Table : ~CWWTPByAddress(i, p)
    PROVE  \A i \in Table : ~Serves(i, p)
<1> DEFINE T == {i \in Table : Serves(i, p)}
           R == OpToRel(<, Nat)
<1>1. T \subseteq Nat
  BY MaxWTPsAssumption DEF Table
<1>2. SUFFICES ASSUME T # {} PROVE FALSE
  OBVIOUS
<1>3. IsWellFoundedOn(R, Nat)
  BY NatLessThanWellFounded
<1>4. \E x \in T : \A y \in T : ~(<<y, x>> \in R)
  <2> HIDE DEF T, R
  <2> QED BY <1>1, <1>2, <1>3, WFMin
<1>5. PICK x \in T : \A y \in T : ~(<<y, x>> \in R)
  BY <1>4
<1>6. \A y \in T : ~(y < x)
  BY <1>1, <1>5 DEF OpToRel
<1>7. \A j \in 0 .. x - 1 : ~Serves(j, p)
  BY <1>1, <1>6, MaxWTPsAssumption DEF Table
<1> QED BY <1>7 DEF CWWTPByAddress

\* A step of the main thread that leaves the threads, the lists and the
\* occupation of the slots alone.
LEMMA LookupInv ==
    ASSUME IInv, thread' = thread, firing' = firing,
           gActiveWTPs' = gActiveWTPs, inputs' \in 0 .. MaxInputs,
           gWTPs' \in [Slots -> CWWTPManager],
           \A i \in Slots :
              /\ gWTPs'[i].isNotFree = gWTPs[i].isNotFree
              /\ gWTPs'[i].address = gWTPs[i].address
              /\ gWTPs'[i].listValid = gWTPs[i].listValid
              /\ gWTPs'[i].packets = gWTPs[i].packets
              /\ gWTPs'[i].currentState = gWTPs[i].currentState
              /\ gWTPs'[i].isRequestClose = gWTPs[i].isRequestClose,
           main' \in Main, main'.pc # "create",
           main.pc \notin {"create", "crashed"},
           PacketInHand', SenderKnown'
    PROVE  IInv'
<1>0. Table \subseteq Slots
  BY MaxWTPsAssumption DEF Table, Slots
<1>1. TypeOK'
  BY DEF IInv, TypeOK
<1>2. CountBound'
  <2>1. Counted' = Counted
    BY DEF Counted
  <2> QED BY <2>1, SameCount DEF IInv
<1>3. SlotExclusive' /\ ListPhases'
  BY <1>0 DEF IInv, SlotInv, SlotExclusive, ListPhases, Live
<1>4. OneSessionPerWTP'
  BY <1>0 DEF IInv, SlotInv, OneSessionPerWTP
<1>5. PacketsToOwner'
  BY <1>0 DEF IInv, SlotInv, PacketsToOwner, IsData
<1>6. ~Failures => SlotOwned'
  BY <1>0 DEF IInv, SlotInv, SlotOwned, Live
<1>7. JoinGuarded'
  BY <1>0 DEF IInv, JoinGuarded
<1> QED BY <1>1, <1>2, <1>3, <1>4, <1>5, <1>6, <1>7 DEF IInv, SlotInv

UseKept == /\ gWTPs' \in [Slots -> CWWTPManager]
           /\ \A i \in Slots : SameUse(gWTPs[i], gWTPs'[i])

\* Taking or releasing the mutex of a slot keeps the use of the slots.
LEMMA LockSlot ==
    ASSUME gWTPs \in [Slots -> CWWTPManager],
           NEW s \in Slots, NEW l \in BOOLEAN,
           gWTPs' = [gWTPs EXCEPT ![s].locked = l]
    PROVE  UseKept
<1> DEFINE x == [gWTPs[s] EXCEPT !.locked = l]
<1>1. x \in CWWTPManager /\ SameUse(gWTPs[s], x)
  BY LockingKeeps
<1>2. gWTPs' = [gWTPs EXCEPT ![s] = x]
  OBVIOUS
<1> HIDE DEF x
<1>3. /\ gWTPs' \in [Slots -> CWWTPManager] /\ gWTPs'[s] = x
      /\ \A i \in Slots \ {s} : gWTPs'[i] = gWTPs[i]
  BY <1>1, <1>2
<1>4. \A i \in Slots \ {s} : SameUse(gWTPs[i], gWTPs'[i])
  BY <1>3 DEF SameUse
<1> QED BY <1>1, <1>3, <1>4 DEF UseKept

\* The main thread reads a packet and looks for its sender in the table.
LEMMA ReceiveInv ==
    ASSUME IInv, NEW p \in Packet, Receive(p) PROVE IInv'
<1>0. /\ Table \subseteq Slots
      /\ gWTPs \in [Slots -> CWWTPManager] /\ main \in Main
      /\ main.pc = "recv"
      /\ inputs' \in 0 .. MaxInputs
      /\ UNCHANGED <<gActiveWTPs, thread, firing>>
  BY MaxWTPsAssumption, BoundsAssumption
     DEF Table, Slots, Receive, IInv, TypeOK
<1>1. CASE main' = [main EXCEPT !.pc = "crashed"] /\ UNCHANGED gWTPs
  <2>1. main' \in Main /\ main'.pc = "crashed"
    BY <1>0, <1>1 DEF Main
  <2>2. PacketInHand' /\ SenderKnown'
    BY <2>1 DEF PacketInHand, SenderKnown
  <2> QED BY <1>0, <1>1, <2>1, <2>2, LookupInv
<1>2. ASSUME NEW i \in Table, CWWTPByAddress(i, p),
             gWTPs' = IF IsData(p) /\ gWTPs[i].dataaddress = Nobody
                      THEN [gWTPs EXCEPT ![i].dataaddress = p.wtp]
                      ELSE gWTPs,
             main' = [pc |-> "append", packet |-> p, slot |-> i]
      PROVE  IInv'
  <2> DEFINE x == [gWTPs[i] EXCEPT !.dataaddress = p.wtp]
  <2>1. /\ x \in CWWTPManager
        /\ x.isNotFree = gWTPs[i].isNotFree
        /\ x.address = gWTPs[i].address
        /\ x.listValid = gWTPs[i].listValid
        /\ x.packets = gWTPs[i].packets
        /\ x.currentState = gWTPs[i].currentState
        /\ x.isRequestClose = gWTPs[i].isRequestClose
    <3>1. p.wtp \in WTPs
      BY DEF Packet
    <3>2. gWTPs[i] \in CWWTPManager
      BY <1>0
    <3> QED BY <3>1, <3>2 DEF CWWTPManager
  <2>2. gWTPs' = [gWTPs EXCEPT ![i] = x] \/ gWTPs' = gWTPs
    BY <1>0, <1>2
  <2> HIDE DEF x
  <2>3. /\ gWTPs' \in [Slots -> CWWTPManager]
        /\ \A j \in Slots :
              /\ gWTPs'[j].isNotFree = gWTPs[j].isNotFree
              /\ gWTPs'[j].address = gWTPs[j].address
              /\ gWTPs'[j].listValid = gWTPs[j].listValid
              /\ gWTPs'[j].packets = gWTPs[j].packets
              /\ gWTPs'[j].currentState = gWTPs[j].currentState
              /\ gWTPs'[j].isRequestClose = gWTPs[j].isRequestClose
    BY <1>0, <2>1, <2>2
  <2>4. /\ main' \in Main /\ main'.pc = "append"
        /\ main'.packet = p /\ main'.slot = i
    BY <1>0, <1>2 DEF Main
  <2>5. PacketInHand'
    BY <2>4 DEF PacketInHand
  <2>6. SenderKnown'
    <3>1. ~IsData(p) => gWTPs[i].address = [wtp |-> p.wtp, data |-> FALSE]
      BY <1>2 DEF CWWTPByAddress, Serves, IsData
    <3> QED BY <1>0, <2>3, <2>4, <3>1 DEF SenderKnown, IsData
  <2> QED BY <1>0, <2>3, <2>4, <2>5, <2>6, LookupInv
<1>3. CASE /\ \A i \in Table : ~CWWTPByAddress(i, p)
           /\ main' = [pc |-> "test", packet |-> p, slot |-> 0]
           /\ UNCHANGED gWTPs
  <2>1. /\ main' \in Main /\ main'.pc = "test" /\ main'.packet = p
    BY <1>3, MaxWTPsAssumption DEF Main, Slots
  <2>2. PacketInHand'
    BY <2>1 DEF PacketInHand
  <2>3. SenderKnown'
    BY <1>3, <2>1, FirstServing DEF SenderKnown, Serves, IsData
  <2> QED BY <1>0, <1>3, <2>1, <2>2, <2>3, LookupInv
<1> QED BY <1>1, <1>2, <1>3 DEF Receive

\* The main thread compares gActiveWTPs with the limit.
LEMMA CheckActiveWTPsInv == ASSUME IInv, CheckActiveWTPs PROVE IInv'
<1>0. /\ Table \subseteq Slots
      /\ gWTPs \in [Slots -> CWWTPManager] /\ main \in Main
      /\ main.pc = "test"
      /\ inputs' \in 0 .. MaxInputs
      /\ UNCHANGED <<gWTPs, gActiveWTPs, thread, firing>>
  BY MaxWTPsAssumption DEF Table, Slots, CheckActiveWTPs, IInv, TypeOK
<1>1. CASE main' = Reading
  <2>1. main' \in Main /\ main'.pc = "recv"
    BY <1>1, MaxWTPsAssumption DEF Reading, Main, Slots
  <2>2. PacketInHand' /\ SenderKnown'
    BY <2>1 DEF PacketInHand, SenderKnown
  <2> QED BY <1>0, <2>1, <2>2, LookupInv
<1>2. CASE \E to \in {"alloc", "crashed"} : main' = [main EXCEPT !.pc = to]
  <2>1. /\ main' \in Main /\ main'.pc \in {"alloc", "crashed"}
        /\ main'.packet = main.packet
    BY <1>0, <1>2 DEF Main
  <2>2. PacketInHand' /\ SenderKnown'
    BY <1>0, <2>1 DEF IInv, SlotInv, PacketInHand, SenderKnown, IsData
  <2> QED BY <1>0, <2>1, <2>2, LookupInv
<1> QED BY <1>1, <1>2 DEF CheckActiveWTPs

\* The slot that is taken is free or one past the table.
LEMMA TakeSlotInv == ASSUME IInv, TakeSlot PROVE IInv'
<1> DEFINE sender == [wtp |-> main.packet.wtp, data |-> IsData(main.packet)]
           X(i) == [gWTPs[i] EXCEPT !.isNotFree = TRUE,
                        !.isRequestClose = FALSE, !.address = sender,
                        !.dataaddress = Nobody]
<1>0. /\ Table \subseteq Slots
      /\ gWTPs \in [Slots -> CWWTPManager] /\ main \in Main
      /\ main.pc = "alloc"
      /\ main.packet \in Packet
      /\ UNCHANGED <<gActiveWTPs, thread, firing, inputs>>
  BY MaxWTPsAssumption
     DEF Table, Slots, TakeSlot, IInv, TypeOK, SlotInv, PacketInHand
<1>1. PICK i \in Slots :
        /\ FirstFree(i)
        /\ gWTPs' = [gWTPs EXCEPT ![i] = X(i)]
        /\ main' = [main EXCEPT !.pc = "create", !.slot = i]
  BY <1>0 DEF TakeSlot
<1> DEFINE x == X(i)
<1>2. i \in Table => ~gWTPs[i].isNotFree
  BY <1>1, MaxWTPsAssumption DEF FirstFree, Table
<1>3. /\ sender \in Address
      /\ ~IsData(main.packet) =>
            sender = [wtp |-> main.packet.wtp, data |-> FALSE]
      /\ ~sender.data => ~IsData(main.packet)
  <2>1. main.packet.wtp \in WTPs
    BY <1>0 DEF Packet
  <2>2. IsData(main.packet) \in BOOLEAN
    BY DEF IsData
  <2>3. sender \in Address /\ sender.data = IsData(main.packet)
    BY <2>1, <2>2 DEF Address
  <2> QED BY <2>2, <2>3
<1> HIDE DEF sender
<1>4. /\ x \in CWWTPManager /\ x.isNotFree = TRUE /\ x.address = sender
      /\ x.listValid = gWTPs[i].listValid /\ x.packets = gWTPs[i].packets
  <2>1. gWTPs[i] \in CWWTPManager
    BY <1>0
  <2> QED BY <1>3, <2>1 DEF CWWTPManager
<1>5. gWTPs' = [gWTPs EXCEPT ![i] = x]
  BY <1>1
<1> HIDE DEF x, X
<1>6. /\ gWTPs' \in [Slots -> CWWTPManager] /\ gWTPs'[i] = x
      /\ \A j \in Slots \ {i} : gWTPs'[j] = gWTPs[j]
  BY <1>0, <1>4, <1>5
<1>7. /\ main' \in Main /\ main'.pc = "create"
      /\ main'.slot = i /\ main'.packet = main.packet
  BY <1>0, <1>1 DEF Main
<1>8. i \in Table =>
        /\ \A t \in Threads : Live(t) => thread[t].slot # i
        /\ ~gWTPs[i].listValid /\ gWTPs[i].packets = <<>>
  BY <1>0, <1>2 DEF IInv, SlotInv, SlotExclusive, ListPhases
<1>9. TypeOK'
  BY <1>0, <1>6, <1>7 DEF IInv, TypeOK
<1>10. CountBound'
  <2>1. Counted' = Counted
    BY <1>0 DEF Counted
  <2> QED BY <1>0, <2>1, SameCount DEF IInv
<1>11. SlotExclusive'
  BY <1>0, <1>6, <1>8 DEF IInv, SlotInv, SlotExclusive, Live
<1>12. ListPhases'
  BY <1>0, <1>4, <1>6, <1>7, <1>8 DEF IInv, SlotInv, ListPhases, Live
<1>13. PacketInHand'
  BY <1>0, <1>7 DEF PacketInHand
<1>14. SenderKnown'
  BY <1>3, <1>4, <1>6, <1>7 DEF SenderKnown, IsData
<1>15. OneSessionPerWTP'
  <2>1. ~sender.data => \A j \in Table : gWTPs[j].isNotFree =>
                           gWTPs[j].address # sender
    BY <1>0, <1>3 DEF IInv, SlotInv, SenderKnown
  <2> QED BY <1>0, <1>4, <1>6, <2>1 DEF IInv, SlotInv, OneSessionPerWTP
<1>16. PacketsToOwner'
  <2> SUFFICES ASSUME NEW j \in Table, NEW n \in 1 .. Len(gWTPs'[j].packets),
                      ~IsData(gWTPs'[j].packets[n])
               PROVE  gWTPs'[j].address
                        = [wtp |-> gWTPs'[j].packets[n].wtp, data |-> FALSE]
    BY DEF PacketsToOwner, IsData
  <2>1. CASE j = i
    BY <1>4, <1>6, <1>8, <2>1
  <2>2. CASE j # i
    BY <1>0, <1>6, <2>2 DEF IInv, SlotInv, PacketsToOwner
  <2> QED BY <2>1, <2>2
<1>17. ~Failures => SlotOwned'
  BY <1>0, <1>6, <1>7 DEF IInv, SlotInv, SlotOwned, Live
<1>18. JoinGuarded'
  <2>1. \A t \in Threads : thread[t].pc \in Loop => Live(t)
    BY DEF Loop, Live
  <2> QED BY <1>0, <1>6, <1>8, <2>1 DEF IInv, JoinGuarded
<1> QED BY <1>9, <1>10, <1>11, <1>12, <1>13, <1>14, <1>15, <1>16, <1>17, <1>18
        DEF IInv, SlotInv

\* A new session on the slot the main thread has taken.
LEMMA NewSessionInv ==
    ASSUME IInv, main.pc = "create",
           NEW t \in Threads, thread[t].pc = "none",
           NEW x \in CWWTPManager, NEW y \in Thread,
           gWTPs' = [gWTPs EXCEPT ![main.slot] = x],
           thread' = [thread EXCEPT ![t] = y],
           x.packets = <<>>, x.listValid = TRUE,
           x.isNotFree = gWTPs[main.slot].isNotFree,
           x.address = gWTPs[main.slot].address,
           y.pc = "start", y.slot = main.slot,
           main' = [main EXCEPT !.pc = "append"],
           UNCHANGED <<gActiveWTPs, firing, inputs>>
    PROVE  IInv'
<1> DEFINE s == main.slot
<1>0. /\ Table \subseteq Slots /\ s \in Slots /\ main \in Main
      /\ gWTPs \in [Slots -> CWWTPManager] /\ thread \in [Threads -> Thread]
  BY MaxWTPsAssumption DEF Table, Slots, IInv, TypeOK, Main
<1>1. /\ x.packets = <<>> /\ x.listValid = TRUE
      /\ x.isNotFree = gWTPs[s].isNotFree
      /\ x.address = gWTPs[s].address
  OBVIOUS
<1>2. y.pc = "start" /\ y.slot = s
  OBVIOUS
<1>3. /\ gWTPs'[s] = x /\ thread'[t] = y
      /\ \A i \in Slots \ {s} : gWTPs'[i] = gWTPs[i]
      /\ \A u \in Threads \ {t} : thread'[u] = thread[u]
  BY <1>0
<1>4. /\ main' \in Main /\ main'.pc = "append"
      /\ main'.slot = s /\ main'.packet = main.packet
  BY <1>0 DEF Main
<1>5. s \in Table =>
        /\ gWTPs[s].isNotFree
        /\ \A u \in Threads : Live(u) => thread[u].slot # s
  BY DEF IInv, SlotInv, ListPhases
<1>6. ~Live(t) /\ Live(t)' /\ \A u \in Threads \ {t} : Live(u)' <=> Live(u)
  BY <1>2, <1>3 DEF Live
<1>7. TypeOK'
  BY <1>0, <1>1, <1>2, <1>4 DEF IInv, TypeOK
<1>8. CountBound'
  <2>1. Counted' = Counted
    BY <1>2, <1>3 DEF Counted, Loop
  <2> QED BY <2>1, SameCount DEF IInv
<1>9. SlotExclusive'
  <2> SUFFICES ASSUME NEW v \in Threads, Live(v)', thread'[v].slot \in Table
               PROVE  /\ gWTPs'[thread'[v].slot].isNotFree
                      /\ thread'[v].pc # "free" =>
                            gWTPs'[thread'[v].slot].listValid
                      /\ \A u \in Threads \ {v} :
                            Live(u)' => thread'[u].slot # thread'[v].slot
    BY DEF SlotExclusive
  <2>1. CASE v = t
    BY <1>1, <1>2, <1>3, <1>5, <1>6, <2>1
  <2>2. CASE v # t
    <3>1. Live(v) /\ thread'[v] = thread[v] /\ thread[v].slot # s
      BY <1>3, <1>5, <1>6, <2>2
    <3>2. gWTPs'[thread[v].slot] = gWTPs[thread[v].slot]
      BY <1>0, <1>3, <3>1
    <3>3. \A u \in Threads \ {v} : Live(u)' => thread'[u].slot # thread[v].slot
      BY <1>2, <1>3, <1>6, <2>2, <3>1 DEF IInv, SlotInv, SlotExclusive
    <3> QED BY <3>1, <3>2, <3>3 DEF IInv, SlotInv, SlotExclusive
  <2> QED BY <2>1, <2>2
<1>10. ListPhases'
  <2>1. \A u \in Threads : thread'[u].pc = "free" /\ thread'[u].slot \in Table =>
          ~gWTPs'[thread'[u].slot].listValid
    <3> SUFFICES ASSUME NEW u \in Threads, thread'[u].pc = "free",
                        thread'[u].slot \in Table
                 PROVE  ~gWTPs'[thread'[u].slot].listValid
      OBVIOUS
    <3>1. u # t /\ thread'[u] = thread[u] /\ Live(u)
      BY <1>2, <1>3 DEF Live
    <3>2. gWTPs'[thread[u].slot] = gWTPs[thread[u].slot]
      BY <1>0, <1>3, <1>5, <3>1
    <3> QED BY <3>1, <3>2 DEF IInv, SlotInv, ListPhases
  <2>2. \A i \in Table : ~gWTPs'[i].isNotFree => ~gWTPs'[i].listValid
    BY <1>0, <1>1, <1>3, <1>5 DEF IInv, SlotInv, ListPhases
  <2>3. \A i \in Slots : ~gWTPs'[i].listValid => gWTPs'[i].packets = <<>>
    BY <1>1, <1>3 DEF IInv, SlotInv, ListPhases
  <2> QED BY <1>4, <2>1, <2>2, <2>3 DEF ListPhases
<1>11. PacketInHand'
  BY <1>4 DEF IInv, SlotInv, PacketInHand
<1>12. SenderKnown'
  BY <1>1, <1>3, <1>4 DEF IInv, SlotInv, SenderKnown, IsData
<1>13. OneSessionPerWTP'
  <2>1. \A i \in Table : /\ gWTPs'[i].isNotFree = gWTPs[i].isNotFree
                         /\ gWTPs'[i].address = gWTPs[i].address
    BY <1>0, <1>1, <1>3
  <2> QED BY <2>1 DEF IInv, SlotInv, OneSessionPerWTP
<1>14. PacketsToOwner'
  <2> SUFFICES ASSUME NEW j \in Table, NEW n \in 1 .. Len(gWTPs'[j].packets),
                      ~IsData(gWTPs'[j].packets[n])
               PROVE  gWTPs'[j].address
                        = [wtp |-> gWTPs'[j].packets[n].wtp, data |-> FALSE]
    BY DEF PacketsToOwner, IsData
  <2>1. CASE j = s
    BY <1>1, <1>3, <2>1
  <2>2. CASE j # s
    BY <1>0, <1>3, <2>2 DEF IInv, SlotInv, PacketsToOwner
  <2> QED BY <2>1, <2>2
<1>15. ~Failures => SlotOwned'
  <2> SUFFICES ASSUME ~Failures, NEW i \in Table, gWTPs'[i].isNotFree
               PROVE  \E u \in Threads : Live(u)' /\ thread'[u].slot = i
    BY DEF SlotOwned
  <2>1. CASE i = s
    BY <1>2, <1>3, <1>6, <2>1
  <2>2. CASE i # s
    <3>1. PICK u \in Threads : Live(u) /\ thread[u].slot = i
      BY <1>0, <1>3, <2>2 DEF IInv, SlotInv, SlotOwned
    <3>2. u # t
      BY <1>6, <3>1
    <3> QED BY <1>3, <1>6, <3>1, <3>2
  <2> QED BY <2>1, <2>2
<1>16. JoinGuarded'
  <2> SUFFICES ASSUME NEW u \in Threads, thread'[u].pc \in Loop,
                      thread'[u].slot \in Table,
                      gWTPs'[thread'[u].slot].currentState = "join"
               PROVE  \/ thread'[u].armed \/ thread'[u].pending
                      \/ firing' = u
                      \/ gWTPs'[thread'[u].slot].isRequestClose
    BY DEF JoinGuarded
  <2>1. u # t /\ thread'[u] = thread[u] /\ Live(u)
    BY <1>2, <1>3 DEF Live, Loop
  <2>2. gWTPs'[thread[u].slot] = gWTPs[thread[u].slot]
    BY <1>0, <1>3, <1>5, <2>1
  <2> QED BY <2>1, <2>2 DEF IInv, JoinGuarded
<1> QED BY <1>7, <1>8, <1>9, <1>10, <1>11, <1>12, <1>13, <1>14, <1>15, <1>16
        DEF IInv, SlotInv

\* No session is started: the main thread's slot is given back or stays taken.
LEMMA NoSessionInv ==
    ASSUME IInv, main.pc = "create", Failures,
           NEW x \in CWWTPManager,
           x.address = gWTPs[main.slot].address,
           x.currentState = gWTPs[main.slot].currentState,
           x.isRequestClose = gWTPs[main.slot].isRequestClose,
           ~x.listValid => x.packets = <<>>,
           x.packets = gWTPs[main.slot].packets \/ x.packets = <<>>,
           x.isNotFree => gWTPs[main.slot].isNotFree,
           main.slot \in Table /\ x.listValid => x.isNotFree,
           gWTPs' = [gWTPs EXCEPT ![main.slot] = x],
           main' \in Main, main'.pc \in {"recv", "crashed"},
           UNCHANGED <<gActiveWTPs, thread, firing, inputs>>
    PROVE  IInv'
<1> DEFINE s == main.slot
<1>0. /\ Table \subseteq Slots /\ s \in Slots
      /\ gWTPs \in [Slots -> CWWTPManager]
      /\ gWTPs' \in [Slots -> CWWTPManager]
      /\ gWTPs'[s] = x
      /\ \A i \in Slots \ {s} : gWTPs'[i] = gWTPs[i]
  BY MaxWTPsAssumption DEF Table, Slots, IInv, TypeOK, Main
<1>1. s \in Table => \A u \in Threads : Live(u) => thread[u].slot # s
  BY DEF IInv, SlotInv, ListPhases
<1>2. TypeOK'
  BY <1>0 DEF IInv, TypeOK
<1>3. CountBound'
  <2>1. Counted' = Counted
    BY DEF Counted
  <2> QED BY <2>1, SameCount DEF IInv
<1>4. SlotExclusive'
  BY <1>0, <1>1 DEF IInv, SlotInv, SlotExclusive, Live
<1>5. ListPhases'
  BY <1>0, <1>1 DEF IInv, SlotInv, ListPhases, Live
<1>6. PacketInHand' /\ SenderKnown'
  BY DEF PacketInHand, SenderKnown
<1>7. \A i \in Table : /\ gWTPs'[i].isNotFree => gWTPs[i].isNotFree
                       /\ gWTPs'[i].address = gWTPs[i].address
                       /\ gWTPs'[i].currentState = gWTPs[i].currentState
                       /\ gWTPs'[i].isRequestClose = gWTPs[i].isRequestClose
                       /\ \/ gWTPs'[i].packets = gWTPs[i].packets
                          \/ gWTPs'[i].packets = <<>>
  BY <1>0
<1>8. OneSessionPerWTP'
  BY <1>7 DEF IInv, SlotInv, OneSessionPerWTP
<1>9. PacketsToOwner'
  BY <1>7 DEF IInv, SlotInv, PacketsToOwner, IsData
<1>10. JoinGuarded'
  BY <1>7 DEF IInv, JoinGuarded
<1> QED BY <1>2, <1>3, <1>4, <1>5, <1>6, <1>8, <1>9, <1>10 DEF IInv, SlotInv

\* The main thread takes a slot and creates its thread.
LEMMA StartSessionInv == ASSUME IInv, StartSession PROVE IInv'
<1> DEFINE own == gWTPs[main.slot]
<1>0. /\ main.pc = "create" /\ main \in Main
      /\ main.slot \in Slots /\ own \in CWWTPManager
      /\ gWTPs \in [Slots -> CWWTPManager]
      /\ UNCHANGED <<gActiveWTPs, firing, inputs>>
      /\ Reading \in Main /\ Reading.pc = "recv"
  BY MaxWTPsAssumption DEF StartSession, IInv, TypeOK, Main, Reading, Slots
<1>1. ASSUME NEW t \in Threads, thread[t].pc = "none",
             thread' = [thread EXCEPT ![t].pc = "start", ![t].slot = main.slot],
             gWTPs' = [gWTPs EXCEPT ![main.slot].packets = <<>>,
                                    ![main.slot].listValid = TRUE,
                                    ![main.slot].reinit = "clean"],
             main' = [main EXCEPT !.pc = "append"]
      PROVE  IInv'
  <2> DEFINE x == [own EXCEPT !.packets = <<>>, !.listValid = TRUE,
                              !.reinit = "clean"]
             y == [thread[t] EXCEPT !.pc = "start", !.slot = main.slot]
  <2>1. /\ x \in CWWTPManager /\ x.packets = <<>> /\ x.listValid = TRUE
        /\ x.isNotFree = own.isNotFree /\ x.address = own.address
    BY <1>0, EmptySeq DEF CWWTPManager
  <2>2. y \in Thread /\ y.pc = "start" /\ y.slot = main.slot
    BY <1>0, ThreadFacts DEF Thread
  <2>3. gWTPs' = [gWTPs EXCEPT ![main.slot] = x]
    BY <1>0, <1>1
  <2>4. thread' = [thread EXCEPT ![t] = y]
    BY <1>1, ThreadFacts
  <2> HIDE DEF x, y
  <2> QED BY <1>0, <1>1, <2>1, <2>2, <2>3, <2>4, NewSessionInv
<1>2. CASE /\ Failures
           /\ gWTPs' = [gWTPs EXCEPT ![main.slot].isNotFree = FALSE]
           /\ main' = Reading
           /\ UNCHANGED thread
  <2> DEFINE x == [own EXCEPT !.isNotFree = FALSE]
  <2>1. /\ x \in CWWTPManager /\ x.address = own.address
        /\ x.currentState = own.currentState
        /\ x.isRequestClose = own.isRequestClose
        /\ x.packets = own.packets /\ x.listValid = own.listValid
        /\ x.isNotFree = FALSE
        /\ gWTPs' = [gWTPs EXCEPT ![main.slot] = x]
    BY <1>0, <1>2 DEF CWWTPManager
  <2>2. /\ ~own.listValid => own.packets = <<>>
        /\ main.slot \in Table => ~own.listValid
    BY <1>0 DEF IInv, SlotInv, ListPhases
  <2> HIDE DEF x
  <2> QED BY <1>0, <1>2, <2>1, <2>2, NoSessionInv
<1>3. CASE /\ Failures
           /\ gWTPs' = [gWTPs EXCEPT ![main.slot].packets = <<>>,
                                     ![main.slot].listValid = TRUE]
           /\ main' = Reading
           /\ UNCHANGED thread
  <2> DEFINE x == [own EXCEPT !.packets = <<>>, !.listValid = TRUE]
  <2>1. /\ x \in CWWTPManager /\ x.address = own.address
        /\ x.currentState = own.currentState
        /\ x.isRequestClose = own.isRequestClose
        /\ x.packets = <<>> /\ x.listValid = TRUE
        /\ x.isNotFree = own.isNotFree
        /\ gWTPs' = [gWTPs EXCEPT ![main.slot] = x]
    BY <1>0, <1>3, EmptySeq DEF CWWTPManager
  <2>2. main.slot \in Table => own.isNotFree
    BY <1>0 DEF IInv, SlotInv, ListPhases
  <2> HIDE DEF x
  <2> QED BY <1>0, <1>3, <2>1, <2>2, NoSessionInv
<1>4. CASE /\ Failures
           /\ main' = [main EXCEPT !.pc = "crashed"]
           /\ UNCHANGED <<gWTPs, thread>>
  <2>1. /\ ~own.listValid => own.packets = <<>>
        /\ main.slot \in Table => own.isNotFree
    BY <1>0 DEF IInv, SlotInv, ListPhases
  <2>2. main' \in Main /\ main'.pc = "crashed"
    BY <1>0, <1>4 DEF Main
  <2>3. gWTPs' = [gWTPs EXCEPT ![main.slot] = own]
    BY <1>0, <1>4
  <2> QED BY <1>0, <1>4, <2>1, <2>2, <2>3, NoSessionInv
<1> QED BY <1>1, <1>2, <1>3, <1>4 DEF StartSession

\* The main thread takes the mutex of the session's list, or drops the packet.
LEMMA LockListInv == ASSUME IInv, LockList PROVE IInv'
<1> DEFINE s == main.slot
<1>0. /\ Table \subseteq Slots /\ main.pc = "append" /\ main \in Main
      /\ s \in Slots
      /\ gWTPs \in [Slots -> CWWTPManager]
      /\ inputs' \in 0 .. MaxInputs
      /\ UNCHANGED <<gActiveWTPs, thread, firing, inputs>>
      /\ Reading \in Main /\ Reading.pc = "recv"
  BY MaxWTPsAssumption
     DEF LockList, Table, Slots, IInv, TypeOK, Main, Reading
<1>1. CASE main' = Reading /\ UNCHANGED gWTPs
  <2>1. PacketInHand' /\ SenderKnown'
    BY <1>0, <1>1 DEF PacketInHand, SenderKnown
  <2> QED BY <1>0, <1>1, <2>1, LookupInv
<1>2. CASE /\ gWTPs' = [gWTPs EXCEPT ![s].locked = TRUE]
           /\ main' = [main EXCEPT !.pc = "locked"]
  <2>1. UseKept
    BY <1>0, <1>2, LockSlot
  <2>2. /\ main' \in Main /\ main'.pc = "locked"
        /\ main'.packet = main.packet /\ main'.slot = s
    BY <1>0, <1>2 DEF Main
  <2>3. PacketInHand'
    BY <1>0, <2>2 DEF IInv, SlotInv, PacketInHand
  <2>4. SenderKnown'
    BY <1>0, <2>1, <2>2 DEF IInv, SlotInv, SenderKnown, IsData, UseKept, SameUse
  <2> QED BY <1>0, <2>1, <2>2, <2>3, <2>4, LookupInv DEF UseKept, SameUse
<1> QED BY <1>1, <1>2 DEF LockList

\* The main thread appends the packet to the session's list.
LEMMA AppendPacketInv == ASSUME IInv, AppendPacket PROVE IInv'
<1> DEFINE s == main.slot
           own == gWTPs[s]
<1>0. /\ Table \subseteq Slots /\ main.pc = "locked" /\ main \in Main
      /\ s \in Slots /\ main.packet \in Packet
      /\ gWTPs \in [Slots -> CWWTPManager] /\ thread \in [Threads -> Thread]
      /\ own \in CWWTPManager
      /\ inputs' \in 0 .. MaxInputs
      /\ UNCHANGED <<gActiveWTPs, firing, inputs>>
      /\ Reading \in Main /\ Reading.pc = "recv"
  BY MaxWTPsAssumption
     DEF AppendPacket, Table, Slots, IInv, TypeOK, SlotInv, PacketInHand, Main,
         Reading
<1>1. CASE /\ main' = [main EXCEPT !.pc = "crashed"]
           /\ UNCHANGED <<gWTPs, thread>>
  <2>1. main' \in Main /\ main'.pc \in {"recv", "crashed"}
    BY <1>0, <1>1 DEF Main
  <2>2. PacketInHand' /\ SenderKnown'
    BY <2>1 DEF PacketInHand, SenderKnown
  <2> QED BY <1>0, <1>1, <2>1, <2>2, LookupInv
<1>3. CASE /\ main' = Reading
           /\ gWTPs' = [gWTPs EXCEPT ![s].locked = FALSE]
           /\ UNCHANGED thread
  <2>1. UseKept
    BY <1>0, <1>3, LockSlot
  <2>2. PacketInHand' /\ SenderKnown'
    BY <1>0, <1>3 DEF PacketInHand, SenderKnown
  <2> QED BY <1>0, <1>3, <2>1, <2>2, LookupInv DEF UseKept, SameUse
<1>2. CASE /\ own.listValid
           /\ gWTPs' = [gWTPs EXCEPT ![s].packets = Append(@, main.packet),
                                     ![s].locked = FALSE]
           /\ thread' \in Signal(s, thread)
           /\ main' = Reading
  <2> DEFINE x == [own EXCEPT !.packets = Append(@, main.packet),
                              !.locked = FALSE]
  <2>1. /\ own.packets \in Seq(Packet)
        /\ Append(own.packets, main.packet) \in Seq(Packet)
    <3>1. own.packets \in Seq(Packet)
      BY <1>0 DEF CWWTPManager
    <3> QED BY <1>0, <3>1, AppendProperties
  <2>2. /\ x \in CWWTPManager
        /\ x.packets = Append(own.packets, main.packet)
        /\ x.isNotFree = own.isNotFree /\ x.address = own.address
        /\ x.listValid = own.listValid
        /\ x.currentState = own.currentState
        /\ x.isRequestClose = own.isRequestClose
    BY <1>0, <2>1 DEF CWWTPManager
  <2>3. gWTPs' = [gWTPs EXCEPT ![s] = x]
    BY <1>0, <1>2
  <2> HIDE DEF x
  <2>4. /\ gWTPs' \in [Slots -> CWWTPManager] /\ gWTPs'[s] = x
        /\ \A i \in Slots \ {s} : gWTPs'[i] = gWTPs[i]
        /\ \A i \in Slots :
              /\ gWTPs'[i].isNotFree = gWTPs[i].isNotFree
              /\ gWTPs'[i].address = gWTPs[i].address
              /\ gWTPs'[i].listValid = gWTPs[i].listValid
              /\ gWTPs'[i].currentState = gWTPs[i].currentState
              /\ gWTPs'[i].isRequestClose = gWTPs[i].isRequestClose
    BY <1>0, <2>2, <2>3
  <2>5. /\ thread' \in [Threads -> Thread]
        /\ \A u \in Threads :
              /\ thread'[u].slot = thread[u].slot
              /\ thread'[u].armed = thread[u].armed
              /\ thread'[u].pending = thread[u].pending
              /\ thread'[u].pc = thread[u].pc
                    \/ (thread[u].pc = "asleep" /\ thread'[u].pc = "loop")
    BY <1>0, <1>2, Signalled
  <2>6. \A u \in Threads : /\ Live(u)' <=> Live(u)
                           /\ thread'[u].pc = "free" <=> thread[u].pc = "free"
    BY <2>5 DEF Live
  <2>7. TypeOK'
    BY <1>0, <1>2, <2>4, <2>5 DEF IInv, TypeOK
  <2>8. CountBound'
    <3>1. Counted' = Counted
      BY <2>5 DEF Counted, Loop
    <3> QED BY <1>0, <3>1, SameCount DEF IInv
  <2>9. SlotExclusive'
    BY <1>0, <2>4, <2>5, <2>6 DEF IInv, SlotInv, SlotExclusive
  <2>10. ListPhases'
    BY <1>0, <1>2, <2>2, <2>4, <2>5, <2>6 DEF IInv, SlotInv, ListPhases
  <2>11. PacketInHand' /\ SenderKnown'
    BY <1>0, <1>2 DEF PacketInHand, SenderKnown
  <2>12. OneSessionPerWTP'
    BY <1>0, <2>4 DEF IInv, SlotInv, OneSessionPerWTP
  <2>13. PacketsToOwner'
    <3> SUFFICES ASSUME NEW j \in Table, NEW n \in 1 .. Len(gWTPs'[j].packets),
                        ~IsData(gWTPs'[j].packets[n])
                 PROVE  gWTPs'[j].address
                          = [wtp |-> gWTPs'[j].packets[n].wtp, data |-> FALSE]
      BY DEF PacketsToOwner, IsData
    <3>1. CASE j # s
      BY <1>0, <2>4, <3>1 DEF IInv, SlotInv, PacketsToOwner
    <3>2. CASE j = s /\ n \in 1 .. Len(own.packets)
      <4>1. gWTPs'[j].packets[n] = own.packets[n]
        BY <1>0, <2>1, <2>2, <2>4, <3>2, AppendProperties
      <4> QED BY <1>0, <2>4, <3>2, <4>1 DEF IInv, SlotInv, PacketsToOwner
    <3>3. CASE j = s /\ n = Len(own.packets) + 1
      <4>1. gWTPs'[j].packets[n] = main.packet
        BY <1>0, <2>1, <2>2, <2>4, <3>3, AppendProperties
      <4> QED BY <1>0, <2>4, <3>3, <4>1 DEF IInv, SlotInv, SenderKnown
    <3>4. j = s => n \in 1 .. Len(own.packets) + 1
      <4>1. Len(Append(own.packets, main.packet)) = Len(own.packets) + 1
        BY <1>0, <2>1, AppendProperties
      <4> QED BY <2>2, <2>4, <4>1
    <3>5. Len(own.packets) \in Nat
      BY <2>1, LenProperties
    <3> QED BY <3>1, <3>2, <3>3, <3>4, <3>5
  <2>14. ~Failures => SlotOwned'
    BY <1>0, <2>4, <2>5, <2>6 DEF IInv, SlotInv, SlotOwned
  <2>15. JoinGuarded'
    BY <1>0, <2>4, <2>5 DEF IInv, JoinGuarded, Loop
  <2> QED BY <2>7, <2>8, <2>9, <2>10, <2>11, <2>12, <2>13, <2>14, <2>15
          DEF IInv, SlotInv
<1> QED BY <1>1, <1>2, <1>3 DEF AppendPacket

-----------------------------------------------------------------------------
(* The theorems.                                                           *)

\* The initial state satisfies the inductive invariant.
LEMMA InitIInv == Init => IInv
<1> SUFFICES ASSUME Init PROVE IInv
  OBVIOUS
<1>1. Table \subseteq Slots /\ 0 \in Slots
  BY MaxWTPsAssumption DEF Table, Slots
<1>2. TypeOK
  <2>1. gWTPs \in [Slots -> CWWTPManager]
    BY EmptySeq DEF Init, CWWTPManager
  <2>2. thread \in [Threads -> Thread]
    BY <1>1 DEF Init, Thread
  <2>3. main \in Main
    BY <1>1 DEF Init, Reading, Main
  <2>4. inputs \in 0 .. MaxInputs /\ gActiveWTPs \in Nat
    BY BoundsAssumption DEF Init
  <2> QED BY <2>1, <2>2, <2>3, <2>4 DEF Init, TypeOK
<1>3. CountBound
  <2>1. Counted = {}
    BY DEF Init, Counted, Loop
  <2>2. Cardinality(Counted) = 0 /\ gActiveWTPs = 0
    BY <2>1, FS_EmptySet DEF Init
  <2>3. ActiveCount
    BY <2>2 DEF ActiveCount, Counted
  <2> QED BY <2>2, <2>3 DEF CountBound
<1>4. \A t \in Threads : ~Live(t) /\ thread[t].pc = "none"
  BY DEF Init, Live
<1>5. SlotExclusive /\ ListPhases
  BY <1>1, <1>4 DEF Init, Reading, SlotExclusive, ListPhases
<1>6. PacketInHand /\ SenderKnown
  BY DEF Init, Reading, PacketInHand, SenderKnown
<1>7. OneSessionPerWTP /\ SlotOwned
  BY <1>1 DEF Init, OneSessionPerWTP, SlotOwned
<1>8. PacketsToOwner
  BY <1>1 DEF Init, PacketsToOwner
<1>9. JoinGuarded
  BY <1>4 DEF JoinGuarded, Loop
<1> QED BY <1>2, <1>3, <1>5, <1>6, <1>7, <1>8, <1>9 DEF IInv, SlotInv

\* Every step preserves the inductive invariant.
LEMMA NextIInv == IInv /\ [Next]_vars => IInv'
<1> SUFFICES ASSUME IInv, [Next]_vars PROVE IInv'
  OBVIOUS
<1>1. CASE UNCHANGED vars
  <2> USE <1>1 DEF vars, IInv, SlotInv
  <2>1. TypeOK' /\ PacketInHand' /\ JoinGuarded'
    BY DEF TypeOK, PacketInHand, JoinGuarded
  <2>2. CountBound'
    BY SameCount DEF Counted
  <2>3. Quiet
    BY DEF Quiet
  <2> QED BY <2>1, <2>2, <2>3, QuietSlots
<1>2. CASE MainThread
  BY <1>2, ReceiveInv, CheckActiveWTPsInv, TakeSlotInv, StartSessionInv,
     LockListInv, AppendPacketInv
     DEF MainThread
<1>3. CASE CWHandleTimer
  BY <1>3, CWHandleTimerInv
<1>4. CASE \E i \in Table : Application(i)
  BY <1>4, ApplicationInv
<1>5. ASSUME NEW t \in Threads,
             \/ Expire(t) \/ CWCriticalTimerExpiredHandler(t)
             \/ CWManageWTP(t) \/ SpuriousWakeup(t)
      PROVE  IInv'
  BY <1>5, ExpireInv, CWCriticalTimerExpiredHandlerInv, CWManageWTPInv
<1> QED BY <1>1, <1>2, <1>3, <1>4, <1>5 DEF Next

\* The inductive invariant holds in every reachable state, whatever fails.
THEOREM Invariance == Spec => []IInv
BY InitIInv, NextIInv, PTL DEF Spec

\* Type correctness; in particular gActiveWTPs is never counted below zero.
THEOREM TypeCorrect == Spec => []TypeOK
BY Invariance, PTL DEF IInv

\* CWACManageIncomingPacket never takes a slot of the table, and
\* _CWCloseThread never frees a list, under a session that still runs on it.
THEOREM SessionsExclusive == Spec => []SlotExclusive
BY Invariance, PTL DEF IInv, SlotInv

\* However sessions are closed and started while CWWTPByAddress searches, no
\* WTP gets a second session.
THEOREM OneSession == Spec => []OneSessionPerWTP
BY Invariance, PTL DEF IInv, SlotInv

\* The packets in the list of a slot come from the WTP the slot is for.
THEOREM OwnPackets == Spec => []PacketsToOwner
BY Invariance, PTL DEF IInv, SlotInv

\* A session that waits for its Join Request is never left without the
\* WaitJoin timer, its signal or its request to close.
THEOREM WaitJoinGuarded == Spec => []JoinGuarded
BY Invariance, PTL DEF IInv

\* As long as no thread ends out of memory, gActiveWTPs is the number of
\* sessions CWManageWTP has begun and not begun to close.
THEOREM CountExact ==
    ASSUME ~Failures
    PROVE  Spec => []ActiveCount
<1>1. IInv => ActiveCount
  BY DEF IInv, CountBound
<1> QED BY <1>1, Invariance, PTL

\* As long as no thread ends out of memory, every slot in use is in the hands
\* of a session or of the main thread.
THEOREM NoSlotLeaked ==
    ASSUME ~Failures
    PROVE  Spec => []SlotOwned
<1>1. IInv => SlotOwned
  BY DEF IInv, SlotInv
<1> QED BY <1>1, Invariance, PTL

-----------------------------------------------------------------------------
(* A session is changed by its own thread alone.                           *)

\* A session thread that takes a step has not given its slot back, and writes
\* to no other slot.
LEMMA WritesOwnSlot ==
    ASSUME IInv, NEW u \in Threads, CWManageWTP(u)
    PROVE  /\ Live(u)
           /\ \A j \in Slots : j # thread[u].slot => gWTPs'[j] = gWTPs[j]
<1>0. gWTPs \in [Slots -> CWWTPManager] /\ thread[u].slot \in Slots
  BY ThreadFacts
<1> DEFINE Own == \A j \in Slots : j # thread[u].slot => gWTPs'[j] = gWTPs[j]
<1>1. CASE CountSession(u) \/ TestForClose(u) \/ BlockSignals(u)
  BY <1>1 DEF CountSession, TestForClose, BlockSignals, Live
<1>m. CASE TestForWork(u) \/ Sleep(u) \/ UncountSession(u)
  BY <1>0, <1>m DEF TestForWork, Sleep, UncountSession, Live
<1>2. CASE InitSession(u)
  BY <1>0, <1>2 DEF InitSession, Live
<1>3. CASE HandleCommand(u)
  BY <1>0, <1>3 DEF HandleCommand, Live
<1>4. CASE DestroyList(u)
  BY <1>0, <1>4 DEF DestroyList, Live
<1>5. CASE FreeSlot(u)
  BY <1>0, <1>5 DEF FreeSlot, Live
<1>6. CASE HandlePacket(u)
  <2>1. ASSUME NEW s, NEW x, NEW y, Handle(u, s, x, y)
        PROVE  Own
    BY <1>0, <2>1 DEF Handle
  <2> HIDE DEF Own
  <2>2. \A s : Reject(u, s) => Own
    BY <2>1 DEF Reject
  <2>3. NeedFragment(u) => Own
    BY <2>1 DEF NeedFragment
  <2>4. NoErrorPending(u) => Own
    BY DEF NoErrorPending, Own
  <2>b. BrokenList(u) => Own
    BY DEF BrokenList, Own
  <2>5. ACEnterJoin(u) => Own
    BY <2>1, <2>2 DEF ACEnterJoin
  <2>6. ACEnterConfigure(u) => Own
    BY <2>1, <2>2 DEF ACEnterConfigure
  <2>7. ACEnterDataCheck(u) => Own
    BY <2>1 DEF ACEnterDataCheck
  <2>8. ACEnterRun(u) => Own
    BY <2>1, <2>2 DEF ACEnterRun
  <2>9. Own
    BY <1>6, <2>3, <2>4, <2>b, <2>5, <2>6, <2>7, <2>8 DEF HandlePacket
  <2> QED BY <1>6, <2>9 DEF HandlePacket, Own, Live
<1> QED BY <1>1, <1>m, <1>2, <1>3, <1>4, <1>5, <1>6 DEF CWManageWTP

\* A slot is undisturbed when nothing of it changes but the requests to the
\* session, the mutex and the address of the data channel.
LEMMA SameSession ==
    ASSUME NEW i \in Slots, IInv, NEW r, NEW c, NEW d, NEW l, NEW k,
           \/ gWTPs'[i] = gWTPs[i]
           \/ gWTPs'[i] = [gWTPs[i] EXCEPT !.isRequestClose = r]
           \/ gWTPs'[i] = [gWTPs[i] EXCEPT !.interfaceCommand = c,
                                           !.locked = l, !.client = k]
           \/ gWTPs'[i] = [gWTPs[i] EXCEPT !.locked = l]
           \/ gWTPs'[i] = [gWTPs[i] EXCEPT !.dataaddress = d]
    PROVE  Undisturbed(i)
<1>1. gWTPs[i] \in CWWTPManager
  BY DEF IInv, TypeOK
<1>2. Len(gWTPs[i].packets) \in Nat
  BY <1>1 DEF CWWTPManager
<1> DEFINE w == gWTPs[i]
           x == gWTPs'[i]
<1>3. /\ x.isNotFree = w.isNotFree /\ x.address = w.address
      /\ x.sessionID = w.sessionID /\ x.currentState = w.currentState
      /\ x.listValid = w.listValid /\ x.packets = w.packets
  BY <1>1 DEF CWWTPManager
<1> QED BY <1>2, <1>3 DEF Undisturbed

\* Whatever threads, timers, packets and applications there are, a session
\* that runs on a slot of the table finds it as it left it: nobody else gives
\* the slot away, frees its list, changes its state or takes its packets.
THEOREM SessionsUndisturbed == Spec => SessionUndisturbed
<1> DEFINE Kept == \A t \in Threads :
                      Live(t) /\ thread[t].slot \in Table /\ ~CWManageWTP(t) =>
                          Undisturbed(thread[t].slot)
<1>1. IInv /\ [Next]_vars => [Kept]_vars
  <2> SUFFICES ASSUME IInv, Next, NEW t \in Threads, Live(t),
                      thread[t].slot \in Table, ~CWManageWTP(t)
               PROVE  Undisturbed(thread[t].slot)
    BY DEF vars
  <2>i. PICK i \in Slots : i = thread[t].slot
    BY ThreadFacts
  <2> SUFFICES Undisturbed(i)
    BY <2>i
  <2>0. /\ i \in Slots /\ i \in Table
        /\ gWTPs \in [Slots -> CWWTPManager]
        /\ gWTPs[i] \in CWWTPManager
        /\ gWTPs[i].packets \in Seq(Packet)
        /\ main.slot \in Slots
        /\ gWTPs[i].isNotFree
        /\ \A u \in Threads : u # t /\ Live(u) => thread[u].slot # i
    BY <2>i, ThreadFacts DEF IInv, SlotInv, SlotExclusive, CWWTPManager, Main
  <2>h. /\ gWTPs'[i] = gWTPs[i] => Undisturbed(i)
        /\ Len(gWTPs[i].packets) \in Nat
    <3>1. Len(gWTPs[i].packets) \in Nat
      BY <2>0
    <3>2. gWTPs'[i] = gWTPs[i] => Undisturbed(i)
      BY <2>0, SameSession
    <3> QED BY <3>1, <3>2
  <2>1. ASSUME NEW p \in Packet, Receive(p) PROVE Undisturbed(i)
    <3>1. \/ gWTPs' = gWTPs
          \/ \E j \in Table : gWTPs' = [gWTPs EXCEPT ![j].dataaddress = p.wtp]
      BY <2>1 DEF Receive
    <3>2. \/ gWTPs'[i] = gWTPs[i]
          \/ gWTPs'[i] = [gWTPs[i] EXCEPT !.dataaddress = p.wtp]
      BY <2>0, <3>1
    <3> QED BY <2>0, <3>2, SameSession
  <2>2. CASE CheckActiveWTPs
    BY <2>2, <2>h DEF CheckActiveWTPs
  <2>3. CASE TakeSlot
    <3>1. PICK j \in Slots : /\ FirstFree(j)
                             /\ \A k \in Slots \ {j} : gWTPs'[k] = gWTPs[k]
      BY <2>0, <2>3 DEF TakeSlot
    <3>2. j # i
      BY <2>0, <3>1, MaxWTPsAssumption DEF FirstFree, Table
    <3> QED BY <2>0, <2>h, <3>1, <3>2
  <2>4. CASE StartSession
    <3>1. main.slot # i
      BY <2>0, <2>4, <2>i DEF StartSession, IInv, SlotInv, ListPhases
    <3>2. gWTPs'[i] = gWTPs[i]
      BY <2>0, <2>4, <3>1 DEF StartSession
    <3> QED BY <2>h, <3>2
  <2>l. CASE LockList
    <3>1. gWTPs' = gWTPs \/ gWTPs' = [gWTPs EXCEPT ![main.slot].locked = TRUE]
      BY <2>l DEF LockList
    <3>2. \/ gWTPs'[i] = gWTPs[i]
          \/ gWTPs'[i] = [gWTPs[i] EXCEPT !.locked = TRUE]
      BY <2>0, <3>1
    <3> QED BY <2>0, <3>2, SameSession
  <2>5. CASE AppendPacket
    <3>1. \/ gWTPs' = gWTPs
          \/ gWTPs' = [gWTPs EXCEPT ![main.slot].locked = FALSE]
          \/ gWTPs' = [gWTPs EXCEPT
                          ![main.slot].packets = Append(@, main.packet),
                          ![main.slot].locked = FALSE]
      BY <2>5 DEF AppendPacket
    <3>2. CASE gWTPs'[i] = [gWTPs[i] EXCEPT
                               !.packets = Append(gWTPs[i].packets, main.packet),
                               !.locked = FALSE]
      <4>1. gWTPs'[i] = [gWTPs[i] EXCEPT
                            !.packets = Append(gWTPs[i].packets, main.packet),
                            !.locked = FALSE]
        BY <3>2
      <4>2. main.packet \in Packet
        BY <2>5 DEF AppendPacket, IInv, SlotInv, PacketInHand
      <4>3. gWTPs'[i].packets = Append(gWTPs[i].packets, main.packet)
        BY <2>0, <4>1 DEF CWWTPManager
      <4>4. /\ Len(gWTPs'[i].packets) >= Len(gWTPs[i].packets)
            /\ \A n \in 1 .. Len(gWTPs[i].packets) :
                  gWTPs'[i].packets[n] = gWTPs[i].packets[n]
        BY <2>0, <4>2, <4>3
      <4> QED BY <2>0, <4>1, <4>4 DEF Undisturbed, CWWTPManager
    <3>3. CASE \/ gWTPs'[i] = gWTPs[i]
               \/ gWTPs'[i] = [gWTPs[i] EXCEPT !.locked = FALSE]
      BY <2>0, <3>3, SameSession
    <3> QED BY <2>0, <3>1, <3>2, <3>3
  <2>6. CASE CWHandleTimer
    BY <2>6, <2>h DEF CWHandleTimer
  <2>7. ASSUME NEW j \in Table, Application(j) PROVE Undisturbed(i)
    <3>1. PICK c \in BOOLEAN, l \in BOOLEAN,
               k \in {"none", "posting", "waiting", "leaving"} :
            gWTPs' = [gWTPs EXCEPT ![j] =
                         [gWTPs[j] EXCEPT !.interfaceCommand = c,
                                          !.locked = l, !.client = k]]
      BY <2>7, AppSlot
    <3>2. \/ gWTPs'[i] = gWTPs[i]
          \/ gWTPs'[i] = [gWTPs[i] EXCEPT !.interfaceCommand = c,
                                          !.locked = l, !.client = k]
      BY <2>0, <3>1
    <3> QED BY <2>0, <3>2, SameSession
  <2>8. ASSUME NEW u \in Threads, Expire(u) \/ SpuriousWakeup(u)
        PROVE  Undisturbed(i)
    BY <2>8, <2>h DEF Expire, SpuriousWakeup
  <2>9. ASSUME NEW u \in Threads, CWCriticalTimerExpiredHandler(u)
        PROVE  Undisturbed(i)
    <3>1. gWTPs' = [gWTPs EXCEPT ![thread[u].slot].isRequestClose = TRUE]
      BY <2>9 DEF CWCriticalTimerExpiredHandler
    <3>2. \/ gWTPs'[i] = gWTPs[i]
          \/ gWTPs'[i] = [gWTPs[i] EXCEPT !.isRequestClose = TRUE]
      BY <2>0, <3>1
    <3> QED BY <2>0, <3>2, SameSession
  <2>10. ASSUME NEW u \in Threads, CWManageWTP(u) PROVE Undisturbed(i)
    <3>1. u # t
      BY <2>10
    <3>2. Live(u) /\ \A j \in Slots : j # thread[u].slot => gWTPs'[j] = gWTPs[j]
      BY <2>10, WritesOwnSlot
    <3> QED BY <2>0, <2>h, <3>1, <3>2
  <2> QED BY <2>1, <2>2, <2>3, <2>4, <2>l, <2>5, <2>6, <2>7, <2>8, <2>9, <2>10
          DEF Next, MainThread
<1> QED BY <1>1, Invariance, PTL DEF Spec, SessionUndisturbed

=============================================================================
