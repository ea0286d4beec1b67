------------------------------ MODULE WTPRunProof ------------------------------
(***************************************************************************)
(* The safety properties of WTPRun for every limit on Echo Requests, and   *)
(* however often Run is entered.                                           *)
(***************************************************************************)
EXTENDS WTPRun, TLAPS

\* What is left of a step of one thread.
LEMMA GoIs ==
    ASSUME TypeOK, NEW from, NEW to
    PROVE  /\ Go("main", from, to) /\ pc' \in Pc =>
                 /\ pc.main = from /\ pc'.main = to
                 /\ pc'.data = pc.data /\ pc'.ticker = pc.ticker
           /\ Go("data", from, to) /\ pc' \in Pc =>
                 /\ pc.data = from /\ pc'.data = to
                 /\ pc'.main = pc.main /\ pc'.ticker = pc.ticker
           /\ Go("ticker", from, to) /\ pc' \in Pc =>
                 /\ pc.ticker = from /\ pc'.ticker = to
                 /\ pc'.main = pc.main /\ pc'.data = pc.data
BY DEF TypeOK, Pc, Go

\* A thread stays within its program.
LEMMA GoType ==
    ASSUME TypeOK, NEW from, NEW to
    PROVE  /\ Go("main", from, to) /\ to \in {"out", "enter", "echo", "loop",
                 "work", "receive", "reset", "stopEcho", "stopKeepAlive",
                 "stopDead", "mark", "join", "clear", "crashed"} => pc' \in Pc
           /\ Go("data", from, to) /\ to \in {"none", "created", "alive",
                 "loop", "work", "receive", "restart", "end", "ended"}
                      \cup KeepAlivePc
                 => pc' \in Pc
           /\ Go("ticker", from, to) /\ to \in {"idle", "echo", "testChannel",
                 "sendEcho", "expired"} \cup KeepAlivePc => pc' \in Pc
BY DEF TypeOK, Pc, Go

\* The timer library's queue after a timer was added.
LEMMA Added ==
    ASSUME TypeOK, NEW k \in Kinds, timer_add(k)
    PROVE  /\ timer' \in [Kinds -> Timer]
           /\ OnQueue(k)'
           /\ \A j \in Kinds \ {k} : OnQueue(j)' = OnQueue(j)
<1> DEFINE x == [mine |-> TRUE,
                 stray |-> timer[k].stray + (IF timer[k].mine THEN 1 ELSE 0)]
<1>1. timer \in [Kinds -> Timer]
  BY DEF TypeOK
<1>2. x \in Timer /\ x.mine
  BY <1>1 DEF Timer
<1>3. timer' = [timer EXCEPT ![k] = x]
  BY DEF timer_add
<1> HIDE DEF x
<1> QED BY <1>1, <1>2, <1>3 DEF OnQueue

\* The queue after a timer of kind k was removed, expired or not added.
LEMMA Taken ==
    ASSUME TypeOK, NEW k \in Kinds,
           \/ timer_rem(k) \/ no_timer_added(k)
           \/ timer[k].stray > 0 /\ timer' = [timer EXCEPT ![k].stray = @ - 1]
    PROVE  /\ timer' \in [Kinds -> Timer]
           /\ \A j \in Kinds \ {k} : OnQueue(j)' = OnQueue(j)
           /\ OnQueue(k)' => OnQueue(k)
<1> DEFINE n == [mine |-> FALSE,
                 stray |-> timer[k].stray + (IF timer[k].mine THEN 1 ELSE 0)]
           r == [timer[k] EXCEPT !.mine = FALSE]
           e == [timer[k] EXCEPT !.stray = @ - 1]
<1>1. timer \in [Kinds -> Timer] /\ timer[k] \in Timer
  BY DEF TypeOK
<1>2. n \in Timer /\ (n.stray > 0 => OnQueue(k)) /\ n.mine = FALSE
  BY <1>1 DEF Timer, OnQueue
<1>3. r \in Timer /\ r.mine = FALSE /\ r.stray = timer[k].stray
  BY <1>1 DEF Timer
<1>4. timer[k].stray > 0 => e \in Timer
  BY <1>1 DEF Timer
<1>5. \/ timer' = [timer EXCEPT ![k] = n]
      \/ timer' = [timer EXCEPT ![k] = r]
      \/ timer[k].stray > 0 /\ timer' = [timer EXCEPT ![k] = e]
  BY DEF timer_rem, no_timer_added
<1> HIDE DEF n, r, e
<1> QED BY <1>1, <1>2, <1>3, <1>4, <1>5 DEF OnQueue

-----------------------------------------------------------------------------
(* The main thread.                                                        *)

\* The three timers.
LEMMA KindsAre == "echo" \in Kinds /\ "keepAlive" \in Kinds /\ "dead" \in Kinds
BY DEF Kinds

\* The main thread: it leaves Run for good, as far as the first Run goes.
LEMMA MainThreadInv == ASSUME IInv, MainThread PROVE IInv'
<1> USE KindsAre DEF IInv, EchoBelowLimit, BeforeFirstRun, ChannelUntouched,
                        EchoBelieved, EchoGuarded, DeadStarted, Dead, flags,
                        Works, Fails, KeepAlivePc
<1>0. /\ TypeOK /\ Failures \in BOOLEAN /\ MaxRetransmitEcho \in Nat
      /\ echoCount \in 0 .. MaxRetransmitEcho /\ 0 \in 0 .. MaxRetransmitEcho
      /\ {0, 1, 2} \subseteq 0 .. 2
  BY FailuresAssumption, RetransmitAssumption DEF TypeOK
<1>1. CASE StartEcho
  <2>1. /\ pc' \in Pc
        /\ \/ pc.main = "echo" /\ pc'.main = "loop"
           \/ pc.main = "echo" /\ pc'.main = "stopEcho"
        /\ pc'.data = pc.data /\ pc'.ticker = pc.ticker
    BY <1>0, <1>1, GoType, GoIs DEF StartEcho, CWStartEchoRequestTimer
  <2>2. /\ timer' \in [Kinds -> Timer]
        /\ \A j \in Kinds \ {"echo"} : OnQueue(j)' = OnQueue(j)
        /\ ~failed' => OnQueue("echo")'
    BY <1>0, <1>1, Added, Taken DEF StartEcho, CWStartEchoRequestTimer
  <2>3. TypeOK'
    BY <1>0, <1>1, <2>1, <2>2 DEF StartEcho, CWStartEchoRequestTimer, TypeOK
  <2> QED BY <1>0, <1>1, <2>1, <2>2, <2>3
     DEF StartEcho, CWStartEchoRequestTimer
<1>2. CASE RunLoop
  <2>1. /\ pc' \in Pc
        /\ \/ pc.main = "loop" /\ pc'.main = "stopEcho"
           \/ pc.main = "loop" /\ pc'.main = "work"
        /\ pc'.data = pc.data /\ pc'.ticker = pc.ticker
    BY <1>0, <1>2, GoType, GoIs DEF RunLoop
  <2>2. /\ timer' \in [Kinds -> Timer]
        /\ \A j \in Kinds : OnQueue(j)' = OnQueue(j)
    BY <1>0, <1>2 DEF RunLoop, OnQueue, TypeOK
  <2>3. TypeOK'
    BY <1>0, <1>2, <2>1, <2>2 DEF RunLoop, TypeOK
  <2> QED BY <1>0, <1>2, <2>1, <2>2, <2>3 DEF RunLoop
<1>3. CASE NoMessage
  <2>1. /\ pc' \in Pc
        /\ pc.main = "work" /\ pc'.main = "loop"
        /\ pc'.data = pc.data /\ pc'.ticker = pc.ticker
    BY <1>0, <1>3, GoType, GoIs DEF NoMessage
  <2>2. /\ timer' \in [Kinds -> Timer]
        /\ \A j \in Kinds : OnQueue(j)' = OnQueue(j)
    BY <1>0, <1>3 DEF NoMessage, OnQueue, TypeOK
  <2>3. TypeOK'
    BY <1>0, <1>3, <2>1, <2>2 DEF NoMessage, TypeOK
  <2> QED BY <1>0, <1>3, <2>1, <2>2, <2>3 DEF NoMessage
<1>4. CASE CWResetEchoRequestRetransmit
  <2>1. /\ pc' \in Pc
        /\ \/ pc.main = "reset" /\ pc'.main = "loop"
           \/ pc.main = "reset" /\ pc'.main = "stopEcho"
        /\ pc'.data = pc.data /\ pc'.ticker = pc.ticker
    BY <1>0, <1>4, GoType, GoIs
       DEF CWResetEchoRequestRetransmit, CWStartEchoRequestTimer
  <2>2. /\ timer' \in [Kinds -> Timer]
        /\ \A j \in Kinds \ {"echo"} : OnQueue(j)' = OnQueue(j)
        /\ ~failed' => OnQueue("echo")'
    BY <1>0, <1>4, Added, Taken
       DEF CWResetEchoRequestRetransmit, CWStartEchoRequestTimer
  <2>3. TypeOK'
    BY <1>0, <1>4, <2>1, <2>2
       DEF CWResetEchoRequestRetransmit, CWStartEchoRequestTimer, TypeOK
  <2> QED BY <1>0, <1>4, <2>1, <2>2, <2>3
     DEF CWResetEchoRequestRetransmit, CWStartEchoRequestTimer
<1>5. CASE CWStopEchoRequestsTimer
  <2>1. /\ pc' \in Pc
        /\ pc.main = "stopEcho" /\ pc'.main = "stopKeepAlive"
        /\ pc'.data = pc.data /\ pc'.ticker = pc.ticker
    BY <1>0, <1>5, GoType, GoIs DEF CWStopEchoRequestsTimer
  <2>2. /\ timer' \in [Kinds -> Timer]
        /\ \A j \in Kinds \ {"echo"} : OnQueue(j)' = OnQueue(j)
        /\ OnQueue("echo")' => OnQueue("echo")
    BY <1>0, <1>5, Taken DEF CWStopEchoRequestsTimer
  <2>3. TypeOK'
    BY <1>0, <1>5, <2>1, <2>2 DEF CWStopEchoRequestsTimer, TypeOK
  <2> QED BY <1>0, <1>5, <2>1, <2>2, <2>3 DEF CWStopEchoRequestsTimer
<1>6. CASE CWStopKeepAliveTimer
  <2>1. /\ pc' \in Pc
        /\ pc.main = "stopKeepAlive" /\ pc'.main = "stopDead"
        /\ pc'.data = pc.data /\ pc'.ticker = pc.ticker
    BY <1>0, <1>6, GoType, GoIs DEF CWStopKeepAliveTimer
  <2>2. /\ timer' \in [Kinds -> Timer]
        /\ \A j \in Kinds \ {"keepAlive"} : OnQueue(j)' = OnQueue(j)
        /\ OnQueue("keepAlive")' => OnQueue("keepAlive")
    BY <1>0, <1>6, Taken DEF CWStopKeepAliveTimer
  <2>3. TypeOK'
    BY <1>0, <1>6, <2>1, <2>2 DEF CWStopKeepAliveTimer, TypeOK
  <2> QED BY <1>0, <1>6, <2>1, <2>2, <2>3 DEF CWStopKeepAliveTimer
<1>7. CASE CWStopDataChannelDeadTimer
  <2>1. /\ pc' \in Pc
        /\ pc.main = "stopDead" /\ pc'.main = "mark"
        /\ pc'.data = pc.data /\ pc'.ticker = pc.ticker
    BY <1>0, <1>7, GoType, GoIs DEF CWStopDataChannelDeadTimer
  <2>2. /\ timer' \in [Kinds -> Timer]
        /\ \A j \in Kinds \ {"dead"} : OnQueue(j)' = OnQueue(j)
        /\ OnQueue("dead")' => OnQueue("dead")
    BY <1>0, <1>7, Taken DEF CWStopDataChannelDeadTimer
  <2>3. TypeOK'
    BY <1>0, <1>7, <2>1, <2>2 DEF CWStopDataChannelDeadTimer, TypeOK
  <2> QED BY <1>0, <1>7, <2>1, <2>2, <2>3 DEF CWStopDataChannelDeadTimer
<1>8. CASE TellDataThread
  <2>1. /\ pc' \in Pc
        /\ pc.main = "mark" /\ pc'.main = "join"
        /\ pc'.data = pc.data /\ pc'.ticker = pc.ticker
    BY <1>0, <1>8, GoType, GoIs DEF TellDataThread
  <2>2. /\ timer' \in [Kinds -> Timer]
        /\ \A j \in Kinds : OnQueue(j)' = OnQueue(j)
    BY <1>0, <1>8 DEF TellDataThread, OnQueue, TypeOK
  <2>3. TypeOK'
    BY <1>0, <1>8, <2>1, <2>2 DEF TellDataThread, TypeOK
  <2> QED BY <1>0, <1>8, <2>1, <2>2, <2>3 DEF TellDataThread
<1>9. CASE JoinDataThread
  <2>1. /\ pc' \in Pc
        /\ \/ pc.main = "join" /\ pc'.main = "clear"
           \/ pc.main = "join" /\ pc'.main = "crashed"
        /\ pc'.data = pc.data /\ pc'.ticker = pc.ticker
    BY <1>0, <1>9, GoType, GoIs DEF JoinDataThread
  <2>2. /\ timer' \in [Kinds -> Timer]
        /\ \A j \in Kinds : OnQueue(j)' = OnQueue(j)
    BY <1>0, <1>9 DEF JoinDataThread, OnQueue, TypeOK
  <2>3. TypeOK'
    BY <1>0, <1>9, <2>1, <2>2 DEF JoinDataThread, TypeOK
  <2> QED BY <1>0, <1>9, <2>1, <2>2, <2>3 DEF JoinDataThread
<1>10. CASE ClearFlags
  <2>1. /\ pc' \in Pc
        /\ pc.main = "clear" /\ pc'.main = "out"
        /\ pc'.data = pc.data /\ pc'.ticker = pc.ticker
    BY <1>0, <1>10, GoType, GoIs DEF ClearFlags
  <2>2. /\ timer' \in [Kinds -> Timer]
        /\ \A j \in Kinds : OnQueue(j)' = OnQueue(j)
    BY <1>0, <1>10 DEF ClearFlags, OnQueue, TypeOK
  <2>3. TypeOK'
    BY <1>0, <1>10, <2>1, <2>2 DEF ClearFlags, TypeOK
  <2> QED BY <1>0, <1>10, <2>1, <2>2, <2>3 DEF ClearFlags
<1> QED BY <1>1, <1>2, <1>3, <1>4, <1>5, <1>6, <1>7, <1>8, <1>9, <1>10
   DEF MainThread

\* A message: nothing changes, or the Echo timer is stopped, to be started
\* again.
LEMMA MessageInv ==
    ASSUME IInv, CWWTPManageGenericRunMessage \/ ReceivePacket("main")
    PROVE  IInv'
<1> USE KindsAre DEF IInv, EchoBelowLimit, BeforeFirstRun, ChannelUntouched,
                        EchoBelieved, EchoGuarded, DeadStarted, Dead, flags,
                        Works, Fails, KeepAlivePc
<1>0. /\ TypeOK /\ Failures \in BOOLEAN /\ MaxRetransmitEcho \in Nat
      /\ echoCount \in 0 .. MaxRetransmitEcho /\ 0 \in 0 .. MaxRetransmitEcho
      /\ {0, 1, 2} \subseteq 0 .. 2
  BY FailuresAssumption, RetransmitAssumption DEF TypeOK
<1>1. CASE CWWTPManageGenericRunMessage
  <2>1. /\ pc' \in Pc
        /\ pc.main \in {"work", "receive"}
        /\ pc'.main \in {"reset", "stopEcho"}
        /\ pc'.data = pc.data /\ pc'.ticker = pc.ticker
    BY <1>0, <1>1, GoType, GoIs
       DEF CWWTPManageGenericRunMessage, ReceiveMessage
  <2>a. \/ failed'
        \/ /\ pc'.main = "reset" /\ echoSet' = FALSE
           /\ failed' = failed
    BY <1>0, <1>1, GoType, GoIs
       DEF CWWTPManageGenericRunMessage, ReceiveMessage
  <2>2. /\ timer' \in [Kinds -> Timer]
        /\ \A j \in Kinds \ {"echo"} : OnQueue(j)' = OnQueue(j)
        /\ OnQueue("echo")' => OnQueue("echo")
    BY <1>0, <1>1, Taken DEF CWWTPManageGenericRunMessage, OnQueue, TypeOK
  <2>3. TypeOK'
    BY <1>0, <1>1, <2>1, <2>2 DEF CWWTPManageGenericRunMessage, TypeOK
  <2> QED BY <1>0, <1>1, <2>1, <2>a, <2>2, <2>3
          DEF CWWTPManageGenericRunMessage
<1>2. CASE ReceivePacket("main")
  <2>1. /\ pc' \in Pc
        /\ \/ pc.main = "work" /\ pc'.main = "receive"
           \/ pc.main = "receive" /\ pc'.main = "loop"
        /\ pc'.data = pc.data /\ pc'.ticker = pc.ticker
    BY <1>0, <1>2, GoType, GoIs DEF ReceivePacket
  <2>2. /\ timer' \in [Kinds -> Timer]
        /\ \A j \in Kinds : OnQueue(j)' = OnQueue(j)
    BY <1>0, <1>2 DEF ReceivePacket, OnQueue, TypeOK
  <2>3. TypeOK'
    BY <1>0, <1>2, <2>1, <2>2 DEF ReceivePacket, TypeOK
  <2> QED BY <1>0, <1>2, <2>1, <2>2, <2>3 DEF ReceivePacket
<1> QED BY <1>1, <1>2

-----------------------------------------------------------------------------
(* The data thread.                                                        *)

\* The data thread: it starts the timers of its channel, in this order.
LEMMA DataThreadInv == ASSUME IInv, DataThread PROVE IInv'
<1> USE KindsAre DEF IInv, EchoBelowLimit, BeforeFirstRun, ChannelUntouched,
                        EchoBelieved, EchoGuarded, DeadStarted, Dead, flags,
                        Works, Fails, KeepAlivePc
<1>0. /\ TypeOK /\ Failures \in BOOLEAN /\ MaxRetransmitEcho \in Nat
      /\ echoCount \in 0 .. MaxRetransmitEcho /\ 0 \in 0 .. MaxRetransmitEcho
      /\ {0, 1, 2} \subseteq 0 .. 2
  BY FailuresAssumption, RetransmitAssumption DEF TypeOK
<1>1. CASE DataThreadStarts
  <2>1. /\ pc' \in Pc
        /\ pc.data = "created" /\ pc'.data = "alive"
        /\ pc'.main = pc.main /\ pc'.ticker = pc.ticker
    BY <1>0, <1>1, GoType, GoIs DEF DataThreadStarts
  <2>2. /\ timer' \in [Kinds -> Timer]
        /\ \A j \in Kinds : OnQueue(j)' = OnQueue(j)
    BY <1>0, <1>1 DEF DataThreadStarts, OnQueue, TypeOK
  <2>3. TypeOK'
    BY <1>0, <1>1, <2>1, <2>2 DEF DataThreadStarts, TypeOK
  <2> QED BY <1>0, <1>1, <2>1, <2>2, <2>3 DEF DataThreadStarts
<1>2. CASE ChannelIsAlive
  <2>1. /\ pc' \in Pc
        /\ pc.data = "alive" /\ pc'.data = "keepAlive"
        /\ pc'.main = pc.main /\ pc'.ticker = pc.ticker
    BY <1>0, <1>2, GoType, GoIs DEF ChannelIsAlive
  <2>2. /\ timer' \in [Kinds -> Timer]
        /\ \A j \in Kinds : OnQueue(j)' = OnQueue(j)
    BY <1>0, <1>2 DEF ChannelIsAlive, OnQueue, TypeOK
  <2>3. TypeOK'
    BY <1>0, <1>2, <2>1, <2>2 DEF ChannelIsAlive, TypeOK
  <2> QED BY <1>0, <1>2, <2>1, <2>2, <2>3 DEF ChannelIsAlive
<1>3. CASE DataLoop
  <2>1. /\ pc' \in Pc
        /\ \/ pc.data = "loop" /\ pc'.data = "end"
           \/ pc.data = "loop" /\ pc'.data = "work"
        /\ pc'.main = pc.main /\ pc'.ticker = pc.ticker
    BY <1>0, <1>3, GoType, GoIs DEF DataLoop
  <2>2. /\ timer' \in [Kinds -> Timer]
        /\ \A j \in Kinds : OnQueue(j)' = OnQueue(j)
    BY <1>0, <1>3 DEF DataLoop, OnQueue, TypeOK
  <2>3. TypeOK'
    BY <1>0, <1>3, <2>1, <2>2 DEF DataLoop, TypeOK
  <2> QED BY <1>0, <1>3, <2>1, <2>2, <2>3 DEF DataLoop
<1>4. CASE NoDataPacket
  <2>1. /\ pc' \in Pc
        /\ pc.data = "work" /\ pc'.data = "loop"
        /\ pc'.main = pc.main /\ pc'.ticker = pc.ticker
    BY <1>0, <1>4, GoType, GoIs DEF NoDataPacket
  <2>2. /\ timer' \in [Kinds -> Timer]
        /\ \A j \in Kinds : OnQueue(j)' = OnQueue(j)
    BY <1>0, <1>4 DEF NoDataPacket, OnQueue, TypeOK
  <2>3. TypeOK'
    BY <1>0, <1>4, <2>1, <2>2 DEF NoDataPacket, TypeOK
  <2> QED BY <1>0, <1>4, <2>1, <2>2, <2>3 DEF NoDataPacket
<1>5. CASE CWResetDataChannelDeadTimer
  <2>1. /\ pc' \in Pc
        /\ \/ pc.data = "restart" /\ pc'.data = "loop"
           \/ pc.data = "restart" /\ pc'.data = "end"
        /\ pc'.main = pc.main /\ pc'.ticker = pc.ticker
    BY <1>0, <1>5, GoType, GoIs DEF CWResetDataChannelDeadTimer
  <2>2. /\ timer' \in [Kinds -> Timer]
        /\ \A j \in Kinds \ {"dead"} : OnQueue(j)' = OnQueue(j)
        /\ ~failed' => OnQueue("dead")'
    BY <1>0, <1>5, Added, Taken DEF CWResetDataChannelDeadTimer
  <2>3. TypeOK'
    BY <1>0, <1>5, <2>1, <2>2 DEF CWResetDataChannelDeadTimer, TypeOK
  <2> QED BY <1>0, <1>5, <2>1, <2>2, <2>3 DEF CWResetDataChannelDeadTimer
<1>6. CASE DataThreadEnds
  <2>1. /\ pc' \in Pc
        /\ pc.data = "end" /\ pc'.data = "ended"
        /\ pc'.main = pc.main /\ pc'.ticker = pc.ticker
    BY <1>0, <1>6, GoType, GoIs DEF DataThreadEnds
  <2>2. /\ timer' \in [Kinds -> Timer]
        /\ \A j \in Kinds : OnQueue(j)' = OnQueue(j)
    BY <1>0, <1>6 DEF DataThreadEnds, OnQueue, TypeOK
  <2>3. TypeOK'
    BY <1>0, <1>6, <2>1, <2>2 DEF DataThreadEnds, TypeOK
  <2> QED BY <1>0, <1>6, <2>1, <2>2, <2>3 DEF DataThreadEnds
<1>7. CASE TestChannels("data")
  <2>1. /\ pc' \in Pc
        /\ \/ pc.data = "keepAlive" /\ pc'.data = "loop"
              /\ Dead
           \/ pc.data = "keepAlive" /\ pc'.data = "testDead"
        /\ pc'.main = pc.main /\ pc'.ticker = pc.ticker
    BY <1>0, <1>7, GoType, GoIs DEF TestChannels, Return
  <2>2. /\ timer' \in [Kinds -> Timer]
        /\ \A j \in Kinds : OnQueue(j)' = OnQueue(j)
    BY <1>0, <1>7 DEF TestChannels, Return, OnQueue, TypeOK
  <2>3. TypeOK'
    BY <1>0, <1>7, <2>1, <2>2 DEF TestChannels, Return, TypeOK
  <2> QED BY <1>0, <1>7, <2>1, <2>2, <2>3 DEF TestChannels, Return
<1>8. CASE TestDeadTimer("data")
  <2>1. /\ pc' \in Pc
        /\ \/ pc.data = "testDead" /\ pc'.data = "send"
              /\ deadSet
           \/ pc.data = "testDead" /\ pc'.data = "startDead"
        /\ pc'.main = pc.main /\ pc'.ticker = pc.ticker
    BY <1>0, <1>8, GoType, GoIs DEF TestDeadTimer
  <2>2. /\ timer' \in [Kinds -> Timer]
        /\ \A j \in Kinds : OnQueue(j)' = OnQueue(j)
    BY <1>0, <1>8 DEF TestDeadTimer, OnQueue, TypeOK
  <2>3. TypeOK'
    BY <1>0, <1>8, <2>1, <2>2 DEF TestDeadTimer, TypeOK
  <2> QED BY <1>0, <1>8, <2>1, <2>2, <2>3 DEF TestDeadTimer
<1>9. CASE StartDeadTimer("data")
  <2>1. /\ pc' \in Pc
        /\ \/ pc.data = "startDead" /\ pc'.data = "send"
           \/ pc.data = "startDead" /\ pc'.data = "loop"
        /\ pc'.main = pc.main /\ pc'.ticker = pc.ticker
    BY <1>0, <1>9, GoType, GoIs
       DEF StartDeadTimer, CWStartDataChannelDeadTimer, Return
  <2>2. /\ timer' \in [Kinds -> Timer]
        /\ \A j \in Kinds \ {"dead"} : OnQueue(j)' = OnQueue(j)
        /\ ~failed' => OnQueue("dead")'
    BY <1>0, <1>9, Added, Taken
       DEF StartDeadTimer, CWStartDataChannelDeadTimer, Return
  <2>3. TypeOK'
    BY <1>0, <1>9, <2>1, <2>2
       DEF StartDeadTimer, CWStartDataChannelDeadTimer, Return, TypeOK
  <2> QED BY <1>0, <1>9, <2>1, <2>2, <2>3
     DEF StartDeadTimer, CWStartDataChannelDeadTimer, Return
<1>10. CASE CWStartKeepAliveTimer("data")
  <2>1. /\ pc' \in Pc
        /\ pc.data = "send" /\ pc'.data = "loop"
        /\ pc'.main = pc.main /\ pc'.ticker = pc.ticker
    BY <1>0, <1>10, GoType, GoIs DEF CWStartKeepAliveTimer, Return
  <2>2. /\ timer' \in [Kinds -> Timer]
        /\ \A j \in Kinds \ {"keepAlive"} : OnQueue(j)' = OnQueue(j)
    BY <1>0, <1>10, Added, Taken
       DEF CWStartKeepAliveTimer, Return, OnQueue, TypeOK
  <2>3. TypeOK'
    BY <1>0, <1>10, <2>1, <2>2 DEF CWStartKeepAliveTimer, Return, TypeOK
  <2> QED BY <1>0, <1>10, <2>1, <2>2, <2>3 DEF CWStartKeepAliveTimer, Return
<1> QED BY <1>1, <1>2, <1>3, <1>4, <1>5, <1>6, <1>7, <1>8, <1>9, <1>10
   DEF DataThread, CWWTPKeepAliveDataTimerExpiredHandler

\* A packet on the data channel.
LEMMA DataPacketInv ==
    ASSUME IInv, ReceiveKeepAlive \/ DataFrameFails \/ ReceivePacket("data")
    PROVE  IInv'
<1> USE KindsAre DEF IInv, EchoBelowLimit, BeforeFirstRun, ChannelUntouched,
                        EchoBelieved, EchoGuarded, DeadStarted, Dead, flags,
                        Works, Fails, KeepAlivePc
<1>0. /\ TypeOK /\ Failures \in BOOLEAN /\ MaxRetransmitEcho \in Nat
      /\ echoCount \in 0 .. MaxRetransmitEcho /\ 0 \in 0 .. MaxRetransmitEcho
      /\ {0, 1, 2} \subseteq 0 .. 2
  BY FailuresAssumption, RetransmitAssumption DEF TypeOK
<1>1. CASE ReceiveKeepAlive
  <2>1. /\ pc' \in Pc
        /\ pc.data \in {"work", "receive"} /\ pc'.data = "restart"
        /\ pc'.main = pc.main /\ pc'.ticker = pc.ticker
    BY <1>0, <1>1, GoType, GoIs DEF ReceiveKeepAlive, ReceiveMessage
  <2>2. /\ timer' \in [Kinds -> Timer]
        /\ \A j \in Kinds \ {"dead"} : OnQueue(j)' = OnQueue(j)
        /\ OnQueue("dead")' => OnQueue("dead")
    BY <1>0, <1>1, Taken DEF ReceiveKeepAlive
  <2>3. TypeOK'
    BY <1>0, <1>1, <2>1, <2>2 DEF ReceiveKeepAlive, TypeOK
  <2> QED BY <1>0, <1>1, <2>1, <2>2, <2>3 DEF ReceiveKeepAlive
<1>2. CASE DataFrameFails
  <2>1. /\ pc' \in Pc
        /\ pc.data \in {"work", "receive"} /\ pc'.data = "ended"
        /\ pc'.main = pc.main /\ pc'.ticker = pc.ticker
    BY <1>0, <1>2, GoType, GoIs DEF DataFrameFails, ReceiveMessage
  <2>2. /\ timer' \in [Kinds -> Timer]
        /\ \A j \in Kinds : OnQueue(j)' = OnQueue(j)
    BY <1>0, <1>2 DEF DataFrameFails, OnQueue, TypeOK
  <2>3. TypeOK'
    BY <1>0, <1>2, <2>1, <2>2 DEF DataFrameFails, TypeOK
  <2> QED BY <1>0, <1>2, <2>1, <2>2, <2>3 DEF DataFrameFails
<1>3. CASE ReceivePacket("data")
  <2>1. /\ pc' \in Pc
        /\ \/ pc.data = "work" /\ pc'.data = "receive"
           \/ pc.data = "receive" /\ pc'.data = "loop"
        /\ pc'.main = pc.main /\ pc'.ticker = pc.ticker
    BY <1>0, <1>3, GoType, GoIs DEF ReceivePacket
  <2>2. /\ timer' \in [Kinds -> Timer]
        /\ \A j \in Kinds : OnQueue(j)' = OnQueue(j)
    BY <1>0, <1>3 DEF ReceivePacket, OnQueue, TypeOK
  <2>3. TypeOK'
    BY <1>0, <1>3, <2>1, <2>2 DEF ReceivePacket, TypeOK
  <2> QED BY <1>0, <1>3, <2>1, <2>2, <2>3 DEF ReceivePacket
<1> QED BY <1>1, <1>2, <1>3

-----------------------------------------------------------------------------
(* The ticker thread.                                                      *)

\* The handlers.
LEMMA HandlerInv == ASSUME IInv, Handler PROVE IInv'
<1> USE KindsAre DEF IInv, EchoBelowLimit, BeforeFirstRun, ChannelUntouched,
                        EchoBelieved, EchoGuarded, DeadStarted, Dead, flags,
                        Works, Fails, KeepAlivePc
<1>0. /\ TypeOK /\ Failures \in BOOLEAN /\ MaxRetransmitEcho \in Nat
      /\ echoCount \in 0 .. MaxRetransmitEcho /\ 0 \in 0 .. MaxRetransmitEcho
      /\ {0, 1, 2} \subseteq 0 .. 2
  BY FailuresAssumption, RetransmitAssumption DEF TypeOK
<1>1. CASE TestEcho
  <2>1. /\ pc' \in Pc
        /\ \/ pc.ticker = "echo" /\ pc'.ticker = "idle"
              /\ (~echoSet \/ exitEcho')
           \/ pc.ticker = "echo" /\ pc'.ticker = "testChannel"
              /\ echoCount < MaxRetransmitEcho
        /\ pc'.main = pc.main /\ pc'.data = pc.data
    BY <1>0, <1>1, GoType, GoIs DEF TestEcho
  <2>2. /\ timer' \in [Kinds -> Timer]
        /\ \A j \in Kinds : OnQueue(j)' = OnQueue(j)
    BY <1>0, <1>1 DEF TestEcho, OnQueue, TypeOK
  <2>3. TypeOK'
    BY <1>0, <1>1, <2>1, <2>2 DEF TestEcho, TypeOK
  <2> QED BY <1>0, <1>1, <2>1, <2>2, <2>3 DEF TestEcho
<1>2. CASE TestChannel
  <2>1. /\ pc' \in Pc
        /\ \/ pc.ticker = "testChannel" /\ pc'.ticker = "idle"
              /\ (deadFlag \/ failed')
           \/ pc.ticker = "testChannel" /\ pc'.ticker = "sendEcho"
        /\ pc'.main = pc.main /\ pc'.data = pc.data
    BY <1>0, <1>2, GoType, GoIs DEF TestChannel
  <2>2. /\ timer' \in [Kinds -> Timer]
        /\ \A j \in Kinds : OnQueue(j)' = OnQueue(j)
    BY <1>0, <1>2 DEF TestChannel, OnQueue, TypeOK
  <2>3. TypeOK'
    BY <1>0, <1>2, <2>1, <2>2 DEF TestChannel, TypeOK
  <2> QED BY <1>0, <1>2, <2>1, <2>2, <2>3 DEF TestChannel
<1>3. CASE SendEcho
  <2>1. /\ pc' \in Pc
        /\ pc.ticker = "sendEcho" /\ pc'.ticker = "idle"
        /\ pc'.main = pc.main /\ pc'.data = pc.data
    BY <1>0, <1>3, GoType, GoIs DEF SendEcho
  <2>2. /\ timer' \in [Kinds -> Timer]
        /\ \A j \in Kinds \ {"echo"} : OnQueue(j)' = OnQueue(j)
        /\ ~failed' => OnQueue("echo")'
    BY <1>0, <1>3, Added, Taken DEF SendEcho
  <2>3. echoCount' \in 0 .. MaxRetransmitEcho
    BY <1>0, <1>3, <2>1 DEF SendEcho
  <2>4. TypeOK'
    BY <1>0, <1>3, <2>1, <2>2, <2>3 DEF SendEcho, TypeOK
  <2> QED BY <1>0, <1>3, <2>1, <2>2, <2>3, <2>4 DEF SendEcho
<1>4. CASE CWWTPDataChannelDeadTimerExpired
  <2>1. /\ pc' \in Pc
        /\ pc.ticker = "expired" /\ pc'.ticker = "idle"
        /\ pc'.main = pc.main /\ pc'.data = pc.data
    BY <1>0, <1>4, GoType, GoIs DEF CWWTPDataChannelDeadTimerExpired
  <2>2. /\ timer' \in [Kinds -> Timer]
        /\ \A j \in Kinds : OnQueue(j)' = OnQueue(j)
    BY <1>0, <1>4 DEF CWWTPDataChannelDeadTimerExpired, OnQueue, TypeOK
  <2>3. TypeOK'
    BY <1>0, <1>4, <2>1, <2>2 DEF CWWTPDataChannelDeadTimerExpired, TypeOK
  <2> QED BY <1>0, <1>4, <2>1, <2>2, <2>3 DEF CWWTPDataChannelDeadTimerExpired
<1>5. CASE TestChannels("ticker")
  <2>1. /\ pc' \in Pc
        /\ \/ pc.ticker = "keepAlive" /\ pc'.ticker = "idle"
              /\ Dead
           \/ pc.ticker = "keepAlive" /\ pc'.ticker = "testDead"
        /\ pc'.main = pc.main /\ pc'.data = pc.data
    BY <1>0, <1>5, GoType, GoIs DEF TestChannels, Return
  <2>2. /\ timer' \in [Kinds -> Timer]
        /\ \A j \in Kinds : OnQueue(j)' = OnQueue(j)
    BY <1>0, <1>5 DEF TestChannels, Return, OnQueue, TypeOK
  <2>3. TypeOK'
    BY <1>0, <1>5, <2>1, <2>2 DEF TestChannels, Return, TypeOK
  <2> QED BY <1>0, <1>5, <2>1, <2>2, <2>3 DEF TestChannels, Return
<1>6. CASE TestDeadTimer("ticker")
  <2>1. /\ pc' \in Pc
        /\ \/ pc.ticker = "testDead" /\ pc'.ticker = "send"
              /\ deadSet
           \/ pc.ticker = "testDead" /\ pc'.ticker = "startDead"
        /\ pc'.main = pc.main /\ pc'.data = pc.data
    BY <1>0, <1>6, GoType, GoIs DEF TestDeadTimer
  <2>2. /\ timer' \in [Kinds -> Timer]
        /\ \A j \in Kinds : OnQueue(j)' = OnQueue(j)
    BY <1>0, <1>6 DEF TestDeadTimer, OnQueue, TypeOK
  <2>3. TypeOK'
    BY <1>0, <1>6, <2>1, <2>2 DEF TestDeadTimer, TypeOK
  <2> QED BY <1>0, <1>6, <2>1, <2>2, <2>3 DEF TestDeadTimer
<1>7. CASE StartDeadTimer("ticker")
  <2>1. /\ pc' \in Pc
        /\ \/ pc.ticker = "startDead" /\ pc'.ticker = "send"
           \/ pc.ticker = "startDead" /\ pc'.ticker = "idle"
        /\ pc'.main = pc.main /\ pc'.data = pc.data
    BY <1>0, <1>7, GoType, GoIs
       DEF StartDeadTimer, CWStartDataChannelDeadTimer, Return
  <2>2. /\ timer' \in [Kinds -> Timer]
        /\ \A j \in Kinds \ {"dead"} : OnQueue(j)' = OnQueue(j)
        /\ ~failed' => OnQueue("dead")'
    BY <1>0, <1>7, Added, Taken
       DEF StartDeadTimer, CWStartDataChannelDeadTimer, Return
  <2>3. TypeOK'
    BY <1>0, <1>7, <2>1, <2>2
       DEF StartDeadTimer, CWStartDataChannelDeadTimer, Return, TypeOK
  <2> QED BY <1>0, <1>7, <2>1, <2>2, <2>3
     DEF StartDeadTimer, CWStartDataChannelDeadTimer, Return
<1>8. CASE CWStartKeepAliveTimer("ticker")
  <2>1. /\ pc' \in Pc
        /\ pc.ticker = "send" /\ pc'.ticker = "idle"
        /\ pc'.main = pc.main /\ pc'.data = pc.data
    BY <1>0, <1>8, GoType, GoIs DEF CWStartKeepAliveTimer, Return
  <2>2. /\ timer' \in [Kinds -> Timer]
        /\ \A j \in Kinds \ {"keepAlive"} : OnQueue(j)' = OnQueue(j)
    BY <1>0, <1>8, Added, Taken
       DEF CWStartKeepAliveTimer, Return, OnQueue, TypeOK
  <2>3. TypeOK'
    BY <1>0, <1>8, <2>1, <2>2 DEF CWStartKeepAliveTimer, Return, TypeOK
  <2> QED BY <1>0, <1>8, <2>1, <2>2, <2>3 DEF CWStartKeepAliveTimer, Return
<1> QED BY <1>1, <1>2, <1>3, <1>4, <1>5, <1>6, <1>7, <1>8
   DEF Handler, CWWTPKeepAliveDataTimerExpiredHandler

\* A timer expires.
LEMMA ExpiresInv == ASSUME IInv, Expires PROVE IInv'
<1> USE KindsAre DEF IInv, EchoBelowLimit, BeforeFirstRun, ChannelUntouched,
                        EchoBelieved, EchoGuarded, DeadStarted, Dead, flags,
                        Works, Fails, KeepAlivePc
<1>0. /\ TypeOK /\ Failures \in BOOLEAN /\ MaxRetransmitEcho \in Nat
      /\ echoCount \in 0 .. MaxRetransmitEcho /\ 0 \in 0 .. MaxRetransmitEcho
      /\ {0, 1, 2} \subseteq 0 .. 2
  BY FailuresAssumption, RetransmitAssumption DEF TypeOK
<1>1. CASE Expire("echo", "echo")
  <2>1. /\ pc' \in Pc
        /\ pc.ticker = "idle" /\ pc'.ticker = "echo"
        /\ pc'.main = pc.main /\ pc'.data = pc.data
    BY <1>0, <1>1, GoType, GoIs DEF Expire
  <2>2. /\ timer' \in [Kinds -> Timer]
        /\ \A j \in Kinds \ {"echo"} : OnQueue(j)' = OnQueue(j)
        /\ OnQueue("echo")
    BY <1>0, <1>1, Taken DEF Expire, timer_rem, OnQueue
  <2>3. TypeOK'
    BY <1>0, <1>1, <2>1, <2>2 DEF Expire, TypeOK
  <2> QED BY <1>0, <1>1, <2>1, <2>2, <2>3 DEF Expire
<1>2. CASE Expire("keepAlive", "keepAlive")
  <2>1. /\ pc' \in Pc
        /\ pc.ticker = "idle" /\ pc'.ticker = "keepAlive"
        /\ pc'.main = pc.main /\ pc'.data = pc.data
    BY <1>0, <1>2, GoType, GoIs DEF Expire
  <2>2. /\ timer' \in [Kinds -> Timer]
        /\ \A j \in Kinds \ {"keepAlive"} : OnQueue(j)' = OnQueue(j)
        /\ OnQueue("keepAlive")
    BY <1>0, <1>2, Taken DEF Expire, timer_rem, OnQueue
  <2>3. TypeOK'
    BY <1>0, <1>2, <2>1, <2>2 DEF Expire, TypeOK
  <2> QED BY <1>0, <1>2, <2>1, <2>2, <2>3 DEF Expire
<1>3. CASE Expire("dead", "expired")
  <2>1. /\ pc' \in Pc
        /\ pc.ticker = "idle" /\ pc'.ticker = "expired"
        /\ pc'.main = pc.main /\ pc'.data = pc.data
    BY <1>0, <1>3, GoType, GoIs DEF Expire
  <2>2. /\ timer' \in [Kinds -> Timer]
        /\ \A j \in Kinds \ {"dead"} : OnQueue(j)' = OnQueue(j)
        /\ OnQueue("dead")
    BY <1>0, <1>3, Taken DEF Expire, timer_rem, OnQueue
  <2>3. TypeOK'
    BY <1>0, <1>3, <2>1, <2>2 DEF Expire, TypeOK
  <2> QED BY <1>0, <1>3, <2>1, <2>2, <2>3 DEF Expire
<1> QED BY <1>1, <1>2, <1>3 DEF Expires

-----------------------------------------------------------------------------
(* The theorems.                                                           *)

\* Run is entered: for the first time, nothing has happened yet.
LEMMA CWWTPEnterRunInv == ASSUME IInv, CWWTPEnterRun PROVE IInv'
<1>0. /\ TypeOK /\ pc \in Pc /\ runs \in 0 .. MaxRuns /\ MaxRuns \in Nat
      /\ echoCount \in 0 .. MaxRetransmitEcho /\ MaxRetransmitEcho \in Nat
  BY RetransmitAssumption, BoundsAssumption DEF IInv, TypeOK
<1>1. /\ pc' \in Pc /\ pc'.main \in {"echo", "stopEcho"}
      /\ pc'.data \in {"created", "none"} /\ pc'.ticker = pc.ticker
      /\ pc.main = "out"
  BY <1>0 DEF CWWTPEnterRun, Pc
<1>2. /\ timer' \in [Kinds -> Timer]
      /\ \A j \in Kinds : OnQueue(j)' = OnQueue(j)
  BY <1>0 DEF CWWTPEnterRun, OnQueue, TypeOK
<1>3. runs' = runs + 1 /\ runs' \in 0 .. MaxRuns
  BY <1>0 DEF CWWTPEnterRun
<1>4. TypeOK'
  <2>1. echoCount' \in 0 .. MaxRetransmitEcho
    BY <1>0 DEF CWWTPEnterRun
  <2>2. failed' \in BOOLEAN
    BY <1>0 DEF CWWTPEnterRun, Works, Fails, TypeOK
  <2> QED BY <1>0, <1>1, <1>2, <1>3, <2>1, <2>2
          DEF CWWTPEnterRun, TypeOK, flags
<1>5. EchoBelowLimit'
  BY <1>0, <1>1 DEF CWWTPEnterRun, IInv, EchoBelowLimit
<1>6. BeforeFirstRun' /\ EchoBelieved' /\ EchoGuarded' /\ DeadStarted'
  BY <1>0, <1>1, <1>3
     DEF BeforeFirstRun, EchoBelieved, EchoGuarded, DeadStarted
<1>7. ChannelUntouched'
  <2>1. runs' <= 1 => runs = 0
    BY <1>0, <1>3
  <2>2. runs' <= 1 => /\ ~deadFlag /\ ~deadSet
                      /\ ~OnQueue("keepAlive") /\ ~OnQueue("dead")
                      /\ pc.ticker \notin KeepAlivePc \cup {"expired"}
    BY <2>1 DEF IInv, BeforeFirstRun, ChannelUntouched
  <2> QED BY <1>1, <1>2, <2>2, KindsAre
          DEF CWWTPEnterRun, flags, ChannelUntouched
<1> QED BY <1>4, <1>5, <1>6, <1>7 DEF IInv

\* Before the first Run.
LEMMA InitIInv == Init => IInv
<1> SUFFICES ASSUME Init PROVE IInv
  OBVIOUS
<1>1. TypeOK
  <2>1. pc \in Pc
    BY DEF Init, Pc
  <2>2. timer \in [Kinds -> Timer]
    BY DEF Init, Timer
  <2>3. /\ dataState \in 0 .. 2 /\ echoCount \in 0 .. MaxRetransmitEcho
        /\ runs \in 0 .. MaxRuns
    BY RetransmitAssumption, BoundsAssumption DEF Init
  <2> QED BY <2>1, <2>2, <2>3 DEF Init, TypeOK
<1>2. \A k \in Kinds : ~OnQueue(k)
  BY DEF Init, OnQueue
<1>3. /\ EchoBelowLimit /\ BeforeFirstRun /\ EchoBelieved
      /\ EchoGuarded /\ DeadStarted
  BY DEF Init, EchoBelowLimit, BeforeFirstRun, EchoBelieved, EchoGuarded,
         DeadStarted
<1>4. ChannelUntouched
  BY <1>2, KindsAre DEF Init, ChannelUntouched, KeepAlivePc
<1> QED BY <1>1, <1>3, <1>4 DEF IInv

\* A step in which the AC falls silent, or nothing happens.
LEMMA OutsideInv ==
    ASSUME IInv, ACFallsSilent \/ UNCHANGED vars PROVE IInv'
<1>1. /\ UNCHANGED <<pc, deadFlag, exitEcho, dataState, echoSet, deadSet,
                     echoCount, timer, runs, failed>>
      /\ answers' \in BOOLEAN
  BY DEF ACFallsSilent, vars, flags, IInv, TypeOK
<1>2. TypeOK'
  BY <1>1 DEF IInv, TypeOK
<1>3. /\ EchoBelowLimit' /\ BeforeFirstRun' /\ EchoBelieved'
      /\ \A k \in Kinds : OnQueue(k)' = OnQueue(k)
  BY <1>1 DEF IInv, EchoBelowLimit, BeforeFirstRun, EchoBelieved, OnQueue
<1>4. EchoGuarded' /\ DeadStarted' /\ ChannelUntouched'
  BY <1>1, <1>3, KindsAre
     DEF IInv, EchoGuarded, DeadStarted, ChannelUntouched, Dead
<1> QED BY <1>2, <1>3, <1>4 DEF IInv

\* The inductive invariant: what EchoGuarded and DeadGuarded need is that in
\* the first Run only the data thread wakes its channel's timers, and that the
\* handler never finds the Echo timer unset while Run is served.
THEOREM Invariance == Spec => []IInv
<1>1. Init => IInv
  BY InitIInv
<1>2. IInv /\ [Next]_vars => IInv'
  BY CWWTPEnterRunInv, MainThreadInv, MessageInv, DataThreadInv, DataPacketInv,
     HandlerInv, ExpiresInv, OutsideInv DEF Next
<1> QED BY <1>1, <1>2, PTL DEF Spec

\* Types, and with them the limit on Echo Requests: the handler of the Echo
\* timer tests gWTPEchoRetransmissionCount two steps before it increments it,
\* and the main thread resets it at any time.
THEOREM TypeCorrect == Spec => []TypeOK
<1>1. IInv => TypeOK
  BY DEF IInv
<1> QED BY <1>1, Invariance, PTL

\* In the first Run the Echo timer is never lost between the main thread's
\* CWResetEchoRequestRetransmit and CWWTPEchoRequestTimerExpiredHandler.
THEOREM EchoTimerKept == Spec => []EchoGuarded
<1>1. IInv => EchoGuarded
  BY DEF IInv
<1> QED BY <1>1, Invariance, PTL

\* Nor is the DataChannelDead timer between the data thread, the main thread
\* and the handlers of the ticker thread.
THEOREM DeadTimerKept == Spec => []DeadGuarded
<1>1. IInv => DeadGuarded
  BY DEF IInv, DeadStarted, DeadGuarded
<1> QED BY <1>1, Invariance, PTL

=============================================================================
