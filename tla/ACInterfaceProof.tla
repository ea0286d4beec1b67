--------------------------- MODULE ACInterfaceProof ---------------------------
(***************************************************************************)
(* The safety properties of ACInterface for every number of clients,       *)
(* sockets, commands and stations.  Three of them are about a single       *)
(* client, as the runs are; two of these need as many sequence numbers as  *)
(* there are requests.                                                     *)
(***************************************************************************)
EXTENDS ACInterface, FiniteSetTheorems, SequenceTheorems, TLAPS

\* How many completions the slot owes to its clients.
Due(s) == (IF s.interfaceCommand # NO_CMD THEN 1 ELSE 0)
              + (IF s.interfaceCommandProgress THEN 1 ELSE 0)

\* The set counted by EnoughWaiters.
LEMMA DueCount ==
    ASSUME NEW s, s.interfaceCommandProgress \in BOOLEAN
    PROVE  Cardinality({c \in {"posted", "sent"} :
                \/ c = "posted" /\ s.interfaceCommand # NO_CMD
                \/ c = "sent" /\ s.interfaceCommandProgress}) = Due(s)
<1> DEFINE S == {c \in {"posted", "sent"} :
                    \/ c = "posted" /\ s.interfaceCommand # NO_CMD
                    \/ c = "sent" /\ s.interfaceCommandProgress}
<1>1. /\ Cardinality({}) = 0 /\ Cardinality({"posted"}) = 1
      /\ Cardinality({"sent"}) = 1
  BY FS_EmptySet, FS_Singleton
<1>2. Cardinality({"posted", "sent"}) = 2
  <2>1. {"posted", "sent"} = {"posted"} \cup {"sent"} /\ "sent" \notin {"posted"}
    OBVIOUS
  <2>2. IsFiniteSet({"posted"})
    BY FS_Singleton
  <2> QED BY <1>1, <2>1, <2>2, FS_AddElement
<1>3. CASE s.interfaceCommand # NO_CMD /\ s.interfaceCommandProgress
  <2>1. S = {"posted", "sent"}
    BY <1>3
  <2> QED BY <1>2, <1>3, <2>1 DEF Due
<1>4. CASE s.interfaceCommand # NO_CMD /\ ~s.interfaceCommandProgress
  <2>1. S = {"posted"}
    BY <1>4
  <2> QED BY <1>1, <1>4, <2>1 DEF Due
<1>5. CASE s.interfaceCommand = NO_CMD /\ s.interfaceCommandProgress
  <2>1. S = {"sent"}
    BY <1>5
  <2> QED BY <1>1, <1>5, <2>1 DEF Due
<1>6. CASE s.interfaceCommand = NO_CMD /\ ~s.interfaceCommandProgress
  <2>1. S = {}
    BY <1>6
  <2> QED BY <1>1, <1>6, <2>1 DEF Due
<1> QED BY <1>3, <1>4, <1>5, <1>6

\* EnoughWaiters in terms of Due, now and after a step.
LEMMA EnoughIs ==
    /\ TypeOK => (EnoughWaiters <=>
           (session.pc # "hung" => Due(session) <= Cardinality(Waiting)))
    /\ TypeOK' => (EnoughWaiters' <=>
           (session'.pc # "hung" => Due(session') <= Cardinality(Waiting')))
<1>1. TypeOK => session.interfaceCommandProgress \in BOOLEAN
  BY DEF TypeOK, Session
<1>2. TypeOK' => session'.interfaceCommandProgress \in BOOLEAN
  BY DEF TypeOK, Session
<1>3. TypeOK => (EnoughWaiters <=>
          (session.pc # "hung" => Due(session) <= Cardinality(Waiting)))
  BY <1>1, DueCount DEF EnoughWaiters
<1>4. TypeOK' => (EnoughWaiters' <=>
          (session'.pc # "hung" => Due(session') <= Cardinality(Waiting')))
  BY <1>2, DueCount DEF EnoughWaiters
<1> QED BY <1>3, <1>4

\* The clients that wait have sockets of their own, so they are finitely many.
LEMMA WaitingFinite ==
    ASSUME TypeOK, OwnSocket
    PROVE  IsFiniteSet(Waiting) /\ Cardinality(Waiting) \in Nat
<1> DEFINE f == [a \in Waiting |-> app[a].sock]
<1>1. f \in Injection(Waiting, Sockets)
  BY DEF Injection, IsInjective, TypeOK, App, OwnSocket, Waiting
<1>2. IsFiniteSet(Sockets)
  BY FS_Interval, SocketsAssumption DEF Sockets
<1> QED BY <1>1, <1>2, FS_Injection, FS_CardinalityType

\* CWSignalThreadCondition: what it does to the clients.
LEMMA Completed ==
    ASSUME TypeOK, OwnSocket, Complete
    PROVE  /\ app' \in [Apps -> App]
           /\ \A a \in Apps :
                 /\ app'[a].sock = app[a].sock
                 /\ app'[a].cmd = app[a].cmd
                 /\ app'[a].pc = app[a].pc
                       \/ (app[a].pc = "waiting" /\ app'[a].pc = "ready")
           /\ Cardinality(Waiting) > 0 =>
                 Cardinality(Waiting') = Cardinality(Waiting) - 1
           /\ \A a \in Apps : Apps = {a} => app'[a].pc # "waiting"
<1> DEFINE Woken ==
             /\ app' \in [Apps -> App]
             /\ \A a \in Apps :
                   /\ app'[a].sock = app[a].sock
                   /\ app'[a].cmd = app[a].cmd
                   /\ app'[a].pc = app[a].pc
                         \/ (app[a].pc = "waiting" /\ app'[a].pc = "ready")
           Fewer == Cardinality(Waiting) > 0 =>
                       Cardinality(Waiting') = Cardinality(Waiting) - 1
           Alone == \A a \in Apps : Apps = {a} => app'[a].pc # "waiting"
<1>0. app \in [Apps -> App]
  BY DEF TypeOK
<1>1. ASSUME Waiting = {}, UNCHANGED app
      PROVE  Woken /\ Fewer /\ Alone
  <2>1. Cardinality(Waiting) = 0
    BY <1>1, FS_EmptySet
  <2> QED BY <1>0, <1>1, <2>1 DEF Waiting
<1>2. ASSUME NEW a \in Waiting, app' = [app EXCEPT ![a].pc = "ready"]
      PROVE  Woken /\ Fewer /\ Alone
  <2> DEFINE y == [app[a] EXCEPT !.pc = "ready"]
  <2>1. /\ a \in Apps /\ app[a].pc = "waiting"
        /\ y \in App /\ y.pc = "ready" /\ y.sock = app[a].sock
        /\ y.cmd = app[a].cmd
        /\ app' = [app EXCEPT ![a] = y]
    BY <1>0, <1>2 DEF Waiting, App
  <2> HIDE DEF y
  <2>2. Waiting' = Waiting \ {a}
    BY <1>0, <2>1 DEF Waiting
  <2>3. Cardinality(Waiting \ {a}) = Cardinality(Waiting) - 1
    BY <1>2, WaitingFinite, FS_RemoveElement
  <2>4. Woken
    BY <1>0, <2>1
  <2>5. Alone
    BY <1>0, <2>1
  <2> QED BY <2>2, <2>3, <2>4, <2>5
<1> QED BY <1>1, <1>2 DEF Complete

-----------------------------------------------------------------------------
(* The session thread.                                                     *)

\* The slot after CWACStopRetransmission and CWACSendAcknowledgedPacket.
SameCommands(s, r) ==
    /\ r.pc = s.pc
    /\ r.interfaceCommand = s.interfaceCommand
    /\ r.applicationIndex = s.applicationIndex
    /\ r.interfaceCommandProgress = s.interfaceCommandProgress
    /\ r.inProgress = s.inProgress

\* Neither changes the commands of the slot.
LEMMA SlotAfter ==
    ASSUME TypeOK, NEW s \in Session
    PROVE  /\ Stopped(s) \in Session /\ SameCommands(s, Stopped(s))
           /\ Requested(s) \in Session /\ SameCommands(s, Requested(s))
           /\ Requested(s).responseSeqNum = seqNum
           /\ ~s.isRetransmitting => Stopped(s) = s
<1>1. Stopped(s) \in Session /\ SameCommands(s, Stopped(s))
  <2> DEFINE r == [s EXCEPT !.isRetransmitting = FALSE, !.packetTimer = FALSE,
                            !.responseSeqNum = 0, !.messages = FALSE]
  <2>0. 0 \in 0 .. MaxSeqNum
    BY SeqNumAssumption
  <2>1. r \in Session /\ SameCommands(s, r)
    BY <2>0 DEF Session, SameCommands
  <2>2. SameCommands(s, s)
    BY DEF SameCommands
  <2>3. Stopped(s) \in {r, s}
    BY DEF Stopped
  <2> QED BY <2>1, <2>2, <2>3
<1>2. /\ Requested(s) \in Session /\ SameCommands(s, Requested(s))
      /\ Requested(s).responseSeqNum = seqNum
  BY DEF TypeOK, Requested, Session, SameCommands
<1> QED BY <1>1, <1>2 DEF Stopped

\* The next sequence number is one.
LEMMA NextSeqNumType == TypeOK => NextSeqNum \in 0 .. MaxSeqNum
BY SeqNumAssumption DEF TypeOK, NextSeqNum

\* A step that leaves the listener and the sockets alone, and either the
\* clients too or completes one of the commands that are due.
LEMMA SessionStepInv ==
    ASSUME IInv, session' \in Session,
           UNCHANGED <<appsManager, listener, posted>>,
           seqNum' \in 0 .. MaxSeqNum, network' \subseteq Message,
           stations' \in 0 .. MaxStations, finished' \subseteq Commands,
           last' \in Last \cup {NoResponse},
           session'.applicationIndex = session.applicationIndex,
           session'.interfaceCommand # NO_CMD
               \/ (\E m \in network' : m.cmd # NO_CMD) =>
                   session.interfaceCommand # NO_CMD
                       \/ (\E m \in network : m.cmd # NO_CMD),
           session'.interfaceCommandProgress
               <=> session'.inProgress # NO_CMD,
           \/ /\ UNCHANGED app
              /\ session'.pc # "hung" =>
                    session.pc # "hung" /\ Due(session') <= Due(session)
           \/ /\ Complete
              /\ session.pc # "hung"
              /\ Due(session') = Due(session) - 1
    PROVE  IInv'
<1> USE DEF IInv
<1>0. /\ Due(session) \in Nat /\ Due(session') \in Nat
      /\ IsFiniteSet(Waiting) /\ Cardinality(Waiting) \in Nat
  BY WaitingFinite DEF Due
<1>1. /\ app' \in [Apps -> App]
      /\ \A a \in Apps :
            /\ app'[a].sock = app[a].sock
            /\ app'[a].pc = app[a].pc
                  \/ (app[a].pc = "waiting" /\ app'[a].pc = "ready")
  BY Completed DEF TypeOK
<1>2. TypeOK'
  BY <1>1 DEF TypeOK
<1>3. OwnSocket'
  BY <1>1 DEF OwnSocket
<1>4. SocketsCounted' /\ ListenerOwns' /\ CommandHasSender' /\ ProgressKnown'
  <2>1. SocketsCounted'
    BY DEF SocketsCounted, FreeSockets
  <2>2. ListenerOwns'
    BY <1>1 DEF ListenerOwns
  <2>3. CommandHasSender'
    BY DEF CommandHasSender
  <2> QED BY <2>1, <2>2, <2>3 DEF ProgressKnown
<1>5. EnoughWaiters'
  <2>1. CASE UNCHANGED app
    <3>1. Waiting' = Waiting
      BY <2>1 DEF Waiting
    <3>2. session'.pc # "hung" =>
             session.pc # "hung" /\ Due(session') <= Due(session)
      BY <1>0
    <3> QED BY <1>0, <1>2, <3>1, <3>2, EnoughIs
  <2>2. CASE /\ Complete
             /\ session.pc # "hung"
             /\ Due(session') = Due(session) - 1
    <3>1. Due(session) <= Cardinality(Waiting)
      BY <2>2, EnoughIs
    <3>2. Cardinality(Waiting') = Cardinality(Waiting) - 1
      BY <1>0, <2>2, <3>1, Completed
    <3> QED BY <1>0, <1>2, <2>2, <3>1, <3>2, EnoughIs
  <2> QED BY <2>1, <2>2
<1> QED BY <1>2, <1>3, <1>4, <1>5

\* SendCommand: the command that was due in the slot is due in progress, or it
\* completes at once.
LEMMA SendCommandInv == ASSUME IInv, SendCommand PROVE IInv'
<1> DEFINE s == [session EXCEPT !.inProgress = session.interfaceCommand,
                                !.interfaceCommandProgress = TRUE,
                                !.interfaceCommand = NO_CMD]
           r == [type |-> "request", seqNum |-> seqNum,
                 cmd |-> session.interfaceCommand]
<1>0. /\ TypeOK /\ session \in Session /\ seqNum \in 0 .. MaxSeqNum
      /\ session.interfaceCommand \in Commands
      /\ session.pc # "hung"
      /\ session.interfaceCommand # NO_CMD
      /\ session.interfaceCommandProgress \in BOOLEAN
      /\ ProgressKnown
      /\ seqNum' \in 0 .. MaxSeqNum
      /\ UNCHANGED <<appsManager, listener, posted, stations, last>>
  BY NextSeqNumType DEF SendCommand, Running, IInv, TypeOK, Session
<1>1. /\ s \in Session /\ s.pc = session.pc /\ s.interfaceCommand = NO_CMD
      /\ s.applicationIndex = session.applicationIndex
      /\ s.interfaceCommandProgress = TRUE
      /\ s.inProgress = session.interfaceCommand
  BY <1>0 DEF Session
<1>2. ASSUME session' = Requested(s), network' = network \cup {r},
             UNCHANGED <<app, finished>>
      PROVE  IInv'
  <2> HIDE DEF s
  <2>1. /\ session' \in Session /\ SameCommands(s, session')
    BY <1>0, <1>1, <1>2, SlotAfter
  <2>2. r \in Message
    BY <1>0 DEF Message
  <2>3. Due(session') <= Due(session)
    BY <1>0, <1>1, <2>1 DEF Due, SameCommands
  <2> QED BY <1>0, <1>1, <1>2, <2>1, <2>2, <2>3, SessionStepInv
          DEF SameCommands, IInv, TypeOK
<1>3. ASSUME NEW q \in {session, Stopped([session EXCEPT
                                             !.isRetransmitting = TRUE])},
             session' = [q EXCEPT !.interfaceCommand = NO_CMD],
             finished' = finished \cup {session.interfaceCommand},
             Complete, UNCHANGED network
      PROVE  IInv'
  <2> DEFINE z == [session EXCEPT !.isRetransmitting = TRUE]
  <2>1. z \in Session /\ SameCommands(session, z)
    BY <1>0 DEF Session, SameCommands
  <2>2. q \in Session /\ SameCommands(session, q)
    <3>1. q \in {session, Stopped(z)}
      BY <1>3
    <3> HIDE DEF z
    <3>2. Stopped(z) \in Session /\ SameCommands(z, Stopped(z))
      BY <1>0, <2>1, SlotAfter
    <3> QED BY <1>0, <2>1, <3>1, <3>2 DEF SameCommands
  <2>3. /\ session' \in Session /\ session'.pc = session.pc
        /\ session'.interfaceCommand = NO_CMD
        /\ session'.applicationIndex = session.applicationIndex
        /\ session'.interfaceCommandProgress = session.interfaceCommandProgress
        /\ session'.inProgress = session.inProgress
    BY <1>3, <2>2 DEF Session, SameCommands
  <2>4. Due(session') = Due(session) - 1
    BY <1>0, <2>3 DEF Due
  <2>5. finished' \subseteq Commands
    BY <1>0, <1>3 DEF TypeOK
  <2> QED BY <1>0, <1>3, <2>3, <2>4, <2>5, SessionStepInv
          DEF IInv, TypeOK, ProgressKnown
<1> QED BY <1>2, <1>3 DEF SendCommand, CWACSendAcknowledgedPacket

\* The AC sends a request to the WTP: the client still waits.
LEMMA StationConfigurationRequestInv ==
    ASSUME IInv, StationConfigurationRequest PROVE IInv'
<1> DEFINE z == [session EXCEPT !.isRetransmitting = TRUE]
           r == [type |-> "request", seqNum |-> seqNum, cmd |-> NO_CMD]
<1>0. /\ TypeOK /\ session \in Session /\ seqNum \in 0 .. MaxSeqNum
      /\ network \subseteq Message /\ r \in Message
      /\ last' \in Last \cup {NoResponse}
      /\ ProgressKnown
      /\ seqNum' \in 0 .. MaxSeqNum
      /\ UNCHANGED <<appsManager, listener, app, posted>>
  BY NextSeqNumType
     DEF StationConfigurationRequest, Clients, IInv, TypeOK, Message
<1>1. stations' \in 0 .. MaxStations
  BY CommandsAssumption DEF StationConfigurationRequest, IInv, TypeOK
<1>2. finished' \subseteq Commands
  BY DEF StationConfigurationRequest, IInv, TypeOK, Displaced, Session
<1>3. z \in Session /\ SameCommands(session, z)
  BY <1>0 DEF Session, SameCommands
<1>4. /\ session' \in Session /\ SameCommands(session, session')
      /\ network' \in {network, network \cup {r}}
  <2> HIDE DEF z, r
  <2>1. /\ \/ session' = Requested(session) /\ network' = network \cup {r}
           \/ session' = Stopped(z) /\ network' = network
           \/ session' = session /\ network' = network
    BY DEF StationConfigurationRequest, CWACSendAcknowledgedPacket, z, r
  <2>2. SameCommands(session, session)
    BY DEF SameCommands
  <2>3. /\ Stopped(z) \in Session /\ SameCommands(z, Stopped(z))
        /\ Requested(session) \in Session
        /\ SameCommands(session, Requested(session))
    BY <1>0, <1>3, SlotAfter
  <2> QED BY <1>0, <1>3, <2>1, <2>2, <2>3 DEF SameCommands
<1>5. r.cmd = NO_CMD
  OBVIOUS
<1>6. Due(session') = Due(session)
  BY <1>4 DEF Due, SameCommands
<1>7. Due(session) \in Nat
  BY DEF Due
<1> HIDE DEF r, z
<1> QED BY <1>0, <1>1, <1>2, <1>4, <1>5, <1>6, <1>7, SessionStepInv
        DEF SameCommands, ProgressKnown

\* The WTP's answer to a request.
LEMMA AnswerInv == ASSUME IInv, NEW m \in network, Answer(m) PROVE IInv'
<1> DEFINE r == [m EXCEPT !.type = "response"]
<1>1. m \in Message /\ r \in Message /\ r.cmd = m.cmd
  BY DEF IInv, TypeOK, Message
<1>2. network' = network \cup {r}
  BY DEF Answer
<1> HIDE DEF r
<1>3. Due(session) \in Nat
  BY DEF Due
<1> QED BY <1>1, <1>2, <1>3, SessionStepInv
        DEF Answer, Clients, IInv, TypeOK, ProgressKnown

\* A response completes the command in progress, if there is one.
LEMMA HandleResponseInv ==
    ASSUME IInv, NEW m \in network, HandleResponse(m) PROVE IInv'
<1>0. /\ TypeOK /\ session \in Session /\ session.pc = "run" /\ ProgressKnown
      /\ m \in Message /\ m.cmd \in Commands
      /\ UNCHANGED <<appsManager, listener, posted, seqNum, network, stations>>
  BY DEF HandleResponse, IInv, TypeOK, Message
<1>1. PICK close \in BOOLEAN :
        session' = [Stopped(session) EXCEPT
                       !.interfaceCommandProgress = FALSE,
                       !.inProgress = NO_CMD, !.isRequestClose = close]
  BY <1>0 DEF HandleResponse, Session
<1>2. Stopped(session) \in Session /\ SameCommands(session, Stopped(session))
  BY <1>0, SlotAfter
<1>3. /\ session' \in Session /\ session'.pc = "run"
      /\ session'.interfaceCommand = session.interfaceCommand
      /\ session'.applicationIndex = session.applicationIndex
      /\ session'.interfaceCommandProgress = FALSE
      /\ session'.inProgress = NO_CMD
  BY <1>0, <1>1, <1>2 DEF Session, SameCommands
<1>4. finished' \subseteq Commands
  BY <1>0 DEF HandleResponse, TypeOK
<1>5. last' \in Last \cup {NoResponse}
  <2>1. appsManager.appSocket[session.applicationIndex] \in Apps
    BY <1>0 DEF HandleResponse, IInv, CommandHasSender
  <2>2. InProgress \in Commands \cup {NO_CMD}
    BY <1>0 DEF InProgress, Session
  <2> QED BY <1>0, <2>1, <2>2 DEF HandleResponse, Last
<1>6. CASE session.interfaceCommandProgress
  <2>1. Complete
    BY <1>6 DEF HandleResponse
  <2>2. Due(session') = Due(session) - 1
    BY <1>3, <1>6 DEF Due
  <2> QED BY <1>0, <1>3, <1>4, <1>5, <2>1, <2>2, SessionStepInv DEF TypeOK
<1>7. CASE ~session.interfaceCommandProgress
  <2>1. UNCHANGED app
    BY <1>7 DEF HandleResponse
  <2>2. Due(session') <= Due(session)
    BY <1>3, <1>7 DEF Due
  <2> QED BY <1>0, <1>3, <1>4, <1>5, <2>1, <2>2, SessionStepInv DEF TypeOK
<1> QED BY <1>6, <1>7

\* Steps that change only how the session stands, not its commands.
LEMMA SlotStepInv ==
    ASSUME IInv, session' \in Session,
           session'.interfaceCommand = session.interfaceCommand,
           session'.applicationIndex = session.applicationIndex,
           session'.interfaceCommandProgress = session.interfaceCommandProgress,
           session'.inProgress = session.inProgress,
           session.pc = "hung" => session'.pc = "hung",
           UNCHANGED <<Clients, seqNum, network, stations, finished, last>>
    PROVE  IInv'
<1>1. Due(session') = Due(session) /\ Due(session) \in Nat
  BY DEF Due
<1> QED BY <1>1, SessionStepInv DEF Clients, IInv, TypeOK, ProgressKnown

\* The response completes at most the command it belongs to.
LEMMA HandleStationResponseInv ==
    ASSUME IInv, NEW m \in network, HandleStationResponse(m) PROVE IInv'
BY SlotAfter, SlotStepInv DEF HandleStationResponse, SameCommands, IInv, TypeOK

\* The retransmission timer expires, with retransmissions left or not.
LEMMA CWSoftTimerExpiredHandlerInv ==
    ASSUME IInv, CWSoftTimerExpiredHandler PROVE IInv'
<1>0. session \in Session
  BY DEF IInv, TypeOK
<1>1. /\ session' \in Session
      /\ SameCommands(session, session')
  <2> DEFINE count == session.retransmissionCount + 1
             again == [session EXCEPT !.retransmissionCount = count,
                          !.packetTimer = count < gCWMaxRetransmit,
                          !.isRequestClose = count >= gCWMaxRetransmit]
             over == [session EXCEPT !.packetTimer = FALSE]
  <2>1. session' \in {again, over}
    BY DEF CWSoftTimerExpiredHandler
  <2>2. over \in Session /\ SameCommands(session, over)
    BY <1>0 DEF Session, SameCommands
  <2>3. /\ count \in Nat /\ (count < gCWMaxRetransmit) \in BOOLEAN
        /\ (count >= gCWMaxRetransmit) \in BOOLEAN
    BY <1>0, SeqNumAssumption DEF Session
  <2>4. again \in Session /\ SameCommands(session, again)
    <3> HIDE DEF count
    <3> QED BY <1>0, <2>3 DEF Session, SameCommands
  <2> QED BY <2>1, <2>2, <2>4
<1> QED BY <1>1, SlotStepInv DEF CWSoftTimerExpiredHandler, SameCommands

\* The slot's life: its session closes, it is freed, taken again and in Run.
LEMMA SlotLifeInv ==
    ASSUME IInv, CloseSession \/ FreeSlot \/ TakeSlot \/ EnterRun PROVE IInv'
<1>0. TypeOK /\ session \in Session
  BY DEF IInv, TypeOK
<1>1. CASE CloseSession
  <2>1. Stopped(session) \in Session /\ SameCommands(session, Stopped(session))
    BY <1>0, SlotAfter
  <2>2. /\ session' \in Session /\ session'.pc = "closing"
        /\ session'.interfaceCommand = session.interfaceCommand
        /\ session'.applicationIndex = session.applicationIndex
        /\ session'.interfaceCommandProgress = session.interfaceCommandProgress
        /\ session'.inProgress = session.inProgress
    BY <1>1, <2>1 DEF CloseSession, Session, SameCommands
  <2> QED BY <1>1, <2>2, SlotStepInv DEF CloseSession, Running
<1>2. CASE FreeSlot \/ TakeSlot \/ EnterRun
  <2>1. /\ session' \in Session /\ session.pc # "hung"
        /\ session'.interfaceCommand = session.interfaceCommand
        /\ session'.applicationIndex = session.applicationIndex
        /\ session'.interfaceCommandProgress = session.interfaceCommandProgress
        /\ session'.inProgress = session.inProgress
    BY <1>0, <1>2 DEF FreeSlot, TakeSlot, EnterRun, Session
  <2> QED BY <1>2, <2>1, SlotStepInv DEF FreeSlot, TakeSlot, EnterRun
<1> QED BY <1>1, <1>2

\* The end of a session releases the client that waits on its command.
LEMMA ReleaseClientInv == ASSUME IInv, ReleaseClient PROVE IInv'
<1>0. /\ TypeOK /\ session \in Session /\ session.pc = "closing"
      /\ UNCHANGED <<appsManager, listener, posted, seqNum, network, stations,
                     last>>
  BY DEF ReleaseClient, IInv, TypeOK
<1>1. /\ session' \in Session /\ session'.pc = "closed"
      /\ session'.interfaceCommand = session.interfaceCommand
      /\ session'.applicationIndex = session.applicationIndex
      /\ session'.interfaceCommandProgress = FALSE
      /\ session'.inProgress = NO_CMD
  BY <1>0 DEF ReleaseClient, Session
<1>2. CASE session.interfaceCommandProgress
  <2>1. session.inProgress \in Commands
    BY <1>0, <1>2 DEF IInv, ProgressKnown, Session
  <2>2. Complete /\ finished' \subseteq Commands
    BY <1>0, <1>2, <2>1 DEF ReleaseClient, TypeOK
  <2>3. Due(session') = Due(session) - 1
    BY <1>1, <1>2 DEF Due
  <2> QED BY <1>0, <1>1, <2>2, <2>3, SessionStepInv DEF TypeOK
<1>3. CASE ~session.interfaceCommandProgress
  <2>1. UNCHANGED <<app, finished>>
    BY <1>3 DEF ReleaseClient
  <2>2. Due(session') <= Due(session)
    BY <1>1, <1>3 DEF Due
  <2> QED BY <1>0, <1>1, <2>1, <2>2, SessionStepInv DEF TypeOK
<1> QED BY <1>2, <1>3

\* The new session's thread forgets the slot's commands, and nobody waits for
\* them any more, or it hangs.
LEMMA ResetSlotInv == ASSUME IInv, ResetSlot PROVE IInv'
<1>0. /\ TypeOK /\ session \in Session /\ session.pc = "starting"
      /\ app \in [Apps -> App]
      /\ UNCHANGED <<appsManager, listener, posted, seqNum, network, stations,
                     finished, last>>
  BY DEF ResetSlot, IInv, TypeOK
<1>1. ASSUME session' = [session EXCEPT
                !.pc = "joining", !.interfaceCommandProgress = FALSE,
                !.inProgress = NO_CMD, !.interfaceCommand = NO_CMD,
                !.messages = FALSE, !.isRetransmitting = FALSE,
                !.retransmissionCount = 0],
             app' = [a \in Apps |-> IF a \in Waiting
                                    THEN [app[a] EXCEPT !.pc = "lost"]
                                    ELSE app[a]]
      PROVE  IInv'
  <2>1. /\ session' \in Session /\ session'.interfaceCommand = NO_CMD
        /\ session'.interfaceCommandProgress = FALSE
        /\ session'.inProgress = NO_CMD
        /\ session'.applicationIndex = session.applicationIndex
    BY <1>0, <1>1 DEF Session
  <2>2. \A a \in Apps :
           /\ app'[a] \in App
           /\ app'[a].sock = app[a].sock
           /\ app'[a].pc = app[a].pc
                 \/ (app[a].pc = "waiting" /\ app'[a].pc = "lost")
           /\ app'[a].pc # "waiting"
    BY <1>0, <1>1 DEF App, Waiting
  <2>3. TypeOK'
    <3>1. app' \in [Apps -> App]
      BY <1>1, <2>2
    <3> QED BY <1>0, <2>1, <3>1 DEF TypeOK
  <2>4. OwnSocket'
    BY <1>0, <2>2 DEF IInv, OwnSocket
  <2>5. SocketsCounted'
    BY <1>0 DEF IInv, SocketsCounted, FreeSockets
  <2>6. ListenerOwns'
    BY <1>0, <2>2 DEF IInv, ListenerOwns
  <2>7. CommandHasSender' /\ ProgressKnown'
    BY <1>0, <2>1 DEF IInv, CommandHasSender, ProgressKnown
  <2>8. EnoughWaiters'
    <3>1. Waiting' = {}
      BY <2>2 DEF Waiting
    <3>2. Cardinality(Waiting') = 0
      BY <3>1, FS_EmptySet
    <3>3. Due(session') = 0
      BY <2>1 DEF Due
    <3> QED BY <2>3, <3>2, <3>3, EnoughIs
  <2> QED BY <2>3, <2>4, <2>5, <2>6, <2>7, <2>8 DEF IInv
<1>2. ASSUME session' = [session EXCEPT !.pc = "hung"], UNCHANGED app
      PROVE  IInv'
  <2>1. /\ session' \in Session /\ session'.pc = "hung"
        /\ session'.interfaceCommand = session.interfaceCommand
        /\ session'.applicationIndex = session.applicationIndex
        /\ session'.interfaceCommandProgress = session.interfaceCommandProgress
        /\ session'.inProgress = session.inProgress
    BY <1>0, <1>2 DEF Session
  <2> QED BY <1>0, <1>2, <2>1, SlotStepInv DEF Clients
<1> QED BY <1>1, <1>2 DEF ResetSlot

-----------------------------------------------------------------------------
(* The listener and the client threads.                                    *)

\* A step of one client that neither waits before nor after it, in which the
\* session has no part.
LEMMA ClientStepInv ==
    ASSUME IInv, UNCHANGED <<posted, sessionVars>>,
           NEW a \in Apps, NEW y \in App, app' = [app EXCEPT ![a] = y],
           app[a].pc # "waiting", y.pc # "waiting",
           TypeOK', OwnSocket', SocketsCounted', ListenerOwns',
           \A i \in Sockets : appsManager.appSocket[i] \in Apps =>
                                 appsManager'.appSocket[i] \in Apps
    PROVE  IInv'
<1>0. /\ UNCHANGED <<session, seqNum, network, stations, finished, last>>
      /\ app \in [Apps -> App] /\ session.applicationIndex \in Sockets
  BY DEF sessionVars, IInv, TypeOK, Session
<1>1. CommandHasSender' /\ ProgressKnown'
  BY <1>0 DEF IInv, CommandHasSender, ProgressKnown
<1>2. Waiting' = Waiting
  BY <1>0 DEF Waiting
<1>3. EnoughWaiters'
  BY <1>0, <1>2, EnoughIs DEF IInv
<1> QED BY <1>1, <1>3 DEF IInv

\* What the invariant says of the sockets.
LEMMA SocketFacts ==
    ASSUME IInv
    PROVE  /\ IsFiniteSet(FreeSockets) /\ Cardinality(FreeSockets) \in Nat
           /\ \A S \in SUBSET Sockets :
                 IsFiniteSet(S) /\ Cardinality(S) <= MaxSockets
           /\ app \in [Apps -> App]
           /\ appsManager.isFree \in [Sockets -> BOOLEAN]
           /\ appsManager.appSocket \in [Sockets -> Apps \cup {Nobody}]
           /\ appsManager.numSocketFree \in 0 .. MaxSockets
           /\ appsManager = [isFree |-> appsManager.isFree,
                             appSocket |-> appsManager.appSocket,
                             numSocketFree |-> appsManager.numSocketFree]
           /\ listener \in [pc: {"accept", "create", "uncount"}, sock: Sockets]
<1>1. IsFiniteSet(Sockets) /\ Cardinality(Sockets) = MaxSockets
  <2>1. 0 \in Int /\ MaxSockets - 1 \in Int
    BY SocketsAssumption
  <2> QED BY <2>1, FS_Interval, SocketsAssumption DEF Sockets
<1>2. \A S \in SUBSET Sockets : IsFiniteSet(S) /\ Cardinality(S) <= MaxSockets
  BY <1>1, FS_Subset
<1>3. FreeSockets \in SUBSET Sockets
  BY DEF FreeSockets
<1>4. IsFiniteSet(FreeSockets) /\ Cardinality(FreeSockets) \in Nat
  BY <1>2, <1>3, FS_CardinalityType
<1> QED BY <1>2, <1>4 DEF IInv, TypeOK

\* The listener gives the client the first free socket slot.
LEMMA AcceptInv == ASSUME IInv, NEW a \in Apps, Accept(a) PROVE IInv'
<1> USE SocketFacts
<1>0. PICK i \in Sockets :
        /\ appsManager.isFree[i]
        /\ appsManager' = [appsManager EXCEPT !.isFree[i] = FALSE,
                                              !.appSocket[i] = a,
                                              !.numSocketFree = @ - 1]
        /\ listener' = [pc |-> "create", sock |-> i]
        /\ app' = [app EXCEPT ![a].pc = "connecting", ![a].sock = i]
  BY DEF Accept
<1> DEFINE y == [app[a] EXCEPT !.pc = "connecting", !.sock = i]
<1>1. /\ y \in App /\ y.pc = "connecting" /\ y.sock = i
      /\ app' = [app EXCEPT ![a] = y]
  BY <1>0 DEF App
<1> HIDE DEF y
<1>2. /\ appsManager'.isFree = [appsManager.isFree EXCEPT ![i] = FALSE]
      /\ appsManager'.appSocket = [appsManager.appSocket EXCEPT ![i] = a]
      /\ appsManager'.numSocketFree = appsManager.numSocketFree - 1
      /\ appsManager' = [isFree |-> appsManager'.isFree,
                         appSocket |-> appsManager'.appSocket,
                         numSocketFree |-> appsManager'.numSocketFree]
  BY <1>0
<1>3. /\ listener.pc = "accept" /\ app[a].pc = "out"
      /\ appsManager.numSocketFree > 0
      /\ UNCHANGED <<posted, sessionVars>>
  BY DEF Accept
<1>4. TypeOK'
  <2>1. appsManager' \in [isFree: [Sockets -> BOOLEAN],
                          appSocket: [Sockets -> Apps \cup {Nobody}],
                          numSocketFree: 0 .. MaxSockets]
    <3>1. /\ appsManager'.isFree \in [Sockets -> BOOLEAN]
          /\ appsManager'.appSocket \in [Sockets -> Apps \cup {Nobody}]
          /\ appsManager'.numSocketFree \in 0 .. MaxSockets
      BY <1>2, <1>3, SocketsAssumption
    <3> QED BY <1>2, <3>1
  <2>2. app' \in [Apps -> App]
    BY <1>1
  <2>3. listener' \in [pc: {"accept", "create", "uncount"}, sock: Sockets]
    BY <1>0
  <2> QED BY <1>3, <2>1, <2>2, <2>3 DEF IInv, TypeOK, sessionVars
<1>5. OwnSocket'
  BY <1>0, <1>1, <1>2, <1>3 DEF IInv, OwnSocket, App
<1>6. SocketsCounted'
  <2>1. FreeSockets' = FreeSockets \ {i} /\ i \in FreeSockets
    BY <1>0, <1>2 DEF FreeSockets
  <2>2. Cardinality(FreeSockets') = Cardinality(FreeSockets) - 1
    BY <2>1, FS_RemoveElement
  <2> QED BY <1>0, <1>2, <1>3, <2>2 DEF IInv, SocketsCounted
<1>7. ListenerOwns'
  BY <1>0, <1>1, <1>2 DEF ListenerOwns
<1> QED BY <1>1, <1>2, <1>3, <1>4, <1>5, <1>6, <1>7, ClientStepInv

\* The client's thread is created, or its socket slot is free again.
LEMMA CreateClientThreadInv == ASSUME IInv, CreateClientThread PROVE IInv'
<1> USE SocketFacts
<1> DEFINE i == listener.sock
<1>0. PICK a \in Apps : /\ appsManager.appSocket[i] = a
                        /\ app[a].pc = "connecting" /\ app[a].sock = i
  BY DEF CreateClientThread, IInv, ListenerOwns
<1>1. /\ listener.pc = "create" /\ i \in Sockets
      /\ UNCHANGED <<posted, sessionVars>>
  BY DEF CreateClientThread
<1>2. ASSUME app' = [app EXCEPT ![a].pc = "hello"],
             listener' = [listener EXCEPT !.pc = "accept"],
             UNCHANGED appsManager
      PROVE  IInv'
  <2> DEFINE y == [app[a] EXCEPT !.pc = "hello"]
  <2>1. /\ y \in App /\ y.pc = "hello" /\ y.sock = app[a].sock
        /\ app' = [app EXCEPT ![a] = y]
    BY <1>2 DEF App
  <2> HIDE DEF y
  <2>2. /\ listener' \in [pc: {"accept", "create", "uncount"}, sock: Sockets]
        /\ listener'.pc = "accept"
    BY <1>2
  <2>3. TypeOK'
    <3>1. app' \in [Apps -> App]
      BY <2>1
    <3> QED BY <1>1, <1>2, <2>2, <3>1 DEF IInv, TypeOK, sessionVars
  <2>4. OwnSocket'
    BY <1>0, <1>2, <2>1 DEF IInv, OwnSocket
  <2>5. SocketsCounted' /\ ListenerOwns'
    BY <1>1, <1>2, <2>2 DEF IInv, SocketsCounted, FreeSockets, ListenerOwns
  <2> QED BY <1>0, <1>1, <1>2, <2>1, <2>3, <2>4, <2>5, ClientStepInv
<1>3. ASSUME app' = [app EXCEPT ![a].pc = "out"],
             appsManager' = [appsManager EXCEPT !.isFree[i] = TRUE],
             listener' = [listener EXCEPT !.pc = "uncount"]
      PROVE  IInv'
  <2> DEFINE y == [app[a] EXCEPT !.pc = "out"]
  <2>1. /\ y \in App /\ y.pc = "out" /\ y.sock = app[a].sock
        /\ app' = [app EXCEPT ![a] = y]
    BY <1>3 DEF App
  <2> HIDE DEF y
  <2>2. /\ listener' \in [pc: {"accept", "create", "uncount"}, sock: Sockets]
        /\ listener'.pc = "uncount"
    BY <1>3
  <2>3. /\ appsManager'.isFree = [appsManager.isFree EXCEPT ![i] = TRUE]
        /\ appsManager'.appSocket = appsManager.appSocket
        /\ appsManager'.numSocketFree = appsManager.numSocketFree
        /\ appsManager' = [isFree |-> appsManager'.isFree,
                           appSocket |-> appsManager'.appSocket,
                           numSocketFree |-> appsManager'.numSocketFree]
    BY <1>3
  <2>4. TypeOK'
    <3>1. app' \in [Apps -> App]
      BY <2>1
    <3>2. appsManager' \in [isFree: [Sockets -> BOOLEAN],
                            appSocket: [Sockets -> Apps \cup {Nobody}],
                            numSocketFree: 0 .. MaxSockets]
      <4>1. appsManager'.isFree \in [Sockets -> BOOLEAN]
        BY <2>3
      <4> QED BY <2>3, <4>1
    <3> QED BY <1>1, <2>2, <3>1, <3>2 DEF IInv, TypeOK, sessionVars
  <2>5. OwnSocket'
    BY <1>0, <2>1, <2>3 DEF IInv, OwnSocket, App
  <2>6. SocketsCounted'
    <3>1. FreeSockets' = FreeSockets \cup {i}
      BY <1>1, <2>3 DEF FreeSockets
    <3>2. i \notin FreeSockets
      BY <1>0 DEF IInv, OwnSocket, FreeSockets
    <3>3. Cardinality(FreeSockets') = Cardinality(FreeSockets) + 1
      BY <3>1, <3>2, FS_AddElement
    <3> QED BY <1>1, <2>2, <2>3, <3>3 DEF IInv, SocketsCounted
  <2>7. ListenerOwns'
    BY <2>2 DEF ListenerOwns
  <2> QED BY <1>0, <1>1, <2>1, <2>3, <2>4, <2>5, <2>6, <2>7, ClientStepInv
<1> QED BY <1>0, <1>2, <1>3 DEF CreateClientThread

\* The slot whose thread could not be created is counted as free.
LEMMA UncountClientInv == ASSUME IInv, UncountClient PROVE IInv'
<1> USE SocketFacts
<1>1. /\ listener.pc = "uncount" /\ UNCHANGED <<app, posted, sessionVars>>
      /\ listener' \in [pc: {"accept", "create", "uncount"}, sock: Sockets]
      /\ listener'.pc = "accept"
  BY DEF UncountClient
<1>2. /\ appsManager'.isFree = appsManager.isFree
      /\ appsManager'.appSocket = appsManager.appSocket
      /\ appsManager'.numSocketFree = appsManager.numSocketFree + 1
      /\ appsManager' = [isFree |-> appsManager'.isFree,
                         appSocket |-> appsManager'.appSocket,
                         numSocketFree |-> appsManager'.numSocketFree]
  BY DEF UncountClient
<1>3. Cardinality(FreeSockets) = appsManager.numSocketFree + 1
  BY <1>1 DEF IInv, SocketsCounted
<1>4. TypeOK'
  <2>1. FreeSockets \in SUBSET Sockets
    BY DEF FreeSockets
  <2>2. appsManager'.numSocketFree \in 0 .. MaxSockets
    BY <1>2, <1>3, <2>1, SocketsAssumption
  <2>3. appsManager' \in [isFree: [Sockets -> BOOLEAN],
                          appSocket: [Sockets -> Apps \cup {Nobody}],
                          numSocketFree: 0 .. MaxSockets]
    BY <1>2, <2>2
  <2> QED BY <1>1, <2>3 DEF IInv, TypeOK, sessionVars
<1>5. OwnSocket'
  BY <1>1, <1>2 DEF IInv, OwnSocket
<1>6. SocketsCounted' /\ ListenerOwns'
  BY <1>1, <1>2, <1>3 DEF SocketsCounted, FreeSockets, ListenerOwns
<1>7. CommandHasSender' /\ ProgressKnown' /\ EnoughWaiters'
  BY <1>1, <1>2
     DEF sessionVars, IInv, CommandHasSender, ProgressKnown, EnoughWaiters,
         Waiting
<1> QED BY <1>4, <1>5, <1>6, <1>7 DEF IInv

\* A client thread goes on, or ends and never gives its socket slot back.
LEMMA ClientGoesOnInv ==
    ASSUME IInv, NEW a \in Apps, SayConnected(a) \/ ReadCommand(a) PROVE IInv'
<1> USE SocketFacts
<1>0. /\ app[a].pc \in {"hello", "ready"}
      /\ UNCHANGED <<appsManager, listener, posted, sessionVars>>
  BY DEF SayConnected, ReadCommand
<1>1. \E y \in App : /\ y.pc \in {"ready", "posting", "out"}
                     /\ y.sock = app[a].sock
                     /\ app' = [app EXCEPT ![a] = y]
  <2> DEFINE ready == [app[a] EXCEPT !.pc = "ready"]
             posting == [app[a] EXCEPT !.pc = "posting"]
             left == [app[a] EXCEPT !.pc = "out"]
             ended == [app[a] EXCEPT !.pc = "out", !.cmd = NO_CMD]
  <2>1. \/ app' = [app EXCEPT ![a] = ready]
        \/ app' = [app EXCEPT ![a] = posting]
        \/ app' = [app EXCEPT ![a] = left]
        \/ app' = [app EXCEPT ![a] = ended]
    BY DEF SayConnected, ReadCommand
  <2>0. app[a] \in App
    OBVIOUS
  <2>2. ready \in App /\ ready.pc = "ready" /\ ready.sock = app[a].sock
    BY <2>0 DEF App
  <2>3. posting \in App /\ posting.pc = "posting" /\ posting.sock = app[a].sock
    BY <2>0 DEF App
  <2>4. left \in App /\ left.pc = "out" /\ left.sock = app[a].sock
    BY <2>0 DEF App
  <2>5. ended \in App /\ ended.pc = "out" /\ ended.sock = app[a].sock
    BY <2>0 DEF App, NO_CMD
  <2> HIDE DEF ready, posting, left, ended
  <2> QED BY <2>1, <2>2, <2>3, <2>4, <2>5
<1>2. PICK y \in App : /\ y.pc \in {"ready", "posting", "out"}
                       /\ y.sock = app[a].sock
                       /\ app' = [app EXCEPT ![a] = y]
  BY <1>1
<1>3. TypeOK'
  <2>1. app' \in [Apps -> App]
    BY <1>2
  <2> QED BY <1>0, <2>1 DEF IInv, TypeOK, sessionVars
<1>4. OwnSocket'
  BY <1>0, <1>2 DEF IInv, OwnSocket
<1>5. SocketsCounted' /\ ListenerOwns'
  <2>1. SocketsCounted'
    BY <1>0 DEF IInv, SocketsCounted, FreeSockets
  <2>2. ListenerOwns'
    BY <1>0, <1>2 DEF IInv, ListenerOwns
  <2> QED BY <2>1, <2>2
<1> QED BY <1>0, <1>2, <1>3, <1>4, <1>5, ClientStepInv

\* A client leaves: its socket slot was not free, and no one else's.
LEMMA QuitInv == ASSUME IInv, NEW a \in Apps, Quit(a) PROVE IInv'
<1> USE SocketFacts
<1> DEFINE i == app[a].sock
           y == [app[a] EXCEPT !.pc = "out", !.cmd = NO_CMD]
<1>0. /\ app[a].pc \in {"ready", "posting"} /\ i \in Sockets
      /\ UNCHANGED <<listener, posted, sessionVars>>
  BY DEF Quit, App
<1>1. /\ y \in App /\ y.pc = "out" /\ y.sock = i
      /\ app' = [app EXCEPT ![a] = y]
  BY DEF App, Quit
<1>2. /\ appsManager'.isFree = [appsManager.isFree EXCEPT ![i] = TRUE]
      /\ appsManager'.appSocket = appsManager.appSocket
      /\ appsManager'.numSocketFree = appsManager.numSocketFree + 1
      /\ appsManager' = [isFree |-> appsManager'.isFree,
                         appSocket |-> appsManager'.appSocket,
                         numSocketFree |-> appsManager'.numSocketFree]
  BY DEF Quit
<1> HIDE DEF y
<1>3. i \notin FreeSockets
  BY <1>0 DEF IInv, OwnSocket, FreeSockets
<1>4. /\ FreeSockets' = FreeSockets \cup {i}
      /\ Cardinality(FreeSockets') = Cardinality(FreeSockets) + 1
      /\ Cardinality(FreeSockets) + 1 <= MaxSockets
  <2>1. FreeSockets' = FreeSockets \cup {i} /\ FreeSockets' \in SUBSET Sockets
    BY <1>0, <1>2 DEF FreeSockets
  <2>2. Cardinality(FreeSockets') = Cardinality(FreeSockets) + 1
    BY <1>3, <2>1, FS_AddElement
  <2>3. Cardinality(FreeSockets') <= MaxSockets
    BY <2>1
  <2> QED BY <2>1, <2>2, <2>3
<1>5. appsManager.numSocketFree <= Cardinality(FreeSockets)
  BY DEF IInv, SocketsCounted
<1>6. TypeOK'
  <2>1. app' \in [Apps -> App]
    BY <1>1
  <2>2. /\ appsManager'.isFree \in [Sockets -> BOOLEAN]
        /\ appsManager'.numSocketFree \in 0 .. MaxSockets
    <3>1. appsManager'.isFree \in [Sockets -> BOOLEAN]
      BY <1>0, <1>2
    <3>2. appsManager'.numSocketFree \in 0 .. MaxSockets
      BY <1>2, <1>4, <1>5, SocketsAssumption
    <3> QED BY <3>1, <3>2
  <2>3. appsManager' \in [isFree: [Sockets -> BOOLEAN],
                          appSocket: [Sockets -> Apps \cup {Nobody}],
                          numSocketFree: 0 .. MaxSockets]
    BY <1>2, <2>2
  <2> QED BY <1>0, <2>1, <2>3 DEF IInv, TypeOK, sessionVars
<1>7. OwnSocket'
  BY <1>0, <1>1, <1>2 DEF IInv, OwnSocket, App
<1>8. SocketsCounted'
  BY <1>0, <1>2, <1>4 DEF IInv, SocketsCounted
<1>9. ListenerOwns'
  BY <1>0, <1>1, <1>2 DEF IInv, ListenerOwns
<1> QED BY <1>0, <1>1, <1>2, <1>6, <1>7, <1>8, <1>9, ClientStepInv

\* A client posts a command and waits: the completion it may have taken the
\* place of is not due any more, its own is.
LEMMA SetValuesInv == ASSUME IInv, NEW a \in Apps, SetValues(a) PROVE IInv'
<1> USE SocketFacts
<1> DEFINE c == Len(posted) + 1
           y == [app[a] EXCEPT !.pc = "waiting", !.cmd = c]
<1>0. /\ TypeOK /\ session \in Session /\ app[a].pc = "posting"
      /\ c \in Commands /\ c # NO_CMD /\ app[a].sock \in Sockets
      /\ UNCHANGED <<appsManager, listener, seqNum, network, stations,
                     finished, last>>
  BY CommandsAssumption DEF SetValues, IInv, TypeOK, Commands, NO_CMD, App
<1>1. /\ posted' \in Seq(Apps) /\ Len(posted') <= MaxCommands
  BY <1>0, CommandsAssumption DEF SetValues, IInv, TypeOK, Commands
<1>2. /\ session' = [session EXCEPT !.interfaceCommand = c,
                                    !.applicationIndex = app[a].sock]
      /\ app' = [app EXCEPT ![a] = y]
  BY DEF SetValues
<1> HIDE DEF c
<1>3. /\ y \in App /\ y.pc = "waiting" /\ y.sock = app[a].sock
  BY <1>0 DEF App
<1> HIDE DEF y
<1>4. /\ session' \in Session /\ session'.pc = session.pc
      /\ session'.interfaceCommand = c
      /\ session'.applicationIndex = app[a].sock
      /\ session'.interfaceCommandProgress = session.interfaceCommandProgress
      /\ session'.inProgress = session.inProgress
  BY <1>0, <1>2 DEF Session
<1>5. TypeOK'
  <2>1. app' \in [Apps -> App]
    BY <1>2, <1>3
  <2> QED BY <1>0, <1>1, <1>4, <2>1 DEF TypeOK
<1>6. OwnSocket'
  BY <1>0, <1>2, <1>3 DEF IInv, OwnSocket
<1>7. SocketsCounted' /\ ListenerOwns'
  <2>1. SocketsCounted'
    BY <1>0 DEF IInv, SocketsCounted, FreeSockets
  <2>2. ListenerOwns'
    BY <1>0, <1>2, <1>3 DEF IInv, ListenerOwns
  <2> QED BY <2>1, <2>2
<1>8. CommandHasSender' /\ ProgressKnown'
  BY <1>0, <1>4 DEF IInv, CommandHasSender, ProgressKnown, OwnSocket
<1>9. EnoughWaiters'
  <2>1. Waiting' = Waiting \cup {a} /\ a \notin Waiting
    BY <1>0, <1>2, <1>3 DEF Waiting
  <2>2. Cardinality(Waiting') = Cardinality(Waiting) + 1
    BY <2>1, WaitingFinite, FS_AddElement DEF IInv
  <2>3. /\ Due(session) \in Nat /\ Due(session') \in Nat
        /\ Due(session') <= Due(session) + 1
    BY <1>4 DEF Due
  <2>4. Cardinality(Waiting) \in Nat
    BY WaitingFinite DEF IInv
  <2> QED BY <1>4, <1>5, <2>2, <2>3, <2>4, EnoughIs DEF IInv
<1> QED BY <1>5, <1>6, <1>7, <1>8, <1>9 DEF IInv

\* The invariant holds when the AC starts.
LEMMA InitIInv == Init => IInv
<1> SUFFICES ASSUME Init PROVE IInv
  OBVIOUS
<1> USE DEF Init
<1>0. 0 \in Sockets /\ 0 \in 0 .. MaxSockets /\ MaxSockets \in 0 .. MaxSockets
  BY SocketsAssumption DEF Sockets
<1>1. TypeOK
  <2>1. appsManager \in [isFree: [Sockets -> BOOLEAN],
                         appSocket: [Sockets -> Apps \cup {Nobody}],
                         numSocketFree: 0 .. MaxSockets]
    BY <1>0
  <2>2. /\ listener \in [pc: {"accept", "create", "uncount"}, sock: Sockets]
        /\ app \in [Apps -> App]
    BY <1>0 DEF App
  <2>3. session \in Session
    BY <1>0, SeqNumAssumption DEF Session
  <2>4. /\ seqNum \in 0 .. MaxSeqNum /\ network \subseteq Message
        /\ stations \in 0 .. MaxStations
        /\ finished \subseteq Commands /\ last \in Last \cup {NoResponse}
    BY SeqNumAssumption, CommandsAssumption
  <2>5. posted \in Seq(Apps) /\ Len(posted) <= MaxCommands
    BY CommandsAssumption
  <2> QED BY <2>1, <2>2, <2>3, <2>4, <2>5 DEF TypeOK
<1>2. OwnSocket /\ ListenerOwns /\ CommandHasSender /\ ProgressKnown
  BY DEF OwnSocket, ListenerOwns, CommandHasSender, ProgressKnown
<1>3. SocketsCounted
  <2>1. FreeSockets = Sockets
    BY DEF FreeSockets
  <2>2. Cardinality(Sockets) = MaxSockets
    <3>1. 0 \in Int /\ MaxSockets - 1 \in Int
      BY SocketsAssumption
    <3> QED BY <3>1, FS_Interval, SocketsAssumption DEF Sockets
  <2> QED BY <2>1, <2>2, SocketsAssumption DEF SocketsCounted
<1>4. EnoughWaiters
  <2>1. Waiting = {}
    BY DEF Waiting
  <2>2. Cardinality(Waiting) = 0
    BY <2>1, FS_EmptySet
  <2>3. Due(session) = 0
    BY DEF Due
  <2> QED BY <1>1, <2>2, <2>3, EnoughIs
<1> QED BY <1>1, <1>2, <1>3, <1>4 DEF IInv

\* Every step keeps the invariant.
LEMMA NextIInv == ASSUME IInv, [Next]_vars PROVE IInv'
<1>1. CASE CWInterface
  BY <1>1, AcceptInv, CreateClientThreadInv, UncountClientInv DEF CWInterface
<1>2. CASE \E a \in Apps : CWManageApplication(a)
  BY <1>2, ClientGoesOnInv, SetValuesInv, QuitInv DEF CWManageApplication
<1>3. CASE CWManageWTP
  BY <1>3, SendCommandInv, HandleResponseInv, HandleStationResponseInv,
     SlotLifeInv, ReleaseClientInv, ResetSlotInv DEF CWManageWTP
<1>4. CASE StationConfigurationRequest
  BY <1>4, StationConfigurationRequestInv
<1>5. CASE CWSoftTimerExpiredHandler
  BY <1>5, CWSoftTimerExpiredHandlerInv
<1>6. CASE TakeSlot
  BY <1>6, SlotLifeInv
<1>7. CASE \E m \in network : Answer(m)
  BY <1>7, AnswerInv
<1>8. CASE UNCHANGED vars
  <2>1. UNCHANGED <<Clients, seqNum, network, stations, finished, last>>
        /\ session' = session
    BY <1>8 DEF vars, sessionVars, Clients
  <2> QED BY <2>1, SlotStepInv DEF IInv, TypeOK
<1> QED BY <1>1, <1>2, <1>3, <1>4, <1>5, <1>6, <1>7, <1>8 DEF Next

\* The inductive invariant: the types, the socket table with its count, and
\* as many waiting clients as there are completions due.
THEOREM Invariance == Spec => []IInv
<1>1. Init => IInv
  BY InitIInv
<1>2. IInv /\ [Next]_vars => IInv'
  BY NextIInv
<1> QED BY <1>1, <1>2, PTL DEF Spec

\* The fields of appsManager, of the slot and of the threads keep their
\* types: numSocketFree stays between 0 and MAX_APPS_CONNECTED_TO_AC, and
\* CWGetSeqNum wraps around.
THEOREM TypeCorrect == Spec => []TypeOK
<1>1. IInv => TypeOK
  BY DEF IInv
<1> QED BY <1>1, Invariance, PTL

\* No completion is signalled into the void (CWSignalThreadCondition with
\* interfaceComplete): as many clients wait as there are commands posted and
\* in progress.
THEOREM CompletionsAwaited == Spec => []EnoughWaiters
<1>1. IInv => EnoughWaiters
  BY DEF IInv
<1> QED BY <1>1, Invariance, PTL

\* A positive numSocketFree means that CWInterface's search finds a slot.
THEOREM SocketFound == Spec => []SocketCount
<1>1. IInv => SocketCount
  <2> SUFFICES ASSUME IInv PROVE SocketCount
    OBVIOUS
  <2>1. appsManager.numSocketFree <= Cardinality(FreeSockets)
    BY SocketFacts DEF IInv, SocketsCounted
  <2> QED BY <2>1 DEF SocketCount, FreeSockets
<1> QED BY <1>1, Invariance, PTL

\* No two client threads of CWManageApplication share a socket slot.
THEOREM SocketsExclusive == Spec => []OwnSocket
<1>1. IInv => OwnSocket
  BY DEF IInv
<1> QED BY <1>1, Invariance, PTL

-----------------------------------------------------------------------------
(* A single client.  What the steps do to it and to the commands of the    *)
(* slot, action by action; then that they keep ClientWaits, and the rest   *)
(* of SingleInv when the requests do not run out of sequence numbers.      *)

\* The client moves, but not to or from its wait.
Moves(a, y) ==
    /\ UNCHANGED <<posted, sessionVars>>
    /\ y \in App /\ app' = [app EXCEPT ![a] = y]
    /\ app[a].pc # "waiting" /\ y.pc # "waiting"
    /\ y.pc \in {"out", "connecting", "hello"} =>
          y.cmd = NO_CMD \/ (/\ app[a].pc \in {"out", "connecting", "hello"}
                             /\ y.cmd = app[a].cmd)
    /\ y.pc \in {"ready", "posting"} =>
          /\ y.cmd = app[a].cmd
          /\ app[a].pc \in {"hello", "ready"}

\* The steps of a client's thread before and after it waits, as Moves has them.
LEMMA MovesIs ==
    ASSUME IInv, NEW a \in Apps,
           \/ Accept(a) \/ SayConnected(a) \/ ReadCommand(a) \/ Quit(a)
           \/ CreateClientThread /\ appsManager.appSocket[listener.sock] = a
    PROVE  \E y \in App : Moves(a, y)
<1>0. app \in [Apps -> App] /\ app[a] \in App
  BY DEF IInv, TypeOK
<1>1. CASE Accept(a)
  <2>1. PICK i \in Sockets :
          app' = [app EXCEPT ![a].pc = "connecting", ![a].sock = i]
    BY <1>1 DEF Accept
  <2> DEFINE y == [app[a] EXCEPT !.pc = "connecting", !.sock = i]
  <2>2. /\ y \in App /\ app' = [app EXCEPT ![a] = y] /\ y.pc = "connecting"
        /\ y.cmd = app[a].cmd
    BY <1>0, <2>1 DEF App
  <2>3. app[a].pc = "out" /\ UNCHANGED <<posted, sessionVars>>
    BY <1>1 DEF Accept
  <2> HIDE DEF y
  <2>4. Moves(a, y)
    BY <2>2, <2>3 DEF Moves
  <2> QED BY <2>2, <2>4
<1>2. CASE CreateClientThread /\ appsManager.appSocket[listener.sock] = a
  <2>1. app[a].pc = "connecting"
    BY <1>2 DEF CreateClientThread, IInv, ListenerOwns
  <2> DEFINE hello == [app[a] EXCEPT !.pc = "hello"]
             out == [app[a] EXCEPT !.pc = "out"]
  <2>2. hello \in App /\ hello.pc = "hello" /\ hello.cmd = app[a].cmd
    BY <1>0 DEF App
  <2>3. out \in App /\ out.pc = "out" /\ out.cmd = app[a].cmd
    BY <1>0 DEF App
  <2>4. /\ app' = [app EXCEPT ![a] = hello] \/ app' = [app EXCEPT ![a] = out]
        /\ UNCHANGED <<posted, sessionVars>>
    BY <1>2 DEF CreateClientThread
  <2> HIDE DEF hello, out
  <2>5. Moves(a, hello) \/ Moves(a, out)
    BY <2>1, <2>2, <2>3, <2>4 DEF Moves
  <2> QED BY <2>2, <2>3, <2>5
<1>3. CASE SayConnected(a) \/ ReadCommand(a) \/ Quit(a)
  <2> DEFINE ready == [app[a] EXCEPT !.pc = "ready"]
             left == [app[a] EXCEPT !.pc = "out"]
             posting == [app[a] EXCEPT !.pc = "posting"]
             ended == [app[a] EXCEPT !.pc = "out", !.cmd = NO_CMD]
  <2>1. \/ app[a].pc = "hello" /\ app' = [app EXCEPT ![a] = ready]
        \/ app[a].pc = "hello" /\ app' = [app EXCEPT ![a] = left]
        \/ app[a].pc = "ready" /\ app' = [app EXCEPT ![a] = posting]
        \/ app[a].pc \in {"ready", "posting"} /\ app' = [app EXCEPT ![a] = ended]
    BY <1>3 DEF SayConnected, ReadCommand, Quit
  <2>2. UNCHANGED <<posted, sessionVars>>
    BY <1>3 DEF SayConnected, ReadCommand, Quit
  <2>3. ready \in App /\ ready.pc = "ready" /\ ready.cmd = app[a].cmd
    BY <1>0 DEF App
  <2>4. left \in App /\ left.pc = "out" /\ left.cmd = app[a].cmd
    BY <1>0 DEF App
  <2>5. posting \in App /\ posting.pc = "posting" /\ posting.cmd = app[a].cmd
    BY <1>0 DEF App
  <2>6. ended \in App /\ ended.pc = "out" /\ ended.cmd = NO_CMD
    BY <1>0 DEF App, NO_CMD
  <2> HIDE DEF ready, left, posting, ended
  <2>7. \/ Moves(a, ready) \/ Moves(a, left) \/ Moves(a, posting)
        \/ Moves(a, ended)
    BY <2>1, <2>2, <2>3, <2>4, <2>5, <2>6 DEF Moves
  <2> QED BY <2>3, <2>4, <2>5, <2>6, <2>7
<1> QED BY <1>1, <1>2, <1>3

\* The slot after a command was posted.
LEMMA SetValuesIs ==
    ASSUME IInv, NEW a \in Apps, SetValues(a)
    PROVE  /\ app[a].pc = "posting"
           /\ app'[a].pc = "waiting" /\ app'[a].cmd = Len(posted) + 1
           /\ Len(posted) \in Nat /\ Len(posted) < MaxCommands
           /\ Len(posted') = Len(posted) + 1
           /\ session'.interfaceCommand = Len(posted) + 1
           /\ session'.pc = session.pc
           /\ session'.interfaceCommandProgress
                 = session.interfaceCommandProgress
           /\ session'.inProgress = session.inProgress
           /\ session'.responseSeqNum = session.responseSeqNum
           /\ UNCHANGED <<seqNum, network, stations, finished, last>>
<1> DEFINE c == Len(posted) + 1
           y == [app[a] EXCEPT !.pc = "waiting", !.cmd = c]
<1>0. /\ app \in [Apps -> App] /\ session \in Session /\ posted \in Seq(Apps)
  BY DEF IInv, TypeOK
<1>1. /\ app' = [app EXCEPT ![a] = y]
      /\ session' = [session EXCEPT !.interfaceCommand = c,
                                    !.applicationIndex = app[a].sock]
      /\ posted' = Append(posted, a) /\ Len(posted) < MaxCommands
      /\ app[a].pc = "posting"
      /\ UNCHANGED <<seqNum, network, stations, finished, last>>
  BY DEF SetValues
<1>2. Len(posted) \in Nat /\ Len(posted') = Len(posted) + 1
  BY <1>0, <1>1
<1> HIDE DEF c
<1>3. y.pc = "waiting" /\ y.cmd = c
  BY <1>0 DEF App
<1>4. app'[a] = y
  <2> HIDE DEF y
  <2> QED BY <1>0, <1>1
<1>5. /\ session'.interfaceCommand = c
      /\ session'.pc = session.pc
      /\ session'.interfaceCommandProgress = session.interfaceCommandProgress
      /\ session'.inProgress = session.inProgress
      /\ session'.responseSeqNum = session.responseSeqNum
  BY <1>0, <1>1 DEF Session
<1> QED BY <1>1, <1>2, <1>3, <1>4, <1>5 DEF c

\* The slot after a command was sent, or could not be.
LEMMA SendCommandIs ==
    ASSUME IInv, SendCommand
    PROVE  /\ Running /\ session.interfaceCommand # NO_CMD
           /\ seqNum' = NextSeqNum
           /\ UNCHANGED <<posted, stations, last>>
           /\ session'.pc = session.pc /\ session'.interfaceCommand = NO_CMD
           /\ \/ /\ session'.inProgress = session.interfaceCommand
                 /\ session'.interfaceCommandProgress
                 /\ session'.responseSeqNum = seqNum
                 /\ network' = network \cup
                       {[type |-> "request", seqNum |-> seqNum,
                         cmd |-> session.interfaceCommand]}
                 /\ UNCHANGED <<app, finished>>
              \/ /\ session'.inProgress = session.inProgress
                 /\ session'.interfaceCommandProgress
                       = session.interfaceCommandProgress
                 /\ finished' = finished \cup {session.interfaceCommand}
                 /\ Complete
                 /\ UNCHANGED network
<1> DEFINE s == [session EXCEPT !.inProgress = session.interfaceCommand,
                                !.interfaceCommandProgress = TRUE,
                                !.interfaceCommand = NO_CMD]
           z == [session EXCEPT !.isRetransmitting = TRUE]
<1>0. TypeOK /\ session \in Session
  BY DEF IInv, TypeOK
<1>1. /\ Running /\ session.interfaceCommand # NO_CMD
      /\ seqNum' = NextSeqNum
      /\ UNCHANGED <<posted, stations, last>>
  BY DEF SendCommand
<1>2. /\ s \in Session /\ s.pc = session.pc /\ s.interfaceCommand = NO_CMD
      /\ s.interfaceCommandProgress = TRUE
      /\ s.inProgress = session.interfaceCommand
  BY <1>0, <1>1 DEF Session
<1>3. z \in Session /\ SameCommands(session, z)
  BY <1>0 DEF Session, SameCommands
<1>4. CASE /\ session' = Requested(s)
           /\ network' = network \cup {[type |-> "request", seqNum |-> seqNum,
                                        cmd |-> session.interfaceCommand]}
           /\ UNCHANGED <<app, finished>>
  <2> HIDE DEF s
  <2>1. SameCommands(s, session') /\ session'.responseSeqNum = seqNum
    BY <1>0, <1>2, <1>4, SlotAfter
  <2> QED BY <1>1, <1>2, <1>4, <2>1 DEF SameCommands
<1>5. ASSUME NEW q \in {session, Stopped(z)},
             session' = [q EXCEPT !.interfaceCommand = NO_CMD],
             finished' = finished \cup {session.interfaceCommand},
             Complete, UNCHANGED network
      PROVE  /\ session'.pc = session.pc /\ session'.interfaceCommand = NO_CMD
             /\ session'.inProgress = session.inProgress
             /\ session'.interfaceCommandProgress
                   = session.interfaceCommandProgress
  <2> HIDE DEF z
  <2>1. Stopped(z) \in Session /\ SameCommands(z, Stopped(z))
    BY <1>0, <1>3, SlotAfter
  <2>2. q \in Session /\ SameCommands(session, q)
    BY <1>0, <1>3, <1>5, <2>1 DEF SameCommands
  <2> QED BY <1>5, <2>2 DEF Session, SameCommands
<1> QED BY <1>1, <1>4, <1>5 DEF SendCommand, CWACSendAcknowledgedPacket

\* Steps of the session in which the commands of the slot and the client stay.
Keeps ==
    /\ UNCHANGED <<app, posted, last>>
    /\ session'.interfaceCommand = session.interfaceCommand
    /\ session'.interfaceCommandProgress = session.interfaceCommandProgress
    /\ session'.inProgress = session.inProgress
    /\ session'.pc = "hung" => session.pc = "hung" \/ Waiting # {}

\* A Station Configuration Request takes the place of the command in progress.
LEMMA StationConfigurationRequestIs ==
    ASSUME IInv, StationConfigurationRequest
    PROVE  /\ Keeps /\ session'.pc = session.pc
           /\ stations < MaxStations /\ stations' = stations + 1
           /\ seqNum' = NextSeqNum
           /\ network' \in {network,
                  network \cup {[type |-> "request", seqNum |-> seqNum,
                                 cmd |-> NO_CMD]}}
           /\ finished \subseteq finished'
           /\ \/ session.inProgress \in finished' \cup {NO_CMD}
              \/ UNCHANGED <<session, network, finished>>
<1> DEFINE z == [session EXCEPT !.isRetransmitting = TRUE]
           r == [type |-> "request", seqNum |-> seqNum, cmd |-> NO_CMD]
<1>0. TypeOK /\ session \in Session
  BY DEF IInv, TypeOK
<1>1. z \in Session /\ SameCommands(session, z)
  BY <1>0 DEF Session, SameCommands
<1>2. /\ stations < MaxStations /\ stations' = stations + 1
      /\ seqNum' = NextSeqNum /\ UNCHANGED <<app, posted, last>>
  BY DEF StationConfigurationRequest, Clients
<1>3. \/ /\ session' = Requested(session) /\ network' = network \cup {r}
         /\ finished' = finished \cup Displaced
      \/ /\ session' = Stopped(z) /\ network' = network
         /\ finished' = finished \cup Displaced
      \/ session' = session /\ network' = network /\ finished' = finished
  BY DEF StationConfigurationRequest, CWACSendAcknowledgedPacket
<1> HIDE DEF z, r
<1>4. SameCommands(session, session')
  <2>1. SameCommands(session, session)
    BY DEF SameCommands
  <2>2. /\ Stopped(z) \in Session /\ SameCommands(z, Stopped(z))
        /\ SameCommands(session, Requested(session))
    BY <1>0, <1>1, SlotAfter
  <2> QED BY <1>1, <1>3, <2>1, <2>2 DEF SameCommands
<1>5. Keeps /\ session'.pc = session.pc
  BY <1>2, <1>4 DEF Keeps, SameCommands
<1>6. /\ network' \in {network, network \cup {r}}
      /\ finished \subseteq finished'
      /\ \/ session.inProgress \in finished' \cup {NO_CMD}
         \/ UNCHANGED <<session, network, finished>>
  BY <1>3 DEF Displaced
<1> QED BY <1>2, <1>5, <1>6 DEF r

\* The other steps of this kind: no request is sent, and as long as the
\* session runs it expects the same response.
LEMMA KeepsIs ==
    ASSUME IInv,
           \/ CWSoftTimerExpiredHandler \/ CloseSession \/ FreeSlot
           \/ TakeSlot \/ EnterRun
           \/ \E m \in network : Answer(m)
           \/ UNCHANGED vars
    PROVE  /\ Keeps
           /\ Running' =>
                 Running /\ session'.responseSeqNum = session.responseSeqNum
           /\ UNCHANGED <<seqNum, stations, finished>>
           /\ \A r \in network' : \E m \in network :
                 r.seqNum = m.seqNum /\ r.cmd = m.cmd
<1>0. TypeOK /\ session \in Session
  BY DEF IInv, TypeOK
<1>1. CASE CWSoftTimerExpiredHandler
  <2> DEFINE count == session.retransmissionCount + 1
             again == [session EXCEPT !.retransmissionCount = count,
                          !.packetTimer = count < gCWMaxRetransmit,
                          !.isRequestClose = count >= gCWMaxRetransmit]
             over == [session EXCEPT !.packetTimer = FALSE]
  <2>1. session' \in {again, over}
    BY <1>1 DEF CWSoftTimerExpiredHandler
  <2>2. /\ SameCommands(session, over)
        /\ over.responseSeqNum = session.responseSeqNum
    BY <1>0 DEF Session, SameCommands
  <2>3. /\ SameCommands(session, again)
        /\ again.responseSeqNum = session.responseSeqNum
    BY <1>0 DEF Session, SameCommands
  <2> QED BY <1>1, <2>1, <2>2, <2>3
          DEF CWSoftTimerExpiredHandler, Clients, Keeps, Running, SameCommands
<1>2. CASE CloseSession
  <2>1. Stopped(session) \in Session /\ SameCommands(session, Stopped(session))
    BY <1>0, SlotAfter
  <2>2. /\ session'.pc = "closing"
        /\ session'.interfaceCommand = session.interfaceCommand
        /\ session'.interfaceCommandProgress = session.interfaceCommandProgress
        /\ session'.inProgress = session.inProgress
    BY <1>2, <2>1 DEF CloseSession, Session, SameCommands
  <2> QED BY <1>2, <2>2 DEF CloseSession, Clients, Keeps, Running
<1>3. CASE FreeSlot \/ TakeSlot \/ EnterRun
  <2>1. /\ session'.pc # "hung"
        /\ session'.interfaceCommand = session.interfaceCommand
        /\ session'.interfaceCommandProgress = session.interfaceCommandProgress
        /\ session'.inProgress = session.inProgress
        /\ session'.responseSeqNum = session.responseSeqNum
        /\ session'.pc \in {"joining", "run"} =>
              session.pc \in {"joining", "run"}
    BY <1>0, <1>3 DEF FreeSlot, TakeSlot, EnterRun, Session
  <2> QED BY <1>3, <2>1 DEF FreeSlot, TakeSlot, EnterRun, Clients, Keeps,
                            Running
<1>4. ASSUME NEW m \in network, Answer(m)
      PROVE  /\ Keeps
             /\ Running' => Running
             /\ UNCHANGED <<session, seqNum, stations, finished>>
             /\ \A r \in network' : \E q \in network :
                   r.seqNum = q.seqNum /\ r.cmd = q.cmd
  <2> DEFINE x == [m EXCEPT !.type = "response"]
  <2>1. x.seqNum = m.seqNum /\ x.cmd = m.cmd
    BY <1>0, <1>4 DEF TypeOK, Message
  <2>2. network' = network \cup {x}
    BY <1>4 DEF Answer
  <2> HIDE DEF x
  <2> QED BY <1>4, <2>1, <2>2 DEF Answer, Clients, Keeps, Running
<1>5. CASE UNCHANGED vars
  BY <1>5 DEF vars, sessionVars, Keeps, Running
<1> QED BY <1>1, <1>2, <1>3, <1>4, <1>5

\* The response to a station's request leaves the commands of the slot alone.
LEMMA HandleStationResponseIs ==
    ASSUME IInv, NEW m \in network, HandleStationResponse(m)
    PROVE  /\ Keeps /\ session.pc = "run"
           /\ m.cmd = NO_CMD /\ m.seqNum = session.responseSeqNum
           /\ UNCHANGED <<seqNum, network, stations, finished>>
<1>1. TypeOK /\ session \in Session
  BY DEF IInv, TypeOK
<1>2. SameCommands(session, Stopped(session))
  BY <1>1, SlotAfter
<1> QED BY <1>2 DEF HandleStationResponse, Clients, Keeps, SameCommands

\* The slot after a response, or after the session closed: no command is in
\* progress, and the client of the one that was is woken.
LEMMA HandleResponseIs ==
    ASSUME IInv, NEW m \in network, HandleResponse(m)
    PROVE  /\ session.pc = "run" /\ session'.pc = "run"
           /\ m.cmd # NO_CMD /\ m.seqNum = session.responseSeqNum
           /\ session'.interfaceCommand = session.interfaceCommand
           /\ ~session'.interfaceCommandProgress
           /\ session'.inProgress = NO_CMD
           /\ last'.cmd = m.cmd /\ last'.completed = InProgress
           /\ finished' = finished \cup {m.cmd}
           /\ session.interfaceCommandProgress => Complete
           /\ ~session.interfaceCommandProgress => UNCHANGED app
           /\ UNCHANGED <<posted, seqNum, network, stations>>
<1>0. TypeOK /\ session \in Session
  BY DEF IInv, TypeOK
<1>1. PICK close \in BOOLEAN :
        session' = [Stopped(session) EXCEPT
                       !.interfaceCommandProgress = FALSE,
                       !.inProgress = NO_CMD, !.isRequestClose = close]
  BY <1>0 DEF HandleResponse, Session
<1>2. Stopped(session) \in Session /\ SameCommands(session, Stopped(session))
  BY <1>0, SlotAfter
<1>3. /\ session'.pc = session.pc
      /\ session'.interfaceCommand = session.interfaceCommand
      /\ session'.interfaceCommandProgress = FALSE
      /\ session'.inProgress = NO_CMD
  BY <1>1, <1>2 DEF Session, SameCommands
<1>4. last'.cmd = m.cmd /\ last'.completed = InProgress
  BY DEF HandleResponse
<1> QED BY <1>3, <1>4 DEF HandleResponse

\* What the end of a session does to the command that is in progress.
LEMMA ReleaseClientIs ==
    ASSUME IInv, ReleaseClient
    PROVE  /\ session'.pc = "closed"
           /\ session'.interfaceCommand = session.interfaceCommand
           /\ ~session'.interfaceCommandProgress
           /\ session'.inProgress = NO_CMD
           /\ session.interfaceCommandProgress =>
                 /\ Complete
                 /\ finished' = finished \cup {session.inProgress}
           /\ ~session.interfaceCommandProgress => UNCHANGED <<app, finished>>
           /\ UNCHANGED <<posted, seqNum, network, stations, last>>
<1>0. session \in Session
  BY DEF IInv, TypeOK
<1>1. /\ session'.pc = "closed"
      /\ session'.interfaceCommand = session.interfaceCommand
      /\ session'.interfaceCommandProgress = FALSE
      /\ session'.inProgress = NO_CMD
  BY <1>0 DEF ReleaseClient, Session
<1> QED BY <1>1 DEF ReleaseClient

\* The new session forgets the commands, and the client is lost if it waited.
LEMMA ResetSlotIs ==
    ASSUME IInv, ResetSlot
    PROVE  /\ UNCHANGED <<posted, seqNum, network, stations, finished, last>>
           /\ \/ /\ session'.pc = "joining"
                 /\ session'.interfaceCommand = NO_CMD
                 /\ ~session'.interfaceCommandProgress
                 /\ session'.inProgress = NO_CMD
                 /\ \A a \in Apps :
                       app'[a] = app[a] \/ app'[a].pc = "lost"
              \/ Keeps /\ session'.pc = "hung"
<1>0. session \in Session /\ app \in [Apps -> App]
  BY DEF IInv, TypeOK
<1>1. UNCHANGED <<posted, seqNum, network, stations, finished, last>>
  BY DEF ResetSlot
<1>2. ASSUME session' = [session EXCEPT
                !.pc = "joining", !.interfaceCommandProgress = FALSE,
                !.inProgress = NO_CMD, !.interfaceCommand = NO_CMD,
                !.messages = FALSE, !.isRetransmitting = FALSE,
                !.retransmissionCount = 0],
             app' = [a \in Apps |-> IF a \in Waiting
                                    THEN [app[a] EXCEPT !.pc = "lost"]
                                    ELSE app[a]]
      PROVE  /\ session'.pc = "joining" /\ session'.interfaceCommand = NO_CMD
             /\ ~session'.interfaceCommandProgress
             /\ session'.inProgress = NO_CMD
             /\ \A a \in Apps : app'[a] = app[a] \/ app'[a].pc = "lost"
  <2>1. /\ session'.pc = "joining" /\ session'.interfaceCommand = NO_CMD
        /\ session'.interfaceCommandProgress = FALSE
        /\ session'.inProgress = NO_CMD
    BY <1>0, <1>2 DEF Session
  <2>2. \A a \in Apps : app'[a] = app[a] \/ app'[a].pc = "lost"
    BY <1>0, <1>2 DEF App
  <2> QED BY <2>1, <2>2
<1>3. ASSUME Waiting # {}, session' = [session EXCEPT !.pc = "hung"],
             UNCHANGED app
      PROVE  Keeps /\ session'.pc = "hung"
  <2>1. /\ session'.pc = "hung"
        /\ session'.interfaceCommand = session.interfaceCommand
        /\ session'.interfaceCommandProgress = session.interfaceCommandProgress
        /\ session'.inProgress = session.inProgress
    BY <1>0, <1>3 DEF Session
  <2> QED BY <1>1, <1>3, <2>1 DEF Keeps
<1> QED BY <1>1, <1>2, <1>3 DEF ResetSlot

\* The steps of the client's threads, sorted as the lemmas above do.
LEMMA Steps ==
    ASSUME IInv, NEW c, Apps = {c}, [Next]_vars
    PROVE  \/ \E y \in App : Moves(c, y)
           \/ UncountClient
           \/ SetValues(c)
           \/ SendCommand
           \/ \E m \in network : HandleResponse(m)
           \/ \E m \in network : HandleStationResponse(m)
           \/ ReleaseClient
           \/ ResetSlot
           \/ StationConfigurationRequest
           \/ \/ CWSoftTimerExpiredHandler \/ CloseSession \/ FreeSlot
              \/ TakeSlot \/ EnterRun
              \/ \E m \in network : Answer(m)
              \/ UNCHANGED vars
<1>0. c \in Apps
  OBVIOUS
<1>1. ASSUME CreateClientThread PROVE appsManager.appSocket[listener.sock] = c
  BY <1>1 DEF CreateClientThread, IInv, ListenerOwns
<1>2. CASE CWInterface
  BY <1>0, <1>1, <1>2, MovesIs DEF CWInterface
<1>3. CASE \E a \in Apps : CWManageApplication(a)
  BY <1>0, <1>3, MovesIs DEF CWManageApplication
<1>4. CASE CWManageWTP
  BY <1>4 DEF CWManageWTP
<1> QED BY <1>2, <1>3, <1>4 DEF Next

\* The command in the slot or in progress stays the one the client waits for.
LEMMA ClientWaitsInv ==
    ASSUME IInv, ClientWaits, NEW c, Apps = {c}, [Next]_vars
    PROVE  ClientWaits'
<1>0. /\ c \in Apps /\ TypeOK /\ OwnSocket /\ app \in [Apps -> App]
      /\ app[c].pc \in {"out", "connecting", "hello"} => app[c].cmd = NO_CMD
      /\ session.interfaceCommand # NO_CMD =>
            /\ app[c].pc = "waiting"
            /\ app[c].cmd = session.interfaceCommand
            /\ ~session.interfaceCommandProgress
      /\ session.interfaceCommandProgress =>
            app[c].pc = "waiting" /\ app[c].cmd = session.inProgress
      /\ session.pc = "hung" => app[c].pc = "waiting"
  BY DEF ClientWaits, IInv, TypeOK
<1> SUFFICES
      /\ app'[c].pc \in {"out", "connecting", "hello"} => app'[c].cmd = NO_CMD
      /\ session'.interfaceCommand # NO_CMD =>
            /\ app'[c].pc = "waiting"
            /\ app'[c].cmd = session'.interfaceCommand
            /\ ~session'.interfaceCommandProgress
      /\ session'.interfaceCommandProgress =>
            app'[c].pc = "waiting" /\ app'[c].cmd = session'.inProgress
      /\ session'.pc = "hung" => app'[c].pc = "waiting"
  BY DEF ClientWaits
<1>1. ASSUME NEW y \in App, Moves(c, y) PROVE ClientWaits'
  <2>1. app'[c] = y
    BY <1>0, <1>1 DEF Moves
  <2> QED BY <1>0, <1>1, <2>1 DEF Moves, sessionVars, ClientWaits
<1>2. CASE UncountClient
  BY <1>0, <1>2 DEF UncountClient, sessionVars
<1>3. CASE SetValues(c)
  BY <1>0, <1>3, SetValuesIs
<1>w. Complete => /\ app'[c].pc # "waiting" /\ app'[c].cmd = app[c].cmd
                  /\ app'[c].pc = app[c].pc
                        \/ (app[c].pc = "waiting" /\ app'[c].pc = "ready")
  BY <1>0, Completed
<1>4. CASE SendCommand
  BY <1>0, <1>w, <1>4, SendCommandIs DEF Running
<1>5. ASSUME NEW m \in network, HandleResponse(m) PROVE ClientWaits'
  BY <1>0, <1>w, <1>5, HandleResponseIs DEF ClientWaits
<1>6. CASE ReleaseClient
  BY <1>0, <1>w, <1>6, ReleaseClientIs
<1>k. ASSUME Keeps PROVE ClientWaits'
  BY <1>0, <1>k DEF Keeps, Waiting, ClientWaits
<1>7. CASE ResetSlot
  BY <1>0, <1>7, <1>k, ResetSlotIs DEF ClientWaits
<1>8. CASE StationConfigurationRequest
  BY <1>0, <1>8, <1>k, StationConfigurationRequestIs DEF ClientWaits
<1>9. ASSUME NEW m \in network, HandleStationResponse(m) PROVE ClientWaits'
  BY <1>9, <1>k, HandleStationResponseIs
<1> QED BY <1>1, <1>2, <1>3, <1>4, <1>5, <1>6, <1>7, <1>8, <1>9, <1>k, Steps,
           KeepsIs DEF ClientWaits

\* With a single client, the command the session thread sends has parameters
\* that are still allocated: its client waits (ACInterface.c:409).
THEOREM SingleClientParameters ==
    ASSUME NEW c, Apps = {c} PROVE Spec => []ParametersAlive
<1>1. Init => ClientWaits
  BY DEF Init, ClientWaits
<1>2. IInv /\ ClientWaits /\ [Next]_vars => ClientWaits'
  BY ClientWaitsInv
<1>3. ClientWaits => ParametersAlive
  BY DEF ClientWaits, ParametersAlive
<1>4. Spec => []ClientWaits
  BY <1>1, <1>2, Invariance, PTL DEF Spec
<1> QED BY <1>3, <1>4, PTL

\* Each request keeps a sequence number of its own.
LEMMA FreshSeqNumInv ==
    ASSUME IInv, FreshSeqNum, NEW c, Apps = {c}, [Next]_vars,
           MaxCommands + MaxStations <= MaxSeqNum + 1
    PROVE  FreshSeqNum'
<1> DEFINE d == IF session.interfaceCommand # NO_CMD THEN 1 ELSE 0
<1>0. /\ c \in Apps /\ seqNum \in Nat /\ seqNum <= MaxSeqNum
      /\ Len(posted) \in Nat /\ Len(posted) <= MaxCommands
      /\ stations \in Nat /\ stations <= MaxStations
      /\ MaxCommands \in Nat /\ MaxStations \in Nat /\ MaxSeqNum \in Nat
      /\ \A m \in network : m.seqNum \in Nat
      /\ d \in {0, 1}
  BY SeqNumAssumption, CommandsAssumption DEF IInv, TypeOK, Message
\* Nothing is sent: a command in the slot stays or is dropped.
<1>n. ASSUME UNCHANGED <<seqNum, posted, stations>>,
             session'.interfaceCommand \in {session.interfaceCommand, NO_CMD},
             \A r \in network' : \E m \in network : r.seqNum = m.seqNum
      PROVE  FreshSeqNum'
  BY <1>0, <1>n DEF FreshSeqNum
\* A request is sent.
<1>r. ASSUME seqNum' = NextSeqNum, Len(posted') = Len(posted),
             \A r \in network' : r \in network \/ r.seqNum = seqNum,
             \A m \in network : m.seqNum < seqNum,
             stations' \in Nat, NEW e \in {0, 1},
             e = (IF session'.interfaceCommand # NO_CMD THEN 1 ELSE 0),
             seqNum + 1 + e <= Len(posted) + stations',
             stations' <= MaxStations
      PROVE  FreshSeqNum'
  <2>1. CASE seqNum < MaxSeqNum
    <3>1. seqNum' = seqNum + 1
      BY <1>0, <1>r, <2>1 DEF NextSeqNum
    <3>2. \A m \in network' : m.seqNum < seqNum'
      BY <1>0, <1>r, <3>1
    <3> QED BY <1>0, <1>r, <3>1, <3>2 DEF FreshSeqNum
  <2>2. CASE seqNum = MaxSeqNum
    <3>1. /\ Len(posted) = MaxCommands /\ stations' = MaxStations /\ e = 0
      BY <1>0, <1>r, <2>2
    <3> QED BY <1>r, <3>1 DEF FreshSeqNum
  <2> QED BY <1>0, <2>1, <2>2
<1>1. ASSUME NEW y \in App, Moves(c, y) PROVE FreshSeqNum'
  BY <1>1, <1>n DEF Moves, sessionVars
<1>2. CASE UncountClient
  BY <1>2, <1>n DEF UncountClient, sessionVars
<1>3. CASE SetValues(c)
  <2>1. /\ Len(posted) < MaxCommands /\ Len(posted') = Len(posted) + 1
        /\ UNCHANGED <<seqNum, network, stations>>
    BY <1>0, <1>3, SetValuesIs
  <2>2. /\ \A m \in network : m.seqNum < seqNum
        /\ seqNum <= Len(posted) + stations
    BY <1>0, <2>1 DEF FreshSeqNum
  <2>3. seqNum + (IF session'.interfaceCommand # NO_CMD THEN 1 ELSE 0)
            <= Len(posted') + stations'
    BY <1>0, <2>1, <2>2
  <2> QED BY <2>1, <2>2, <2>3 DEF FreshSeqNum
<1>4. CASE SendCommand
  <2> DEFINE r == [type |-> "request", seqNum |-> seqNum,
                   cmd |-> session.interfaceCommand]
  <2>1. /\ session.interfaceCommand # NO_CMD /\ seqNum' = NextSeqNum
        /\ UNCHANGED <<posted, stations>>
        /\ session'.interfaceCommand = NO_CMD
        /\ network' \in {network, network \cup {r}}
    BY <1>4, SendCommandIs
  <2>2. \A m \in network' : m \in network \/ m.seqNum = seqNum
    BY <2>1
  <2>3. /\ \A m \in network : m.seqNum < seqNum
        /\ seqNum + 1 <= Len(posted) + stations
    BY <2>1 DEF FreshSeqNum
  <2> HIDE DEF r
  <2> QED BY <1>0, <1>r, <2>1, <2>2, <2>3
<1>5. ASSUME NEW m \in network, HandleResponse(m) PROVE FreshSeqNum'
  BY <1>5, <1>n, HandleResponseIs
<1>6. ASSUME NEW m \in network, HandleStationResponse(m) PROVE FreshSeqNum'
  BY <1>6, <1>n, HandleStationResponseIs DEF Keeps
<1>7. CASE ReleaseClient
  BY <1>7, <1>n, ReleaseClientIs
<1>8. CASE ResetSlot
  BY <1>8, <1>n, ResetSlotIs DEF Keeps
<1>9. CASE StationConfigurationRequest
  <2> DEFINE r == [type |-> "request", seqNum |-> seqNum, cmd |-> NO_CMD]
  <2>1. /\ stations < MaxStations /\ stations' = stations + 1
        /\ seqNum' = NextSeqNum /\ posted' = posted
        /\ session'.interfaceCommand = session.interfaceCommand
        /\ network' \in {network, network \cup {r}}
    BY <1>9, StationConfigurationRequestIs DEF Keeps
  <2>2. \A m \in network' : m \in network \/ m.seqNum = seqNum
    BY <2>1
  <2>3. /\ \A m \in network : m.seqNum < seqNum
        /\ seqNum + d <= Len(posted) + stations
    BY <1>0, <2>1 DEF FreshSeqNum
  <2>4. d = (IF session'.interfaceCommand # NO_CMD THEN 1 ELSE 0)
    BY <2>1
  <2>5. /\ seqNum + 1 + d <= Len(posted) + stations'
        /\ stations' \in Nat /\ stations' <= MaxStations
    BY <1>0, <2>1, <2>3
  <2> HIDE DEF r, d
  <2> QED BY <1>0, <1>r, <2>1, <2>2, <2>3, <2>4, <2>5
<1>10. CASE \/ CWSoftTimerExpiredHandler \/ CloseSession \/ FreeSlot
            \/ TakeSlot \/ EnterRun
            \/ \E m \in network : Answer(m)
            \/ UNCHANGED vars
  <2>1. /\ Keeps /\ UNCHANGED <<seqNum, stations>>
        /\ \A r \in network' : \E m \in network : r.seqNum = m.seqNum
    BY <1>10, KeepsIs
  <2> QED BY <1>n, <2>1 DEF Keeps
<1> QED BY <1>1, <1>2, <1>3, <1>4, <1>5, <1>6, <1>7, <1>8, <1>9, <1>10, Steps

\* The session expects the response to the command in progress.
LEMMA ExpectsOwnInv ==
    ASSUME IInv, ClientWaits, FreshSeqNum, ExpectsOwn,
           NEW c, Apps = {c}, [Next]_vars
    PROVE  ExpectsOwn'
<1>0. c \in Apps
  OBVIOUS
\* No command is in progress, or it was given up.
<1>g. ASSUME session'.inProgress \in finished' \cup {NO_CMD}
      PROVE  ExpectsOwn'
  BY <1>g DEF ExpectsOwn, InProgress
\* The command in progress and the expected response stay the same.
<1>s. ASSUME session'.inProgress = session.inProgress, finished' = finished,
             Running' =>
                 Running /\ session'.responseSeqNum = session.responseSeqNum,
             \A r \in network' : \E m \in network :
                 r.seqNum = m.seqNum /\ r.cmd = m.cmd
      PROVE  ExpectsOwn'
  <2> SUFFICES ASSUME Running', InProgress' # NO_CMD, NEW r \in network',
                      r.seqNum = session'.responseSeqNum
               PROVE  r.cmd = session'.inProgress
    BY DEF ExpectsOwn
  <2>1. Running /\ InProgress # NO_CMD
    BY <1>s DEF InProgress
  <2>2. PICK m \in network : r.seqNum = m.seqNum /\ r.cmd = m.cmd
    BY <1>s
  <2> QED BY <1>s, <2>1, <2>2 DEF ExpectsOwn
<1>1. ASSUME NEW y \in App, Moves(c, y) PROVE ExpectsOwn'
  BY <1>1, <1>s DEF Moves, sessionVars, Running
<1>2. CASE UncountClient
  BY <1>2, <1>s DEF UncountClient, sessionVars, Running
<1>3. CASE SetValues(c)
  BY <1>0, <1>3, <1>s, SetValuesIs DEF Running
<1>4. CASE SendCommand
  <2> DEFINE r == [type |-> "request", seqNum |-> seqNum,
                   cmd |-> session.interfaceCommand]
  <2>1. CASE /\ session'.inProgress = session.interfaceCommand
             /\ session'.responseSeqNum = seqNum
             /\ network' = network \cup {r}
    <3>1. \A m \in network : m.seqNum < seqNum
      BY <1>4, SendCommandIs DEF FreshSeqNum
    <3>2. \A m \in network : m.seqNum # seqNum
      BY <3>1, SeqNumAssumption DEF IInv, TypeOK, Message
    <3>3. r.cmd = session.interfaceCommand
      OBVIOUS
    <3> HIDE DEF r
    <3> QED BY <2>1, <3>2, <3>3 DEF ExpectsOwn
  <2>2. CASE session'.inProgress = session.inProgress
    <3>1. session.inProgress = NO_CMD
      BY <1>0, <1>4, SendCommandIs DEF ClientWaits, IInv, ProgressKnown
    <3> QED BY <1>g, <2>2, <3>1
  <2> QED BY <1>4, <2>1, <2>2, SendCommandIs
<1>5. ASSUME NEW m \in network, HandleResponse(m) PROVE ExpectsOwn'
  BY <1>5, <1>g, HandleResponseIs
<1>6. ASSUME NEW m \in network, HandleStationResponse(m) PROVE ExpectsOwn'
  <2>1. /\ session'.inProgress = session.inProgress /\ finished' = finished
        /\ session.pc = "run" /\ m.cmd = NO_CMD
        /\ m.seqNum = session.responseSeqNum
    BY <1>6, HandleStationResponseIs DEF Keeps
  <2>2. InProgress = NO_CMD
    BY <2>1 DEF ExpectsOwn, Running, InProgress
  <2> QED BY <1>g, <2>1, <2>2 DEF InProgress
<1>7. CASE ReleaseClient
  BY <1>7, <1>g, ReleaseClientIs
<1>8. CASE ResetSlot
  <2>1. CASE Keeps /\ session'.pc = "hung"
    BY <2>1 DEF ExpectsOwn, Running
  <2> QED BY <1>8, <1>g, <2>1, ResetSlotIs
<1>9. CASE StationConfigurationRequest
  <2>1. /\ Keeps
        /\ \/ session.inProgress \in finished' \cup {NO_CMD}
           \/ UNCHANGED <<session, network, finished>>
    BY <1>9, StationConfigurationRequestIs
  <2> QED BY <1>g, <1>s, <2>1 DEF Keeps, Running
<1>10. CASE \/ CWSoftTimerExpiredHandler \/ CloseSession \/ FreeSlot
            \/ TakeSlot \/ EnterRun
            \/ \E m \in network : Answer(m)
            \/ UNCHANGED vars
  BY <1>10, <1>s, KeepsIs DEF Keeps
<1> QED BY <1>1, <1>2, <1>3, <1>4, <1>5, <1>6, <1>7, <1>8, <1>9, <1>10, Steps

\* The response that completes a command answers it, and the wait returns for
\* the client's own command.
LEMMA ReturnsInv ==
    ASSUME IInv, SingleInv, NEW c, Apps = {c}, [Next]_vars
    PROVE  ReturnMeansFinished' /\ NoStaleCompletion'
<1> DEFINE Returned == app'[c].pc \in {"ready", "posting"}
                           /\ app'[c].cmd # NO_CMD => app'[c].cmd \in finished'
<1>0. /\ c \in Apps /\ TypeOK /\ OwnSocket /\ app \in [Apps -> App]
      /\ ProgressKnown
      /\ app[c].pc \in {"ready", "posting"} /\ app[c].cmd # NO_CMD =>
            app[c].cmd \in finished
      /\ app[c].pc \in {"out", "connecting", "hello"} => app[c].cmd = NO_CMD
      /\ session.interfaceCommand # NO_CMD =>
            /\ app[c].pc = "waiting"
            /\ app[c].cmd = session.interfaceCommand
      /\ session.interfaceCommandProgress =>
            app[c].pc = "waiting" /\ app[c].cmd = session.inProgress
  BY DEF SingleInv, ClientWaits, ReturnMeansFinished, IInv, TypeOK
<1>q. Returned => ReturnMeansFinished'
  BY DEF ReturnMeansFinished
<1>l. UNCHANGED last => NoStaleCompletion'
  BY DEF SingleInv, NoStaleCompletion
<1>k. ASSUME UNCHANGED <<app, last>>, finished \subseteq finished'
      PROVE  Returned /\ NoStaleCompletion'
  BY <1>0, <1>k, <1>l
<1>w. Complete => /\ app'[c].cmd = app[c].cmd
                  /\ app'[c].pc = app[c].pc
                        \/ (app[c].pc = "waiting" /\ app'[c].pc = "ready")
  BY <1>0, Completed
<1>1. ASSUME NEW y \in App, Moves(c, y) PROVE Returned /\ NoStaleCompletion'
  <2>1. app'[c] = y /\ UNCHANGED <<finished, last>>
    BY <1>0, <1>1 DEF Moves, sessionVars
  <2> QED BY <1>0, <1>1, <1>l, <2>1 DEF Moves
<1>2. CASE UncountClient
  BY <1>2, <1>k, <1>q DEF UncountClient, sessionVars
<1>3. CASE SetValues(c)
  <2>1. Returned
    BY <1>0, <1>3, SetValuesIs
  <2> QED BY <1>0, <1>3, <1>l, <1>q, <2>1, SetValuesIs
<1>4. CASE SendCommand
  <2>1. Returned
    BY <1>0, <1>w, <1>4, SendCommandIs
  <2> QED BY <1>4, <1>l, <1>q, <2>1, SendCommandIs
<1>5. ASSUME NEW m \in network, HandleResponse(m)
      PROVE  Returned /\ NoStaleCompletion'
  <2>1. InProgress # NO_CMD => m.cmd = session.inProgress
    BY <1>5, HandleResponseIs DEF SingleInv, ExpectsOwn, Running
  <2>2. NoStaleCompletion'
    BY <1>5, <2>1, HandleResponseIs DEF NoStaleCompletion, InProgress
  <2>3. CASE session.interfaceCommandProgress
    <3>1. session.inProgress \in finished'
      BY <1>0, <1>5, <2>1, <2>3, HandleResponseIs DEF InProgress, ProgressKnown
    <3> QED BY <1>0, <1>w, <1>5, <2>2, <2>3, <3>1, HandleResponseIs
  <2>4. CASE ~session.interfaceCommandProgress
    BY <1>0, <1>5, <2>2, <2>4, HandleResponseIs
  <2> QED BY <2>3, <2>4
<1>6. ASSUME NEW m \in network, HandleStationResponse(m)
      PROVE  Returned /\ NoStaleCompletion'
  BY <1>6, <1>k, HandleStationResponseIs DEF Keeps
<1>7. CASE ReleaseClient
  <2>1. Returned
    BY <1>0, <1>w, <1>7, ReleaseClientIs
  <2> QED BY <1>7, <1>l, <1>q, <2>1, ReleaseClientIs
<1>8. CASE ResetSlot
  <2>1. Returned
    BY <1>0, <1>8, ResetSlotIs DEF Keeps
  <2> QED BY <1>8, <1>l, <1>q, <2>1, ResetSlotIs
<1>9. CASE StationConfigurationRequest
  BY <1>9, <1>k, <1>q, StationConfigurationRequestIs DEF Keeps
<1>10. CASE \/ CWSoftTimerExpiredHandler \/ CloseSession \/ FreeSlot
            \/ TakeSlot \/ EnterRun
            \/ \E m \in network : Answer(m)
            \/ UNCHANGED vars
  BY <1>10, <1>k, <1>q, KeepsIs DEF Keeps
<1> HIDE DEF Returned
<1> QED BY <1>1, <1>2, <1>3, <1>4, <1>5, <1>6, <1>7, <1>8, <1>9, <1>10, <1>q,
           Steps

\* What holds with a single client as long as every request of the program
\* has a sequence number of its own.
THEOREM SingleInvariance ==
    ASSUME NEW c, Apps = {c}, MaxCommands + MaxStations <= MaxSeqNum + 1
    PROVE  Spec => []SingleInv
<1>1. Init => SingleInv
  <2> SUFFICES ASSUME Init PROVE SingleInv
    OBVIOUS
  <2>1. ClientWaits /\ ReturnMeansFinished /\ NoStaleCompletion
    BY DEF Init, ClientWaits, ReturnMeansFinished, NoStaleCompletion
  <2>2. FreshSeqNum
    BY CommandsAssumption DEF Init, FreshSeqNum
  <2>3. ExpectsOwn
    BY DEF Init, ExpectsOwn
  <2> QED BY <2>1, <2>2, <2>3 DEF SingleInv
<1>2. IInv /\ SingleInv /\ [Next]_vars => SingleInv'
  BY ClientWaitsInv, FreshSeqNumInv, ExpectsOwnInv, ReturnsInv DEF SingleInv
<1> QED BY <1>1, <1>2, Invariance, PTL DEF Spec

\* With a single client, and fewer requests than sequence numbers, a wait
\* returns only when the client's own command was answered or given up.
THEOREM OwnCommandReturns ==
    ASSUME NEW c, Apps = {c}, MaxCommands + MaxStations <= MaxSeqNum + 1
    PROVE  Spec => []ReturnMeansFinished
<1>1. SingleInv => ReturnMeansFinished
  BY DEF SingleInv
<1> QED BY <1>1, SingleInvariance, PTL

\* Under the same conditions no late or repeated response completes a command
\* it does not answer, whatever Station Configuration messages there are.
THEOREM ResponsesMatch ==
    ASSUME NEW c, Apps = {c}, MaxCommands + MaxStations <= MaxSeqNum + 1
    PROVE  Spec => []NoStaleCompletion
<1>1. SingleInv => NoStaleCompletion
  BY DEF SingleInv
<1> QED BY <1>1, SingleInvariance, PTL

=============================================================================
