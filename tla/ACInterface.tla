----------------------------- MODULE ACInterface -----------------------------
(***************************************************************************)
(* Commands of management applications (ACInterface.c): the listener that  *)
(* gives each client a socket slot and a thread, the client threads that   *)
(* post a command in a WTP's slot of gWTPs and wait for it to complete,    *)
(* and the part of the WTP's session thread that sends the command as a    *)
(* Configuration Update Request and handles the response (ACMainLoop.c,    *)
(* ACRetransmission.c, ACRunState.c).  The session also sends Station      *)
(* Configuration Requests, when a station associates, and a session that   *)
(* takes over a station sends one in the name of the session it had.  They *)
(* share the fields of the slot that say which response is expected.       *)
(*                                                                         *)
(* There is one WTP slot, in which sessions follow one another; what ends  *)
(* a session is in ACMainLoop.  A section under interfaceMutex or          *)
(* numSocketFreeMutex is one step.  The network may lose, delay and        *)
(* duplicate messages: a message that was sent may be received at any      *)
(* later time, any number of times.  The commands are numbered, and a      *)
(* command's parameters are the memory its client thread allocated.        *)
(***************************************************************************)
EXTENDS Integers, Sequences, FiniteSets

CONSTANTS
    Apps,           \* the clients
    MaxSockets,     \* MAX_APPS_CONNECTED_TO_AC
    MaxCommands,    \* bound: how many commands are posted
    MaxStations,    \* bound: how many Station Configuration Requests there are
    MaxSeqNum,      \* CW_MAX_SEQ_NUM
    gCWMaxRetransmit,
    Failures        \* whether memory, threads or sending fail

ASSUME SocketsAssumption == MaxSockets \in Nat \ {0}
ASSUME CommandsAssumption == MaxCommands \in Nat /\ MaxStations \in Nat
ASSUME SeqNumAssumption == MaxSeqNum \in Nat /\ gCWMaxRetransmit \in Nat
ASSUME FailuresAssumption == Failures \in BOOLEAN

VARIABLES
    appsManager,  \* the table of client sockets
    listener,     \* the thread of CWInterface
    app,          \* the clients and the threads of CWManageApplication
    session,      \* the slot of gWTPs and its session thread
    seqNum,       \* CWGetSeqNum
    network,      \* every message ever sent between session and WTP
    stations,     \* how many stations associated
    posted,       \* the clients that posted commands 1, 2, ...
    finished,     \* the commands that were answered or given up (history)
    last          \* the last response that was accepted (history)

sessionVars == <<session, seqNum, network, stations, finished, last>>
vars == <<appsManager, listener, app, posted, sessionVars>>

Sockets == 0 .. MaxSockets - 1
Commands == 1 .. MaxCommands
NO_CMD == 0
Nobody == "nobody"

\* cmd is the client's latest command, NO_CMD before its first.
App == [pc: {"out", "connecting", "hello", "ready", "posting", "waiting",
             "lost"},
        sock: Sockets, cmd: Commands \cup {NO_CMD}]

\* pc is where the session thread is; the slot is in use unless "free".
\* inProgress is the command interfaceCommandProgress stands for.
Session == [pc: {"free", "starting", "joining", "run", "closing", "closed",
                 "hung"},
            interfaceCommand: Commands \cup {NO_CMD},
            applicationIndex: Sockets,
            interfaceCommandProgress: BOOLEAN,
            isRetransmitting: BOOLEAN, responseSeqNum: 0 .. MaxSeqNum,
            messages: BOOLEAN, retransmissionCount: Nat,
            packetTimer: BOOLEAN, isRequestClose: BOOLEAN,
            inProgress: Commands \cup {NO_CMD}]

\* cmd is NO_CMD in the Station Configuration messages.
Message == [type: {"request", "response"}, seqNum: 0 .. MaxSeqNum,
            cmd: Commands \cup {NO_CMD}]

\* The command a response answered, the command it completed and the client
\* it was forwarded to.
Last == [cmd: Commands, completed: Commands \cup {NO_CMD},
         receiver: Apps]
NoResponse == [cmd |-> NO_CMD]

TypeOK ==
    /\ appsManager \in [isFree: [Sockets -> BOOLEAN],
                        appSocket: [Sockets -> Apps \cup {Nobody}],
                        numSocketFree: 0 .. MaxSockets]
    /\ listener \in [pc: {"accept", "create", "uncount"}, sock: Sockets]
    /\ app \in [Apps -> App]
    /\ session \in Session
    /\ seqNum \in 0 .. MaxSeqNum
    /\ network \subseteq Message
    /\ stations \in 0 .. MaxStations
    /\ posted \in Seq(Apps) /\ Len(posted) <= MaxCommands
    /\ finished \subseteq Commands
    /\ last \in Last \cup {NoResponse}

Init ==
    /\ appsManager = [isFree |-> [i \in Sockets |-> TRUE],
                      appSocket |-> [i \in Sockets |-> Nobody],
                      numSocketFree |-> MaxSockets]
    /\ listener = [pc |-> "accept", sock |-> 0]
    /\ app = [a \in Apps |-> [pc |-> "out", sock |-> 0, cmd |-> NO_CMD]]
    /\ session = [pc |-> "free", interfaceCommand |-> NO_CMD,
                  applicationIndex |-> 0, interfaceCommandProgress |-> FALSE,
                  isRetransmitting |-> FALSE, responseSeqNum |-> 0,
                  messages |-> FALSE, retransmissionCount |-> 0,
                  packetTimer |-> FALSE, isRequestClose |-> FALSE,
                  inProgress |-> NO_CMD]
    /\ seqNum = 0
    /\ network = {}
    /\ stations = 0
    /\ posted = <<>>
    /\ finished = {}
    /\ last = NoResponse

Waiting == {a \in Apps : app[a].pc = "waiting"}

\* CWSignalThreadCondition(interfaceComplete): whichever client the condition
\* wakes returns from its wait, of which it does not test the reason.
Complete ==
    \/ Waiting = {} /\ UNCHANGED app
    \/ \E a \in Waiting : app' = [app EXCEPT ![a].pc = "ready"]

-----------------------------------------------------------------------------
(* The listener and the client threads.                                    *)

Clients == <<appsManager, listener, app, posted>>

\* Mutant: the slot stays marked as free.
Accept_keeps_free(a) ==
    /\ listener.pc = "accept"
    /\ app[a].pc = "out"
    /\ appsManager.numSocketFree > 0
    /\ \E i \in Sockets :
          /\ appsManager.isFree[i]
          /\ \A j \in 0 .. i - 1 : ~appsManager.isFree[j]
          /\ appsManager' = [appsManager EXCEPT !.appSocket[i] = a,
                                                !.numSocketFree = @ - 1]
          /\ listener' = [pc |-> "create", sock |-> i]
          /\ app' = [app EXCEPT ![a].pc = "connecting", ![a].sock = i]
    /\ UNCHANGED <<posted, sessionVars>>

\* accept(): the first free socket slot, if the count says there is one.
Accept(a) ==
    /\ listener.pc = "accept"
    /\ app[a].pc = "out"
    /\ appsManager.numSocketFree > 0
    /\ \E i \in Sockets :
          /\ appsManager.isFree[i]
          /\ \A j \in 0 .. i - 1 : ~appsManager.isFree[j]
          /\ appsManager' = [appsManager EXCEPT !.isFree[i] = FALSE,
                                                !.appSocket[i] = a,
                                                !.numSocketFree = @ - 1]
          /\ listener' = [pc |-> "create", sock |-> i]
          /\ app' = [app EXCEPT ![a].pc = "connecting", ![a].sock = i]
    /\ UNCHANGED <<posted, sessionVars>>

\* The client thread.  If it cannot be created the slot is given back, and
\* then the count, in a section of its own.
CreateClientThread ==
    /\ listener.pc = "create"
    /\ LET a == appsManager.appSocket[listener.sock] IN
       \/ /\ app' = [app EXCEPT ![a].pc = "hello"]
          /\ listener' = [listener EXCEPT !.pc = "accept"]
          /\ UNCHANGED appsManager
       \/ /\ Failures
          /\ app' = [app EXCEPT ![a].pc = "out"]
          /\ appsManager' = [appsManager EXCEPT !.isFree[listener.sock] = TRUE]
          /\ listener' = [listener EXCEPT !.pc = "uncount"]
    /\ UNCHANGED <<posted, sessionVars>>

UncountClient ==
    /\ listener.pc = "uncount"
    /\ appsManager' = [appsManager EXCEPT !.numSocketFree = @ + 1]
    /\ listener' = [listener EXCEPT !.pc = "accept"]
    /\ UNCHANGED <<app, posted, sessionVars>>

\* The client is told that it is connected.  If that fails the thread ends
\* and its slot is never given back (lines 160-163).
SayConnected(a) ==
    /\ app[a].pc = "hello"
    /\ \/ app' = [app EXCEPT ![a].pc = "ready"]
       \/ Failures /\ app' = [app EXCEPT ![a].pc = "out"]
    /\ UNCHANGED <<appsManager, listener, posted, sessionVars>>

\* A command for the WTP: its index is checked, then its parameters are read.
\* An index that is not in use ends the connection, see Quit.  A thread without
\* memory for the parameters ends and never gives its slot back.
ReadCommand(a) ==
    /\ app[a].pc = "ready"
    /\ Len(posted) < MaxCommands
    /\ session.pc # "free"
    /\ \/ app' = [app EXCEPT ![a].pc = "posting"]
       \/ /\ Failures
          /\ app' = [app EXCEPT ![a].pc = "out", ![a].cmd = NO_CMD]
    /\ UNCHANGED <<appsManager, listener, posted, sessionVars>>

\* CWOFDMSetValues, CWVendorSetValues, CWWumSetValues and CWWLANSetValues:
\* the command replaces whatever the slot holds.
SetValues(a) ==
    /\ app[a].pc = "posting"
    /\ Len(posted) < MaxCommands
    /\ posted' = Append(posted, a)
    /\ session' = [session EXCEPT !.interfaceCommand = Len(posted) + 1,
                                  !.applicationIndex = app[a].sock]
    /\ app' = [app EXCEPT ![a].pc = "waiting", ![a].cmd = Len(posted) + 1]
    /\ UNCHANGED <<appsManager, listener, seqNum, network, stations, finished,
                   last>>

\* Mutant: the slot is counted but not marked as free.
Quit_counts_only(a) ==
    /\ app[a].pc \in {"ready", "posting"}
    /\ appsManager' = [appsManager EXCEPT !.numSocketFree = @ + 1]
    /\ app' = [app EXCEPT ![a].pc = "out", ![a].cmd = NO_CMD]
    /\ UNCHANGED <<listener, posted, sessionVars>>

\* quit_manage: the client left, or sent something that makes no sense.
Quit(a) ==
    /\ app[a].pc \in {"ready", "posting"}
    /\ appsManager' = [appsManager EXCEPT !.isFree[app[a].sock] = TRUE,
                                          !.numSocketFree = @ + 1]
    /\ app' = [app EXCEPT ![a].pc = "out", ![a].cmd = NO_CMD]
    /\ UNCHANGED <<listener, posted, sessionVars>>

-----------------------------------------------------------------------------
(* The session thread.                                                     *)

Running == session.pc \in {"joining", "run"}

\* Mutant: the sequence number does not wrap around.
NextSeqNum_no_wrap == seqNum + 1

\* CWGetSeqNum.
NextSeqNum == IF seqNum = MaxSeqNum THEN 0 ELSE seqNum + 1

\* CWACStopRetransmission.
Stopped(s) == IF s.isRetransmitting
              THEN [s EXCEPT !.isRetransmitting = FALSE, !.packetTimer = FALSE,
                             !.responseSeqNum = 0, !.messages = FALSE]
              ELSE s

\* CWACSendAcknowledgedPacket: CWACSendFragments frees the messages it has
\* sent before the retransmission timer is started.
Requested(s) == [s EXCEPT !.retransmissionCount = 0,
                          !.isRetransmitting = TRUE,
                          !.responseSeqNum = seqNum,
                          !.messages = FALSE,
                          !.packetTimer = TRUE]

CWACSendAcknowledgedPacket(s, cmd) ==
    /\ session' = Requested(s)
    /\ network' = network \cup {[type |-> "request", seqNum |-> seqNum,
                                 cmd |-> cmd]}

\* The command branch of CWManageWTP.  A request that cannot be assembled or
\* sent completes at once.
SendCommand ==
    /\ Running
    /\ session.interfaceCommand # NO_CMD
    /\ seqNum' = NextSeqNum
    /\ \/ /\ CWACSendAcknowledgedPacket(
                [session EXCEPT !.inProgress = session.interfaceCommand,
                                !.interfaceCommandProgress = TRUE,
                                !.interfaceCommand = NO_CMD],
                session.interfaceCommand)
          /\ UNCHANGED <<app, finished>>
       \/ /\ Failures
          /\ \E s \in {session, Stopped([session EXCEPT
                                            !.isRetransmitting = TRUE])} :
                session' = [s EXCEPT !.interfaceCommand = NO_CMD]
          /\ finished' = finished \cup {session.interfaceCommand}
          /\ Complete
          /\ UNCHANGED network
    /\ UNCHANGED <<appsManager, listener, posted, stations, last>>

\* The command whose response the session no longer expects when another
\* request takes its place: it is given up, although its client goes on
\* waiting.
Displaced == {session.inProgress} \ {NO_CMD}

\* A station associates with the WTP, or with another WTP to which it moved:
\* then the other session's thread sends the request, at whatever point this
\* session is.  One that cannot be sent is dropped.  The other thread writes
\* the fields of the slot one by one without a lock; here it is one step, so a
\* mixture of two requests written at the same time is left out.
StationConfigurationRequest ==
    /\ session.pc # "free"
    /\ stations < MaxStations
    /\ stations' = stations + 1
    /\ seqNum' = NextSeqNum
    /\ \/ /\ CWACSendAcknowledgedPacket(session, NO_CMD)
          /\ finished' = finished \cup Displaced
       \/ /\ Failures
          /\ session' = Stopped([session EXCEPT !.isRetransmitting = TRUE])
          /\ finished' = finished \cup Displaced
          /\ UNCHANGED network
       \/ Failures /\ UNCHANGED <<session, network, finished>>
    /\ UNCHANGED <<Clients, last>>

\* The WTP's answer (external).
Answer(m) ==
    /\ m.type = "request"
    /\ network' = network \cup {[m EXCEPT !.type = "response"]}
    /\ UNCHANGED <<Clients, session, seqNum, stations, finished, last>>

\* The command a response is for, if its request is the one outstanding.
InProgress ==
    IF session.inProgress \in finished THEN NO_CMD ELSE session.inProgress

\* Mutants: a client is woken whether or not a command is in progress; the
\* sequence number is not compared.
HandleResponse_always_completes(m) ==
    /\ session.pc = "run"
    /\ m.type = "response" /\ m.cmd # NO_CMD
    /\ m.seqNum = session.responseSeqNum
    /\ last' = [cmd |-> m.cmd, completed |-> InProgress,
                receiver |-> appsManager.appSocket[session.applicationIndex]]
    /\ session' = [Stopped(session) EXCEPT !.interfaceCommandProgress = FALSE,
                                           !.inProgress = NO_CMD]
    /\ finished' = finished \cup {m.cmd}
    /\ Complete
    /\ UNCHANGED <<appsManager, listener, posted, seqNum, network, stations>>

HandleResponse_any_seqnum(m) ==
    /\ session.pc = "run"
    /\ m.type = "response" /\ m.cmd # NO_CMD
    /\ last' = [cmd |-> m.cmd, completed |-> InProgress,
                receiver |-> appsManager.appSocket[session.applicationIndex]]
    /\ session' = [Stopped(session) EXCEPT !.interfaceCommandProgress = FALSE,
                                           !.inProgress = NO_CMD]
    /\ finished' = finished \cup {m.cmd}
    /\ IF session.interfaceCommandProgress THEN Complete ELSE UNCHANGED app
    /\ UNCHANGED <<appsManager, listener, posted, seqNum, network, stations>>

\* A Configuration Update Response with the expected sequence number (the
\* others are ignored): its payload is forwarded to the socket of
\* applicationIndex and the command in progress completes.  The response to a
\* committed update of the WTP also asks for the session to be closed.
HandleResponse(m) ==
    /\ session.pc = "run"
    /\ m.type = "response" /\ m.cmd # NO_CMD
    /\ m.seqNum = session.responseSeqNum
    /\ last' = [cmd |-> m.cmd, completed |-> InProgress,
                receiver |-> appsManager.appSocket[session.applicationIndex]]
    /\ \E close \in {session.isRequestClose, TRUE} :
          session' = [Stopped(session) EXCEPT
                         !.interfaceCommandProgress = FALSE,
                         !.inProgress = NO_CMD, !.isRequestClose = close]
    /\ finished' = finished \cup {m.cmd}
    /\ IF session.interfaceCommandProgress THEN Complete ELSE UNCHANGED app
    /\ UNCHANGED <<appsManager, listener, posted, seqNum, network, stations>>

\* A Station Configuration Response with the expected sequence number.
HandleStationResponse(m) ==
    /\ session.pc = "run"
    /\ m.type = "response" /\ m.cmd = NO_CMD
    /\ m.seqNum = session.responseSeqNum
    /\ session' = Stopped(session)
    /\ UNCHANGED <<Clients, seqNum, network, stations, finished, last>>

\* The retransmission timer expires: without messages there is nothing to
\* send again, and the timer is not started again (lines 1244-1251).
CWSoftTimerExpiredHandler ==
    /\ Running
    /\ session.packetTimer
    /\ LET count == session.retransmissionCount + 1 IN
       session' =
          IF ~session.isRetransmitting \/ ~session.messages
          THEN [session EXCEPT !.packetTimer = FALSE]
          ELSE [session EXCEPT !.retransmissionCount = count,
                               !.packetTimer = count < gCWMaxRetransmit,
                               !.isRequestClose = count >= gCWMaxRetransmit]
    /\ UNCHANGED <<Clients, seqNum, network, stations, finished, last>>

\* _CWCloseThread.
CloseSession ==
    /\ Running
    /\ session' = [Stopped(session) EXCEPT !.pc = "closing"]
    /\ UNCHANGED <<Clients, seqNum, network, stations, finished, last>>

\* Mutant: the command in progress is forgotten without waking its client.
ReleaseClient_silent ==
    /\ session.pc = "closing"
    /\ session' = [session EXCEPT !.interfaceCommandProgress = FALSE,
                                  !.inProgress = NO_CMD, !.pc = "closed"]
    /\ UNCHANGED <<appsManager, listener, app, posted, seqNum, network,
                   stations, finished, last>>

ReleaseClient ==
    /\ session.pc = "closing"
    /\ session' = [session EXCEPT !.interfaceCommandProgress = FALSE,
                                  !.inProgress = NO_CMD, !.pc = "closed"]
    /\ IF session.interfaceCommandProgress
       THEN finished' = finished \cup {session.inProgress} /\ Complete
       ELSE UNCHANGED <<app, finished>>
    /\ UNCHANGED <<appsManager, listener, posted, seqNum, network, stations,
                   last>>

FreeSlot ==
    /\ session.pc = "closed"
    /\ session' = [session EXCEPT !.pc = "free"]
    /\ UNCHANGED <<Clients, seqNum, network, stations, finished, last>>

\* The main thread takes the slot for a new session.
TakeSlot ==
    /\ session.pc = "free"
    /\ session' = [session EXCEPT !.pc = "starting", !.isRequestClose = FALSE]
    /\ UNCHANGED <<Clients, seqNum, network, stations, finished, last>>

\* The new thread resets the slot and recreates its condition variables.
\* What destroying interfaceComplete does while clients wait on it is
\* undefined: they are never woken again, or the session thread blocks.
ResetSlot ==
    /\ session.pc = "starting"
    /\ \/ /\ session' = [session EXCEPT
                !.pc = "joining", !.interfaceCommandProgress = FALSE,
                !.inProgress = NO_CMD, !.interfaceCommand = NO_CMD,
                !.messages = FALSE, !.isRetransmitting = FALSE,
                !.retransmissionCount = 0]
          /\ app' = [a \in Apps |-> IF a \in Waiting
                                    THEN [app[a] EXCEPT !.pc = "lost"]
                                    ELSE app[a]]
       \/ /\ Waiting # {}
          /\ session' = [session EXCEPT !.pc = "hung"]
          /\ UNCHANGED app
    /\ UNCHANGED <<appsManager, listener, posted, seqNum, network, stations,
                   finished, last>>

\* The WTP has joined and is configured (see ACMainLoop): from here on its
\* responses are understood.
EnterRun ==
    /\ session.pc = "joining"
    /\ session' = [session EXCEPT !.pc = "run"]
    /\ UNCHANGED <<Clients, seqNum, network, stations, finished, last>>

-----------------------------------------------------------------------------
CWManageApplication(a) ==
    SayConnected(a) \/ ReadCommand(a) \/ SetValues(a) \/ Quit(a)

CWInterface == (\E a \in Apps : Accept(a)) \/ CreateClientThread \/ UncountClient

CWManageWTP ==
    \/ SendCommand
    \/ \E m \in network : HandleResponse(m) \/ HandleStationResponse(m)
    \/ CloseSession
    \/ ReleaseClient
    \/ FreeSlot
    \/ ResetSlot
    \/ EnterRun

Next ==
    \/ CWInterface
    \/ \E a \in Apps : CWManageApplication(a)
    \/ CWManageWTP
    \/ StationConfigurationRequest
    \/ CWSoftTimerExpiredHandler
    \/ TakeSlot
    \/ \E m \in network : Answer(m)

Spec == Init /\ [][Next]_vars

\* The retransmission timer expires and its handler runs, a session that was
\* asked to close closes, and one that began to close goes on.  Nothing
\* obliges a WTP to answer.
FairSpec ==
    /\ Spec
    /\ WF_vars(CWSoftTimerExpiredHandler)
    /\ WF_vars(session.isRequestClose /\ CloseSession)
    /\ WF_vars(ReleaseClient)

-----------------------------------------------------------------------------
(* Properties.                                                             *)

\* No completion is signalled into the void: there is a waiting client for
\* the command in the slot and one for the command in progress, although
\* clients overwrite each other's commands and any of them may be woken.
EnoughWaiters ==
    session.pc # "hung" =>
        Cardinality(Waiting) >=
            Cardinality({c \in {"posted", "sent"} :
                \/ c = "posted" /\ session.interfaceCommand # NO_CMD
                \/ c = "sent" /\ session.interfaceCommandProgress})

\* With a single client, the parameters of the command in the slot are still
\* allocated: the client frees them when its wait returns, and the session
\* thread reads them when it sends the command.
ParametersAlive ==
    session.interfaceCommand # NO_CMD =>
        \E a \in Apps : app[a].pc = "waiting" /\ app[a].cmd = session.interfaceCommand

\* With a single client, a wait returns only when the client's own command was
\* answered, could not be sent or was given up: by a session that closed, or
\* for a Station Configuration Request.
ReturnMeansFinished ==
    \A a \in Apps :
        app[a].pc \in {"ready", "posting"} /\ app[a].cmd # NO_CMD =>
            app[a].cmd \in finished

\* A response completes a command whose request is outstanding only if it
\* answers that command, however late it arrives and however often, and
\* whatever Station Configuration messages there are, as long as fewer requests
\* were sent than there are sequence numbers (CWACParseGenericRunMessage).
NoStaleCompletion ==
    last # NoResponse /\ last.completed # NO_CMD => last.cmd = last.completed

\* With a single client, a session that closes while it waits for a response
\* releases the client that waits for it, before the slot is used again.
ClosedSessionReleases ==
    \A a \in Apps :
        (/\ session.pc = "closing"
         /\ app[a].pc = "waiting"
         /\ app[a].cmd = session.inProgress) ~> app[a].pc # "waiting"

\* CWInterface believes numSocketFree: when it is positive the search finds a
\* slot, so that a client always gets an index.
SocketCount ==
    appsManager.numSocketFree <=
        Cardinality({i \in Sockets : appsManager.isFree[i]})

\* The clients with a thread have a socket slot of their own.
OwnSocket ==
    \A a \in Apps : app[a].pc # "out" =>
        /\ ~appsManager.isFree[app[a].sock]
        /\ appsManager.appSocket[app[a].sock] = a

\* "Peer is Dead", "Request close thread" (ACMainLoop.c:1260): a request is
\* answered, or retransmitted until the session is given up.
RequestResolved ==
    session.isRetransmitting ~> ~session.isRetransmitting

-----------------------------------------------------------------------------
(* The inductive invariants of the proofs in ACInterfaceProof.             *)

FreeSockets == {i \in Sockets : appsManager.isFree[i]}

\* The count is exact, but for the slot whose thread could not be created and
\* which is not counted as free yet.
SocketsCounted ==
    Cardinality(FreeSockets) =
        appsManager.numSocketFree + (IF listener.pc = "uncount" THEN 1 ELSE 0)

\* While the listener creates a thread, its socket slot is the client's.
ListenerOwns ==
    listener.pc = "create" =>
        \E a \in Apps : /\ appsManager.appSocket[listener.sock] = a
                       /\ app[a].pc = "connecting"
                       /\ app[a].sock = listener.sock

\* applicationIndex is a client's as soon as there is a command.
CommandHasSender ==
    session.interfaceCommand # NO_CMD \/ (\E m \in network : m.cmd # NO_CMD) =>
        appsManager.appSocket[session.applicationIndex] \in Apps

ProgressKnown ==
    session.interfaceCommandProgress <=> session.inProgress # NO_CMD

IInv == /\ TypeOK
        /\ OwnSocket
        /\ SocketsCounted
        /\ ListenerOwns
        /\ CommandHasSender
        /\ ProgressKnown
        /\ EnoughWaiters

\* What else holds with a single client: the command in the slot or in
\* progress is the one it waits for.
ClientWaits ==
    \A a \in Apps :
        /\ app[a].pc \in {"out", "connecting", "hello"} => app[a].cmd = NO_CMD
        /\ session.interfaceCommand # NO_CMD =>
              /\ app[a].pc = "waiting"
              /\ app[a].cmd = session.interfaceCommand
              /\ ~session.interfaceCommandProgress
        /\ session.interfaceCommandProgress =>
              app[a].pc = "waiting" /\ app[a].cmd = session.inProgress
        /\ session.pc = "hung" => app[a].pc = "waiting"

\* Each request has a sequence number of its own: the next one was not used,
\* or no request is left to be sent.
FreshSeqNum ==
    \/ /\ \A m \in network : m.seqNum < seqNum
       /\ seqNum + (IF session.interfaceCommand # NO_CMD THEN 1 ELSE 0)
              <= Len(posted) + stations
    \/ /\ Len(posted) = MaxCommands /\ stations = MaxStations
       /\ session.interfaceCommand = NO_CMD

\* The sequence number the session expects is that of the command in progress.
ExpectsOwn ==
    Running /\ InProgress # NO_CMD =>
        \A m \in network : m.seqNum = session.responseSeqNum =>
                              m.cmd = session.inProgress

SingleInv == /\ ClientWaits
             /\ FreshSeqNum
             /\ ExpectsOwn
             /\ ReturnMeansFinished
             /\ NoStaleCompletion

=============================================================================
