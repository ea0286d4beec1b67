------------------------------- MODULE WTPMain -------------------------------
(***************************************************************************)
(* How a WTP gets into Run: the main thread's states from Discovery to Run *)
(* (WTP.c, WTP*State.c) with CWWTPSendAcknowledgedPacket and the threads   *)
(* that receive on its sockets, a network that loses, delays and           *)
(* duplicates, and the session the AC has for the WTP's address.           *)
(*                                                                         *)
(* The ports are configured, so every control socket of the WTP has the    *)
(* same address and meets whatever session the AC has for it.  Closing a   *)
(* socket does not wake a thread that is blocked in recvfrom on it         *)
(* (CWNetworkCloseSocket calls shutdown(SHUT_RDWR, x), the arguments       *)
(* exchanged): until a packet arrives, that thread keeps the port bound.   *)
(* A descriptor that was closed is the next one socket() returns, so a     *)
(* thread that still has the number reads from, and closes, the channel's  *)
(* new socket.                                                             *)
(*                                                                         *)
(* There is one AC, and its answer to a packet is one step: ACMainLoop has *)
(* the threads and slots behind it.                                        *)
(***************************************************************************)
EXTENDS Naturals, Sequences, FiniteSets

CONSTANTS
    MaxRetransmit,      \* gCWMaxRetransmit
    MaxDiscoveries,     \* gCWMaxDiscoveries
    MaxSeqNum,          \* bound: sequence numbers taken, below the wrap at 255
    MaxJoins,           \* bound: how often Join gets as far as its sockets
    MaxFaults,          \* bound: how often something of Faults happens
    Faults              \* what may go wrong, of FaultKinds

FaultKinds == {"lost request", "lost response", "duplicate", "early timeout",
               "no resource", "other wakeup", "timer expires"}

ASSUME RetransmitAssumption == MaxRetransmit \in Nat \ {0}
ASSUME DiscoveriesAssumption == MaxDiscoveries \in Nat \ {0}
ASSUME SeqNumAssumption == MaxSeqNum \in Nat
ASSUME JoinsAssumption == MaxJoins \in Nat
ASSUME FaultsAssumption == MaxFaults \in Nat /\ Faults \subseteq FaultKinds

VARIABLES
    main,       \* the main thread
    disc,       \* what Discovery knows: found (gACInfoPtr), received, result
    sock,       \* are gWTPSocket and gWTPDataSocket open?
    rx,         \* the receiving threads, two for each Join
    inbox,      \* gPacketReceiveList
    waitJoin,   \* the WaitJoin timers: the one of this Join, and those left
    handshake,  \* gSuccessfulHandshake
    dead,       \* gWTPDataChannelDeadFlag or gWTPExitRunEcho
    net,        \* the packets on their way
    ac,         \* the AC's session for the WTP
    faults,     \* how many faults there were
    closed,     \* the AC closed a session since Join was entered (history)
    excused     \* something went wrong that no retransmission repairs (history)

wtpVars == <<main, disc, sock, rx, inbox, waitJoin, handshake, dead>>
history == <<faults, closed, excused>>
vars == <<wtpVars, net, ac, history>>

Channels == {"control", "data"}
Threads == (1 .. MaxJoins) \X Channels
Channel(t) == t[2]
Types == {"discovery", "join", "configure", "changeState"}

\* A request, or the response to it.  The AC's answer to a request it does not
\* expect in Run, and a refused Join, carry a failure code.
\* copy tells the transmissions of a request apart.
Message == [to: {"ac", "wtp"}, type: Types, seqNum: Nat, copy: Nat, ok: BOOLEAN]
Request(t, n, c) ==
    [to |-> "ac", type |-> t, seqNum |-> n, copy |-> c, ok |-> TRUE]
Response(m, good) == [m EXCEPT !.to = "wtp", !.ok = good]

\* The request each of the acknowledged exchanges sends.
Exchanges == {"join", "configure", "dataCheck"}
TypeOf(s) == IF s = "dataCheck" THEN "changeState" ELSE s

MainState == [state: {"discovery", "sulking", "run", "quit"} \cup Exchanges,
              pc: {"enter", "send", "wait", "receive", "clear"},
              seqNum: Nat, count: Nat, joins: Nat,
              lastError: {"none", "success", "failed"}]
RxState == {"none", "loop", "recv", "stuck", "close"}
Session == [state: {"none", "join", "configure", "dataCheck", "run"},
            timer: BOOLEAN]

TypeOK ==
    /\ main \in MainState
    /\ disc \in [found: BOOLEAN, received: BOOLEAN, result: BOOLEAN]
    /\ sock \in [Channels -> BOOLEAN]
    /\ rx \in [Threads -> RxState]
    /\ inbox \in Seq(Message)
    /\ waitJoin \in [mine: BOOLEAN, left: Nat]
    /\ handshake \in BOOLEAN
    /\ dead \in BOOLEAN
    /\ net \subseteq Message
    /\ ac \in Session
    /\ faults \in 0 .. MaxFaults
    /\ closed \in BOOLEAN
    /\ excused \in BOOLEAN

Nothing == [found |-> FALSE, received |-> FALSE, result |-> FALSE]
NoSession == [state |-> "none", timer |-> FALSE]

Init ==
    /\ main = [state |-> "discovery", pc |-> "enter", seqNum |-> 0,
               count |-> 0, joins |-> 0, lastError |-> "none"]
    /\ disc = Nothing
    /\ sock = [c \in Channels |-> FALSE]
    /\ rx = [t \in Threads |-> "none"]
    /\ inbox = <<>>
    /\ waitJoin = [mine |-> FALSE, left |-> 0]
    /\ handshake = TRUE
    /\ dead = FALSE
    /\ net = {}
    /\ ac = NoSession
    /\ faults = 0
    /\ closed = FALSE
    /\ excused = FALSE

\* A fault of a kind that retransmission must cope with, and of one it cannot.
Repairable == {"lost request", "early timeout", "duplicate"}
Fault(kind) ==
    /\ kind \in Faults
    /\ faults < MaxFaults
    /\ faults' = faults + 1
    /\ excused' = (excused \/ kind \notin Repairable)
NoFault == UNCHANGED <<faults, excused>>

\* m arrives and leaves M behind.  The network may have another copy of it.
Replaced(m, M) ==
    \/ net' = (net \ {m}) \cup M /\ NoFault
    \/ net' = net \cup M /\ Fault("duplicate")
Delivered(m) == Replaced(m, {})

-----------------------------------------------------------------------------
(* The sockets.                                                            *)

\* Threads blocked in recvfrom on a channel stay blocked when its socket is
\* closed: the socket is without descriptor, but not gone.
Abandoned(C) ==
    [t \in Threads |-> IF rx[t] = "recv" /\ Channel(t) \in C THEN "stuck"
                       ELSE rx[t]]

CWNetworkCloseSocket(C) ==
    /\ sock' = [c \in Channels |-> sock[c] /\ c \notin C]
    /\ rx' = Abandoned(C)

\* bind() fails while a closed socket is still in use by a thread.
PortHeld(c) ==
    \E t \in Threads : Channel(t) = c /\ rx[t] \in {"recv", "stuck"}

TakesSeqNum == main.seqNum < MaxSeqNum
NextSeqNum == main.seqNum + 1

Enter(s) == [main EXCEPT !.state = s, !.pc = "enter"]
Failed(s) == [Enter(s) EXCEPT !.lastError = "failed"]

\* A wait for the network ends: in time, or although an answer may still come.
TimeIsUp ==
    \/ net = {} /\ NoFault
    \/ net # {} /\ Fault("early timeout")

-----------------------------------------------------------------------------
(* Discovery and Sulking.                                                  *)

\* The start of CWWTPEnterDiscovery.  bind() fails without raising an error,
\* and CWErr() takes that for a success when the thread's last error is
\* CW_ERROR_SUCCESS: Discovery then goes on with a closed socket.
CWWTPEnterDiscovery ==
    /\ main.state = "discovery" /\ main.pc = "enter"
    /\ rx' = Abandoned(Channels)
    /\ disc' = Nothing
    /\ LET begin == [main EXCEPT !.pc = "send", !.count = 0]
       IN  \/ /\ ~PortHeld("control")
              /\ sock' = [c \in Channels |-> c = "control"]
              /\ main' = begin
              /\ NoFault
           \/ /\ PortHeld("control")
              /\ sock' = [c \in Channels |-> FALSE]
              /\ main' = IF main.lastError = "success" THEN begin
                         ELSE Enter("quit")
              /\ NoFault
           \/ /\ Fault("no resource")
              /\ sock' = [c \in Channels |-> FALSE]
              /\ main' = Failed("quit")
    /\ UNCHANGED <<inbox, waitJoin, handshake, dead, net, ac, closed>>

\* The main thread's loop in Discovery, up to the wait for responses.
SendDiscoveryRequest ==
    /\ main.state = "discovery" /\ main.pc = "send"
    /\ \/ /\ main.count = MaxDiscoveries
          /\ main' = [main EXCEPT !.state = "sulking", !.pc = "wait"]
          /\ UNCHANGED <<disc, net>>
       \/ /\ main.count # MaxDiscoveries
          /\ disc.received
          /\ main' = Enter("join")
          /\ UNCHANGED <<disc, net>>
       \/ /\ main.count # MaxDiscoveries
          /\ ~disc.received
          /\ TakesSeqNum
          /\ main' = [main EXCEPT !.pc = "wait", !.count = @ + 1,
                                  !.seqNum = NextSeqNum]
          /\ disc' = Nothing
          /\ net' = IF sock["control"]
                    THEN net \cup {Request("discovery", NextSeqNum, 0)} ELSE net
    /\ UNCHANGED <<sock, rx, inbox, waitJoin, handshake, dead, ac, history>>

\* CWReceiveDiscoveryResponse: whatever arrives on the port.
CWReceiveDiscoveryResponse(m) ==
    /\ main.state = "discovery" /\ main.pc = "wait"
    /\ sock["control"]
    /\ m.to = "wtp"
    /\ LET response == m.type = "discovery" /\ m.ok
           mine == response /\ m.seqNum = main.seqNum
       IN  disc' = [found |-> disc.found \/ response,
                    received |-> disc.received \/ mine,
                    result |-> mine]
    /\ Delivered(m)
    /\ UNCHANGED <<main, sock, rx, inbox, waitJoin, handshake, dead, ac, closed>>

\* CWReadResponses returns at the end of the interval, or at once if the
\* socket is closed.  When the interval ends while a response is read the last
\* error stays CW_ERROR_SUCCESS.
CWReadResponses ==
    /\ main.state = "discovery" /\ main.pc = "wait"
    /\ \/ ~sock["control"] /\ NoFault
       \/ sock["control"] /\ TimeIsUp
    /\ \/ /\ disc.result
          /\ \E e \in {"success", "failed"} :
                main' = [Enter("join") EXCEPT !.lastError = e]
       \/ /\ ~disc.result
          /\ main' = [main EXCEPT !.pc = "send", !.lastError = "failed"]
    /\ UNCHANGED <<disc, sock, rx, inbox, waitJoin, handshake, dead, net, ac,
                   closed>>

\* The silent interval ends, or the socket is closed.
CWWTPEnterSulking ==
    /\ main.state = "sulking"
    /\ \/ ~sock["control"] /\ NoFault
       \/ sock["control"] /\ TimeIsUp
    /\ main' = Failed("discovery")
    /\ UNCHANGED <<disc, sock, rx, inbox, waitJoin, handshake, dead, net, ac,
                   closed>>

\* In the interval, what arrives is read and discarded.  An error of the read
\* ends the program.
SulkingDiscards(m) ==
    /\ main.state = "sulking"
    /\ sock["control"]
    /\ m.to = "wtp"
    /\ \/ Delivered(m) /\ UNCHANGED main
       \/ Fault("no resource") /\ main' = Failed("quit") /\ net' = net \ {m}
    /\ UNCHANGED <<disc, sock, rx, inbox, waitJoin, handshake, dead, ac, closed>>

-----------------------------------------------------------------------------
(* Join, Configure and Data Check.                                         *)

\* The start of CWWTPEnterJoin, up to the sequence number of the request.
JoinBegins ==
    /\ TakesSeqNum
    /\ main.joins < MaxJoins
    /\ \A c \in Channels : ~PortHeld(c)
    /\ NoFault
    /\ sock' = [c \in Channels |-> TRUE]
    /\ rx' = [rx EXCEPT ![<<main.joins + 1, "control">>] = "loop",
                        ![<<main.joins + 1, "data">>] = "loop"]
    /\ waitJoin' = [waitJoin EXCEPT !.mine = TRUE]
    /\ main' = [main EXCEPT !.pc = "send", !.count = 0, !.seqNum = NextSeqNum,
                            !.joins = @ + 1]

\* No timer, no control socket or no thread to receive on it: what was there
\* is given back.
JoinFails ==
    /\ \/ PortHeld("control") /\ NoFault
       \/ Fault("no resource")
    /\ CWNetworkCloseSocket({"control"})
    /\ main' = Failed("discovery")
    /\ UNCHANGED waitJoin

\* No data socket, or no thread for it: the timer and the control socket stay,
\* and in the second case the thread that receives on it.
JoinFailsLate ==
    /\ ~PortHeld("control")
    /\ sock' = [c \in Channels |-> c = "control" \/ ~PortHeld("data")]
    /\ waitJoin' = [waitJoin EXCEPT !.left = @ + 1]
    /\ \/ /\ PortHeld("data")
          /\ NoFault
          /\ rx' = Abandoned(Channels)
          /\ main' = Failed("discovery")
       \/ /\ ~PortHeld("data")
          /\ main.joins < MaxJoins
          /\ Fault("no resource")
          /\ rx' = [rx EXCEPT ![<<main.joins + 1, "control">>] = "loop"]
          /\ main' = [Failed("discovery") EXCEPT !.joins = @ + 1]

CWWTPEnterJoin ==
    /\ main.state = "join" /\ main.pc = "enter"
    /\ JoinBegins \/ JoinFails \/ JoinFailsLate
    /\ closed' = FALSE
    /\ UNCHANGED <<disc, inbox, handshake, dead, net, ac>>

\* CWWTPEnterConfigure and CWWTPEnterDataCheck, up to the request.
EnterExchange ==
    /\ main.state \in {"configure", "dataCheck"} /\ main.pc = "enter"
    /\ TakesSeqNum
    /\ main' = [main EXCEPT !.pc = "send", !.count = 0, !.seqNum = NextSeqNum]
    /\ UNCHANGED <<disc, sock, rx, inbox, waitJoin, handshake, dead, net, ac,
                   history>>

\* The exchange failed.  Join starts over, Configure gives up, Data Check goes
\* through Reset to Discovery.
ExchangeFails ==
    \/ /\ main.state = "join"
       /\ waitJoin' = [waitJoin EXCEPT !.mine = FALSE]
       /\ CWNetworkCloseSocket({"control"})
       /\ main' = Failed("discovery")
    \/ /\ main.state = "configure"
       /\ CWNetworkCloseSocket({"control"})
       /\ main' = Failed("quit")
       /\ UNCHANGED waitJoin
    \/ /\ main.state = "dataCheck"
       /\ main' = Failed("discovery")
       /\ UNCHANGED <<sock, rx, waitJoin>>

Successor(s) ==
    CASE s = "join" -> "configure"
      [] s = "configure" -> "dataCheck"
      [] s = "dataCheck" -> "run"

\* The exchange succeeded, in Join unless its timer expired.
ExchangeSucceeds ==
    /\ waitJoin' = [waitJoin EXCEPT !.mine = @ /\ main.state # "join"]
    /\ IF main.state = "join" /\ ~handshake
       THEN /\ main' = [Enter("discovery") EXCEPT !.lastError = "success"]
            /\ CWNetworkCloseSocket({"control"})
       ELSE /\ main' = [Enter(Successor(main.state))
                        EXCEPT !.lastError = "success"]
            /\ UNCHANGED <<sock, rx>>

\* CWWTPSendAcknowledgedPacket: the request is sent, unless the peer is taken
\* for dead or the socket was closed.
SendRequest ==
    /\ main.state \in Exchanges /\ main.pc = "send"
    /\ IF main.count < MaxRetransmit /\ sock["control"]
       THEN /\ main' = [main EXCEPT !.pc = "wait"]
            /\ net' = net \cup {Request(TypeOf(main.state), main.seqNum,
                                        main.count)}
            /\ UNCHANGED <<sock, rx, waitJoin>>
       ELSE ExchangeFails /\ UNCHANGED net
    /\ UNCHANGED <<disc, inbox, handshake, dead, ac, history>>

\* Mutant: the first timeout ends the exchange.
RetransmitTimeout_gives_up ==
    /\ main.state \in Exchanges /\ main.pc = "wait"
    /\ inbox = <<>>
    /\ TimeIsUp
    /\ ExchangeFails
    /\ UNCHANGED <<disc, inbox, handshake, dead, net, ac, closed>>

\* CWWTPSendAcknowledgedPacket: the wait for a packet ends without one.
RetransmitTimeout ==
    /\ main.state \in Exchanges /\ main.pc = "wait"
    /\ inbox = <<>>
    /\ TimeIsUp
    /\ main' = [main EXCEPT !.pc = "send", !.count = @ + 1]
    /\ UNCHANGED <<disc, sock, rx, inbox, waitJoin, handshake, dead, net, ac,
                   closed>>

\* The condition is signalled for something else, a frame of a station:
\* CWReceiveMessage then waits for a packet without a timeout.
WaitReturns ==
    /\ main.state \in Exchanges /\ main.pc = "wait"
    /\ inbox = <<>>
    /\ Fault("other wakeup")
    /\ main' = [main EXCEPT !.pc = "receive"]
    /\ UNCHANGED <<disc, sock, rx, inbox, waitJoin, handshake, dead, net, ac,
                   closed>>

\* Mutant: the sequence number is not compared.
Answers_any_seqnum(m) ==
    /\ m.type = TypeOf(main.state)
    /\ m.ok \/ main.state = "join"

\* The parse functions of the three exchanges: type and sequence number.  A
\* failure code is only understood in a Join Response.
Answers(m) ==
    /\ m.type = TypeOf(main.state)
    /\ m.seqNum = main.seqNum
    /\ m.ok \/ main.state = "join"

\* CWReceiveMessage takes the oldest packet: the response, or something else,
\* which counts as a retransmission.  CWSaveJoinResponseMessage refuses a Join
\* Response that says Failure, but raises no error, so that CWErr() takes the
\* exchange for a success.
CWReceiveMessage ==
    /\ main.state \in Exchanges /\ main.pc \in {"wait", "receive"}
    /\ inbox # <<>>
    /\ inbox' = Tail(inbox)
    /\ IF Answers(Head(inbox)) THEN ExchangeSucceeds
       ELSE /\ main' = [main EXCEPT !.pc = "send", !.count = @ + 1]
            /\ UNCHANGED <<sock, rx, waitJoin>>
    /\ UNCHANGED <<disc, handshake, dead, net, ac, history>>

\* Mutant: a timer that was removed expires.
CWWTPWaitJoinExpired_removed ==
    /\ waitJoin' = [waitJoin EXCEPT !.left = @ - 1]
    /\ Fault("timer expires")
    /\ handshake' = FALSE
    /\ CWNetworkCloseSocket({"control"})
    /\ UNCHANGED <<main, disc, inbox, dead, net, ac, closed>>

\* On the timer thread, for this Join or for one that left its timer behind.
CWWTPWaitJoinExpired ==
    /\ \/ /\ waitJoin.mine
          /\ waitJoin' = [waitJoin EXCEPT !.mine = FALSE]
       \/ /\ waitJoin.left > 0
          /\ waitJoin' = [waitJoin EXCEPT !.left = @ - 1]
    /\ Fault("timer expires")
    /\ handshake' = FALSE
    /\ CWNetworkCloseSocket({"control"})
    /\ UNCHANGED <<main, disc, inbox, dead, net, ac, closed>>

-----------------------------------------------------------------------------
(* Run, as far as the other states depend on it.                           *)

\* A message from the AC.  What a failure to read it leaves as the thread's
\* last error decides what CWErr() says in Discovery.
RunMessage ==
    /\ main.state = "run" /\ main.pc = "enter"
    /\ inbox # <<>>
    /\ inbox' = Tail(inbox)
    /\ \E e \in {main.lastError, "failed"} : main' = [main EXCEPT !.lastError = e]
    /\ UNCHANGED <<disc, sock, rx, waitJoin, handshake, dead, net, ac, history>>

\* An Echo Request and its Response, between the two timer threads: the AC
\* restarts the NeighborDead timer.
RunEcho ==
    /\ main.state = "run" /\ main.pc = "enter"
    /\ sock["control"]
    /\ ac.state = "run"
    /\ ac' = [ac EXCEPT !.timer = TRUE]
    /\ UNCHANGED <<wtpVars, net, history>>

\* A timer finds that the AC no longer answers.
ChannelDies ==
    /\ main.state = "run" /\ main.pc = "enter"
    /\ ~dead
    /\ dead' = TRUE
    /\ UNCHANGED <<main, disc, sock, rx, inbox, waitJoin, handshake, net, ac,
                   history>>

\* The main thread leaves Run: the channel is dead, or an error.
RunEnds ==
    /\ main.state = "run" /\ main.pc = "enter"
    /\ \/ dead /\ main' = [main EXCEPT !.pc = "clear"] /\ NoFault
       \/ /\ Fault("no resource")
          /\ main' = [main EXCEPT !.pc = "clear", !.lastError = "failed"]
    /\ UNCHANGED <<disc, sock, rx, inbox, waitJoin, handshake, dead, net, ac,
                   closed>>

\* CLEAR_RUN_STATE, and Reset.
ClearRunState ==
    /\ main.state = "run" /\ main.pc = "clear"
    /\ main' = Enter("discovery")
    /\ dead' = FALSE
    /\ UNCHANGED <<disc, sock, rx, inbox, waitJoin, handshake, net, ac, history>>

-----------------------------------------------------------------------------
(* CWWTPReceiveDtlsPacket and CWWTPReceiveDataPacket.                      *)

\* The flags are tested before recvfrom, which fails on a closed descriptor.
ReceiverLoops(t) ==
    /\ rx[t] = "loop"
    /\ rx' = [rx EXCEPT ![t] = IF ~dead /\ sock[Channel(t)] THEN "recv"
                               ELSE "close"]
    /\ UNCHANGED <<main, disc, sock, inbox, waitJoin, handshake, dead, net, ac,
                   history>>

\* A packet for the port goes to the socket that is bound to it.
CWWTPReceiveDtlsPacket(t, m) ==
    /\ Channel(t) = "control"
    /\ rx[t] \in {"recv", "stuck"}
    /\ m.to = "wtp"
    /\ Delivered(m)
    /\ inbox' = Append(inbox, m)
    /\ rx' = [rx EXCEPT ![t] = "loop"]
    /\ UNCHANGED <<main, disc, sock, waitJoin, handshake, dead, ac, closed>>

\* The AC sends data while it has the WTP in Run.
CWWTPReceiveDataPacket(t) ==
    /\ Channel(t) = "data"
    /\ rx[t] \in {"recv", "stuck"}
    /\ ac.state = "run"
    /\ rx' = [rx EXCEPT ![t] = "loop"]
    /\ UNCHANGED <<main, disc, sock, inbox, waitJoin, handshake, dead, net, ac,
                   history>>

\* At its end the thread closes its descriptor.
ReceiverEnds(t) ==
    /\ rx[t] = "close"
    /\ sock' = [sock EXCEPT ![Channel(t)] = FALSE]
    /\ rx' = [Abandoned({Channel(t)}) EXCEPT ![t] = "none"]
    /\ UNCHANGED <<main, disc, inbox, waitJoin, handshake, dead, net, ac,
                   history>>

-----------------------------------------------------------------------------
(* The AC: what its session for the WTP does with a packet.                *)

\* A packet that is not a Discovery Request opens a session.
SessionFor(m) ==
    IF ac.state = "none" /\ m.type # "discovery"
    THEN [state |-> "join", timer |-> TRUE] ELSE ac

\* The AC answers m, or ignores it.
Reply(m, good) == Replaced(m, {Response(m, good)})
Ignore(m) == Delivered(m)

ACEnterDiscovery(m) ==
    /\ SessionFor(m).state = "none"
    /\ UNCHANGED ac
    /\ Reply(m, TRUE)

\* The answer to a Join Request says Failure if it could not be saved, and the
\* session goes on all the same.
ACEnterJoin(m) ==
    /\ SessionFor(m).state = "join"
    /\ \/ /\ m.type = "join"
          /\ ac' = [state |-> "configure", timer |-> FALSE]
          /\ \/ Reply(m, TRUE)
             \/ /\ Fault("no resource")
                /\ net' = (net \ {m}) \cup {Response(m, FALSE)}
       \/ /\ m.type # "join"
          /\ ac' = SessionFor(m)
          /\ Ignore(m)

ACEnterConfigure(m) ==
    /\ ac.state = "configure"
    /\ \/ /\ m.type = "configure"
          /\ ac' = [state |-> "dataCheck", timer |-> TRUE]
          /\ Reply(m, TRUE)
       \/ /\ m.type # "configure"
          /\ UNCHANGED ac
          /\ Ignore(m)

\* The timer is cancelled before the message is looked at.
ACEnterDataCheck(m) ==
    /\ ac.state = "dataCheck"
    /\ \/ /\ m.type = "changeState"
          /\ ac' = [state |-> "run", timer |-> FALSE]
          /\ Reply(m, TRUE)
       \/ /\ m.type # "changeState"
          /\ ac' = [ac EXCEPT !.timer = FALSE]
          /\ Ignore(m)

\* Requests of the Run state restart the NeighborDead timer; others get a
\* response with a failure code.
ACEnterRun(m) ==
    /\ ac.state = "run"
    /\ LET known == m.type = "changeState"
       IN  /\ ac' = [ac EXCEPT !.timer = @ \/ known]
           /\ Reply(m, known)

ACReceives(m) ==
    /\ m.to = "ac"
    /\ \/ ACEnterDiscovery(m) \/ ACEnterJoin(m) \/ ACEnterConfigure(m)
       \/ ACEnterDataCheck(m) \/ ACEnterRun(m)
    /\ UNCHANGED <<wtpVars, closed>>

\* The critical timer, when the WTP has left Run or too soon, or an error that
\* closes the session.
ACCloses ==
    /\ ac.state # "none"
    /\ \/ /\ ac.timer /\ ac.state = "run"
          /\ main.state # "run"
          /\ NoFault
       \/ ac.timer /\ Fault("timer expires")
       \/ Fault("no resource")
    /\ ac' = NoSession
    /\ closed' = TRUE
    /\ UNCHANGED <<wtpVars, net>>

-----------------------------------------------------------------------------
(* The network.                                                            *)

Lose(m) ==
    /\ Fault(IF m.to = "ac" THEN "lost request" ELSE "lost response")
    /\ net' = net \ {m}
    /\ UNCHANGED <<wtpVars, ac, closed>>

\* The WTP's port is closed.
Refuse(m) ==
    /\ m.to = "wtp"
    /\ ~sock["control"] /\ ~PortHeld("control")
    /\ net' = net \ {m}
    /\ UNCHANGED <<wtpVars, ac, history>>

-----------------------------------------------------------------------------
(* The specification.                                                      *)

MainThread ==
    \/ CWWTPEnterDiscovery \/ SendDiscoveryRequest \/ CWReadResponses
    \/ (\E m \in net : CWReceiveDiscoveryResponse(m) \/ SulkingDiscards(m))
    \/ CWWTPEnterSulking \/ CWWTPEnterJoin \/ EnterExchange
    \/ SendRequest \/ RetransmitTimeout \/ WaitReturns \/ CWReceiveMessage
    \/ RunMessage \/ RunEnds \/ ClearRunState

Receiver(t) ==
    \/ ReceiverLoops(t)
    \/ \E m \in net : CWWTPReceiveDtlsPacket(t, m)
    \/ CWWTPReceiveDataPacket(t)
    \/ ReceiverEnds(t)

Next ==
    \/ MainThread
    \/ \E t \in Threads : Receiver(t)
    \/ \E m \in net : ACReceives(m) \/ Refuse(m) \/ Lose(m)
    \/ RunEcho \/ ChannelDies \/ CWWTPWaitJoinExpired \/ ACCloses

Spec == Init /\ [][Next]_vars

\* The threads of the WTP run, what is not lost arrives, and waits end; faults
\* and timers need not happen.
FairSpec ==
    /\ Spec
    /\ WF_vars(MainThread /\ UNCHANGED faults)
    /\ \A t \in Threads : WF_vars(Receiver(t) /\ UNCHANGED faults)
    /\ WF_vars(\E m \in net : (ACReceives(m) \/ Refuse(m)) /\ UNCHANGED faults)

-----------------------------------------------------------------------------
(* Properties.                                                             *)

\* When the WTP is in Run, so is the session the AC has for it, whatever was
\* lost, repeated or late, and whatever an earlier connection left behind,
\* unless the AC closed a session since the Join
\* (CWParseChangeStateEventResponseMessage, ACEnterDataCheck).
RunAgreement ==
    main.state = "run" /\ ~closed => ac.state = "run"

\* Lost requests, waits that end too soon and duplicates do not keep the WTP
\* from Run (the retransmissions of CWWTPSendAcknowledgedPacket): it gets
\* there, unless something else went wrong.  A response that is lost is
\* something else: the AC's session has moved on and ignores the request.
ReachesRun ==
    <>(main.state = "run" \/ excused)

\* What the main thread logs when it leaves Run, "restart Discovery State":
\* the program does not end unless something else went wrong
\* (CWWTPEnterDiscovery).
RestartsDiscovery ==
    main.state = "quit" => excused

-----------------------------------------------------------------------------
(* The inductive invariant of the proofs in WTPMainProof.                  *)

\* Everything that is on its way or was received.
InFlight == net \cup {inbox[i] : i \in 1 .. Len(inbox)}

InboxForWTP == \A i \in 1 .. Len(inbox) : inbox[i].to = "wtp"

\* No message has a sequence number that was not taken yet.
SeqNumsTaken == \A m \in InFlight : m.seqNum <= main.seqNum

\* A response that lets the WTP into Run was sent by a session that is in Run.
RunConfirmed ==
    main.state = "dataCheck" /\ main.pc # "enter" /\ ~closed =>
        \A m \in InFlight :
            /\ m.to = "wtp" /\ m.type = "changeState" /\ m.ok
            /\ m.seqNum = main.seqNum
            => ac.state = "run"

IInv == /\ TypeOK
        /\ InboxForWTP
        /\ SeqNumsTaken
        /\ RunConfirmed
        /\ RunAgreement

=============================================================================
