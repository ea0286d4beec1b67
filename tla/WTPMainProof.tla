----------------------------- MODULE WTPMainProof -----------------------------
(***************************************************************************)
(* RunAgreement of WTPMain for every number of retransmissions, sequence   *)
(* numbers, Joins and faults, whatever goes wrong.                         *)
(***************************************************************************)
EXTENDS WTPMain, SequenceTheorems, TLAPS

States == {"discovery", "sulking", "run", "quit"} \cup Exchanges

\* The main thread in another state.
LEMMA MainForms ==
    ASSUME TypeOK, NEW s \in States
    PROVE  /\ Enter(s) \in MainState
           /\ Enter(s).state = s /\ Enter(s).pc = "enter"
           /\ Enter(s).seqNum = main.seqNum
           /\ Failed(s) \in MainState
           /\ Failed(s).state = s /\ Failed(s).pc = "enter"
           /\ Failed(s).seqNum = main.seqNum
<1>1. main \in MainState
  BY DEF TypeOK
<1>2. /\ Enter(s) \in MainState
      /\ Enter(s).state = s /\ Enter(s).pc = "enter"
      /\ Enter(s).seqNum = main.seqNum
  BY <1>1 DEF Enter, MainState, States
<1>3. /\ Failed(s) \in MainState
      /\ Failed(s).state = s /\ Failed(s).pc = "enter"
      /\ Failed(s).seqNum = main.seqNum
  BY <1>1 DEF Enter, Failed, MainState, States
<1> QED BY <1>2, <1>3

\* What Discovery knows at its start.
LEMMA NothingType ==
    Nothing \in [found: BOOLEAN, received: BOOLEAN, result: BOOLEAN]
BY DEF Nothing

\* The faults are counted.
LEMMA FaultType ==
    ASSUME TypeOK, NEW kind, Fault(kind) \/ NoFault \/ UNCHANGED history
    PROVE  faults' \in 0 .. MaxFaults /\ excused' \in BOOLEAN
<1>1. faults' \in 0 .. MaxFaults
  BY FaultsAssumption DEF TypeOK, Fault, NoFault, history
<1>2. excused' \in BOOLEAN
  BY DEF TypeOK, Fault, NoFault, history
<1> QED BY <1>1, <1>2

\* The sockets and their threads after some were closed.
LEMMA CloseType ==
    ASSUME TypeOK, NEW C
    PROVE  /\ Abandoned(C) \in [Threads -> RxState]
           /\ CWNetworkCloseSocket(C) => /\ sock' \in [Channels -> BOOLEAN]
                                         /\ rx' \in [Threads -> RxState]
BY DEF TypeOK, Abandoned, CWNetworkCloseSocket, RxState

\* What the network may hold after a message arrived and left others.
LEMMA ReplacedType ==
    ASSUME TypeOK, NEW m, NEW M \in SUBSET Message, Replaced(m, M)
    PROVE  /\ net' \subseteq Message /\ net' \subseteq net \cup M
           /\ faults' \in 0 .. MaxFaults /\ excused' \in BOOLEAN
BY FaultType DEF Replaced, TypeOK

\* Requests and responses are messages.
LEMMA MessageForms ==
    /\ \A t \in Types, n \in Nat, c \in Nat :
          /\ Request(t, n, c) \in Message
          /\ Request(t, n, c).to = "ac" /\ Request(t, n, c).seqNum = n
    /\ \A m \in Message, good \in BOOLEAN :
          /\ Response(m, good) \in Message
          /\ Response(m, good).type = m.type
          /\ Response(m, good).seqNum = m.seqNum
          /\ Response(m, good).ok = good
BY DEF Request, Response, Message

-----------------------------------------------------------------------------
(* What the steps have to do with Run.                                     *)

\* The main thread does not get into Run or into the wait for the AC's last
\* response, its sequence numbers grow, the AC does not leave Run, and it is
\* not forgotten that it closed a session.
Quiet ==
    /\ main.seqNum <= main'.seqNum
    /\ main'.state = "dataCheck" /\ main'.pc # "enter" =>
          /\ main.state = "dataCheck" /\ main.pc # "enter"
          /\ main'.seqNum = main.seqNum
    /\ main'.state = "run" => main.state = "run"
    /\ ac.state = "run" => ac'.state = "run"
    /\ closed => closed' \/ main'.state \notin {"dataCheck", "run"}

\* A quiet step that sends nothing but requests.
LEMMA QuietInv ==
    ASSUME IInv, TypeOK', Quiet, InboxForWTP',
           \A m \in InFlight' :
              m \in InFlight \/ (m.to = "ac" /\ m.seqNum <= main'.seqNum)
    PROVE  IInv'
<1>1. /\ main.seqNum \in Nat /\ main'.seqNum \in Nat
      /\ \A m \in InFlight : m.seqNum \in Nat
      /\ closed \in BOOLEAN /\ closed' \in BOOLEAN
  <2>1. main.seqNum \in Nat /\ main'.seqNum \in Nat
    BY DEF IInv, TypeOK, MainState
  <2>2. \A m \in InFlight : m \in Message
    BY DEF IInv, TypeOK, InFlight
  <2> QED BY <2>1, <2>2 DEF Message, IInv, TypeOK
<1>2. SeqNumsTaken'
  BY <1>1 DEF Quiet, IInv, SeqNumsTaken
<1>3. RunConfirmed'
  BY <1>1 DEF Quiet, IInv, RunConfirmed
<1>4. RunAgreement'
  BY <1>1 DEF Quiet, IInv, RunAgreement
<1> QED BY <1>2, <1>3, <1>4 DEF IInv

\* Such a step that receives nothing either.
LEMMA QuietSendInv ==
    ASSUME IInv, TypeOK', Quiet, UNCHANGED inbox,
           \A m \in net' :
              m \in net \/ (m.to = "ac" /\ m.seqNum <= main'.seqNum)
    PROVE  IInv'
BY QuietInv DEF InboxForWTP, InFlight, IInv

\* The inbox when its oldest packet is taken.
LEMMA TakenInbox ==
    ASSUME TypeOK, inbox # <<>>, inbox' = Tail(inbox)
    PROVE  /\ inbox' \in Seq(Message)
           /\ Head(inbox) = inbox[1] /\ 1 \in 1 .. Len(inbox)
           /\ \A i \in 1 .. Len(inbox') :
                 i + 1 \in 1 .. Len(inbox) /\ inbox'[i] = inbox[i + 1]
BY DEF TypeOK

-----------------------------------------------------------------------------
(* The main thread outside the exchanges.                                  *)

\* The start of Discovery.
LEMMA CWWTPEnterDiscoveryInv == ASSUME IInv, CWWTPEnterDiscovery PROVE IInv'
<1>0. /\ TypeOK /\ main \in MainState /\ main.seqNum \in Nat
  BY DEF IInv, TypeOK, MainState
<1>1. /\ main' \in MainState /\ main'.state \in {"discovery", "quit"}
      /\ main'.seqNum = main.seqNum
  <2> DEFINE begin == [main EXCEPT !.pc = "send", !.count = 0]
  <2>1. /\ begin \in MainState /\ begin.state = main.state
        /\ begin.seqNum = main.seqNum
    BY <1>0 DEF MainState
  <2>2. /\ main' \in {begin, Enter("quit"), Failed("quit")}
        /\ main.state = "discovery"
    BY DEF CWWTPEnterDiscovery
  <2> HIDE DEF begin
  <2> QED BY <1>0, <2>1, <2>2, MainForms DEF States
<1>2. sock' \in [Channels -> BOOLEAN] /\ rx' \in [Threads -> RxState]
  BY <1>0, CloseType DEF CWWTPEnterDiscovery
<1>3. faults' \in 0 .. MaxFaults /\ excused' \in BOOLEAN
  BY <1>0, FaultType DEF CWWTPEnterDiscovery
<1>4. /\ UNCHANGED <<inbox, waitJoin, handshake, dead, net, ac, closed>>
      /\ disc' = Nothing
  BY DEF CWWTPEnterDiscovery
<1>5. TypeOK'
  BY <1>0, <1>1, <1>2, <1>3, <1>4, NothingType DEF TypeOK
<1>6. Quiet
  BY <1>0, <1>1, <1>4 DEF Quiet
<1> QED BY <1>4, <1>5, <1>6, QuietSendInv

\* A Discovery Request, or the end of Discovery.
LEMMA SendDiscoveryRequestInv == ASSUME IInv, SendDiscoveryRequest PROVE IInv'
<1> DEFINE n == main.seqNum + 1
           r == Request("discovery", n, 0)
           k == main.count + 1
           sulk == [main EXCEPT !.state = "sulking", !.pc = "wait"]
           send == [main EXCEPT !.pc = "wait", !.count = k, !.seqNum = n]
<1>0. /\ TypeOK /\ main \in MainState /\ main.seqNum \in Nat /\ n \in Nat
      /\ k \in Nat /\ main.state = "discovery"
  BY DEF IInv, TypeOK, MainState, SendDiscoveryRequest
<1>1. r \in Message /\ r.to = "ac" /\ r.seqNum = n
  BY <1>0, MessageForms DEF Types
<1>2. sulk \in MainState /\ sulk.state = "sulking" /\ sulk.seqNum = main.seqNum
  BY <1>0 DEF MainState
<1>3. send \in MainState /\ send.state = "discovery" /\ send.seqNum = n
  <2> HIDE DEF n, k
  <2> QED BY <1>0 DEF MainState
<1>4. \/ main' = sulk /\ UNCHANGED <<disc, net>>
      \/ main' = Enter("join") /\ UNCHANGED <<disc, net>>
      \/ main' = send /\ disc' = Nothing /\ net' \in {net, net \cup {r}}
  BY DEF SendDiscoveryRequest, NextSeqNum
<1> HIDE DEF r, sulk, send
<1>5. /\ main' \in MainState /\ main'.state \in {"sulking", "join", "discovery"}
      /\ main.seqNum <= main'.seqNum
      /\ \A m \in net' : m \in net \/ (m = r /\ main'.seqNum = n)
  BY <1>0, <1>2, <1>3, <1>4, MainForms DEF States, Exchanges
<1>6. TypeOK'
  <2>1. net' \subseteq Message /\ disc' \in [found: BOOLEAN, received: BOOLEAN,
                                             result: BOOLEAN]
    BY <1>0, <1>1, <1>4, NothingType DEF TypeOK
  <2> QED BY <1>0, <1>5, <2>1 DEF SendDiscoveryRequest, history, TypeOK
<1> QED BY <1>0, <1>1, <1>5, <1>6, QuietSendInv
        DEF SendDiscoveryRequest, history, Quiet

\* What arrives in Discovery, in Sulking, and how these end.
LEMMA DiscoveryInv ==
    ASSUME IInv,
           \/ \E m \in net : CWReceiveDiscoveryResponse(m) \/ SulkingDiscards(m)
           \/ CWReadResponses
           \/ CWWTPEnterSulking
    PROVE  IInv'
<1>0. /\ TypeOK /\ main \in MainState /\ main.seqNum \in Nat
  BY DEF IInv, TypeOK, MainState
<1>1. ASSUME NEW m \in net, CWReceiveDiscoveryResponse(m) PROVE IInv'
  <2>1. /\ net' \subseteq Message /\ net' \subseteq net
        /\ faults' \in 0 .. MaxFaults /\ excused' \in BOOLEAN
    BY <1>0, <1>1, ReplacedType DEF CWReceiveDiscoveryResponse, Delivered
  <2>2. disc' \in [found: BOOLEAN, received: BOOLEAN, result: BOOLEAN]
    BY <1>0, <1>1 DEF CWReceiveDiscoveryResponse, TypeOK, Message
  <2>3. TypeOK'
    BY <1>0, <1>1, <2>1, <2>2 DEF CWReceiveDiscoveryResponse, TypeOK
  <2> QED BY <1>0, <1>1, <2>1, <2>3, QuietSendInv
          DEF CWReceiveDiscoveryResponse, Quiet
<1>2. ASSUME NEW m \in net, SulkingDiscards(m) PROVE IInv'
  <2>0. /\ main.state = "sulking"
        /\ UNCHANGED <<disc, sock, rx, inbox, waitJoin, handshake, dead, ac,
                       closed>>
        /\ \/ Replaced(m, {}) /\ UNCHANGED main
           \/ /\ Fault("no resource") /\ main' = Failed("quit")
              /\ net' = net \ {m}
    BY <1>2 DEF SulkingDiscards, Delivered
  <2>1. /\ net' \subseteq Message /\ net' \subseteq net
        /\ faults' \in 0 .. MaxFaults /\ excused' \in BOOLEAN
    <3>1. CASE Replaced(m, {})
      BY <1>0, <3>1, ReplacedType
    <3>2. CASE Fault("no resource") /\ net' = net \ {m}
      BY <1>0, <3>2, FaultType DEF TypeOK
    <3> QED BY <2>0, <3>1, <3>2
  <2>2. /\ main' \in MainState /\ main'.state \in {"sulking", "quit"}
        /\ main'.seqNum = main.seqNum
    <3>1. main' \in {main, Failed("quit")} /\ main.state = "sulking"
      BY <2>0
    <3> QED BY <1>0, <3>1, MainForms DEF States
  <2>3. TypeOK'
    BY <1>0, <2>0, <2>1, <2>2 DEF TypeOK
  <2>4. Quiet
    <3>1. UNCHANGED <<ac, closed>>
      BY <2>0
    <3> QED BY <1>0, <2>2, <3>1 DEF Quiet
  <2> QED BY <2>0, <2>1, <2>3, <2>4, QuietSendInv
<1>3. CASE CWReadResponses \/ CWWTPEnterSulking
  <2> DEFINE again == [main EXCEPT !.pc = "send", !.lastError = "failed"]
  <2>1. /\ again \in MainState /\ again.state = main.state
        /\ again.seqNum = main.seqNum
    BY <1>0 DEF MainState
  <2> DEFINE found == [Enter("join") EXCEPT !.lastError = "success"]
  <2>f. /\ found \in MainState /\ found.state = "join"
        /\ found.seqNum = main.seqNum
    BY <1>0 DEF MainState, Enter, States, Exchanges
  <2>2. main' \in {again, found, Failed("join"), Failed("discovery")}
    BY <1>3 DEF CWReadResponses, CWWTPEnterSulking, Failed
  <2> HIDE DEF again, found
  <2>3. /\ main' \in MainState /\ main'.seqNum = main.seqNum
        /\ main'.state \in {"join", "discovery", "sulking"}
    BY <1>0, <1>3, <2>1, <2>f, <2>2, MainForms
       DEF States, Exchanges, CWReadResponses, CWWTPEnterSulking
  <2>4. faults' \in 0 .. MaxFaults /\ excused' \in BOOLEAN
    BY <1>0, <1>3, FaultType DEF CWReadResponses, CWWTPEnterSulking, TimeIsUp
  <2>5. TypeOK'
    BY <1>0, <1>3, <2>3, <2>4
       DEF CWReadResponses, CWWTPEnterSulking, TypeOK
  <2> QED BY <1>0, <1>3, <2>3, <2>5, QuietSendInv
          DEF CWReadResponses, CWWTPEnterSulking, Quiet
<1> QED BY <1>1, <1>2, <1>3

-----------------------------------------------------------------------------
(* Join, Configure and Data Check.                                         *)

\* The beginning of Join: whether a session was closed is forgotten here.
LEMMA CWWTPEnterJoinInv == ASSUME IInv, CWWTPEnterJoin PROVE IInv'
<1> DEFINE n == main.seqNum + 1
           j == main.joins + 1
           begin == [main EXCEPT !.pc = "send", !.count = 0, !.seqNum = n,
                                 !.joins = j]
           late == [Failed("discovery") EXCEPT !.joins = @ + 1]
<1>0. /\ TypeOK /\ main \in MainState /\ main.seqNum \in Nat /\ n \in Nat
      /\ j \in Nat /\ main.state = "join"
      /\ waitJoin \in [mine: BOOLEAN, left: Nat]
      /\ closed' = FALSE /\ UNCHANGED <<disc, inbox, handshake, dead, net, ac>>
  BY DEF IInv, TypeOK, MainState, CWWTPEnterJoin
<1>1. begin \in MainState /\ begin.state = "join" /\ begin.seqNum = n
  <2> HIDE DEF n, j
  <2> QED BY <1>0 DEF MainState
<1>2. /\ Failed("discovery") \in MainState
      /\ Failed("discovery").state = "discovery"
      /\ Failed("discovery").seqNum = main.seqNum
  BY <1>0, MainForms DEF States
<1>3. /\ late \in MainState /\ late.state = "discovery"
      /\ late.seqNum = main.seqNum
  <2> DEFINE f == Failed("discovery")
             l == f.joins + 1
  <2>1. f \in MainState /\ f.state = "discovery" /\ f.seqNum = main.seqNum
    BY <1>2
  <2>2. l \in Nat /\ late = [f EXCEPT !.joins = l]
    BY <2>1 DEF MainState
  <2> HIDE DEF f, l
  <2> QED BY <2>1, <2>2 DEF MainState
<1> HIDE DEF begin, late
<1>4. CASE JoinBegins
  <2>1. /\ main' = begin
        /\ sock' \in [Channels -> BOOLEAN] /\ rx' \in [Threads -> RxState]
        /\ waitJoin' \in [mine: BOOLEAN, left: Nat]
        /\ faults' \in 0 .. MaxFaults /\ excused' \in BOOLEAN
    BY <1>0, <1>4, FaultType
       DEF JoinBegins, NextSeqNum, begin, TypeOK, RxState
  <2>2. TypeOK'
    BY <1>0, <1>1, <2>1 DEF TypeOK
  <2>3. Quiet
    BY <1>0, <1>1, <2>1 DEF Quiet
  <2> QED BY <1>0, <2>2, <2>3, QuietSendInv
<1>5. CASE JoinFails
  <2>1. /\ main' = Failed("discovery") /\ UNCHANGED waitJoin
        /\ sock' \in [Channels -> BOOLEAN] /\ rx' \in [Threads -> RxState]
        /\ faults' \in 0 .. MaxFaults /\ excused' \in BOOLEAN
    BY <1>0, <1>5, FaultType, CloseType DEF JoinFails
  <2>2. TypeOK'
    BY <1>0, <1>2, <2>1 DEF TypeOK
  <2>3. Quiet
    BY <1>0, <1>2, <2>1 DEF Quiet
  <2> QED BY <1>0, <2>2, <2>3, QuietSendInv
<1>6. CASE JoinFailsLate
  <2>1. main' \in {Failed("discovery"), late}
    BY <1>6 DEF JoinFailsLate, late
  <2>2. sock' \in [Channels -> BOOLEAN] /\ rx' \in [Threads -> RxState]
    <3>1. sock' = [c \in Channels |-> c = "control" \/ ~PortHeld("data")]
      BY <1>6 DEF JoinFailsLate
    <3>2. rx' \in {Abandoned(Channels),
                   [rx EXCEPT ![<<main.joins + 1, "control">>] = "loop"]}
      BY <1>6 DEF JoinFailsLate
    <3>3. [rx EXCEPT ![<<main.joins + 1, "control">>] = "loop"]
             \in [Threads -> RxState]
      BY <1>0 DEF TypeOK, RxState
    <3>4. sock' \in [Channels -> BOOLEAN]
      BY <3>1
    <3> QED BY <1>0, <3>2, <3>3, <3>4, CloseType
  <2>3. waitJoin' \in [mine: BOOLEAN, left: Nat]
    <3>1. waitJoin' = [waitJoin EXCEPT !.left = @ + 1]
      BY <1>6 DEF JoinFailsLate
    <3> QED BY <1>0, <3>1
  <2>4. faults' \in 0 .. MaxFaults /\ excused' \in BOOLEAN
    BY <1>0, <1>6, FaultType DEF JoinFailsLate
  <2>5. TypeOK'
    BY <1>0, <1>2, <1>3, <2>1, <2>2, <2>3, <2>4 DEF TypeOK
  <2>6. Quiet
    BY <1>0, <1>2, <1>3, <2>1 DEF Quiet
  <2> QED BY <1>0, <2>5, <2>6, QuietSendInv
<1> QED BY <1>4, <1>5, <1>6 DEF CWWTPEnterJoin

\* The exchange that ends in Run takes a sequence number that no message has.
LEMMA EnterExchangeInv == ASSUME IInv, EnterExchange PROVE IInv'
<1> DEFINE n == main.seqNum + 1
<1>0. /\ TypeOK /\ main \in MainState /\ main.seqNum \in Nat /\ n \in Nat
      /\ UNCHANGED <<disc, sock, rx, inbox, waitJoin, handshake, dead, net, ac,
                     faults, closed, excused>>
      /\ main' = [main EXCEPT !.pc = "send", !.count = 0, !.seqNum = n]
      /\ main.state \in {"configure", "dataCheck"}
  BY DEF IInv, TypeOK, MainState, EnterExchange, NextSeqNum, history
<1>1. main' \in MainState /\ main'.state = main.state /\ main'.seqNum = n
  <2> HIDE DEF n
  <2> QED BY <1>0 DEF MainState
<1>2. TypeOK' /\ InboxForWTP'
  BY <1>0, <1>1 DEF IInv, TypeOK, InboxForWTP
<1>3. InFlight' = InFlight
  BY <1>0 DEF InFlight
<1>4. \A m \in InFlight : m.seqNum \in Nat /\ m.seqNum <= main.seqNum
  <2>1. \A m \in InFlight : m \in Message
    BY <1>0 DEF InFlight, TypeOK
  <2> QED BY <2>1 DEF Message, IInv, SeqNumsTaken
<1>5. \A m \in InFlight' : m.seqNum <= main'.seqNum /\ m.seqNum # main'.seqNum
  BY <1>0, <1>1, <1>3, <1>4
<1>6. SeqNumsTaken' /\ RunConfirmed'
  BY <1>5 DEF SeqNumsTaken, RunConfirmed
<1>7. RunAgreement'
  BY <1>0, <1>1 DEF RunAgreement
<1> QED BY <1>2, <1>6, <1>7 DEF IInv

\* An exchange that failed.
LEMMA ExchangeFailsIs ==
    ASSUME TypeOK, ExchangeFails
    PROVE  /\ main' \in MainState /\ main'.state \in {"discovery", "quit"}
           /\ main'.seqNum = main.seqNum
           /\ sock' \in [Channels -> BOOLEAN] /\ rx' \in [Threads -> RxState]
           /\ waitJoin' \in [mine: BOOLEAN, left: Nat]
<1>1. main' \in {Failed("discovery"), Failed("quit")}
  BY DEF ExchangeFails
<1>2. sock' \in [Channels -> BOOLEAN] /\ rx' \in [Threads -> RxState]
  BY CloseType DEF ExchangeFails, TypeOK
<1>3. waitJoin' \in [mine: BOOLEAN, left: Nat]
  BY DEF ExchangeFails, TypeOK
<1> QED BY <1>1, <1>2, <1>3, MainForms DEF States

\* A request is sent, or the exchange fails.
LEMMA SendRequestInv == ASSUME IInv, SendRequest PROVE IInv'
<1> DEFINE r == Request(TypeOf(main.state), main.seqNum, main.count)
           wait == [main EXCEPT !.pc = "wait"]
<1>0. /\ TypeOK /\ main \in MainState /\ main.seqNum \in Nat
      /\ main.count \in Nat /\ main.state \in Exchanges /\ main.pc = "send"
      /\ UNCHANGED <<disc, inbox, handshake, dead, ac, faults, closed, excused>>
  BY DEF IInv, TypeOK, MainState, SendRequest, history
<1>1. r \in Message /\ r.to = "ac" /\ r.seqNum = main.seqNum
  <2>1. TypeOf(main.state) \in Types
    BY <1>0 DEF TypeOf, Types, Exchanges
  <2> QED BY <1>0, <2>1, MessageForms
<1>2. /\ wait \in MainState /\ wait.state = main.state /\ wait.pc = "wait"
      /\ wait.seqNum = main.seqNum
  BY <1>0 DEF MainState
<1>3. \/ main' = wait /\ net' = net \cup {r} /\ UNCHANGED <<sock, rx, waitJoin>>
      \/ ExchangeFails /\ UNCHANGED net
  BY DEF SendRequest
<1> HIDE DEF r, wait
<1>4. CASE /\ main' = wait /\ net' = net \cup {r}
           /\ UNCHANGED <<sock, rx, waitJoin>>
  <2>1. TypeOK'
    BY <1>0, <1>1, <1>2, <1>4 DEF TypeOK
  <2>2. Quiet
    BY <1>0, <1>2, <1>4 DEF Quiet
  <2>3. \A m \in net' : m \in net \/ (m.to = "ac" /\ m.seqNum <= main'.seqNum)
    BY <1>0, <1>1, <1>2, <1>4
  <2> QED BY <1>0, <2>1, <2>2, <2>3, QuietSendInv
<1>5. CASE ExchangeFails /\ UNCHANGED net
  <2>1. /\ main' \in MainState /\ main'.state \in {"discovery", "quit"}
        /\ main'.seqNum = main.seqNum
        /\ sock' \in [Channels -> BOOLEAN] /\ rx' \in [Threads -> RxState]
        /\ waitJoin' \in [mine: BOOLEAN, left: Nat]
    BY <1>0, <1>5, ExchangeFailsIs
  <2>2. TypeOK'
    BY <1>0, <1>5, <2>1 DEF TypeOK
  <2>3. Quiet
    BY <1>0, <2>1 DEF Quiet
  <2> QED BY <1>0, <1>5, <2>2, <2>3, QuietSendInv
<1> QED BY <1>3, <1>4, <1>5

\* The wait for a response ends without one.
LEMMA WaitEndsInv == ASSUME IInv, RetransmitTimeout \/ WaitReturns PROVE IInv'
<1> DEFINE k == main.count + 1
           send == [main EXCEPT !.pc = "send", !.count = k]
           receive == [main EXCEPT !.pc = "receive"]
<1>0. /\ TypeOK /\ main \in MainState /\ main.seqNum \in Nat /\ k \in Nat
      /\ main.pc = "wait" /\ main' \in {send, receive}
      /\ UNCHANGED <<disc, sock, rx, inbox, waitJoin, handshake, dead, net, ac,
                     closed>>
  <2>1. TypeOK /\ main \in MainState /\ main.seqNum \in Nat /\ k \in Nat
    BY DEF IInv, TypeOK, MainState
  <2>2. main.pc = "wait" /\ main' \in {send, receive}
    BY DEF RetransmitTimeout, WaitReturns
  <2>3. UNCHANGED <<disc, sock, rx, inbox, waitJoin, handshake, dead, net, ac,
                    closed>>
    BY DEF RetransmitTimeout, WaitReturns
  <2> QED BY <2>1, <2>2, <2>3
<1>1. /\ send \in MainState /\ send.state = main.state
      /\ send.seqNum = main.seqNum
  <2> HIDE DEF k
  <2> QED BY <1>0 DEF MainState
<1>2. /\ receive \in MainState /\ receive.state = main.state
      /\ receive.seqNum = main.seqNum
  BY <1>0 DEF MainState
<1>3. faults' \in 0 .. MaxFaults /\ excused' \in BOOLEAN
  BY <1>0, FaultType DEF RetransmitTimeout, WaitReturns, TimeIsUp
<1> HIDE DEF send, receive
<1>4. TypeOK'
  BY <1>0, <1>1, <1>2, <1>3 DEF TypeOK
<1>5. Quiet
  BY <1>0, <1>1, <1>2 DEF Quiet
<1> QED BY <1>0, <1>4, <1>5, QuietSendInv

\* A packet is received: the response that lets the WTP into Run is one the
\* AC sent from Run.
LEMMA CWReceiveMessageInv == ASSUME IInv, CWReceiveMessage PROVE IInv'
<1> DEFINE k == main.count + 1
           send == [main EXCEPT !.pc = "send", !.count = k]
<1>0. /\ TypeOK /\ main \in MainState /\ main.seqNum \in Nat /\ k \in Nat
      /\ main.state \in Exchanges /\ main.pc # "enter"
      /\ inbox # <<>> /\ inbox' = Tail(inbox)
      /\ UNCHANGED <<disc, handshake, dead, net, ac, faults, closed, excused>>
      /\ sock \in [Channels -> BOOLEAN] /\ rx \in [Threads -> RxState]
      /\ waitJoin \in [mine: BOOLEAN, left: Nat]
  BY DEF IInv, TypeOK, MainState, CWReceiveMessage, history
<1>1. /\ inbox' \in Seq(Message) /\ InboxForWTP' /\ InFlight' \subseteq InFlight
      /\ Head(inbox) \in InFlight /\ Head(inbox).to = "wtp"
  <2>1. /\ inbox' \in Seq(Message)
        /\ Head(inbox) = inbox[1] /\ 1 \in 1 .. Len(inbox)
        /\ \A i \in 1 .. Len(inbox') :
              i + 1 \in 1 .. Len(inbox) /\ inbox'[i] = inbox[i + 1]
    BY <1>0, TakenInbox
  <2> QED BY <1>0, <2>1 DEF IInv, InboxForWTP, InFlight
<1>2. ASSUME main' \in MainState, main'.seqNum = main.seqNum,
             sock' \in [Channels -> BOOLEAN], rx' \in [Threads -> RxState],
             waitJoin' \in [mine: BOOLEAN, left: Nat]
      PROVE  TypeOK'
  BY <1>0, <1>1, <1>2 DEF TypeOK
<1>3. CASE ~Answers(Head(inbox))
  <2>1. main' = send /\ UNCHANGED <<sock, rx, waitJoin>>
    BY <1>3 DEF CWReceiveMessage
  <2>2. /\ send \in MainState /\ send.state = main.state
        /\ send.seqNum = main.seqNum
    <3> HIDE DEF k
    <3> QED BY <1>0 DEF MainState
  <2> HIDE DEF send
  <2>3. TypeOK'
    BY <1>0, <1>2, <2>1, <2>2
  <2>4. Quiet
    BY <1>0, <2>1, <2>2 DEF Quiet, Exchanges
  <2> QED BY <1>1, <2>3, <2>4, QuietInv
<1>4. CASE Answers(Head(inbox))
  <2>0. ExchangeSucceeds
    BY <1>4 DEF CWReceiveMessage
  <2>1. waitJoin' \in [mine: BOOLEAN, left: Nat]
    BY <1>0, <2>0 DEF ExchangeSucceeds
  <2>2. sock' \in [Channels -> BOOLEAN] /\ rx' \in [Threads -> RxState]
    BY <1>0, <2>0, CloseType DEF ExchangeSucceeds
  <2>3. /\ main' \in MainState /\ main'.seqNum = main.seqNum
        /\ main'.pc = "enter"
        /\ main'.state \in {"discovery", Successor(main.state)}
    <3> DEFINE d == Enter("discovery")
               e == Enter(Successor(main.state))
    <3>1. Successor(main.state) \in States
      BY <1>0 DEF Successor, Exchanges, States
    <3>2. /\ d \in MainState /\ d.seqNum = main.seqNum /\ d.state = "discovery"
          /\ d.pc = "enter"
      BY <1>0, MainForms DEF States
    <3>3. /\ e \in MainState /\ e.seqNum = main.seqNum /\ e.pc = "enter"
          /\ e.state = Successor(main.state)
      BY <1>0, <3>1, MainForms
    <3>4. \E q \in {d, e} : main' = [q EXCEPT !.lastError = "success"]
      BY <2>0 DEF ExchangeSucceeds
    <3> HIDE DEF d, e
    <3> QED BY <3>2, <3>3, <3>4 DEF MainState
  <2>4. TypeOK'
    BY <1>2, <2>1, <2>2, <2>3
  <2>5. CASE main.state # "dataCheck"
    <3>1. main'.state # "run"
      BY <1>0, <2>3, <2>5 DEF Successor, Exchanges
    <3>2. Quiet
      BY <1>0, <2>3, <3>1 DEF Quiet
    <3> QED BY <1>1, <2>4, <3>2, QuietInv
  <2>6. CASE main.state = "dataCheck"
    <3>1. ~closed => ac.state = "run"
      <4>1. LET m == Head(inbox) IN
              m.type = "changeState" /\ m.ok /\ m.seqNum = main.seqNum
        BY <1>4, <2>6 DEF Answers, TypeOf
      <4> QED BY <1>0, <1>1, <2>6, <4>1 DEF IInv, RunConfirmed
    <3>2. RunAgreement'
      BY <1>0, <3>1 DEF RunAgreement
    <3>3. RunConfirmed'
      BY <2>3 DEF RunConfirmed
    <3>4. SeqNumsTaken'
      BY <1>1, <2>3 DEF IInv, SeqNumsTaken
    <3> QED BY <1>1, <2>4, <3>2, <3>3, <3>4 DEF IInv
  <2> QED BY <2>5, <2>6
<1> QED BY <1>3, <1>4

\* The WaitJoin timer, which closes the control socket.
LEMMA CWWTPWaitJoinExpiredInv ==
    ASSUME IInv, CWWTPWaitJoinExpired PROVE IInv'
<1>0. /\ TypeOK /\ main.seqNum \in Nat
      /\ waitJoin \in [mine: BOOLEAN, left: Nat]
      /\ UNCHANGED <<main, disc, inbox, dead, net, ac, closed>>
      /\ handshake' = FALSE
  <2>1. /\ TypeOK /\ main.seqNum \in Nat
        /\ waitJoin \in [mine: BOOLEAN, left: Nat]
    BY DEF IInv, TypeOK, MainState
  <2>2. /\ UNCHANGED <<main, disc, inbox, dead, net, ac, closed>>
        /\ handshake' = FALSE
    BY DEF CWWTPWaitJoinExpired
  <2> QED BY <2>1, <2>2
<1>1. waitJoin' \in [mine: BOOLEAN, left: Nat]
  <2>1. \/ waitJoin' = [waitJoin EXCEPT !.mine = FALSE]
        \/ waitJoin.left > 0 /\ waitJoin' = [waitJoin EXCEPT !.left = @ - 1]
    BY DEF CWWTPWaitJoinExpired
  <2>2. waitJoin.left > 0 => waitJoin.left - 1 \in Nat
    BY <1>0
  <2> QED BY <1>0, <2>1, <2>2
<1>2. /\ sock' \in [Channels -> BOOLEAN] /\ rx' \in [Threads -> RxState]
      /\ faults' \in 0 .. MaxFaults /\ excused' \in BOOLEAN
  BY <1>0, CloseType, FaultType DEF CWWTPWaitJoinExpired
<1>3. TypeOK'
  BY <1>0, <1>1, <1>2 DEF TypeOK
<1>4. Quiet
  BY <1>0 DEF Quiet
<1> QED BY <1>0, <1>3, <1>4, QuietSendInv

-----------------------------------------------------------------------------
(* Run, and the receiving threads.                                         *)

\* The main thread in Run, and its end.
LEMMA RunInv ==
    ASSUME IInv, RunMessage \/ RunEnds \/ ClearRunState PROVE IInv'
<1>0. /\ TypeOK /\ main \in MainState /\ main.seqNum \in Nat
      /\ net \subseteq Message /\ dead \in BOOLEAN
  BY DEF IInv, TypeOK, MainState
<1>1. CASE RunMessage
  <2>0. /\ inbox # <<>> /\ inbox' = Tail(inbox)
        /\ \E e \in {main.lastError, "failed"} :
              main' = [main EXCEPT !.lastError = e]
        /\ UNCHANGED <<disc, sock, rx, waitJoin, handshake, dead, net, ac,
                       faults, closed, excused>>
    BY <1>1 DEF RunMessage, history
  <2>1. /\ inbox' \in Seq(Message)
        /\ \A i \in 1 .. Len(inbox') :
              i + 1 \in 1 .. Len(inbox) /\ inbox'[i] = inbox[i + 1]
    BY <1>0, <2>0, TakenInbox
  <2>2. InboxForWTP' /\ InFlight' \subseteq InFlight
    BY <2>0, <2>1 DEF IInv, InboxForWTP, InFlight
  <2>3. /\ main' \in MainState /\ main'.state = main.state
        /\ main'.pc = main.pc /\ main'.seqNum = main.seqNum
    BY <1>0, <2>0 DEF MainState
  <2>4. TypeOK'
    BY <1>0, <2>0, <2>1, <2>3 DEF TypeOK
  <2>5. Quiet
    BY <1>0, <2>0, <2>3 DEF Quiet
  <2> QED BY <2>2, <2>4, <2>5, QuietInv
<1>2. CASE RunEnds
  <2> DEFINE clear == [main EXCEPT !.pc = "clear"]
             error == [main EXCEPT !.pc = "clear", !.lastError = "failed"]
  <2>0. /\ main' \in {clear, error} /\ main.state = "run"
        /\ UNCHANGED <<disc, sock, rx, inbox, waitJoin, handshake, dead, net,
                       ac, closed>>
    BY <1>2 DEF RunEnds
  <2>1. clear \in MainState /\ clear.state = main.state
        /\ clear.seqNum = main.seqNum
    BY <1>0 DEF MainState
  <2>2. error \in MainState /\ error.state = main.state
        /\ error.seqNum = main.seqNum
    BY <1>0 DEF MainState
  <2> HIDE DEF clear, error
  <2>3. faults' \in 0 .. MaxFaults /\ excused' \in BOOLEAN
    BY <1>0, <1>2, FaultType DEF RunEnds
  <2>4. TypeOK'
    BY <1>0, <2>0, <2>1, <2>2, <2>3 DEF TypeOK
  <2>5. Quiet
    BY <1>0, <2>0, <2>1, <2>2 DEF Quiet
  <2> QED BY <2>0, <2>4, <2>5, QuietSendInv
<1>3. CASE ClearRunState
  <2>0. /\ main' = Enter("discovery") /\ dead' = FALSE
        /\ UNCHANGED <<disc, sock, rx, inbox, waitJoin, handshake, net, ac,
                       faults, closed, excused>>
    BY <1>3 DEF ClearRunState, history
  <2>1. /\ main' \in MainState /\ main'.state = "discovery"
        /\ main'.seqNum = main.seqNum
    BY <1>0, <2>0, MainForms DEF States
  <2>2. TypeOK'
    BY <1>0, <2>0, <2>1 DEF TypeOK
  <2>3. Quiet
    BY <1>0, <2>0, <2>1 DEF Quiet
  <2> QED BY <2>0, <2>2, <2>3, QuietSendInv
<1> QED BY <1>1, <1>2, <1>3

\* What happens to the channel while the main thread is in Run.
LEMMA RunChannelInv == ASSUME IInv, RunEcho \/ ChannelDies PROVE IInv'
<1>0. /\ TypeOK /\ main.seqNum \in Nat /\ ac \in Session
  BY DEF IInv, TypeOK, MainState
<1>1. CASE RunEcho
  <2>0. /\ ac' = [ac EXCEPT !.timer = TRUE]
        /\ UNCHANGED <<main, disc, sock, rx, inbox, waitJoin, handshake, dead,
                       net, faults, closed, excused>>
    BY <1>1 DEF RunEcho, wtpVars, history
  <2>1. ac' \in Session /\ ac'.state = ac.state
    BY <1>0, <2>0 DEF Session
  <2>2. TypeOK'
    BY <1>0, <2>0, <2>1 DEF TypeOK
  <2>3. Quiet
    BY <1>0, <2>0, <2>1 DEF Quiet
  <2> QED BY <2>0, <2>2, <2>3, QuietSendInv
<1>2. CASE ChannelDies
  <2>0. /\ dead' = TRUE
        /\ UNCHANGED <<main, disc, sock, rx, inbox, waitJoin, handshake, net,
                       ac, faults, closed, excused>>
    BY <1>2 DEF ChannelDies, history
  <2>1. TypeOK'
    BY <1>0, <2>0 DEF TypeOK
  <2>2. Quiet
    BY <1>0, <2>0 DEF Quiet
  <2> QED BY <2>0, <2>1, <2>2, QuietSendInv
<1> QED BY <1>1, <1>2

\* The receiving threads: one of them passes a packet on to the main thread.
LEMMA ReceiverInv == ASSUME IInv, NEW t \in Threads, Receiver(t) PROVE IInv'
<1>0. /\ TypeOK /\ main.seqNum \in Nat /\ net \subseteq Message
      /\ sock \in [Channels -> BOOLEAN] /\ rx \in [Threads -> RxState]
      /\ inbox \in Seq(Message)
  BY DEF IInv, TypeOK, MainState
<1>1. CASE ReceiverLoops(t)
  <2>0. /\ UNCHANGED <<main, disc, sock, inbox, waitJoin, handshake, dead, net,
                       ac, faults, closed, excused>>
        /\ rx' \in {[rx EXCEPT ![t] = "recv"], [rx EXCEPT ![t] = "close"]}
    BY <1>1 DEF ReceiverLoops, history
  <2>1. rx' \in [Threads -> RxState]
    BY <1>0, <2>0 DEF RxState
  <2>2. TypeOK'
    BY <1>0, <2>0, <2>1 DEF TypeOK
  <2>3. Quiet
    BY <1>0, <2>0 DEF Quiet
  <2> QED BY <2>0, <2>2, <2>3, QuietSendInv
<1>2. ASSUME NEW m \in net, CWWTPReceiveDtlsPacket(t, m) PROVE IInv'
  <2>0. /\ UNCHANGED <<main, disc, sock, waitJoin, handshake, dead, ac, closed>>
        /\ Replaced(m, {}) /\ m.to = "wtp" /\ inbox' = Append(inbox, m)
        /\ rx' = [rx EXCEPT ![t] = "loop"]
    BY <1>2 DEF CWWTPReceiveDtlsPacket, Delivered
  <2>1. /\ net' \subseteq Message /\ net' \subseteq net
        /\ faults' \in 0 .. MaxFaults /\ excused' \in BOOLEAN
    BY <1>0, <2>0, ReplacedType
  <2>2. /\ inbox' \in Seq(Message) /\ Len(inbox') = Len(inbox) + 1
        /\ \A i \in 1 .. Len(inbox') :
              inbox'[i] = IF i <= Len(inbox) THEN inbox[i] ELSE m
    BY <1>0, <1>2, <2>0
  <2>3. \A i \in 1 .. Len(inbox') :
           inbox'[i] = m \/ (i \in 1 .. Len(inbox) /\ inbox'[i] = inbox[i])
    BY <1>0, <2>2
  <2>4. InboxForWTP'
    BY <2>0, <2>3 DEF IInv, InboxForWTP
  <2>5. \A x \in InFlight' : x \in InFlight
    BY <1>2, <2>1, <2>3 DEF InFlight
  <2>6. rx' \in [Threads -> RxState]
    BY <1>0, <2>0 DEF RxState
  <2>7. TypeOK'
    BY <1>0, <2>0, <2>1, <2>2, <2>6 DEF TypeOK
  <2>8. Quiet
    BY <1>0, <2>0 DEF Quiet
  <2> QED BY <2>4, <2>5, <2>7, <2>8, QuietInv
<1>3. CASE CWWTPReceiveDataPacket(t)
  <2>0. /\ UNCHANGED <<main, disc, sock, inbox, waitJoin, handshake, dead, net,
                       ac, faults, closed, excused>>
        /\ rx' = [rx EXCEPT ![t] = "loop"]
    BY <1>3 DEF CWWTPReceiveDataPacket, history
  <2>1. rx' \in [Threads -> RxState]
    BY <1>0, <2>0 DEF RxState
  <2>2. TypeOK'
    BY <1>0, <2>0, <2>1 DEF TypeOK
  <2>3. Quiet
    BY <1>0, <2>0 DEF Quiet
  <2> QED BY <2>0, <2>2, <2>3, QuietSendInv
<1>4. CASE ReceiverEnds(t)
  <2>0. /\ UNCHANGED <<main, disc, inbox, waitJoin, handshake, dead, net, ac,
                       faults, closed, excused>>
        /\ sock' = [sock EXCEPT ![Channel(t)] = FALSE]
        /\ rx' = [Abandoned({Channel(t)}) EXCEPT ![t] = "none"]
    BY <1>4 DEF ReceiverEnds, history
  <2>1. Abandoned({Channel(t)}) \in [Threads -> RxState]
    BY <1>0, CloseType
  <2>2. sock' \in [Channels -> BOOLEAN] /\ rx' \in [Threads -> RxState]
    BY <1>0, <2>0, <2>1 DEF RxState
  <2>3. TypeOK'
    BY <1>0, <2>0, <2>2 DEF TypeOK
  <2>4. Quiet
    BY <1>0, <2>0 DEF Quiet
  <2> QED BY <2>0, <2>3, <2>4, QuietSendInv
<1> QED BY <1>1, <1>2, <1>3, <1>4 DEF Receiver

-----------------------------------------------------------------------------
(* The AC and the network.                                                 *)

\* A step of the AC's session leaves the WTP alone.
LEMMA WTPUnchanged ==
    ASSUME TypeOK, UNCHANGED <<wtpVars, closed>>, ac' \in Session,
           net' \subseteq Message,
           faults' \in 0 .. MaxFaults, excused' \in BOOLEAN
    PROVE  TypeOK' /\ UNCHANGED <<main, inbox, closed>>
<1>1. UNCHANGED <<main, disc, sock, rx, inbox, waitJoin, handshake, dead,
                  closed>>
  BY DEF wtpVars
<1> QED BY <1>1 DEF TypeOK

\* The AC's answer: a Change State Event Response without a failure code is
\* sent by a session that is in Run after it.
LEMMA AnswerInv ==
    ASSUME IInv, NEW m \in net, NEW good \in BOOLEAN,
           UNCHANGED <<wtpVars, closed>>,
           ac' \in Session, ac.state = "run" => ac'.state = "run",
           good /\ m.type = "changeState" => ac'.state = "run",
           net' \subseteq net \cup {Response(m, good)},
           faults' \in 0 .. MaxFaults, excused' \in BOOLEAN
    PROVE  IInv'
<1> DEFINE r == Response(m, good)
<1>0. TypeOK /\ net \subseteq Message /\ m \in Message /\ m \in InFlight
  BY DEF IInv, TypeOK, InFlight
<1>1. /\ r \in Message /\ r.type = m.type /\ r.seqNum = m.seqNum /\ r.ok = good
  BY <1>0, MessageForms
<1> HIDE DEF r
<1>2. net' \subseteq Message /\ net' \subseteq net \cup {r}
  BY <1>0, <1>1 DEF r
<1>3. TypeOK' /\ UNCHANGED <<main, inbox, closed>>
  BY <1>0, <1>2, WTPUnchanged
<1>4. InFlight' \subseteq InFlight \cup {r}
  BY <1>2, <1>3 DEF InFlight
<1>5. InboxForWTP'
  BY <1>3 DEF IInv, InboxForWTP
<1>6. SeqNumsTaken'
  BY <1>0, <1>1, <1>3, <1>4 DEF IInv, SeqNumsTaken
<1>7. RunConfirmed'
  BY <1>1, <1>3, <1>4 DEF IInv, RunConfirmed
<1>8. RunAgreement'
  BY <1>3 DEF IInv, RunAgreement
<1> QED BY <1>3, <1>5, <1>6, <1>7, <1>8 DEF IInv

\* The states a session may get to.
LEMMA SessionForms ==
    /\ \A s \in {"none", "join", "configure", "dataCheck", "run"},
          b \in BOOLEAN :
          /\ [state |-> s, timer |-> b] \in Session
          /\ [state |-> s, timer |-> b].state = s
    /\ \A a \in Session, b \in BOOLEAN :
          /\ [a EXCEPT !.timer = b] \in Session
          /\ [a EXCEPT !.timer = b].state = a.state
BY DEF Session

\* An answer, whatever the network does with the request.
LEMMA ReplyType ==
    ASSUME TypeOK, NEW m \in net, NEW good \in BOOLEAN,
           \/ Reply(m, good)
           \/ Ignore(m)
           \/ /\ Fault("no resource")
              /\ net' = (net \ {m}) \cup {Response(m, good)}
    PROVE  /\ net' \subseteq net \cup {Response(m, good)}
           /\ faults' \in 0 .. MaxFaults /\ excused' \in BOOLEAN
<1>1. m \in Message /\ Response(m, good) \in Message
  BY MessageForms DEF TypeOK
<1>2. CASE Reply(m, good)
  BY <1>1, <1>2, ReplacedType DEF Reply
<1>3. CASE Ignore(m)
  <2>1. Replaced(m, {})
    BY <1>3 DEF Ignore, Delivered
  <2>2. /\ net' \subseteq net \cup {}
        /\ faults' \in 0 .. MaxFaults /\ excused' \in BOOLEAN
    BY <2>1, ReplacedType
  <2> QED BY <2>2
<1>4. CASE /\ Fault("no resource")
           /\ net' = (net \ {m}) \cup {Response(m, good)}
  BY <1>4, FaultType
<1> QED BY <1>2, <1>3, <1>4

\* The sessions of the AC, in every state.
LEMMA ACReceivesInv == ASSUME IInv, NEW m \in net, ACReceives(m) PROVE IInv'
<1>0. TypeOK /\ ac \in Session /\ UNCHANGED <<wtpVars, closed>>
  BY DEF IInv, TypeOK, ACReceives
<1>1. CASE ACEnterDiscovery(m)
  <2>1. /\ ac' = ac /\ Reply(m, TRUE) /\ m.type = "discovery"
    BY <1>1 DEF ACEnterDiscovery, SessionFor
  <2>2. /\ net' \subseteq net \cup {Response(m, TRUE)}
        /\ faults' \in 0 .. MaxFaults /\ excused' \in BOOLEAN
    BY <1>0, <2>1, ReplyType
  <2> QED BY <1>0, <2>1, <2>2, AnswerInv
<1>2. CASE ACEnterJoin(m)
  <2>1. ac.state # "run"
    BY <1>2 DEF ACEnterJoin, SessionFor
  <2>2. /\ ac' \in {SessionFor(m), [state |-> "configure", timer |-> FALSE]}
        /\ \/ m.type = "join" /\ Reply(m, TRUE)
           \/ /\ m.type = "join" /\ Fault("no resource")
              /\ net' = (net \ {m}) \cup {Response(m, FALSE)}
           \/ Ignore(m)
    BY <1>2 DEF ACEnterJoin
  <2>3. ac' \in Session
    BY <1>0, <2>2, SessionForms DEF SessionFor
  <2>4. PICK good \in BOOLEAN :
           /\ good => m.type = "join"
           /\ \/ Reply(m, good)
              \/ Ignore(m)
              \/ /\ Fault("no resource")
                 /\ net' = (net \ {m}) \cup {Response(m, good)}
    BY <2>2
  <2>5. /\ net' \subseteq net \cup {Response(m, good)}
        /\ faults' \in 0 .. MaxFaults /\ excused' \in BOOLEAN
    BY <1>0, <2>4, ReplyType
  <2> QED BY <1>0, <2>1, <2>3, <2>4, <2>5, AnswerInv
<1>3. CASE ACEnterConfigure(m)
  <2>1. /\ ac.state # "run"
        /\ ac' \in {ac, [state |-> "dataCheck", timer |-> TRUE]}
        /\ \/ m.type = "configure" /\ Reply(m, TRUE)
           \/ Ignore(m)
    BY <1>3 DEF ACEnterConfigure
  <2>2. ac' \in Session
    BY <1>0, <2>1, SessionForms
  <2>3. PICK good \in BOOLEAN :
           /\ good => m.type = "configure"
           /\ Reply(m, good) \/ Ignore(m)
    BY <2>1
  <2>4. /\ net' \subseteq net \cup {Response(m, good)}
        /\ faults' \in 0 .. MaxFaults /\ excused' \in BOOLEAN
    BY <1>0, <2>3, ReplyType
  <2> QED BY <1>0, <2>1, <2>2, <2>3, <2>4, AnswerInv
<1>4. CASE ACEnterDataCheck(m)
  <2>1. /\ ac.state # "run"
        /\ \/ /\ ac' = [state |-> "run", timer |-> FALSE]
              /\ Reply(m, TRUE)
           \/ ac' = [ac EXCEPT !.timer = FALSE] /\ Ignore(m)
    BY <1>4 DEF ACEnterDataCheck
  <2>2. ac' \in Session
    BY <1>0, <2>1, SessionForms
  <2>3. PICK good \in BOOLEAN :
           /\ good => ac'.state = "run"
           /\ Reply(m, good) \/ Ignore(m)
    <3>1. CASE ac' = [state |-> "run", timer |-> FALSE] /\ Reply(m, TRUE)
      BY <3>1, SessionForms
    <3>2. CASE Ignore(m)
      BY <3>2
    <3> QED BY <2>1, <3>1, <3>2
  <2>4. /\ net' \subseteq net \cup {Response(m, good)}
        /\ faults' \in 0 .. MaxFaults /\ excused' \in BOOLEAN
    BY <1>0, <2>3, ReplyType
  <2> QED BY <1>0, <2>1, <2>2, <2>3, <2>4, AnswerInv
<1>5. CASE ACEnterRun(m)
  <2> DEFINE known == m.type = "changeState"
             on == ac.timer \/ known
  <2>1. /\ ac.state = "run" /\ Reply(m, known)
        /\ ac' = [ac EXCEPT !.timer = on]
    BY <1>5 DEF ACEnterRun
  <2>2. known \in BOOLEAN /\ on \in BOOLEAN
    OBVIOUS
  <2>3. ac' \in Session /\ ac'.state = "run"
    <3> HIDE DEF on
    <3> QED BY <1>0, <2>1, <2>2 DEF Session
  <2>4. /\ net' \subseteq net \cup {Response(m, known)}
        /\ faults' \in 0 .. MaxFaults /\ excused' \in BOOLEAN
    <3> HIDE DEF known
    <3> QED BY <1>0, <2>1, <2>2, ReplyType
  <2> HIDE DEF known
  <2> QED BY <1>0, <2>2, <2>3, <2>4, AnswerInv
<1> QED BY <1>1, <1>2, <1>3, <1>4, <1>5 DEF ACReceives

\* A session is closed.
LEMMA ACClosesInv == ASSUME IInv, ACCloses PROVE IInv'
<1>0. /\ TypeOK /\ net \subseteq Message
  BY DEF IInv, TypeOK
<1>1. /\ ac' = NoSession /\ closed' = TRUE /\ UNCHANGED net
      /\ UNCHANGED <<main, disc, sock, rx, inbox, waitJoin, handshake, dead>>
  BY DEF ACCloses, wtpVars
<1>2. ac' \in Session
  BY <1>1 DEF NoSession, Session
<1>3. faults' \in 0 .. MaxFaults /\ excused' \in BOOLEAN
  BY <1>0, FaultType DEF ACCloses
<1>4. TypeOK'
  BY <1>0, <1>1, <1>2, <1>3 DEF TypeOK
<1>5. InboxForWTP' /\ SeqNumsTaken'
  BY <1>1 DEF IInv, InboxForWTP, SeqNumsTaken, InFlight
<1>6. RunConfirmed' /\ RunAgreement'
  BY <1>1 DEF RunConfirmed, RunAgreement
<1> QED BY <1>4, <1>5, <1>6 DEF IInv

\* A message is lost.
LEMMA NetworkInv == ASSUME IInv, NEW m \in net, Lose(m) \/ Refuse(m) PROVE IInv'
<1>0. /\ TypeOK /\ net \subseteq Message /\ main.seqNum \in Nat
      /\ ac \in Session
  BY DEF IInv, TypeOK, MainState
<1>1. /\ net' = net \ {m} /\ ac' = ac
      /\ UNCHANGED <<wtpVars, closed>>
  BY DEF Lose, Refuse, history
<1>2. faults' \in 0 .. MaxFaults /\ excused' \in BOOLEAN
  BY <1>0, FaultType DEF Lose, Refuse
<1>3. TypeOK' /\ UNCHANGED <<main, inbox, closed>>
  BY <1>0, <1>1, <1>2, WTPUnchanged
<1>4. Quiet
  BY <1>0, <1>1, <1>3 DEF Quiet
<1> QED BY <1>1, <1>3, <1>4, QuietSendInv

-----------------------------------------------------------------------------
(* The theorems.                                                           *)

\* The invariant holds when the WTP starts.
LEMMA InitIInv == Init => IInv
<1> SUFFICES ASSUME Init PROVE IInv
  OBVIOUS
<1>1. main \in MainState /\ main.state = "discovery" /\ inbox = <<>> /\ net = {}
  BY DEF Init, MainState
<1>2. TypeOK
  <2>1. /\ disc \in [found: BOOLEAN, received: BOOLEAN, result: BOOLEAN]
        /\ sock \in [Channels -> BOOLEAN] /\ rx \in [Threads -> RxState]
    BY NothingType DEF Init, RxState
  <2>2. /\ inbox \in Seq(Message) /\ waitJoin \in [mine: BOOLEAN, left: Nat]
        /\ ac \in Session /\ faults \in 0 .. MaxFaults
    BY FaultsAssumption DEF Init, Session, NoSession
  <2> QED BY <1>1, <2>1, <2>2 DEF Init, TypeOK
<1>3. InFlight = {}
  BY <1>1 DEF InFlight
<1> QED BY <1>1, <1>2, <1>3
        DEF IInv, InboxForWTP, SeqNumsTaken, RunConfirmed, RunAgreement

\* Every step preserves it.
LEMMA NextIInv == IInv /\ [Next]_vars => IInv'
<1> SUFFICES ASSUME IInv, [Next]_vars PROVE IInv'
  OBVIOUS
<1>1. CASE MainThread
  BY <1>1, CWWTPEnterDiscoveryInv, SendDiscoveryRequestInv, DiscoveryInv,
     CWWTPEnterJoinInv, EnterExchangeInv, SendRequestInv, WaitEndsInv,
     CWReceiveMessageInv, RunInv DEF MainThread
<1>2. CASE \E t \in Threads : Receiver(t)
  BY <1>2, ReceiverInv
<1>3. CASE \E m \in net : ACReceives(m) \/ Refuse(m) \/ Lose(m)
  BY <1>3, ACReceivesInv, NetworkInv
<1>4. CASE RunEcho \/ ChannelDies
  BY <1>4, RunChannelInv
<1>5. CASE CWWTPWaitJoinExpired
  BY <1>5, CWWTPWaitJoinExpiredInv
<1>6. CASE ACCloses
  BY <1>6, ACClosesInv
<1>7. CASE UNCHANGED vars
  <2>1. UNCHANGED <<main, disc, sock, rx, inbox, waitJoin, handshake, dead, net,
                    ac, faults, closed, excused>>
    BY <1>7 DEF vars, wtpVars, history
  <2>2. TypeOK'
    BY <2>1 DEF IInv, TypeOK
  <2> QED BY <2>1, <2>2 DEF IInv, InboxForWTP, SeqNumsTaken, RunConfirmed,
                            RunAgreement, InFlight
<1> QED BY <1>1, <1>2, <1>3, <1>4, <1>5, <1>6, <1>7 DEF Next

\* IInv is an invariant of the WTP and the AC it joins.
THEOREM Invariance == Spec => []IInv
BY InitIInv, NextIInv, PTL DEF Spec

\* The types of the model's variables.
THEOREM TypeCorrect == Spec => []TypeOK
<1>1. IInv => TypeOK
  BY DEF IInv
<1> QED BY <1>1, Invariance, PTL

\* A WTP that is in Run is served by a session in Run, unless the AC closed a
\* session since the Join, for any number of faults of any kind
\* (CWWTPEnterDataCheck, ACEnterDataCheck).
THEOREM RunAgreed == Spec => []RunAgreement
<1>1. IInv => RunAgreement
  BY DEF IInv
<1> QED BY <1>1, Invariance, PTL

=============================================================================
