---------------------------- MODULE RosterProofs ----------------------------
(* The IO thread and the client it answers over: proofs for TLAPS, for any *)
(* peers, callers and number of attempts.                                  *)
EXTENDS Roster, TLAPS

USE RosterAssumption

(* While the IO thread runs, Connect has not touched the roster's client:   *)
(* it is the client of the Connection.                                      *)
Wired ==
    io # "ended" => /\ uplink = client /\ client # NoClient
                    /\ connect \in {"idle", "join"}

(* A client is wired only between the fork and the next attempt.            *)
Forking == connect = "fork" => uplink = client /\ client # NoClient /\ io = "ended"
Created == connect \in {"create", "socket"} => io = "ended" /\ uplink = NoClient
Numbered == connect = "socket" => client # NoClient

(* What the IO thread answers came by the client of the Connection.         *)
Answering ==
    io \in {"asked", "answer", "subscribe"} =>
        /\ asking.presence \in DOMAIN received
        /\ received[asking.presence].client = client
        /\ received[asking.presence].from = asking.peer

RosterInv ==
    /\ client \in Nat /\ received \in Seq(Presences) /\ writes \in Seq(Answers)
    /\ asking \in [peer : Peers, presence : Nat] \cup {Idle}
    /\ io \in {"run", "asked", "answer", "subscribe", "ended"}
    /\ holds \in [Callers -> [client : Nat, what : Requests, to : Peers] \cup {NotCalling}]
    /\ uplink \in Nat
    /\ Wired /\ Forking /\ Created /\ Numbered /\ Answering
    /\ AnswersNeverFault /\ AnswersGoBack

(* A roster begins without a client. *)
LEMMA Initially == Init => RosterInv
  BY DEF Init, RosterInv, Wired, Forking, Created, Numbered, Answering, AnswersNeverFault,
         AnswersGoBack, Idle, NoClient, NotCalling, Presences, Answers

(* Connect keeps the pointer and the client in step. *)
LEMMA ConnectStep == RosterInv /\ ConnectSteps => RosterInv'
  <1> SUFFICES ASSUME RosterInv, ConnectSteps PROVE RosterInv'
    OBVIOUS
  <1> USE DEF RosterInv, Wired, Forking, Created, Numbered, Answering, AnswersNeverFault,
              AnswersGoBack, Connecting, NoClient, told
  <1>1. CASE Reconnect
    BY <1>1 DEF Reconnect
  <1>2. CASE ResetUplink
    BY <1>2 DEF ResetUplink
  <1>3. CASE NewClient
    BY <1>3 DEF NewClient
  <1>4. CASE ConnectFails
    BY <1>4 DEF ConnectFails
  <1>5. CASE ConnectSocket
    BY <1>5 DEF ConnectSocket
  <1>6. CASE Fork
    BY <1>6 DEF Fork
  <1> QED
    BY <1>1, <1>2, <1>3, <1>4, <1>5, <1>6 DEF ConnectSteps

(* A presence comes over the client there is. *)
LEMMA ReceiveStep ==
    ASSUME RosterInv, NEW p \in Peers, NEW type \in Types, OnPresence(p, type)
    PROVE  RosterInv'
  <1> DEFINE presence == [from |-> p, type |-> type, client |-> client]
  <1>1. /\ io = "run" /\ fault = <<>> /\ received' = Append(received, presence)
        /\ UNCHANGED <<wiring, holds, fault, writes, calls>>
    BY DEF OnPresence, Receive, Alive
  <1>2. \/ io' = "asked" /\ asking' = [peer |-> p, presence |-> Len(received) + 1]
        \/ UNCHANGED answering
    BY DEF OnPresence, HandleSubscribe, HandleSubscribed, Unheard, Types
  <1>3. /\ received' \in Seq(Presences) /\ Len(received') = Len(received) + 1
        /\ \A i \in DOMAIN received : i \in DOMAIN received' /\ received'[i] = received[i]
        /\ received'[Len(received) + 1] = presence
    BY <1>1 DEF RosterInv, Presences
  <1>4. Answering'
    BY <1>1, <1>2, <1>3 DEF Answering, wiring, answering, RosterInv
  <1>5. AnswersGoBack'
    BY <1>1, <1>3 DEF AnswersGoBack, RosterInv
  <1>6. Wired' /\ Forking' /\ Created' /\ Numbered' /\ AnswersNeverFault'
    BY <1>1, <1>2 DEF RosterInv, Wired, Forking, Created, Numbered, AnswersNeverFault, wiring,
                      answering
  <1> QED
    BY <1>1, <1>2, <1>3, <1>4, <1>5, <1>6 DEF RosterInv, wiring, answering

(* A write of the IO thread finds the client it needs, and is an answer.    *)
LEMMA AnswerWrite ==
    ASSUME RosterInv, io \in {"answer", "subscribe"}, fault = <<>>,
           NEW what \in {"subscribed"} \cup Requests,
           WriteXML("io", uplink, what, asking.peer, asking.presence)
    PROVE  /\ fault' = <<>>
           /\ writes' = Append(writes, [client |-> client, what |-> what, to |-> asking.peer,
                                        presence |-> asking.presence])
           /\ writes' \in Seq(Answers)
           /\ UNCHANGED received => AnswersGoBack'
  <1> DEFINE answer == [client |-> client, what |-> what, to |-> asking.peer,
                        presence |-> asking.presence]
  <1>1. fault' = <<>> /\ writes' = Append(writes, answer)
    BY DEF WriteXML, RosterInv, Wired
  <1>2. asking.peer \in Peers /\ asking.presence \in Nat
    <2>1. asking.presence \in DOMAIN received
      BY DEF RosterInv, Answering
    <2>2. asking # Idle
      BY <2>1 DEF Idle, RosterInv
    <2> QED
      BY <2>2 DEF RosterInv
  <1>3. answer \in Answers
    BY <1>2 DEF Answers, RosterInv
  <1>4. writes' \in Seq(Answers)
    BY <1>1, <1>3 DEF RosterInv
  <1>5. ASSUME UNCHANGED received PROVE AnswersGoBack'
    <2>1. ASSUME NEW i \in DOMAIN writes'
          PROVE  \/ i \in DOMAIN writes /\ writes'[i] = writes[i]
                 \/ writes'[i] = answer
      BY <1>1, <1>3 DEF RosterInv
    <2> QED
      BY <1>5, <2>1 DEF AnswersGoBack, RosterInv, Answering
  <1> QED
    BY <1>1, <1>4, <1>5

(* The IO thread answers over it. *)
LEMMA IOStep == RosterInv /\ IOSteps => RosterInv'
  <1> SUFFICES ASSUME RosterInv, IOSteps PROVE RosterInv'
    OBVIOUS
  <1> USE DEF RosterInv
  <1>1. CASE RunReturns
    BY <1>1 DEF RunReturns, Wired, Forking, Created, Numbered, Answering, AnswersNeverFault,
                AnswersGoBack, wiring
  <1>2. CASE \E p \in Peers, type \in Types : OnPresence(p, type)
    BY <1>2, ReceiveStep
  <1>3. CASE \E r \in Responses : OnSubscribe(r)
    BY <1>3 DEF OnSubscribe, Wired, Forking, Created, Numbered, Answering, AnswersNeverFault,
                AnswersGoBack, wiring
  <1>4. CASE OnSubscribeThrows
    BY <1>4 DEF OnSubscribeThrows, Wired, Forking, Created, Numbered, Answering,
                AnswersNeverFault, AnswersGoBack, wiring
  <1>5. CASE AnswerSubscribed
    <2>1. /\ fault' = <<>> /\ writes' \in Seq(Answers) /\ AnswersGoBack'
          /\ UNCHANGED <<wiring, holds, received>>
      BY <1>5, AnswerWrite DEF AnswerSubscribed, Alive
    <2>2. \/ io' = "subscribe" /\ UNCHANGED asking
          \/ io' = "run" /\ asking' = Idle
      BY <1>5 DEF AnswerSubscribed
    <2> QED
      BY <1>5, <2>1, <2>2 DEF AnswerSubscribed, Wired, Forking, Created, Numbered, Answering,
                              AnswersNeverFault, wiring
  <1>6. CASE SubscribeBack
    <2>1. /\ fault' = <<>> /\ writes' \in Seq(Answers) /\ AnswersGoBack'
          /\ UNCHANGED <<wiring, holds, received>>
      BY <1>6, AnswerWrite DEF SubscribeBack, Alive, Requests
    <2> QED
      BY <1>6, <2>1 DEF SubscribeBack, Wired, Forking, Created, Numbered, Answering,
                        AnswersNeverFault, wiring
  <1> QED
    BY <1>1, <1>2, <1>3, <1>4, <1>5, <1>6 DEF IOSteps

(* A call of the application faults alone. *)
LEMMA CallerStep == RosterInv /\ CallerSteps => RosterInv'
  <1> SUFFICES ASSUME RosterInv, NEW c \in Callers,
                      \/ \E what \in Requests, p \in Peers : ReadUplink(c, what, p)
                      \/ WritePresence(c)
               PROVE  RosterInv'
    BY DEF CallerSteps
  <1> USE DEF RosterInv
  <1>1. CASE \E what \in Requests, p \in Peers : ReadUplink(c, what, p)
    BY <1>1 DEF ReadUplink, Wired, Forking, Created, Numbered, Answering, AnswersNeverFault,
                AnswersGoBack, wiring, answering
  <1>2. CASE WritePresence(c)
    <2>1. holds[c] \in [client : Nat, what : Requests, to : Peers]
      BY <1>2 DEF WritePresence, NotCalling
    <2>2. holds' = [holds EXCEPT ![c] = NotCalling] /\ UNCHANGED <<wiring, answering, received>>
      BY <1>2 DEF WritePresence
    <2>3. WriteXML("app", holds[c].client, holds[c].what, holds[c].to, 0) /\ fault = <<>>
      BY <1>2 DEF WritePresence, Alive
    <2>4. CASE UNCHANGED writes
      <3>1. fault' \in {<<"app", "null">>, <<"app", "freed">>} \/ fault' = <<>>
        BY <2>3 DEF WriteXML
      <3> QED
        BY <2>2, <2>3, <2>4, <3>1 DEF Wired, Forking, Created, Numbered, Answering,
              AnswersNeverFault, AnswersGoBack, wiring, answering
    <2>5. CASE ~UNCHANGED writes
      <3> DEFINE call == [client |-> holds[c].client, what |-> holds[c].what,
                          to |-> holds[c].to, presence |-> 0]
      <3>1. fault' = <<>> /\ writes' = Append(writes, call)
        BY <2>3, <2>5 DEF WriteXML
      <3>2. call \in Answers
        BY <2>1 DEF Answers
      <3>3. writes' \in Seq(Answers)
        BY <3>1, <3>2
      <3>4. ASSUME NEW i \in DOMAIN writes'
            PROVE  \/ i \in DOMAIN writes /\ writes'[i] = writes[i]
                   \/ writes'[i] = call
        BY <3>1, <3>2
      <3>5. AnswersGoBack'
        BY <2>2, <3>4 DEF AnswersGoBack
      <3> QED
        BY <2>2, <3>1, <3>3, <3>5 DEF Wired, Forking, Created, Numbered, Answering,
              AnswersNeverFault, wiring, answering
    <2> QED
      BY <2>4, <2>5
  <1> QED
    BY <1>1, <1>2

(* RosterInv is an invariant of every behaviour of module Roster.           *)
THEOREM Invariance == Spec => []RosterInv
  <1>1. RosterInv /\ UNCHANGED vars => RosterInv'
    BY DEF vars, wiring, answering, told, RosterInv, Wired, Forking, Created, Numbered,
           Answering, AnswersNeverFault, AnswersGoBack
  <1>2. RosterInv /\ [Next]_vars => RosterInv'
    BY <1>1, ConnectStep, IOStep, CallerStep DEF Next
  <1> QED
    BY Initially, <1>2, PTL DEF Spec

(* No write of the IO thread meets a client that is null or freed.          *)
THEOREM AnswersAreSafe == Spec => []AnswersNeverFault
  BY Invariance, PTL DEF RosterInv

(* Every answer leaves by the client its presence came by, to its sender.   *)
THEOREM AnswersReturn == Spec => []AnswersGoBack
  BY Invariance, PTL DEF RosterInv

-----------------------------------------------------------------------------
(* The types of what the invariant does not speak of. *)

(* With the parts of RosterInv these make up TypeOK. *)
Rest ==
    /\ uplink \in {NoClient, client}
    /\ connect \in {"idle", "join", "create", "socket", "fork"}
    /\ response \in Responses
    /\ fault \in {<<>>} \cup ({"io", "app"} \X {"null", "freed"})
    /\ calls \in Nat /\ handlers \subseteq Callbacks
    /\ asked \subseteq Peers /\ friends \subseteq Peers

(* Every step keeps these types. *)
LEMMA RestStep == RosterInv /\ Rest /\ [Next]_vars => Rest'
  <1> SUFFICES ASSUME RosterInv, Rest, [Next]_vars PROVE Rest'
    OBVIOUS
  <1> USE DEF Rest
  <1>1. CASE ConnectSteps
    BY <1>1 DEF ConnectSteps, Reconnect, ResetUplink, NewClient, ConnectFails, ConnectSocket, Fork,
                Connecting, told, RosterInv, Created, NoClient
  <1>2. ASSUME NEW thread \in {"io", "app"}, NEW pointer, NEW what, NEW to, NEW presence,
               WriteXML(thread, pointer, what, to, presence)
        PROVE  fault' \in {<<>>} \cup ({"io", "app"} \X {"null", "freed"})
    BY <1>2 DEF WriteXML
  <1>3. CASE IOSteps
    <2>1. CASE RunReturns \/ OnSubscribeThrows
      BY <2>1 DEF RunReturns, OnSubscribeThrows, wiring, told
    <2>2. ASSUME NEW p \in Peers, NEW type \in Types, OnPresence(p, type) PROVE Rest'
      <3>1. UNCHANGED <<wiring, fault, calls>>
        BY <2>2 DEF OnPresence, Receive
      <3>2. /\ UNCHANGED <<response, handlers>>
            /\ asked' \subseteq asked \cup {p} /\ friends' \subseteq friends \cup {p}
        BY <2>2 DEF OnPresence, HandleSubscribe, HandleSubscribed, Unheard, answering, told, Types
      <3> QED
        BY <3>1, <3>2 DEF wiring
    <2>3. CASE \E r \in Responses : OnSubscribe(r)
      BY <2>3 DEF OnSubscribe, wiring, told
    <2>4. CASE AnswerSubscribed \/ SubscribeBack
      <3>1. fault' \in {<<>>} \cup ({"io", "app"} \X {"null", "freed"})
        BY <1>2, <2>4 DEF AnswerSubscribed, SubscribeBack
      <3> QED
        BY <2>4, <3>1 DEF AnswerSubscribed, SubscribeBack, wiring, told
    <2> QED
      BY <1>3, <2>1, <2>2, <2>3, <2>4 DEF IOSteps
  <1>4. CASE CallerSteps
    <2>1. ASSUME NEW c \in Callers, WritePresence(c) PROVE Rest'
      <3>1. fault' \in {<<>>} \cup ({"io", "app"} \X {"null", "freed"})
        BY <1>2, <2>1 DEF WritePresence
      <3> QED
        BY <2>1, <3>1 DEF WritePresence, wiring, answering, told
    <2>2. ASSUME NEW c \in Callers, NEW what \in Requests, NEW p \in Peers, ReadUplink(c, what, p)
          PROVE  Rest'
      BY <2>2 DEF ReadUplink, wiring, answering, told
    <2> QED
      BY <1>4, <2>1, <2>2 DEF CallerSteps
  <1>5. CASE UNCHANGED vars
    BY <1>5 DEF vars, wiring, answering, told
  <1> QED
    BY <1>1, <1>3, <1>4, <1>5 DEF Next

(* Every variable keeps its type; in particular Uplink is null or points to *)
(* the Connection's client whenever nobody is reading it.                   *)
THEOREM TypeCorrect == Spec => []TypeOK
  <1>1. Init => Rest
    BY DEF Init, Rest, NoClient, Responses
  <1>2. RosterInv /\ Rest => TypeOK
    BY DEF RosterInv, Rest, TypeOK
  <1> QED
    BY <1>1, <1>2, RestStep, Invariance, PTL DEF Spec

-----------------------------------------------------------------------------
(* The two presences of AllowAndSubscribe. *)

(* HandleSubscribe comes to its second presence after it has written the    *)
(* first, over this client and for this presence.                           *)
Allowed ==
    io = "subscribe" =>
        \E i \in 1 .. Len(writes) :
            writes[i] = [client |-> client, what |-> "subscribed", to |-> asking.peer,
                         presence |-> asking.presence]

AllowedInv == Allowed /\ SubscribesAfterAllowing

(* A presence written that is no second one, or has its first before it,    *)
(* leaves those before it as they were.                                     *)
LEMMA WriteOne ==
  ASSUME RosterInv, SubscribesAfterAllowing, NEW w \in Answers, writes' = Append(writes, w),
         w.presence # 0 /\ w.what = "subscribe" =>
            \E i \in 1 .. Len(writes) : writes[i] = [w EXCEPT !.what = "subscribed"]
  PROVE  /\ SubscribesAfterAllowing'
         /\ \A i \in 1 .. Len(writes) : i \in 1 .. Len(writes') /\ writes'[i] = writes[i]
         /\ Len(writes') \in 1 .. Len(writes') /\ writes'[Len(writes')] = w
  <1>1. /\ Len(writes) \in Nat /\ Len(writes') = Len(writes) + 1
        /\ \A i \in 1 .. Len(writes) : writes'[i] = writes[i]
        /\ writes'[Len(writes) + 1] = w
        /\ DOMAIN writes = 1 .. Len(writes) /\ DOMAIN writes' = 1 .. Len(writes) + 1
    BY DEF RosterInv
  <1>2. ASSUME NEW j \in DOMAIN writes', writes'[j].presence # 0, writes'[j].what = "subscribe"
        PROVE  \E i \in 1 .. j - 1 : writes'[i] = [writes'[j] EXCEPT !.what = "subscribed"]
    <2>1. CASE j \in DOMAIN writes
      <3>1. PICK i \in 1 .. j - 1 : writes[i] = [writes[j] EXCEPT !.what = "subscribed"]
        BY <1>1, <1>2, <2>1 DEF SubscribesAfterAllowing
      <3> QED
        BY <1>1, <2>1, <3>1
    <2>2. CASE j = Len(writes) + 1
      BY <1>1, <1>2, <2>2
    <2> QED
      BY <1>1, <2>1, <2>2
  <1> QED
    BY <1>1, <1>2 DEF SubscribesAfterAllowing

(* Every step keeps AllowedInv. *)
LEMMA AllowedStep == RosterInv /\ AllowedInv /\ [Next]_vars => AllowedInv'
  <1> SUFFICES ASSUME RosterInv, AllowedInv, [Next]_vars PROVE AllowedInv'
    OBVIOUS
  <1>1. ASSUME UNCHANGED writes, io' # "subscribe" \/ UNCHANGED <<io, client, asking>>
        PROVE  AllowedInv'
    BY <1>1 DEF AllowedInv, Allowed, SubscribesAfterAllowing
  <1>2. CASE ConnectSteps
    <2>1. UNCHANGED <<writes, asking>>
      BY <1>2 DEF ConnectSteps, Reconnect, ResetUplink, NewClient, ConnectFails, ConnectSocket, Fork,
                  Connecting
    <2>2. io' # "subscribe" \/ UNCHANGED <<io, client>>
      BY <1>2 DEF ConnectSteps, Reconnect, ResetUplink, NewClient, ConnectFails, ConnectSocket, Fork,
                  Connecting, RosterInv, Created
    <2> QED
      BY <1>1, <2>1, <2>2
  <1>3. CASE RunReturns \/ OnSubscribeThrows \/ \E r \in Responses : OnSubscribe(r)
    BY <1>1, <1>3 DEF RunReturns, OnSubscribeThrows, OnSubscribe
  <1>4. ASSUME NEW p \in Peers, NEW type \in Types, OnPresence(p, type) PROVE AllowedInv'
    <2>1. io = "run" /\ UNCHANGED writes
      BY <1>4 DEF OnPresence, Receive
    <2>2. io' = "asked" \/ io' = io
      BY <1>4 DEF OnPresence, HandleSubscribe, HandleSubscribed, Unheard, answering, Types
    <2> QED
      BY <1>1, <2>1, <2>2
  <1>5. ASSUME NEW what \in {"subscribed"} \cup Requests, io \in {"answer", "subscribe"},
               fault = <<>>, WriteXML("io", uplink, what, asking.peer, asking.presence)
        PROVE  LET w == [client |-> client, what |-> what, to |-> asking.peer,
                         presence |-> asking.presence]
               IN  writes' = Append(writes, w) /\ w \in Answers
    <2> DEFINE w == [client |-> client, what |-> what, to |-> asking.peer,
                     presence |-> asking.presence]
    <2>1. writes' = Append(writes, w) /\ writes' \in Seq(Answers)
      BY <1>5, AnswerWrite
    <2>2. w = writes'[Len(writes) + 1] /\ Len(writes') = Len(writes) + 1 /\ Len(writes) \in Nat
      BY <2>1 DEF RosterInv
    <2> QED
      BY <2>1, <2>2
  <1>6. CASE AnswerSubscribed
    <2> DEFINE w == [client |-> client, what |-> "subscribed", to |-> asking.peer,
                     presence |-> asking.presence]
    <2>1. writes' = Append(writes, w) /\ w \in Answers
      BY <1>5, <1>6 DEF AnswerSubscribed, Alive
    <2>2. w.what # "subscribe"
      OBVIOUS
    <2>3. client' = client /\ (io' = "run" \/ asking' = asking)
      BY <1>6 DEF AnswerSubscribed, wiring
    <2> HIDE DEF w
    <2>4. /\ SubscribesAfterAllowing'
          /\ Len(writes') \in 1 .. Len(writes') /\ writes'[Len(writes')] = w
      BY <2>1, <2>2, WriteOne DEF AllowedInv
    <2> QED
      BY <2>3, <2>4 DEF AllowedInv, Allowed, w
  <1>7. CASE SubscribeBack
    <2> DEFINE w == [client |-> client, what |-> "subscribe", to |-> asking.peer,
                     presence |-> asking.presence]
    <2>1. writes' = Append(writes, w) /\ w \in Answers
      BY <1>5, <1>7 DEF SubscribeBack, Alive, Requests
    <2>2. \E i \in 1 .. Len(writes) : writes[i] = [w EXCEPT !.what = "subscribed"]
      BY <1>7 DEF SubscribeBack, AllowedInv, Allowed
    <2>3. io' = "run"
      BY <1>7 DEF SubscribeBack
    <2> HIDE DEF w
    <2>4. SubscribesAfterAllowing'
      BY <2>1, <2>2, WriteOne DEF AllowedInv
    <2> QED
      BY <2>3, <2>4 DEF AllowedInv, Allowed
  <1>8. ASSUME NEW c \in Callers, WritePresence(c) PROVE AllowedInv'
    <2> DEFINE w == [client |-> holds[c].client, what |-> holds[c].what, to |-> holds[c].to,
                     presence |-> 0]
    <2>1. UNCHANGED <<io, client, asking>> /\ (UNCHANGED writes \/ writes' = Append(writes, w))
      BY <1>8 DEF WritePresence, WriteXML, wiring, answering
    <2>2. holds[c] \in [client : Nat, what : Requests, to : Peers]
      BY <1>8 DEF WritePresence, RosterInv, NotCalling
    <2>3. w \in Answers /\ w.presence = 0
      BY <2>2 DEF Answers
    <2> HIDE DEF w
    <2>4. CASE writes' = Append(writes, w)
      <3>1. /\ SubscribesAfterAllowing'
            /\ \A i \in 1 .. Len(writes) : i \in 1 .. Len(writes') /\ writes'[i] = writes[i]
        BY <2>3, <2>4, WriteOne DEF AllowedInv
      <3> QED
        BY <2>1, <3>1 DEF AllowedInv, Allowed
    <2> QED
      BY <1>1, <2>1, <2>4
  <1>9. ASSUME NEW c \in Callers, NEW what \in Requests, NEW p \in Peers, ReadUplink(c, what, p)
        PROVE  AllowedInv'
    BY <1>1, <1>9 DEF ReadUplink, wiring, answering
  <1>10. CASE UNCHANGED vars
    BY <1>1, <1>10 DEF vars, wiring, answering
  <1> QED
    BY <1>2, <1>3, <1>4, <1>6, <1>7, <1>8, <1>9, <1>10 DEF Next, IOSteps, CallerSteps

(* HandleSubscribe never subscribes to a peer it has not let in before, by  *)
(* the same client, whatever reconnects and calls come in between.          *)
THEOREM AllowsBeforeSubscribing == Spec => []SubscribesAfterAllowing
  <1>1. Init => AllowedInv
    BY DEF Init, AllowedInv, Allowed, SubscribesAfterAllowing
  <1>2. AllowedInv => SubscribesAfterAllowing
    BY DEF AllowedInv
  <1> QED
    BY <1>1, <1>2, AllowedStep, Invariance, PTL DEF Spec
=============================================================================
