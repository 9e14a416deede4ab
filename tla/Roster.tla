------------------------------- MODULE Roster -------------------------------
(***************************************************************************)
(* RosterMaintaner: which callback a presence reaches, what is answered,   *)
(* and over which client.  Its Uplink is a plain pointer that Connect      *)
(* takes away and gives back while the IO thread answers presences and     *)
(* threads of the application call Subscribe and Unsubscribe.              *)
(***************************************************************************)
EXTENDS Naturals, Sequences

CONSTANTS Peers,         \* who sends presences
          Callers,       \* threads of the application that use the roster
          MaxClients,    \* bound on the attempts to connect
          MaxPresences   \* bound on the presences received and the calls made

ASSUME RosterAssumption == MaxClients \in Nat /\ MaxPresences \in Nat

Types == {"subscribe", "subscribed", "unsubscribe", "unsubscribed", "unavailable", "error", ""}
Requests == {"subscribe", "unsubscribe"}
Callbacks == {"OnSubscribe", "OnSubscribed"}
Responses == {"Allow", "AllowAndSubscribe", "Reject"}
NoClient == 0

VARIABLES
    uplink,    \* the client of the roster, or NoClient
    client,    \* the client of the Connection; an older one is freed
    connect,   \* where Connect is, on the thread that reconnects
    io,        \* where the IO thread is
    asking,    \* what it is answering: the peer and the number of the presence
    response,  \* what the application answered it
    holds,     \* the pointer each caller has read from Uplink, and for what
    fault,     \* <<thread, how>> of the write that killed the process, or <<>>
    received,  \* the presences received, with the client they came by (history)
    writes,    \* the presences written (history)
    calls,     \* how many calls of Subscribe and Unsubscribe were made (history)
    handlers,  \* the callbacks the application's handler has; the others are null
    asked,     \* the peers OnSubscribe was called for (history)
    friends    \* the peers OnSubscribed was called for (history)

wiring == <<uplink, client, connect>>
answering == <<io, asking, response>>
told == <<handlers, asked, friends>>
vars == <<wiring, answering, holds, fault, received, writes, calls, told>>

Idle == [peer |-> "nobody", presence |-> 0]
NotCalling == [client |-> NoClient, what |-> "none", to |-> "nobody"]

Init ==
    /\ uplink = NoClient /\ client = NoClient /\ connect = "idle"
    /\ io = "ended" /\ asking = Idle /\ response = "Reject"
    /\ holds = [c \in Callers |-> NotCalling]
    /\ fault = <<>> /\ received = <<>> /\ writes = <<>> /\ calls = 0
    /\ handlers \in SUBSET Callbacks /\ asked = {} /\ friends = {}

Alive == fault = <<>>

-----------------------------------------------------------------------------
(* Connect *)

Connecting(from, to) ==
    /\ Alive /\ connect = from
    /\ connect' = to
    /\ UNCHANGED <<asking, response, holds, fault, received, writes, calls, told>>

Reconnect == Connecting("idle", "join") /\ UNCHANGED <<uplink, client, io>>

(* Mutated: Connect does not wait for the IO thread. *)
ResetUplinkUnjoined ==
    /\ Connecting("join", "create")
    /\ uplink' = NoClient
    /\ UNCHANGED <<client, io>>

(* Mutated: the roster keeps the old client. *)
ResetUplinkForgotten ==
    /\ Connecting("join", "create")
    /\ io = "ended"
    /\ UNCHANGED <<uplink, client, io>>

ResetUplink ==
    /\ Connecting("join", "create")
    /\ io = "ended"
    /\ uplink' = NoClient
    /\ UNCHANGED <<client, io>>

(* The old client goes with the last pointer to it. *)
NewClient ==
    /\ Connecting("create", "socket")
    /\ client < MaxClients
    /\ client' = client + 1
    /\ UNCHANGED <<uplink, io>>

ConnectFails == Connecting("socket", "idle") /\ UNCHANGED <<uplink, client, io>>

ConnectSocket ==
    /\ Connecting("socket", "fork")
    /\ uplink' = client
    /\ UNCHANGED <<client, io>>

Fork ==
    /\ Connecting("fork", "idle")
    /\ io' = "run"
    /\ UNCHANGED <<uplink, client>>

-----------------------------------------------------------------------------
(* The IO thread.  It ends when Connect stops it, or on its own. *)

RunReturns ==
    /\ Alive /\ io = "run"
    /\ io' = "ended"
    /\ UNCHANGED <<wiring, asking, response, holds, fault, received, writes, calls, told>>

Receive(p, type) ==
    /\ Alive /\ io = "run" /\ Len(received) < MaxPresences
    /\ received' = Append(received, [from |-> p, type |-> type, client |-> client])
    /\ UNCHANGED <<wiring, holds, fault, writes, calls>>

HandleSubscribe(p) ==
    /\ "OnSubscribe" \in handlers
    /\ io' = "asked"
    /\ asking' = [peer |-> p, presence |-> Len(received) + 1]
    /\ asked' = asked \cup {p}
    /\ UNCHANGED <<response, handlers, friends>>

HandleSubscribed(p) ==
    /\ "OnSubscribed" \in handlers
    /\ friends' = friends \cup {p}
    /\ UNCHANGED <<answering, handlers, asked>>

(* The application has no handler for the callback. *)
Unheard(callback) == callback \notin handlers /\ UNCHANGED <<answering, told>>

OnPresence(p, type) ==
    /\ Receive(p, type)
    /\ CASE type \in {"subscribe", "subscribed", "unsubscribe"} ->
                HandleSubscribe(p) \/ Unheard("OnSubscribe")
         [] type = "unsubscribed" -> HandleSubscribed(p) \/ Unheard("OnSubscribed")
         [] OTHER -> UNCHANGED <<answering, told>>

(* OnSubscribe returns, or throws: then Run catches what unwinds it. *)
OnSubscribe(r) ==
    /\ Alive /\ io = "asked"
    /\ response' = r
    /\ io' = IF r = "Reject" THEN "run" ELSE "answer"
    /\ asking' = IF r = "Reject" THEN Idle ELSE asking
    /\ UNCHANGED <<wiring, holds, fault, received, writes, calls, told>>

OnSubscribeThrows ==
    /\ Alive /\ io = "asked"
    /\ io' = "ended" /\ asking' = Idle
    /\ UNCHANGED <<wiring, response, holds, fault, received, writes, calls, told>>

(* Uplink->WriteXMLToSocket on a pointer that was read before. *)
WriteXML(thread, pointer, what, to, presence) ==
    IF pointer = NoClient THEN fault' = <<thread, "null">> /\ UNCHANGED writes
    ELSE IF pointer # client THEN fault' = <<thread, "freed">> /\ UNCHANGED writes
    ELSE /\ writes' = Append(writes, [client |-> pointer, what |-> what, to |-> to,
                                      presence |-> presence])
         /\ UNCHANGED fault

(* Mutated: a peer that is subscribed to is not let in. *)
AnswerOne ==
    /\ Alive /\ io = "answer"
    /\ IF response = "Allow"
       THEN /\ WriteXML("io", uplink, "subscribed", asking.peer, asking.presence)
            /\ io' = "run" /\ asking' = Idle
       ELSE io' = "subscribe" /\ UNCHANGED <<asking, writes, fault>>
    /\ UNCHANGED <<wiring, response, holds, received, calls, told>>

AnswerSubscribed ==
    /\ Alive /\ io = "answer"
    /\ WriteXML("io", uplink, "subscribed", asking.peer, asking.presence)
    /\ IF response = "AllowAndSubscribe"
       THEN io' = "subscribe" /\ UNCHANGED asking
       ELSE io' = "run" /\ asking' = Idle
    /\ UNCHANGED <<wiring, response, holds, received, calls, told>>

SubscribeBack ==
    /\ Alive /\ io = "subscribe"
    /\ WriteXML("io", uplink, "subscribe", asking.peer, asking.presence)
    /\ io' = "run" /\ asking' = Idle
    /\ UNCHANGED <<wiring, response, holds, received, calls, told>>

-----------------------------------------------------------------------------
(* Subscribe and Unsubscribe of the application: the pointer is read from   *)
(* Uplink, and then used.                                                   *)

ReadUplink(c, what, p) ==
    /\ Alive /\ holds[c] = NotCalling /\ calls < MaxPresences
    /\ holds' = [holds EXCEPT ![c] = [client |-> uplink, what |-> what, to |-> p]]
    /\ calls' = calls + 1
    /\ UNCHANGED <<wiring, answering, fault, received, writes, told>>

WritePresence(c) ==
    /\ Alive /\ holds[c].what # "none"
    /\ WriteXML("app", holds[c].client, holds[c].what, holds[c].to, 0)
    /\ holds' = [holds EXCEPT ![c] = NotCalling]
    /\ UNCHANGED <<wiring, answering, received, calls, told>>

-----------------------------------------------------------------------------
ConnectSteps ==
    Reconnect \/ ResetUplink \/ NewClient \/ ConnectFails \/ ConnectSocket \/ Fork

IOSteps ==
    \/ RunReturns
    \/ \E p \in Peers, type \in Types : OnPresence(p, type)
    \/ \E r \in Responses : OnSubscribe(r)
    \/ OnSubscribeThrows \/ AnswerSubscribed \/ SubscribeBack

CallerSteps ==
    \E c \in Callers :
        \/ \E what \in Requests, p \in Peers : ReadUplink(c, what, p)
        \/ WritePresence(c)

Next == ConnectSteps \/ IOSteps \/ CallerSteps

Spec == Init /\ [][Next]_vars

-----------------------------------------------------------------------------
Presences == [from : Peers, type : Types, client : Nat]
Answers == [client : Nat, what : {"subscribed"} \cup Requests, to : Peers, presence : Nat]

TypeOK ==
    /\ client \in Nat /\ uplink \in {NoClient, client}
    /\ connect \in {"idle", "join", "create", "socket", "fork"}
    /\ io \in {"run", "asked", "answer", "subscribe", "ended"}
    /\ asking \in [peer : Peers, presence : Nat] \cup {Idle}
    /\ response \in Responses
    /\ holds \in [Callers -> [client : Nat, what : Requests, to : Peers] \cup {NotCalling}]
    /\ fault \in {<<>>} \cup ({"io", "app"} \X {"null", "freed"})
    /\ received \in Seq(Presences) /\ writes \in Seq(Answers)
    /\ calls \in Nat /\ handlers \subseteq Callbacks /\ asked \subseteq Peers /\ friends \subseteq Peers

(* An answer from the IO thread never meets a client that Connect took away *)
(* or replaced: only calls of the application can.                          *)
AnswersNeverFault == fault # <<>> => fault[1] = "app"

(* A presence is answered over the client it came by, to the peer that sent *)
(* it, whatever reconnects or calls come in between.                        *)
AnswersGoBack ==
    \A i \in DOMAIN writes :
        writes[i].presence # 0 =>
            /\ writes[i].presence \in DOMAIN received
            /\ writes[i].client = received[writes[i].presence].client
            /\ writes[i].to = received[writes[i].presence].from

(* A peer is subscribed to for an answer only after it was let in: of the   *)
(* two presences of AllowAndSubscribe the second never leaves first, or     *)
(* alone, over the same client.                                             *)
SubscribesAfterAllowing ==
    \A j \in DOMAIN writes :
        writes[j].presence # 0 /\ writes[j].what = "subscribe" =>
            \E i \in 1 .. j - 1 :
                writes[i] = [writes[j] EXCEPT !.what = "subscribed"]

(* What RosterBot says in its callbacks is true: "Got subscribe request     *)
(* from" (RosterBot.cpp:95) of a peer that sent one, and "I am now friend   *)
(* with" (RosterBot.cpp:103) of a peer that sent subscribed.                *)
HasSent(p, type) == \E i \in DOMAIN received : received[i].from = p /\ received[i].type = type
CallbacksMatchPresences ==
    /\ \A p \in asked : HasSent(p, "subscribe")
    /\ \A p \in friends : HasSent(p, "subscribed")
=============================================================================
