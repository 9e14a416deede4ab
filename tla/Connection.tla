----------------------------- MODULE Connection -----------------------------
(***************************************************************************)
(* DXMPP::Connection with the parts of its client object that it looks at: *)
(* the negotiation of a stream (STARTTLS, SASL, bind, session), the loop   *)
(* over the documents received, what is reported to the application, and   *)
(* Reconnect, run by an application thread against the IO thread.          *)
(*                                                                         *)
(* A document is one complete top-level element; the server may send any   *)
(* documents in any order, several of them in one read.  Features come     *)
(* with the stream header that answers the client's, so only while the     *)
(* connection waits for them.  The bytes written go through the queue of   *)
(* module OutgoingQueue; here a write is remembered, or dropped.           *)
(***************************************************************************)
EXTENDS Integers, Sequences, FiniteSets

CONSTANTS Certificate,     \* TRUE if the application gave a client certificate
          Offers,          \* the sets of features a server may announce
          EarlyReconnect,  \* the application may reconnect while negotiating
          Conforming,      \* the server answers as XMPP wants
          MaxReconnects,   \* bound: calls of Reconnect
          MaxBuffered      \* bound: documents in the read buffer

Mechanisms == {"EXTERNAL", "SCRAM-SHA-1", "DIGEST-MD5", "PLAIN"}
Features == Mechanisms \cup {"starttls"}
Documents == {"proceed", "challenge", "success", "iq", "stanza", "other", "bad"}
Tokens == Documents \cup {"end"}    \* "end" is </stream:stream>

ASSUME ConnectionAssumption ==
    /\ Certificate \in BOOLEAN
    /\ Offers \subseteq SUBSET Features
    /\ EarlyReconnect \in BOOLEAN /\ Conforming \in BOOLEAN
    /\ MaxReconnects \in Nat /\ MaxBuffered \in Nat

VARIABLES
    cs,        \* CurrentConnectionState
    auth,      \* CurrentAuthenticationState
    features,  \* the flags FeaturesStartTLS, FeaturesSASL_...
    mech,      \* Authentication, "none" when null
    prev,      \* PreviouslyBroadcastedState
    net,       \* the client's own CurrentConnectionState
    tls,       \* SSLConnection
    rds,       \* ReadDataStream, and whether each document came over TLS
    armed,     \* a read is outstanding
    io,        \* where the IO thread is
    resume,    \* where it goes on, and with which state, after a callback
    stopped,   \* io_service->stop() was called
    user,      \* where the application thread in Reconnect is
    count,     \* ReconnectionCount
    written,   \* what was written to this client, and whether over TLS
    offered,   \* what the server announced to this client
    verified   \* the server's <success/> to this client was verified

connState == <<cs, auth, features, mech, offered, verified>>
client == <<net, tls, rds, armed, written>>
thread == <<io, resume, stopped>>
vars == <<connState, prev, client, thread, user, count>>

Errors == {"ErrorConnecting", "ErrorAuthenticating", "ErrorUnknown"}
Negotiating == {"WaitingForFeatures", "Authenticating", "WaitingForSession"}

-----------------------------------------------------------------------------
(* Helpers. *)

NoResume == [at |-> "none", cs |-> "NotConnected"]

(* WriteTextToSocket: dropped unless the client is connected. *)
Write(what) ==
    written' = IF net = "Connected" THEN written \cup {[what |-> what, tls |-> tls]}
                                    ELSE written

(* OpenXMPPStream, on a stream that is connected or not, secure or not. *)
OpenXMPPStream(connected, secure) ==
    /\ cs' = "WaitingForFeatures"
    /\ written' = IF connected THEN written \cup {[what |-> "header", tls |-> secure]}
                               ELSE written

(* A mechanism's Begin writes <auth/>. *)
BeginSASL(m) ==
    /\ mech' = m
    /\ Write("auth")

(* BrodcastConnectionState(s) by the IO thread, which is at place once the  *)
(* callback returned and then has cs = after.                               *)
Report(s, place, after) ==
    /\ prev' = s
    /\ IF prev = s
         THEN io' = place /\ resume' = resume
         ELSE io' = "callback" /\ resume' = [at |-> place, cs |-> after]

(* The state is assigned before the report, or after it. *)
GiveUp(s, place) == cs' = s /\ Report(s, place, s)

ReportAndGiveUp(s, place) ==
    /\ cs' = IF prev = s THEN s ELSE cs
    /\ Report(s, place, s)

(* Mutated: Reset keeps the authentication state, or the features. *)
ResetKeepsAuth ==
    /\ features' = features \cap {"EXTERNAL"}
    /\ mech' = "none"
    /\ UNCHANGED auth

ResetKeepsFeatures ==
    /\ auth' = "None"
    /\ mech' = "none"
    /\ UNCHANGED features

(* Reset: FeaturesSASL_External is not among the flags it clears. *)
Reset ==
    /\ features' = features \cap {"EXTERNAL"}
    /\ auth' = "None"
    /\ mech' = "none"

(* The preference of CheckStreamForFeatures. *)
Choose(f) ==
    IF Certificate /\ "EXTERNAL" \in f THEN "EXTERNAL"
    ELSE IF "SCRAM-SHA-1" \in f THEN "SCRAM-SHA-1"
    ELSE IF "DIGEST-MD5" \in f THEN "DIGEST-MD5"
    ELSE IF "PLAIN" \in f THEN "PLAIN" ELSE "none"

Received(docs) == [i \in DOMAIN docs |-> [kind |-> docs[i], secure |-> tls]]

(* What XMPP lets a server send next, seen from the client's state. *)
Expected ==
    CASE cs = "Authenticating" /\ auth = "StartTLS" -> {"proceed"}
      [] cs = "Authenticating" /\ auth = "SASL" ->
            IF mech \notin offered THEN {"other"}
            ELSE IF mech \in {"PLAIN", "EXTERNAL"} \/ [what |-> "response", tls |-> tls] \in written
                   THEN {"success"} ELSE {"challenge"}
      [] cs = "Authenticating" /\ auth = "Bind" -> {"iq"}
      [] cs = "WaitingForSession" -> {"iq"}
      [] cs = "Connected" -> {"iq", "stanza"}
      [] OTHER -> {}

(* Create, up to its call of Reconnect.  The static count is -1; neither     *)
(* FeaturesSASL_External nor the two states of the Connection are           *)
(* initialised: the states are assigned by Connect before anyone reads them. *)
Init ==
    /\ cs = "NotConnected" /\ auth = "None" /\ mech = "none"
    /\ features \in {{}, {"EXTERNAL"}}
    /\ prev = "Connecting"
    /\ net = "Disconnected" /\ tls = FALSE /\ rds = <<>> /\ armed = FALSE
    /\ io = "none" /\ resume = NoResume /\ stopped = FALSE
    /\ user = "free" /\ count = -1
    /\ written = {} /\ offered = {} /\ verified = FALSE

-----------------------------------------------------------------------------
(* Reading: HandleRead and what it calls before the documents. *)

IOReady == io = "idle" /\ ~stopped

CanRead == IOReady /\ armed /\ net = "Connected"

(* Data without the features that are waited for stays in the buffer, even  *)
(* the end of the stream; otherwise the loop over the documents starts.     *)
Receive(docs) ==
    /\ CanRead
    /\ Len(rds) + Len(docs) <= MaxBuffered
    /\ Conforming => \A i \in DOMAIN docs : docs[i] \in Expected
    /\ rds' = rds \o Received(docs)
    /\ io' = IF cs = "WaitingForFeatures" THEN "idle" ELSE "loop"
    /\ UNCHANGED <<connState, prev, net, tls, armed, written, resume, stopped, user, count>>

(* CheckStreamForFeatures finds the features: the whole buffer is cleared.  *)
ReadFeatures(offer) ==
    /\ CanRead /\ cs = "WaitingForFeatures"
    /\ cs' = "Authenticating"
    /\ rds' = <<>>
    /\ offered' = offered \cup offer
    /\ UNCHANGED <<prev, net, tls, armed, verified, thread, user, count>>

FeaturesIgnored(offer) ==
    /\ ReadFeatures(offer) /\ auth = "SASL"
    /\ UNCHANGED <<auth, features, mech, written>>

FeaturesBind(offer) ==
    /\ ReadFeatures(offer) /\ auth = "Bind"
    /\ Write("bind")
    /\ UNCHANGED <<auth, features, mech>>

FeaturesStartTLS(offer) ==
    /\ ReadFeatures(offer) /\ auth \notin {"SASL", "Bind", "StartTLS"}
    /\ features' = features \cup offer
    /\ "starttls" \in features'
    /\ auth' = "StartTLS"
    /\ Write("starttls")
    /\ UNCHANGED mech

(* Mutated: authentication starts whether or not TLS is offered. *)
FeaturesSASLAtOnce(offer) ==
    /\ ReadFeatures(offer) /\ auth \notin {"SASL", "Bind"}
    /\ features' = features \cup offer
    /\ auth' = "SASL"
    /\ IF Choose(features') = "none"
         THEN UNCHANGED <<mech, written>>
         ELSE BeginSASL(Choose(features'))

(* Without a mechanism nothing is written and nothing reported. *)
FeaturesSASL(offer) ==
    /\ ReadFeatures(offer) /\ auth \notin {"SASL", "Bind"}
    /\ features' = features \cup offer
    /\ auth = "StartTLS" \/ "starttls" \notin features'
    /\ auth' = "SASL"
    /\ IF Choose(features') = "none"
         THEN UNCHANGED <<mech, written>>
         ELSE BeginSASL(Choose(features'))

(* No new read after either. *)
ReadIgnored ==
    /\ IOReady /\ armed /\ net # "Connected"
    /\ armed' = FALSE
    /\ UNCHANGED <<connState, prev, net, tls, rds, written, thread, user, count>>

ReadError ==
    /\ CanRead
    /\ net' = "Error" /\ armed' = FALSE
    /\ GiveUp("ErrorUnknown", "idle")
    /\ UNCHANGED <<auth, features, mech, offered, verified, tls, rds, written, stopped, user, count>>

(* HandleWrite with an error. *)
WriteError ==
    /\ IOReady /\ net = "Connected"
    /\ net' = "Error"
    /\ GiveUp("ErrorUnknown", "idle")
    /\ UNCHANGED <<auth, features, mech, offered, verified, tls, rds, armed, written, stopped, user, count>>

-----------------------------------------------------------------------------
(* CheckStreamForValidXML: one action per document. *)

(* The head of the buffer is a document of one of these kinds, and is taken *)
Take(kinds) ==
    /\ io = "loop" /\ rds # <<>>
    /\ Head(rds).kind \in kinds
    /\ rds' = Tail(rds)

Docs == Documents \ {"bad"}

(* A text that delimits as XML and does not parse ends the loop. *)
UnparsableDoc ==
    /\ Take({"bad"})
    /\ io' = "tail"
    /\ UNCHANGED <<connState, prev, net, tls, armed, written, resume, stopped, user, count>>

(* States in which a document is thrown away. *)
DocIgnored ==
    /\ Take(Docs)
    /\ \/ cs \in Errors \cup {"WaitingForFeatures"}
       \/ cs = "Authenticating" /\ auth \in {"None", "Authenticated"}
    /\ UNCHANGED <<connState, prev, net, tls, armed, written, thread, user, count>>

(* Mutated: ConnectTLSSocket keeps what the plain stream has left. *)
TLSProceedKeepsBuffer ==
    /\ Take({"proceed"})
    /\ cs = "Authenticating" /\ auth = "StartTLS"
    /\ net' = "Upgrading" /\ tls' = TRUE
    /\ io' = "handshake"
    /\ UNCHANGED <<connState, prev, armed, written, resume, stopped, user, count>>

(* CheckForTLSProceed, InitTLS, ConnectTLSSocket up to the handshake: the   *)
(* buffer of the plain stream is cleared and left.                          *)
TLSProceed ==
    /\ io = "loop" /\ rds # <<>> /\ Head(rds).kind = "proceed"
    /\ cs = "Authenticating" /\ auth = "StartTLS"
    /\ rds' = <<>>
    /\ net' = "Upgrading" /\ tls' = TRUE
    /\ io' = "handshake"
    /\ UNCHANGED <<connState, prev, armed, written, resume, stopped, user, count>>

NoProceed ==
    /\ Take(Docs \ {"proceed"})
    /\ cs = "Authenticating" /\ auth = "StartTLS"
    /\ ReportAndGiveUp("ErrorUnknown", "loop")
    /\ UNCHANGED <<auth, features, mech, offered, verified, net, tls, armed, written, stopped, user, count>>

(* Mutated: InitTLS does not open the stream again. *)
HandshakeWithoutStream ==
    /\ io = "handshake"
    /\ net' = "Connected"
    /\ io' = "loop"
    /\ UNCHANGED <<connState, prev, tls, rds, armed, written, resume, stopped, user, count>>

HandshakeDone ==
    /\ io = "handshake"
    /\ net' = "Connected"
    /\ OpenXMPPStream(TRUE, TRUE)
    /\ io' = "loop"
    /\ UNCHANGED <<auth, features, mech, offered, verified, prev, tls, rds, armed, resume, stopped, user, count>>

HandshakeFailed ==
    /\ io = "handshake"
    /\ net' = "Error"
    /\ GiveUp("ErrorUnknown", "loop")
    /\ UNCHANGED <<auth, features, mech, offered, verified, tls, rds, armed, written, stopped, user, count>>

InSASL == cs = "Authenticating" /\ auth = "SASL"

(* Challenge answers; EXTERNAL and PLAIN have no answer. *)
SASLChallenge ==
    /\ InSASL /\ Take({"challenge"}) /\ mech # "none"
    /\ IF mech \in {"SCRAM-SHA-1", "DIGEST-MD5"} THEN Write("response") ELSE UNCHANGED written
    /\ UNCHANGED <<connState, prev, net, tls, armed, thread, user, count>>

(* Challenge throws what it cannot parse, out of io_service->run(). *)
SASLChallengeThrows ==
    /\ InSASL /\ Take({"challenge"}) /\ mech \in {"SCRAM-SHA-1", "DIGEST-MD5"}
    /\ ~Conforming
    /\ io' = "unwinding"
    /\ UNCHANGED <<connState, prev, net, tls, armed, written, resume, stopped, user, count>>

(* Authentication is dereferenced, null or not. *)
SASLNullMechanism ==
    /\ InSASL /\ Take({"challenge", "success"}) /\ mech = "none"
    /\ io' = "crashed"
    /\ UNCHANGED <<connState, prev, net, tls, armed, written, resume, stopped, user, count>>

(* Mutated: StartBind does not say that binding comes next. *)
SASLSuccessWithoutBind ==
    /\ InSASL /\ Take({"success"}) /\ mech # "none"
    /\ verified' = TRUE
    /\ auth' = "None"
    /\ OpenXMPPStream(net = "Connected", tls)
    /\ UNCHANGED <<features, mech, offered, prev, net, tls, armed, thread, user, count>>

(* Verify, StartBind and OpenXMPPStream. *)
SASLSuccess ==
    /\ InSASL /\ Take({"success"}) /\ mech # "none"
    /\ verified' = TRUE
    /\ auth' = "Bind"
    /\ OpenXMPPStream(net = "Connected", tls)
    /\ UNCHANGED <<features, mech, offered, prev, net, tls, armed, thread, user, count>>

(* A document that is neither, or a <success/> SCRAM cannot verify. *)
SASLFailure ==
    /\ InSASL
    /\ \/ Take(Docs \ {"challenge", "success"})
       \/ Take({"success"}) /\ mech = "SCRAM-SHA-1" /\ ~Conforming
    /\ ReportAndGiveUp("ErrorAuthenticating", "loop")
    /\ UNCHANGED <<auth, features, mech, offered, verified, net, tls, armed, written, stopped, user, count>>

BindReply ==
    /\ cs = "Authenticating" /\ auth = "Bind" /\ Take({"iq"})
    /\ Write("session")
    /\ cs' = "WaitingForSession" /\ auth' = "Authenticated"
    /\ UNCHANGED <<features, mech, offered, verified, prev, net, tls, armed, thread, user, count>>

SessionReply ==
    /\ cs = "WaitingForSession" /\ Take({"iq"})
    /\ Write("presence")
    /\ cs' = "Connected"
    /\ UNCHANGED <<auth, features, mech, offered, verified, prev, net, tls, armed, thread, user, count>>

NoReply ==
    /\ \/ cs = "Authenticating" /\ auth = "Bind"
       \/ cs = "WaitingForSession"
    /\ Take(Docs \ {"iq"})
    /\ ReportAndGiveUp("ErrorUnknown", "loop")
    /\ UNCHANGED <<auth, features, mech, offered, verified, net, tls, armed, written, stopped, user, count>>

(* Online: the first document reports Connected, stanzas go to callbacks. *)
OnlineDoc ==
    /\ cs = "Connected" /\ Take(Docs)
    /\ prev' = "Connected"
    /\ IF prev # "Connected" \/ Head(rds).kind \in {"iq", "stanza"}
         THEN io' = "callback" /\ resume' = [at |-> "loop", cs |-> "Connected"]
         ELSE UNCHANGED <<io, resume>>
    /\ UNCHANGED <<connState, net, tls, armed, written, stopped, user, count>>

(* No more documents: CheckForStreamEnd, then the next read. *)
LoopDone == \/ io = "tail"
            \/ io = "loop" /\ (rds # <<>> => Head(rds).kind = "end")

EndOfDocs ==
    /\ LoopDone
    /\ \A i \in DOMAIN rds : rds[i].kind # "end"
    /\ io' = "idle"
    /\ UNCHANGED <<connState, prev, client, resume, stopped, user, count>>

StreamEnd ==
    /\ LoopDone
    /\ \E i \in DOMAIN rds : rds[i].kind = "end"
    /\ rds' = <<>>
    /\ GiveUp("ErrorUnknown", "idle")
    /\ UNCHANGED <<auth, features, mech, offered, verified, net, tls, armed, written, stopped, user, count>>

-----------------------------------------------------------------------------
(* The application's callbacks, external, on the IO thread. *)

CallbackReturns ==
    /\ io = "callback"
    /\ io' = resume.at /\ cs' = resume.cs /\ resume' = NoResume
    /\ UNCHANGED <<auth, features, mech, offered, verified, prev, client, stopped, user, count>>

(* What leaves a callback leaves io_service->run(); Run catches it, but not *)
(* what leaves the callback Run makes itself.                               *)
Unwind ==
    /\ io' = IF resume.at = "ended" THEN "crashed" ELSE "unwinding"
    /\ resume' = NoResume

CallbackThrows ==
    /\ io = "callback"
    /\ Unwind
    /\ UNCHANGED <<connState, prev, client, stopped, user, count>>

(* Reconnect from a callback: the thread cannot join itself and throws. *)
CallbackReconnects ==
    /\ io = "callback" /\ count < MaxReconnects
    /\ count' = count + 1
    /\ Reset
    /\ stopped' = TRUE
    /\ Unwind
    /\ UNCHANGED <<cs, offered, verified, prev, client, user>>

(* Mutated: Run ends without a report. *)
RunReturnsSilently ==
    /\ io = "unwinding" \/ (io = "idle" /\ (stopped \/ ~armed))
    /\ io' = "ended"
    /\ UNCHANGED <<connState, prev, client, resume, stopped, user, count>>

(* io_service->run() has nothing left to run, was stopped, or threw. *)
RunReturns ==
    /\ io = "unwinding" \/ (io = "idle" /\ (stopped \/ ~armed))
    /\ Report("ErrorUnknown", "ended", cs)
    /\ UNCHANGED <<connState, client, stopped, user, count>>

-----------------------------------------------------------------------------
(* Reconnect, on an application thread. *)

(* A patient application reconnects only from what it was told: the first  *)
(* time, or once the attempt was reported online or failed.                *)
Reconnect ==
    /\ user = "free" /\ io # "crashed" /\ count < MaxReconnects
    /\ EarlyReconnect \/ count = -1 \/ prev # "Connecting"
    /\ count' = count + 1
    /\ Reset
    /\ user' = "stop"
    /\ UNCHANGED <<cs, offered, verified, prev, client, thread>>

(* Mutated: a new client inherits SSLConnection. *)
NewClientKeepsTLS ==
    /\ net' = "Disconnected" /\ rds' = <<>> /\ armed' = FALSE
    /\ written' = {} /\ offered' = {} /\ verified' = FALSE
    /\ UNCHANGED tls

(* A new AsyncTCPXMLClient, and its Reset. *)
NewClient ==
    /\ net' = "Disconnected" /\ tls' = FALSE /\ rds' = <<>> /\ armed' = FALSE
    /\ written' = {} /\ offered' = {} /\ verified' = FALSE

(* Mutated: Connect does not stop the io_service before it joins. *)
StopIOForgotten ==
    /\ user = "stop" /\ io # "crashed"
    /\ user' = "joining"
    /\ UNCHANGED <<connState, prev, client, thread, count>>

(* Mutated: Connect does not wait for the IO thread, or leaves the state    *)
(* last broadcast.                                                          *)
JoinIOForgotten ==
    /\ user = "joining"
    /\ mech' = "none"
    /\ NewClient
    /\ prev' = "Connecting"
    /\ stopped' = FALSE
    /\ user' = "connecting"
    /\ UNCHANGED <<cs, auth, features, io, resume, count>>

JoinIOKeepsReport ==
    /\ user = "joining" /\ io \in {"none", "ended"}
    /\ mech' = "none"
    /\ NewClient
    /\ stopped' = FALSE
    /\ user' = "connecting"
    /\ UNCHANGED <<cs, auth, features, prev, io, resume, count>>

(* Connect, in steps. *)
StopIO ==
    /\ user = "stop" /\ io # "crashed"
    /\ stopped' = TRUE
    /\ user' = "joining"
    /\ UNCHANGED <<connState, prev, client, io, resume, count>>

JoinIO ==
    /\ user = "joining" /\ io \in {"none", "ended"}
    /\ mech' = "none"
    /\ NewClient
    /\ prev' = "Connecting"
    /\ stopped' = FALSE
    /\ user' = "connecting"
    /\ UNCHANGED <<cs, auth, features, io, resume, count>>

ConnectDone ==
    /\ user = "connecting"
    /\ net' = "Connected" /\ armed' = TRUE
    /\ OpenXMPPStream(TRUE, FALSE)
    /\ io' = "idle"
    /\ user' = "free"
    /\ UNCHANGED <<auth, features, mech, offered, verified, prev, tls, rds, resume, stopped, count>>

ConnectFails ==
    /\ user = "connecting"
    /\ net' = "Error"
    /\ cs' = "ErrorConnecting" /\ prev' = "ErrorConnecting"
    /\ user' = "free"
    /\ UNCHANGED <<auth, features, mech, offered, verified, tls, rds, armed, written, thread, count>>

-----------------------------------------------------------------------------

Bursts == UNION {[1..n -> Tokens] : n \in 1..MaxBuffered}

ReadStep == \/ \E docs \in Bursts : Receive(docs)
            \/ \E offer \in Offers : \/ FeaturesIgnored(offer) \/ FeaturesBind(offer)
                                     \/ FeaturesStartTLS(offer) \/ FeaturesSASL(offer)

DocStep == \/ UnparsableDoc \/ DocIgnored \/ TLSProceed \/ NoProceed
           \/ SASLChallenge \/ SASLChallengeThrows \/ SASLNullMechanism
           \/ SASLSuccess \/ SASLFailure
           \/ BindReply \/ SessionReply \/ NoReply \/ OnlineDoc
           \/ EndOfDocs \/ StreamEnd

Handshake == HandshakeDone \/ HandshakeFailed

Callback == CallbackReturns \/ CallbackThrows \/ CallbackReconnects

ConnectStep == StopIO \/ JoinIO \/ ConnectDone \/ ConnectFails

Next == ReadStep \/ DocStep \/ Handshake \/ Callback \/ ReadIgnored \/ ReadError
          \/ WriteError \/ RunReturns \/ Reconnect \/ ConnectStep

SafeSpec == Init /\ [][Next]_vars

(* The IO thread goes on with what it has, a handshake is answered, a      *)
(* callback ends one way or another, and so does the call of Reconnect.    *)
Spec == SafeSpec /\ WF_vars(DocStep) /\ WF_vars(Handshake) /\ WF_vars(Callback)
                 /\ WF_vars(RunReturns) /\ WF_vars(ConnectStep)

(* Moreover the server answers. *)
AnsweredSpec == Spec /\ WF_vars(ReadStep)

-----------------------------------------------------------------------------

Wrote(what, secure) == [what |-> what, tls |-> secure] \in written

ConnectionStates == Negotiating \cup Errors \cup {"NotConnected", "Connected"}
AuthenticationStates == {"None", "StartTLS", "SASL", "Bind", "Authenticated"}
Reports == Errors \cup {"Connecting", "Connected"}
ClientStates == {"Disconnected", "Connected", "Upgrading", "Error"}
ReceivedDocuments == [kind : Tokens, secure : BOOLEAN]
Places == {"none", "idle", "loop", "tail", "handshake", "callback", "unwinding", "ended", "crashed"}
Continuations == [at : {"none", "idle", "loop", "ended"}, cs : ConnectionStates]
Calls == {"free", "stop", "joining", "connecting"}
Texts == [what : {"header", "starttls", "auth", "response", "bind", "session", "presence"},
          tls : BOOLEAN]

(* A client that never connected has nothing to read and nothing written.  *)
TypeOK ==
    /\ cs \in ConnectionStates /\ auth \in AuthenticationStates /\ prev \in Reports
    /\ features \subseteq Features /\ offered \subseteq Features
    /\ mech \in Mechanisms \cup {"none"}
    /\ net \in ClientStates
    /\ tls \in BOOLEAN /\ armed \in BOOLEAN /\ stopped \in BOOLEAN /\ verified \in BOOLEAN
    /\ rds \in Seq(ReceivedDocuments)
    /\ io \in Places /\ resume \in Continuations
    /\ user \in Calls /\ count \in Int
    /\ written \subseteq Texts
    /\ net = "Disconnected" => tls = FALSE /\ armed = FALSE /\ rds = <<>> /\ written = {}

(* A connection is online only after this very client authenticated, bound *)
(* a resource and opened a session, all on the stream now in use, with the  *)
(* server's <success/> verified: nothing is left over from an attempt       *)
(* before.  For an application that waits for a report before reconnecting. *)
OnlineMeansNegotiated ==
    cs = "Connected" /\ user # "connecting" =>
        /\ verified
        /\ \A step \in {"header", "auth", "bind", "session", "presence"} : Wrote(step, tls)

(* The mechanism in use is one this server announced to this client.  Left  *)
(* out: EXTERNAL, whose flag is neither initialised nor reset.              *)
MechanismWasOffered == mech \in offered \cup {"none", "EXTERNAL"}

(* What was received before the TLS handshake is never read after it. *)
NoPlainLeftovers == \A i \in DOMAIN rds : rds[i].secure = tls

(* Once the client failed, the IO thread ended or the connection gave up,   *)
(* the application was told, whatever way the IO thread left and whatever   *)
(* its callbacks did.                                                       *)
DeadIsReported ==
    /\ io = "ended" /\ user # "connecting" => prev \in Errors
    /\ cs \in Errors /\ user # "connecting" => prev \in Errors
    /\ net = "Error" => prev \in Errors

(* While it negotiates, the last state broadcast is Connecting: the calls  *)
(* that broadcast Connecting again never reach the application, which is   *)
(* why no action here makes a callback for them.                           *)
NegotiatingIsConnecting ==
    io \in {"idle", "loop", "handshake"} /\ cs \in Negotiating => prev = "Connecting"

(* One client logs in at most once: SASL never starts over on a client that *)
(* has sent its <auth/>.                                                    *)
AuthenticatesOnce ==
    [][auth' = "SASL" /\ auth # "SASL" =>
         \A secure \in BOOLEAN : ~Wrote("auth", secure)]_vars

(* Credentials never cross the bare stream of a server that has offered TLS *)
(* to this client, in these features or in earlier ones.                    *)
NoCredentialsBeforeTLS ==
    [][~Wrote("auth", FALSE) /\ Wrote("auth", FALSE)' => "starttls" \notin offered']_vars

Reported == INSTANCE ReportedState WITH reported <- prev

(* The application hears of one attempt after the other: none is online    *)
(* after an error or starts before the failure of the one before.           *)
ImplementsReportedState == Reported!Spec

(* Reconnect comes back: the thread it joins always ends. *)
ReconnectReturns == user # "free" ~> user = "free" \/ io = "crashed"

(* With a server that answers as it should, an attempt comes online or the  *)
(* application hears of a failure.                                          *)
AttemptEnds == cs = "WaitingForFeatures" ~>
    prev # "Connecting" \/ cs = "Connected" \/ user # "free" \/ io = "crashed"

(* SendStanza checks cs = "Connected" and promises an exception otherwise:  *)
(* "Trying to send Stanza with disconnected connection."                    *)
SendRefusedWhenDisconnected ==
    prev \in Errors /\ user = "free" => cs # "Connected"

-----------------------------------------------------------------------------
(* The inductive invariant behind DeadIsReported, NegotiatingIsConnecting   *)
(* and the safety of ImplementsReportedState.                               *)

(* Where the report stands before, between and after the IO threads.        *)
AttemptInv ==
    /\ user = "connecting" => io \in {"none", "ended"} /\ prev = "Connecting"
                                /\ net = "Disconnected"
    /\ io = "none" => prev \in {"Connecting", "ErrorConnecting"}
    /\ prev = "ErrorConnecting" => io \in {"none", "ended"}

(* A client that failed has a Connection that gave up, and that will still  *)
(* have when the callback running now returns.                              *)
FailedInv ==
    net = "Error" => cs \in Errors /\ (io = "callback" => resume.cs \in Errors)

(* What the IO thread knows of the report while it works.                   *)
LiveInv ==
    io \in {"idle", "loop", "tail", "handshake"} =>
        /\ cs \in Negotiating => prev = "Connecting"
        /\ cs = "Connected" => prev \notin Errors
        /\ io = "handshake" => cs = "Authenticating"

(* What it will know when it returns from a callback.                       *)
CallbackInv ==
    io = "callback" =>
        /\ resume.at \in {"idle", "loop", "ended"}
        /\ resume.cs \in Errors => prev \in Errors
        /\ IF resume.at = "ended"
              THEN prev \in Errors
              ELSE \/ resume.cs \in Errors
                   \/ resume.cs = "Connected" /\ prev = "Connected"

ReportInv == AttemptInv /\ FailedInv /\ LiveInv /\ CallbackInv /\ DeadIsReported

=============================================================================
