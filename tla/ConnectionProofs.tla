-------------------------- MODULE ConnectionProofs --------------------------
(***************************************************************************)
(* Theorems about Connection, for any servers, any number of attempts and  *)
(* of documents: first those that hold whenever the application reconnects,*)
(* then those of one that waits for a report (~EarlyReconnect).            *)
(***************************************************************************)
EXTENDS Connection, TLAPS

(* The documents of one read are typed, and marked with the stream they     *)
(* came by.                                                                 *)
LEMMA ReceivedType ==
  ASSUME tls \in BOOLEAN, NEW docs \in Bursts
  PROVE  /\ Received(docs) \in Seq(ReceivedDocuments)
         /\ \A i \in 1..Len(Received(docs)) : Received(docs)[i].secure = tls
<1>1. PICK n \in 1..MaxBuffered : docs \in [1..n -> Tokens]
  BY DEF Bursts
<1>2. n \in Nat
  BY <1>1
<1>3. Received(docs) = [i \in 1..n |-> [kind |-> docs[i], secure |-> tls]]
  BY <1>1 DEF Received
<1>4. Received(docs) \in [1..n -> ReceivedDocuments]
  BY <1>1, <1>3 DEF ReceivedDocuments
<1> QED
  BY <1>2, <1>3, <1>4

(* Concatenation keeps what holds of the elements. *)
LEMMA ConcatSecure ==
  ASSUME NEW s \in Seq(ReceivedDocuments), NEW r \in Seq(ReceivedDocuments), NEW v,
         \A i \in 1..Len(s) : s[i].secure = v,
         \A i \in 1..Len(r) : r[i].secure = v
  PROVE  s \o r \in Seq(ReceivedDocuments) /\ \A i \in DOMAIN (s \o r) : (s \o r)[i].secure = v
<1>1. Len(s) \in Nat /\ Len(r) \in Nat /\ s \o r \in Seq(ReceivedDocuments)
  OBVIOUS
<1>2. DOMAIN (s \o r) = 1..(Len(s) + Len(r))
  OBVIOUS
<1>3. ASSUME NEW i \in 1..(Len(s) + Len(r)) PROVE (s \o r)[i].secure = v
  <2>1. CASE i <= Len(s)
    <3>1. i \in 1..Len(s) /\ (s \o r)[i] = s[i]
      BY <1>1, <2>1
    <3> QED
      BY <3>1
  <2>2. CASE i > Len(s)
    <3>1. (i - Len(s)) \in 1..Len(r) /\ (s \o r)[i] = r[i - Len(s)]
      BY <1>1, <2>2
    <3> QED
      BY <3>1
  <2> QED
    BY <1>1, <2>1, <2>2
<1> QED
  BY <1>1, <1>2, <1>3

(* So does taking the first document. *)
LEMMA TailSecure ==
  ASSUME NEW s \in Seq(ReceivedDocuments), s # <<>>
  PROVE  /\ Tail(s) \in Seq(ReceivedDocuments) /\ Head(s) \in ReceivedDocuments
         /\ \A i \in DOMAIN Tail(s) : i + 1 \in DOMAIN s /\ Tail(s)[i] = s[i + 1]
OBVIOUS

-----------------------------------------------------------------------------
(* Types. *)

(* The values the actions assign are in the sets of TypeOK.                 *)
LEMMA Members ==
  /\ Errors \subseteq ConnectionStates /\ Errors \subseteq Reports
  /\ {"ErrorConnecting", "ErrorAuthenticating", "ErrorUnknown"} \subseteq Errors
  /\ {"NotConnected", "WaitingForFeatures", "Authenticating", "WaitingForSession", "Connected"}
        \subseteq ConnectionStates
  /\ {"Connecting", "Connected"} \subseteq Reports
  /\ \A p \in {"none", "idle", "loop", "ended"}, c \in ConnectionStates :
        [at |-> p, cs |-> c] \in Continuations
  /\ \A r \in Continuations : r.at \in Places /\ r.cs \in ConnectionStates
  /\ NoResume \in Continuations
  /\ \A w \in {"header", "starttls", "auth", "response", "bind", "session", "presence"},
        b \in BOOLEAN : [what |-> w, tls |-> b] \in Texts
BY DEF Errors, Negotiating, ConnectionStates, Reports, Continuations, Places, NoResume, Texts

(* Create leaves every variable with its type. *)
LEMMA TypeInit == Init => TypeOK
<1> SUFFICES ASSUME Init PROVE TypeOK
  OBVIOUS
<1> USE DEF Init
<1>1. features \subseteq Features
  BY DEF Features, Mechanisms
<1>2. rds \in Seq(ReceivedDocuments)
  OBVIOUS
<1>3. /\ auth \in AuthenticationStates /\ net \in ClientStates /\ io \in Places /\ user \in Calls
      /\ count \in Int
  BY DEF AuthenticationStates, ClientStates, Places, Calls
<1> QED
  BY <1>1, <1>2, <1>3, Members DEF TypeOK

(* A report keeps the types. *)
LEMMA ReportType ==
  ASSUME TypeOK, NEW s \in Errors, NEW place \in {"idle", "loop", "ended"},
         NEW after \in ConnectionStates, Report(s, place, after)
  PROVE  prev' \in Reports /\ io' \in Places /\ resume' \in Continuations
<1>1. [at |-> place, cs |-> after] \in Continuations
  BY Members
<1> QED
  BY <1>1, Members DEF Report, TypeOK, Places

(* Every step keeps the types, and a client not yet connected untouched.    *)
LEMMA TypeStep ==
  ASSUME TypeOK, [Next]_vars PROVE TypeOK'
<1> USE Members DEF TypeOK, connState, client, thread
<1>1. ASSUME NEW docs \in Bursts, Receive(docs) PROVE TypeOK'
  <2>1. rds \o Received(docs) \in Seq(ReceivedDocuments)
    BY ReceivedType
  <2>2. net = "Connected"
    BY <1>1 DEF Receive, CanRead
  <2> QED
    BY <1>1, <2>1, <2>2 DEF Receive, Places
<1>2. ASSUME NEW offer \in Offers, ReadFeatures(offer),
             mech' \in Mechanisms \cup {"none"}, auth' \in AuthenticationStates,
             features' \subseteq Features, written' \subseteq Texts
      PROVE  TypeOK'
  <2>1. offer \subseteq Features
    BY ConnectionAssumption DEF ConnectionAssumption
  <2> QED
    BY <1>2, <2>1 DEF ReadFeatures, CanRead
<1>3. ASSUME NEW offer \in Offers,
             FeaturesIgnored(offer) \/ FeaturesBind(offer) \/ FeaturesStartTLS(offer)
               \/ FeaturesSASL(offer)
      PROVE  TypeOK'
  <2>1. ReadFeatures(offer)
    BY <1>3 DEF FeaturesIgnored, FeaturesBind, FeaturesStartTLS, FeaturesSASL
  <2>2. features \cup offer \subseteq Features
    BY ConnectionAssumption DEF ConnectionAssumption
  <2>3. Choose(features \cup offer) \in Mechanisms \cup {"none"}
    BY DEF Choose, Mechanisms
  <2>4. /\ features' \subseteq Features /\ mech' \in Mechanisms \cup {"none"}
        /\ auth' \in AuthenticationStates
    BY <1>3, <2>2, <2>3
    DEF FeaturesIgnored, FeaturesBind, FeaturesStartTLS, FeaturesSASL, BeginSASL, AuthenticationStates
  <2>5. written' \subseteq Texts
    BY <1>3
    DEF FeaturesIgnored, FeaturesBind, FeaturesStartTLS, FeaturesSASL, BeginSASL, Write
  <2> QED
    BY <1>2, <2>1, <2>4, <2>5
<1>4. CASE ReadIgnored
  BY <1>4 DEF ReadIgnored
<1>5. CASE ReadError \/ WriteError
  <2>1. prev' \in Reports /\ io' \in Places /\ resume' \in Continuations /\ cs' \in ConnectionStates
    BY <1>5, ReportType DEF ReadError, WriteError, GiveUp
  <2> QED
    BY <1>5, <2>1 DEF ReadError, WriteError, CanRead, ClientStates
<1>6. ASSUME NEW kinds, Take(kinds)
      PROVE  rds' \in Seq(ReceivedDocuments) /\ net # "Disconnected"
  BY <1>6, TailSecure DEF Take
<1>7. CASE DocStep
  <2>1. CASE UnparsableDoc \/ DocIgnored \/ SASLChallengeThrows \/ SASLNullMechanism
    BY <1>6, <2>1 DEF UnparsableDoc, DocIgnored, SASLChallengeThrows, SASLNullMechanism, Places
  <2>2. CASE TLSProceed
    BY <2>2 DEF TLSProceed, Places, ClientStates
  <2>3. CASE NoProceed \/ NoReply \/ SASLFailure
    <3>1. prev' \in Reports /\ io' \in Places /\ resume' \in Continuations /\ cs' \in ConnectionStates
      BY <2>3, ReportType DEF NoProceed, NoReply, SASLFailure, ReportAndGiveUp
    <3> QED
      BY <1>6, <2>3, <3>1 DEF NoProceed, NoReply, SASLFailure
  <2>4. CASE SASLChallenge \/ SASLSuccess \/ BindReply \/ SessionReply
    <3>1. written' \subseteq Texts
      BY <2>4 DEF SASLChallenge, SASLSuccess, BindReply, SessionReply, Write, OpenXMPPStream
    <3>2. cs' \in ConnectionStates /\ auth' \in AuthenticationStates
      BY <2>4 DEF SASLChallenge, SASLSuccess, BindReply, SessionReply, OpenXMPPStream, AuthenticationStates
    <3> QED
      BY <1>6, <2>4, <3>1, <3>2 DEF SASLChallenge, SASLSuccess, BindReply, SessionReply
  <2>5. CASE OnlineDoc
    <3>1. io' \in Places /\ resume' \in Continuations
      BY <2>5 DEF OnlineDoc, Places
    <3> QED
      BY <1>6, <2>5, <3>1 DEF OnlineDoc
  <2>6. CASE EndOfDocs
    BY <2>6 DEF EndOfDocs, Places
  <2>7. CASE StreamEnd
    <3>1. prev' \in Reports /\ io' \in Places /\ resume' \in Continuations /\ cs' \in ConnectionStates
      BY <2>7, ReportType DEF StreamEnd, GiveUp
    <3> QED
      BY <2>7, <3>1 DEF StreamEnd
  <2> QED
    BY <1>7, <2>1, <2>2, <2>3, <2>4, <2>5, <2>6, <2>7 DEF DocStep
<1>8. CASE HandshakeDone
  BY <1>8 DEF HandshakeDone, OpenXMPPStream, Places, ClientStates
<1>9. CASE HandshakeFailed
  <2>1. prev' \in Reports /\ io' \in Places /\ resume' \in Continuations /\ cs' \in ConnectionStates
    BY <1>9, ReportType DEF HandshakeFailed, GiveUp
  <2> QED
    BY <1>9, <2>1 DEF HandshakeFailed, ClientStates
<1>10. CASE Callback
  <2>1. io' \in Places /\ resume' \in Continuations /\ cs' \in ConnectionStates
    BY <1>10 DEF Callback, CallbackReturns, CallbackThrows, CallbackReconnects, Unwind, Places
  <2>2. /\ auth' \in AuthenticationStates /\ features' \subseteq Features
        /\ mech' \in Mechanisms \cup {"none"}
    <3>1. CASE CallbackReturns \/ CallbackThrows
      BY <3>1 DEF CallbackReturns, CallbackThrows
    <3>2. CASE CallbackReconnects
      BY <3>2 DEF CallbackReconnects, Reset, AuthenticationStates
    <3> QED
      BY <1>10, <3>1, <3>2 DEF Callback
  <2>3. UNCHANGED <<offered, verified, prev, client, user>>
    BY <1>10 DEF Callback, CallbackReturns, CallbackThrows, CallbackReconnects
  <2>4. /\ count' = count \/ count' = count + 1
        /\ stopped' = stopped \/ stopped' = TRUE
    BY <1>10, Zenon DEF Callback, CallbackReturns, CallbackThrows, CallbackReconnects
  <2>5. count' \in Int
    BY <2>4
  <2>6. stopped' \in BOOLEAN
    BY <2>4, Zenon
  <2> QED
    BY <2>1, <2>2, <2>3, <2>5, <2>6
<1>11. CASE RunReturns
  <2>1. prev' \in Reports /\ io' \in Places /\ resume' \in Continuations
    BY <1>11, ReportType DEF RunReturns
  <2> QED
    BY <1>11, <2>1 DEF RunReturns
<1>12. CASE Reconnect
  <2>1. features' \subseteq Features /\ auth' \in AuthenticationStates /\ user' \in Calls /\ count' \in Int
    BY <1>12 DEF Reconnect, Reset, AuthenticationStates, Calls
  <2> QED
    BY <1>12, <2>1 DEF Reconnect, Reset
<1>13. CASE StopIO
  BY <1>13 DEF StopIO, Calls
<1>14. CASE JoinIO
  <2>1. rds' \in Seq(ReceivedDocuments)
    BY <1>14 DEF JoinIO, NewClient
  <2> QED
    BY <1>14, <2>1 DEF JoinIO, NewClient, Calls, ClientStates
<1>15. CASE ConnectDone
  <2>1. written' \subseteq Texts
    BY <1>15 DEF ConnectDone, OpenXMPPStream
  <2> QED
    BY <1>15, <2>1 DEF ConnectDone, OpenXMPPStream, Calls, ClientStates, Places
<1>16. CASE ConnectFails
  BY <1>16 DEF ConnectFails, Calls, ClientStates
<1>17. CASE UNCHANGED vars
  BY <1>17 DEF vars
<1> QED
  BY <1>1, <1>3, <1>4, <1>5, <1>7, <1>8, <1>9, <1>10, <1>11, <1>12, <1>13, <1>14, <1>15, <1>16, <1>17
  DEF Next, ReadStep, Handshake, ConnectStep

(* Every variable of a Connection and its client keeps its type.            *)
THEOREM TypeCorrect == SafeSpec => []TypeOK
BY TypeInit, TypeStep, PTL DEF SafeSpec

-----------------------------------------------------------------------------
(* What was received in the clear. *)

(* Every step keeps NoPlainLeftovers. *)
LEMMA SecureStep ==
  ASSUME TypeOK, NoPlainLeftovers, [Next]_vars PROVE NoPlainLeftovers'
<1> USE DEF NoPlainLeftovers, TypeOK, connState, client, thread
<1>1. ASSUME UNCHANGED <<rds, tls>> PROVE NoPlainLeftovers'
  BY <1>1
<1>2. ASSUME rds' = <<>> PROVE NoPlainLeftovers'
  BY <1>2
<1>3. ASSUME NEW kinds, Take(kinds), tls' = tls PROVE NoPlainLeftovers'
  BY <1>3, TailSecure DEF Take
<1>4. ASSUME NEW docs \in Bursts, Receive(docs) PROVE NoPlainLeftovers'
  <2>1. \A i \in DOMAIN (rds \o Received(docs)) : (rds \o Received(docs))[i].secure = tls
    BY ReceivedType, ConcatSecure
  <2> QED
    BY <1>4, <2>1 DEF Receive
<1>5. ASSUME NEW offer \in Offers,
             FeaturesIgnored(offer) \/ FeaturesBind(offer) \/ FeaturesStartTLS(offer)
               \/ FeaturesSASL(offer)
      PROVE  rds' = <<>>
  BY <1>5 DEF FeaturesIgnored, FeaturesBind, FeaturesStartTLS, FeaturesSASL, ReadFeatures
<1>6. CASE TLSProceed \/ StreamEnd \/ JoinIO
  BY <1>2, <1>6 DEF TLSProceed, StreamEnd, JoinIO, NewClient
<1>7. CASE UnparsableDoc \/ DocIgnored \/ NoProceed \/ SASLChallenge \/ SASLChallengeThrows
             \/ SASLNullMechanism \/ SASLSuccess \/ SASLFailure \/ BindReply \/ SessionReply
             \/ NoReply \/ OnlineDoc
  <2>1. tls' = tls /\ \E kinds \in SUBSET Documents : Take(kinds)
    BY <1>7
    DEF UnparsableDoc, DocIgnored, NoProceed, SASLChallenge, SASLChallengeThrows,
        SASLNullMechanism, SASLSuccess, SASLFailure, BindReply, SessionReply, NoReply,
        OnlineDoc, Docs, Documents
  <2> QED
    BY <1>3, <2>1
<1>8. CASE ReadIgnored \/ ReadError \/ WriteError \/ EndOfDocs \/ HandshakeDone \/ HandshakeFailed
             \/ RunReturns \/ Reconnect \/ StopIO \/ ConnectDone \/ ConnectFails
  BY <1>1, <1>8
  DEF ReadIgnored, ReadError, WriteError, EndOfDocs, HandshakeDone, HandshakeFailed, RunReturns,
      Reconnect, StopIO, ConnectDone, ConnectFails
<1>9. CASE Callback
  BY <1>1, <1>9 DEF Callback, CallbackReturns, CallbackThrows, CallbackReconnects
<1>10. CASE UNCHANGED vars
  BY <1>1, <1>10 DEF vars
<1> QED
  BY <1>2, <1>4, <1>5, <1>6, <1>7, <1>8, <1>9, <1>10
  DEF Next, ReadStep, DocStep, Handshake, ConnectStep

(* No document that came over the bare stream is read once TLS is on.       *)
THEOREM NothingPlainIsReadSecure == SafeSpec => []NoPlainLeftovers
<1>1. Init => NoPlainLeftovers
  BY DEF Init, NoPlainLeftovers
<1> QED
  BY <1>1, SecureStep, TypeCorrect, PTL DEF SafeSpec

-----------------------------------------------------------------------------
(* What the application is told. *)

(* Every step keeps ReportInv: a failure is assigned and reported, or will  *)
(* be when the callback that reports it returns.                            *)
LEMMA ReportStep == ASSUME TypeOK, ReportInv, [Next]_vars PROVE ReportInv'
<1> USE DEF ReportInv, AttemptInv, FailedInv, LiveInv, CallbackInv, DeadIsReported,
            Errors, Negotiating, connState, client, thread
<1>1. ASSUME UNCHANGED <<cs, prev, net, io, resume, user>> PROVE ReportInv'
  BY <1>1
(* The application's threads, while the IO thread stands still. *)
<1>2. CASE Reconnect \/ StopIO
  BY <1>2 DEF Reconnect, StopIO
<1>3. CASE JoinIO
  BY <1>3 DEF JoinIO, NewClient
<1>4. CASE ConnectDone
  BY <1>4 DEF ConnectDone, OpenXMPPStream
<1>5. CASE ConnectFails
  BY <1>5 DEF ConnectFails
(* The IO thread reads. *)
<1>6. ASSUME NEW docs \in Bursts, Receive(docs) PROVE ReportInv'
  BY <1>6 DEF Receive, CanRead, IOReady
<1>7. ASSUME NEW offer \in Offers,
             FeaturesIgnored(offer) \/ FeaturesBind(offer) \/ FeaturesStartTLS(offer)
               \/ FeaturesSASL(offer)
      PROVE  ReportInv'
  <2>1. ReadFeatures(offer)
    BY <1>7 DEF FeaturesIgnored, FeaturesBind, FeaturesStartTLS, FeaturesSASL
  <2> QED
    BY <2>1 DEF ReadFeatures, CanRead, IOReady
<1>8. CASE ReadIgnored
  BY <1>1, <1>8 DEF ReadIgnored
<1>9. CASE ReadError \/ WriteError
  BY <1>9 DEF ReadError, WriteError, GiveUp, Report, CanRead, IOReady
(* It handles a document. *)
<1>10. CASE UnparsableDoc \/ SASLChallengeThrows \/ SASLNullMechanism
  BY <1>10 DEF UnparsableDoc, SASLChallengeThrows, SASLNullMechanism, Take
<1>11. CASE DocIgnored \/ SASLChallenge
  BY <1>1, <1>11 DEF DocIgnored, SASLChallenge
<1>12. CASE TLSProceed
  BY <1>12 DEF TLSProceed
<1>13. CASE NoProceed \/ NoReply \/ SASLFailure
  BY <1>13 DEF NoProceed, NoReply, SASLFailure, InSASL, ReportAndGiveUp, Report, Take
<1>14. CASE SASLSuccess \/ BindReply \/ SessionReply
  BY <1>14 DEF SASLSuccess, BindReply, SessionReply, InSASL, OpenXMPPStream, Take
<1>15. CASE OnlineDoc
  BY <1>15 DEF OnlineDoc, Take
<1>16. CASE EndOfDocs
  BY <1>16 DEF EndOfDocs, LoopDone
<1>17. CASE StreamEnd
  BY <1>17 DEF StreamEnd, LoopDone, GiveUp, Report
<1>18. CASE HandshakeDone
  BY <1>18 DEF HandshakeDone, OpenXMPPStream
<1>19. CASE HandshakeFailed
  BY <1>19 DEF HandshakeFailed, GiveUp, Report
(* It is in a callback, or leaves. *)
<1>20. CASE CallbackReturns
  BY <1>20 DEF CallbackReturns
<1>21. CASE CallbackThrows \/ CallbackReconnects
  BY <1>21 DEF CallbackThrows, CallbackReconnects, Unwind
<1>22. CASE RunReturns
  BY <1>22 DEF RunReturns, Report
<1>23. CASE UNCHANGED vars
  BY <1>1, <1>23 DEF vars
<1> QED
  BY <1>2, <1>3, <1>4, <1>5, <1>6, <1>7, <1>8, <1>9, <1>10, <1>11, <1>12, <1>13, <1>14,
     <1>15, <1>16, <1>17, <1>18, <1>19, <1>20, <1>21, <1>22, <1>23
  DEF Next, ReadStep, DocStep, Handshake, Callback, ConnectStep

(* At any moment of any run the application's view, the Connection's state  *)
(* and the client's are related as ReportInv says.                          *)
THEOREM ReportInvariance == SafeSpec => []ReportInv
<1>1. Init => ReportInv
  BY DEF Init, NoResume, ReportInv, AttemptInv, FailedInv, LiveInv, CallbackInv, DeadIsReported,
         Errors, Negotiating
<1> QED
  BY <1>1, ReportStep, TypeCorrect, PTL DEF SafeSpec

(* A client that failed, an IO thread that ended or a Connection that gave  *)
(* up was reported through BrodcastConnectionState, whatever the callbacks  *)
(* threw.                                                                   *)
THEOREM FailuresAreReported == SafeSpec => []DeadIsReported
BY ReportInvariance, PTL DEF ReportInv

(* The Connecting that CheckStreamForValidXML broadcasts before each        *)
(* document of the negotiation is the state last broadcast, so that it is   *)
(* never a callback.                                                        *)
THEOREM NegotiationIsConnecting == SafeSpec => []NegotiatingIsConnecting
<1>1. ReportInv => NegotiatingIsConnecting
  BY DEF ReportInv, LiveInv, NegotiatingIsConnecting
<1> QED
  BY <1>1, ReportInvariance, PTL

(* Every step of the Connection is one of the application's view, or leaves *)
(* it alone.                                                                *)
LEMMA ReportedStep ==
  ASSUME TypeOK, ReportInv, [Next]_vars PROVE [Reported!Next]_prev
<1> USE DEF connState, client, thread
<1> prev \in Errors \cup {"Connecting", "Connected"}
  BY DEF TypeOK, Reports
<1>1. ASSUME UNCHANGED prev PROVE [Reported!Next]_prev
  BY <1>1
(* ErrorUnknown may follow ErrorAuthenticating, never ErrorConnecting. *)
<1>2. ASSUME prev' = "ErrorUnknown", io \notin {"none", "ended"} PROVE [Reported!Next]_prev
  <2>1. prev # "ErrorConnecting"
    BY <1>2 DEF ReportInv, AttemptInv
  <2> QED
    BY <1>2, <2>1 DEF Errors, Reported!Next, Reported!Failed, Reported!Ended, Reported!Errors
<1>3. CASE ReadError \/ WriteError \/ StreamEnd \/ HandshakeFailed
  BY <1>2, <1>3
  DEF ReadError, WriteError, CanRead, IOReady, StreamEnd, LoopDone, HandshakeFailed, GiveUp, Report
<1>4. CASE NoProceed \/ NoReply
  BY <1>2, <1>4 DEF NoProceed, NoReply, Take, ReportAndGiveUp, Report
<1>5. CASE RunReturns
  BY <1>2, <1>5 DEF RunReturns, Report
<1>6. CASE SASLFailure
  <2>1. prev = "Connecting" /\ prev' = "ErrorAuthenticating"
    BY <1>6
    DEF SASLFailure, InSASL, Take, ReportAndGiveUp, Report, ReportInv, LiveInv, Negotiating
  <2> QED
    BY <2>1 DEF Reported!Next, Reported!Failed, Reported!Errors
<1>7. CASE OnlineDoc
  <2>1. prev \in {"Connecting", "Connected"} /\ prev' = "Connected"
    BY <1>7 DEF OnlineDoc, Take, ReportInv, LiveInv
  <2> QED
    BY <2>1 DEF Reported!Next, Reported!Online
<1>8. CASE JoinIO
  <2>1. prev \in Errors \cup {"Connecting"} /\ prev' = "Connecting"
    BY <1>8 DEF JoinIO, ReportInv, AttemptInv, DeadIsReported, Errors
  <2> QED
    BY <2>1 DEF Errors, Reported!Next, Reported!NewAttempt, Reported!Errors
<1>9. CASE ConnectFails
  <2>1. prev = "Connecting" /\ prev' = "ErrorConnecting"
    BY <1>9 DEF ConnectFails, ReportInv, AttemptInv
  <2> QED
    BY <2>1 DEF Reported!Next, Reported!Failed, Reported!Errors
(* The steps that report nothing. *)
<1>10. CASE ReadStep \/ ReadIgnored
  BY <1>1, <1>10
  DEF ReadStep, Receive, FeaturesIgnored, FeaturesBind, FeaturesStartTLS, FeaturesSASL,
      ReadFeatures, ReadIgnored
<1>11. CASE UnparsableDoc \/ DocIgnored \/ TLSProceed \/ SASLChallenge \/ SASLChallengeThrows
              \/ SASLNullMechanism \/ SASLSuccess \/ BindReply \/ SessionReply \/ EndOfDocs
  BY <1>1, <1>11
  DEF UnparsableDoc, DocIgnored, TLSProceed, SASLChallenge, SASLChallengeThrows,
      SASLNullMechanism, SASLSuccess, BindReply, SessionReply, EndOfDocs
<1>12. CASE HandshakeDone \/ Callback
  BY <1>1, <1>12
  DEF HandshakeDone, Callback, CallbackReturns, CallbackThrows, CallbackReconnects
<1>13. CASE Reconnect \/ StopIO \/ ConnectDone
  BY <1>1, <1>13 DEF Reconnect, StopIO, ConnectDone
<1>14. CASE UNCHANGED vars
  BY <1>1, <1>14 DEF vars
<1> QED
  BY <1>3, <1>4, <1>5, <1>6, <1>7, <1>8, <1>9, <1>10, <1>11, <1>12, <1>13, <1>14
  DEF Next, DocStep, Handshake, ConnectStep

(* The application hears of one attempt after the other, whatever the       *)
(* server, the callbacks and the thread in Reconnect do: the Connection     *)
(* implements ReportedState.                                                *)
THEOREM ReportRefinement == SafeSpec => ImplementsReportedState
<1>1. Init => Reported!Init
  BY DEF Init, Reported!Init
<1>2. TypeOK /\ ReportInv /\ [Next]_vars => [Reported!Next]_prev
  BY ReportedStep
<1> QED
  BY <1>1, <1>2, TypeCorrect, ReportInvariance, PTL DEF SafeSpec, ImplementsReportedState, Reported!Spec
-----------------------------------------------------------------------------
(* An application that waits for a report before it reconnects.            *)

(* The IO thread is inside io_service->run(), and in no callback.           *)
Live == io \in {"idle", "loop", "tail", "handshake"}

(* What Reset and Init leave behind.                                        *)
Fresh == auth = "None" /\ mech = "none" /\ features \subseteq {"EXTERNAL"}

(* No <auth/> went to this client, and these texts did on the stream in use. *)
NoCredentials == \A secure \in BOOLEAN : ~Wrote("auth", secure)
WroteUpTo(steps) == \A step \in steps : Wrote(step, tls)

(* What Reconnect and the steps of Connect rely on: until the new attempt   *)
(* the old IO thread does nothing to what Reset has cleared.                *)
ReconnectInv ==
    /\ count >= -1 /\ (count = -1 => io = "none" /\ user = "free")
    /\ user # "free" => Fresh
    /\ user = "connecting" => offered = {}
    /\ user \in {"stop", "joining"} => io = "none" \/ prev # "Connecting"

(* The client while the IO thread works.                                    *)
ClientInv ==
    /\ Live \/ (io = "callback" /\ resume.at # "ended") => net # "Disconnected"
    /\ Live /\ cs \in Negotiating => net = IF io = "handshake" THEN "Upgrading" ELSE "Connected"

(* What is remembered of the features was announced to this client.         *)
OfferedInv == features \subseteq offered \cup {"EXTERNAL"}

(* How far the negotiation is, by the two states of the Connection.         *)
FeaturesInv ==
    Live /\ cs = "WaitingForFeatures" =>
        /\ auth \in {"None", "StartTLS", "Bind"}
        /\ WroteUpTo({"header"})
        /\ auth = "None" => offered = {} /\ mech = "none" /\ NoCredentials
        /\ auth = "StartTLS" => tls /\ mech = "none" /\ NoCredentials
        /\ auth = "Bind" => verified /\ WroteUpTo({"auth"})

AuthenticatingInv ==
    Live /\ cs = "Authenticating" =>
        /\ auth \in {"StartTLS", "SASL", "Bind"}
        /\ auth = "StartTLS" => mech = "none" /\ NoCredentials
        /\ io = "handshake" => tls
        /\ auth # "StartTLS" => io # "handshake" /\ WroteUpTo({"header"})
        /\ auth = "SASL" /\ mech # "none" => WroteUpTo({"auth"})
        /\ auth = "Bind" => verified /\ WroteUpTo({"auth", "bind"})

SessionInv ==
    Live /\ cs = "WaitingForSession" =>
        verified /\ io # "handshake" /\ WroteUpTo({"header", "auth", "bind", "session"})

(* A callback of a Connection that is online returns to one that still is.  *)
OnlineInv ==
    /\ io = "callback" /\ resume.cs = "Connected" => cs = "Connected"
    /\ OnlineMeansNegotiated

(* What holds of an application that waits for a report before it reconnects. *)
PatientInv ==
    /\ ReconnectInv /\ ClientInv /\ OfferedInv
    /\ FeaturesInv /\ AuthenticatingInv /\ SessionInv /\ OnlineInv
    /\ MechanismWasOffered

(* Every step keeps PatientInv: the negotiation moves on with the stream,    *)
(* and Reset and NewClient clear what belongs to the attempt before.        *)
LEMMA PatientStep ==
  ASSUME ~EarlyReconnect, TypeOK, ReportInv, PatientInv, [Next]_vars PROVE PatientInv'
<1> USE DEF PatientInv, ReconnectInv, Fresh, NoCredentials, WroteUpTo, Wrote, ClientInv, OfferedInv,
            FeaturesInv, AuthenticatingInv, SessionInv, OnlineInv, OnlineMeansNegotiated,
            MechanismWasOffered, Live, Negotiating, Errors, connState, client, thread
<1> USE DEF ReportInv, AttemptInv, FailedInv, LiveInv, CallbackInv
(* An application that waits for a report does not reconnect meanwhile. *)
<1>0. Live /\ cs \in Negotiating => user = "free"
  BY DEF TypeOK, Calls
<1>1. CASE Reconnect
  BY <1>1 DEF Reconnect, Reset, TypeOK
<1>2. CASE StopIO
  BY <1>2 DEF StopIO
<1>3. CASE JoinIO
  BY <1>3 DEF JoinIO, NewClient, TypeOK
<1>4. CASE ConnectDone
  BY <1>4 DEF ConnectDone, OpenXMPPStream, TypeOK
<1>5. CASE ConnectFails
  BY <1>5 DEF ConnectFails
<1>6. ASSUME NEW docs \in Bursts, Receive(docs) PROVE PatientInv'
  BY <1>6 DEF Receive, CanRead, IOReady
<1>7. ASSUME NEW offer \in Offers, FeaturesIgnored(offer) PROVE PatientInv'
  BY <1>7 DEF FeaturesIgnored, ReadFeatures, CanRead, IOReady
<1>8. ASSUME NEW offer \in Offers, FeaturesBind(offer) PROVE PatientInv'
  BY <1>8 DEF FeaturesBind, ReadFeatures, CanRead, IOReady, Write
<1>9. ASSUME NEW offer \in Offers, FeaturesStartTLS(offer) PROVE PatientInv'
  <2>1. /\ io = "idle" /\ net = "Connected" /\ cs = "WaitingForFeatures" /\ auth = "None"
        /\ cs' = "Authenticating" /\ auth' = "StartTLS" /\ mech' = mech
        /\ features' = features \cup offer /\ offered' = offered \cup offer
        /\ written' = written \cup {[what |-> "starttls", tls |-> tls]}
        /\ UNCHANGED <<prev, net, tls, verified, io, resume, user, count>>
    BY <1>9 DEF FeaturesStartTLS, ReadFeatures, CanRead, IOReady, Write
  <2>2. ReconnectInv' /\ ClientInv' /\ OfferedInv' /\ MechanismWasOffered'
    BY <1>0, <2>1
  <2>3. NoCredentials'
    BY <2>1
  <2>4. FeaturesInv' /\ AuthenticatingInv' /\ SessionInv' /\ OnlineInv'
    BY <2>1, <2>3
  <2> QED
    BY <2>2, <2>4
<1>10. ASSUME NEW offer \in Offers, FeaturesSASL(offer) PROVE PatientInv'
  <2>1. /\ io = "idle" /\ net = "Connected" /\ cs = "WaitingForFeatures"
        /\ auth \in {"None", "StartTLS"} /\ cs' = "Authenticating" /\ auth' = "SASL"
        /\ features' = features \cup offer /\ offered' = offered \cup offer
        /\ mech' = IF Choose(features') = "none" THEN mech ELSE Choose(features')
        /\ written' = IF Choose(features') = "none" THEN written
                       ELSE written \cup {[what |-> "auth", tls |-> tls]}
        /\ UNCHANGED <<prev, net, tls, verified, io, resume, user, count>>
    BY <1>10 DEF FeaturesSASL, ReadFeatures, CanRead, IOReady, Write, BeginSASL
  <2>2. mech = "none" /\ WroteUpTo({"header"})
    BY <2>1
  <2>3. mech' \in features' \cup {"none"}
    BY <2>1, <2>2 DEF Choose
  <2>4. ReconnectInv' /\ ClientInv' /\ OfferedInv'
    BY <1>0, <2>1
  <2>5. MechanismWasOffered'
    BY <2>3, <2>4
  <2>6. AuthenticatingInv'
    BY <2>1, <2>2
  <2>7. FeaturesInv' /\ SessionInv' /\ OnlineInv'
    BY <2>1
  <2> QED
    BY <2>4, <2>5, <2>6, <2>7
<1>11. CASE ReadIgnored
  BY <1>11 DEF ReadIgnored
<1>12. CASE ReadError \/ WriteError
  BY <1>12 DEF ReadError, WriteError, GiveUp, Report, CanRead, IOReady
<1>13. CASE UnparsableDoc \/ SASLChallengeThrows \/ SASLNullMechanism
  BY <1>13 DEF UnparsableDoc, SASLChallengeThrows, SASLNullMechanism, Take
<1>14. CASE DocIgnored
  BY <1>14 DEF DocIgnored
<1>15. CASE SASLChallenge
  BY <1>15 DEF SASLChallenge, Write
<1>16. CASE TLSProceed
  BY <1>16 DEF TLSProceed
<1>17. CASE NoProceed \/ NoReply \/ SASLFailure
  BY <1>17 DEF NoProceed, NoReply, SASLFailure, InSASL, ReportAndGiveUp, Report, Take
<1>18. CASE SASLSuccess
  BY <1>18 DEF SASLSuccess, InSASL, OpenXMPPStream, Take
<1>19. CASE BindReply
  BY <1>19 DEF BindReply, Write, Take
<1>20. CASE SessionReply
  BY <1>20 DEF SessionReply, Write, Take
<1>21. CASE OnlineDoc
  BY <1>21 DEF OnlineDoc, Take
<1>22. CASE EndOfDocs
  BY <1>22 DEF EndOfDocs, LoopDone
<1>23. CASE StreamEnd
  BY <1>23 DEF StreamEnd, LoopDone, GiveUp, Report
<1>24. CASE HandshakeDone
  BY <1>24 DEF HandshakeDone, OpenXMPPStream
<1>25. CASE HandshakeFailed
  BY <1>25 DEF HandshakeFailed, GiveUp, Report
<1>26. CASE CallbackReturns
  BY <1>26 DEF CallbackReturns
<1>27. CASE CallbackThrows
  BY <1>27 DEF CallbackThrows, Unwind
<1>28. CASE CallbackReconnects
  BY <1>28 DEF CallbackReconnects, Unwind, Reset, TypeOK
<1>29. CASE RunReturns
  BY <1>29 DEF RunReturns, Report
<1>30. CASE UNCHANGED vars
  BY <1>30 DEF vars
<1> QED
  BY <1>1, <1>2, <1>3, <1>4, <1>5, <1>6, <1>7, <1>8, <1>9, <1>10, <1>11, <1>12, <1>13, <1>14,
     <1>15, <1>16, <1>17, <1>18, <1>19, <1>20, <1>21, <1>22, <1>23, <1>24, <1>25, <1>26, <1>27,
     <1>28, <1>29, <1>30
  DEF Next, ReadStep, DocStep, Handshake, Callback, ConnectStep

(* A patient application always finds the parts of a Connection in step.    *)
THEOREM PatientInvariance == ~EarlyReconnect => (SafeSpec => []PatientInv)
<1> SUFFICES ASSUME ~EarlyReconnect PROVE SafeSpec => []PatientInv
  OBVIOUS
<1>1. Init => PatientInv
  BY DEF Init, PatientInv, ReconnectInv, Fresh, ClientInv, OfferedInv, FeaturesInv,
         AuthenticatingInv, SessionInv, OnlineInv, OnlineMeansNegotiated, MechanismWasOffered,
         Live, NoResume
<1> QED
  BY <1>1, PatientStep, TypeCorrect, ReportInvariance, PTL DEF SafeSpec

(* Connected is only ever a client that authenticated, bound and opened a   *)
(* session on the stream in use, with <success/> verified.                  *)
THEOREM OnlineIsNegotiated == ~EarlyReconnect => (SafeSpec => []OnlineMeansNegotiated)
<1>1. PatientInv => OnlineMeansNegotiated
  BY DEF PatientInv, OnlineInv
<1> QED
  BY <1>1, PatientInvariance, PTL

(* CheckStreamForFeatures never begins with a mechanism that an earlier     *)
(* client was offered, EXTERNAL apart.                                      *)
THEOREM MechanismIsOffered == ~EarlyReconnect => (SafeSpec => []MechanismWasOffered)
<1>1. PatientInv => MechanismWasOffered
  BY DEF PatientInv
<1> QED
  BY <1>1, PatientInvariance, PTL

(* Only CheckStreamForFeatures begins SASL and writes <auth/>.              *)
LEMMA OnlyFeaturesLogIn ==
  ASSUME [Next]_vars, \A offer \in Offers : ~FeaturesSASL(offer)
  PROVE  /\ auth' = "SASL" => auth = "SASL"
         /\ \A secure \in BOOLEAN : Wrote("auth", secure)' => Wrote("auth", secure)
<1> USE DEF connState, client, thread, Wrote
<1>1. CASE ReadStep \/ ReadIgnored \/ ReadError \/ WriteError \/ RunReturns
  BY <1>1
  DEF ReadStep, Receive, ReadFeatures, FeaturesIgnored, FeaturesBind, FeaturesStartTLS,
      ReadIgnored, ReadError, WriteError, RunReturns, Write
<1>2. CASE UnparsableDoc \/ DocIgnored \/ TLSProceed \/ NoProceed \/ SASLChallengeThrows
             \/ SASLNullMechanism \/ SASLFailure \/ NoReply \/ OnlineDoc \/ EndOfDocs \/ StreamEnd
  BY <1>2
  DEF UnparsableDoc, DocIgnored, TLSProceed, NoProceed, SASLChallengeThrows, SASLNullMechanism,
      SASLFailure, NoReply, OnlineDoc, EndOfDocs, StreamEnd
<1>3. CASE SASLChallenge \/ SASLSuccess \/ BindReply \/ SessionReply
  BY <1>3 DEF SASLChallenge, SASLSuccess, BindReply, SessionReply, OpenXMPPStream, Write
<1>4. CASE Handshake \/ Callback
  BY <1>4
  DEF Handshake, HandshakeDone, HandshakeFailed, OpenXMPPStream, Callback, CallbackReturns,
      CallbackThrows, CallbackReconnects, Reset
<1>5. CASE Reconnect \/ ConnectStep
  BY <1>5
  DEF Reconnect, Reset, ConnectStep, StopIO, JoinIO, NewClient, ConnectDone, OpenXMPPStream,
      ConnectFails
<1>6. CASE UNCHANGED vars
  BY <1>6 DEF vars
<1> QED
  BY <1>1, <1>2, <1>3, <1>4, <1>5, <1>6 DEF Next, DocStep

(* Before SASL begins the client has sent no <auth/>, and what the server   *)
(* offered it is what it remembers, or it runs over TLS.                    *)
LEMMA LoginStep ==
  ASSUME PatientInv, NEW offer \in Offers, FeaturesSASL(offer)
  PROVE  /\ NoCredentials
         /\ tls \/ "starttls" \notin offered'
         /\ tls' = tls
         /\ \A secure \in BOOLEAN : Wrote("auth", secure)' => secure = tls
<1>1. /\ Live /\ cs = "WaitingForFeatures" /\ auth \notin {"SASL", "Bind"} /\ tls' = tls
      /\ offered' = offered \cup offer
      /\ auth = "StartTLS" \/ "starttls" \notin features \cup offer
      /\ written' \subseteq written \cup {[what |-> "auth", tls |-> tls]}
  BY DEF FeaturesSASL, ReadFeatures, CanRead, IOReady, Live, BeginSASL, Write
<1>2. /\ auth = "None" => offered = {} /\ NoCredentials
      /\ auth = "StartTLS" => tls /\ NoCredentials
      /\ auth \in {"None", "StartTLS"}
  BY <1>1 DEF PatientInv, FeaturesInv
<1>3. \A secure \in BOOLEAN : Wrote("auth", secure)' => secure = tls
  BY <1>1, <1>2 DEF NoCredentials, Wrote
<1> QED
  BY <1>1, <1>2, <1>3

(* Credentials never cross the bare stream of a server that offered TLS,    *)
(* whatever the features of an earlier client were.                         *)
THEOREM TLSBeforeCredentials == ~EarlyReconnect => (SafeSpec => NoCredentialsBeforeTLS)
<1>1. ASSUME PatientInv, [Next]_vars, ~Wrote("auth", FALSE), Wrote("auth", FALSE)'
      PROVE  "starttls" \notin offered'
  <2>1. PICK offer \in Offers : FeaturesSASL(offer)
    BY <1>1, OnlyFeaturesLogIn
  <2>2. tls = FALSE
    BY <1>1, <2>1, LoginStep
  <2> QED
    BY <1>1, <2>1, <2>2, LoginStep
<1> QED
  BY <1>1, PatientInvariance, PTL DEF SafeSpec, NoCredentialsBeforeTLS

(* One client logs in once: StartBind, the second stream and a server that  *)
(* repeats itself never bring SASL back.                                    *)
THEOREM LogsInOnce == ~EarlyReconnect => (SafeSpec => AuthenticatesOnce)
<1>1. ASSUME PatientInv, [Next]_vars, auth' = "SASL", auth # "SASL"
      PROVE  \A secure \in BOOLEAN : ~Wrote("auth", secure)
  <2>1. PICK offer \in Offers : FeaturesSASL(offer)
    BY <1>1, OnlyFeaturesLogIn
  <2> QED
    BY <1>1, <2>1, LoginStep DEF NoCredentials
<1> QED
  BY <1>1, PatientInvariance, PTL DEF SafeSpec, AuthenticatesOnce
=============================================================================
