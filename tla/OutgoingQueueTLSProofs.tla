------------------------ MODULE OutgoingQueueTLSProofs ------------------------
(***************************************************************************)
(* What crosses the bare TCP stream once TLS was asked for.                *)
(***************************************************************************)
EXTENDS OutgoingQueueProofs

(* Until it is online, no sender passes its check on this attempt. *)
LEMMA QuietStep ==
  ASSUME QueueInv, QuietInv, [Next]_vars
  PROVE  QuietInv'
<1> USE QueueAssumption DEF QueueInv, TypeOK, ControlInv, QuietInv, conn, Threads, Opening, Unguarded
<1>1. ASSUME NEW t \in Threads, SendStanza(t) \/ Subscribe(t) PROVE QuietInv'
  <2>1. CASE SendStanza(t)
    BY <2>1 DEF SendStanza, Begin
  <2>2. CASE Subscribe(t)
    BY <2>2 DEF Subscribe, Begin, Opened
  <2> QED
    BY <1>1, <2>1, <2>2
<1>2. CASE OpenXMPPStream \/ WriteControl \/ HandleSubscribe \/ KeepAlive \/ RequestTLS \/ SessionUp
  <2>1. CASE OpenXMPPStream
    BY <2>1 DEF OpenXMPPStream
  <2>2. CASE WriteControl \/ HandleSubscribe \/ KeepAlive \/ RequestTLS \/ SessionUp
    <3>1. /\ phase' = phase \/ (phase = "negotiating" /\ phase' = "starttls")
          /\ timer' => timer
          /\ UNCHANGED starttls
      BY <2>2 DEF WriteControl, HandleSubscribe, KeepAlive, RequestTLS, SessionUp
    <3>2. PICK k \in {"control", "starttls", "presence"} :
            pc' = [pc EXCEPT ![IO] = "called"] /\ kind' = [kind EXCEPT ![IO] = k]
      BY <2>2 DEF WriteControl, HandleSubscribe, KeepAlive, RequestTLS, SessionUp, Begin
    <3>3. phase \notin Opening /\ phase' \notin Opening
      BY <2>2, <3>1 DEF WriteControl, HandleSubscribe, KeepAlive, RequestTLS, SessionUp, IOReady
    <3>4. pc'[IO] = "called" /\ kind'[IO] \notin Unguarded
      BY <3>2
    <3>5. \A t \in Senders \cup RosterUsers : pc'[t] = pc[t] /\ kind'[t] = kind[t]
      BY <3>2
    <3> QED
      BY <3>1, <3>3, <3>4, <3>5
  <2> QED
    BY <1>2, <2>1, <2>2
<1>3. ASSUME NEW t \in Threads, EnterWrite(t) \/ DropWrite(t) PROVE QuietInv'
  BY <1>3 DEF EnterWrite, DropWrite, Return
<1>4. ASSUME NEW t \in Threads, Push(t) PROVE QuietInv'
  BY <1>4 DEF Push
<1>5. ASSUME NEW t \in Threads, LeaveToFlusher(t) PROVE QuietInv'
  BY <1>5 DEF LeaveToFlusher, Return
<1>6. ASSUME NEW t \in Threads, FlushPushed(t) PROVE QuietInv'
  BY <1>6 DEF FlushPushed, FlushOutgoingDataUnsafe
<1>7. ASSUME NEW t \in Threads, StartWrite(t) PROVE QuietInv'
  BY <1>7 DEF StartWrite, Return
<1>8. ASSUME NEW o \in ops, RunPosted(o) \/ WriteDone(o) \/ WriteFails(o) PROVE QuietInv'
  BY <1>8 DEF RunPosted, WriteDone, WriteFails, Restage
<1>9. ASSUME NEW o \in ops, HandleWriteIgnored(o) \/ HandleWriteError(o) \/ HandleWriteOk(o) PROVE QuietInv'
  <2>1. CASE HandleWriteIgnored(o) \/ HandleWriteError(o)
    BY <2>1 DEF HandleWriteIgnored, HandleWriteError, Completed, IOReady
  <2>2. CASE HandleWriteOk(o)
    BY <2>2 DEF HandleWriteOk, Completed, IOReady
  <2> QED
    BY <1>9, <2>1, <2>2
<1>10. CASE StopFlushing
  BY <1>10 DEF StopFlushing
<1>11. CASE FlushNext
  BY <1>11 DEF FlushNext, FlushOutgoingDataUnsafe
<1>12. CASE HandleReadError \/ StreamEnd \/ RunReturns
  BY <1>12 DEF HandleReadError, StreamEnd, RunReturns, IOReady
<1>13. CASE ConnectTLSSocket \/ HandshakeDone \/ HandshakeFailed
  <2>1. CASE ConnectTLSSocket
    BY <2>1 DEF ConnectTLSSocket, IOReady
  <2>2. CASE HandshakeDone
    BY <2>2 DEF HandshakeDone
  <2>3. CASE HandshakeFailed
    BY <2>3 DEF HandshakeFailed
  <2> QED
    BY <1>13, <2>1, <2>2, <2>3
<1>14. CASE UNCHANGED vars
  BY <1>14 DEF vars
<1> QED
  BY <1>1, <1>2, <1>3, <1>4, <1>5, <1>6, <1>7, <1>8, <1>9, <1>10, <1>11, <1>12, <1>13, <1>14
  DEF Next, Calls, WriteStep, HandlerStep, Network, Handshake

(* Only unguarded texts are pushed between <starttls/> and the handshake. *)
LEMMA UpgradeStep ==
  ASSUME QueueInv, QuietInv, UpgradeInv, [Next]_vars
  PROVE  UpgradeInv'
<1> USE QueueAssumption DEF QueueInv, TypeOK, ControlInv, QuietInv, UpgradeInv, Upgrade, Later, conn, data, Threads, Opening, Unguarded
<1>1. ASSUME NEW t \in Threads, SendStanza(t) \/ Subscribe(t) PROVE UpgradeInv'
  <2>1. CASE SendStanza(t)
    BY <2>1 DEF SendStanza, Begin
  <2>2. CASE Subscribe(t)
    BY <2>2 DEF Subscribe, Begin, Opened
  <2> QED
    BY <1>1, <2>1, <2>2
<1>2. CASE OpenXMPPStream \/ WriteControl \/ HandleSubscribe \/ KeepAlive \/ RequestTLS \/ SessionUp
  <2>1. CASE OpenXMPPStream
    BY <2>1 DEF OpenXMPPStream
  <2>2. CASE WriteControl \/ HandleSubscribe
    BY <2>2 DEF WriteControl, HandleSubscribe, Begin, IOReady
  <2>3. CASE KeepAlive
    BY <2>3 DEF KeepAlive, Begin, IOReady
  <2>4. CASE RequestTLS
    BY <2>4 DEF RequestTLS, Begin, IOReady
  <2>5. CASE SessionUp
    BY <2>5 DEF SessionUp, Begin, IOReady
  <2> QED
    BY <1>2, <2>1, <2>2, <2>3, <2>4, <2>5
<1>3. ASSUME NEW t \in Threads, EnterWrite(t) \/ DropWrite(t) PROVE UpgradeInv'
  BY <1>3 DEF EnterWrite, DropWrite, Return
<1>4. ASSUME NEW t \in Threads, Push(t) PROVE UpgradeInv'
  <2>1. CASE kind[t] = "starttls"
    BY <1>4, <2>1 DEF Push
  <2>2. CASE kind[t] # "starttls" /\ ~Upgrade
    BY <1>4, <2>2 DEF Push
  <2>3. CASE kind[t] # "starttls" /\ Upgrade
    <3>1. kind[t] \in Unguarded
      BY <1>4, <2>3 DEF Push
    <3>2. /\ pushed' = pushed + 1 /\ unguarded' = unguarded \cup {[by |-> t, id |-> pushed + 1]}
          /\ UNCHANGED <<starttls, ssl, phase, timer, kind>>
      BY <1>4, <2>3, <3>1 DEF Push
    <3>3. ASSUME NEW n \in 1 .. pushed' PROVE ~Later(n)'
      <4>1. CASE n = pushed + 1
        <5>1. [by |-> t, id |-> pushed + 1] \in unguarded'
          BY <3>2
        <5> QED
          BY <4>1, <5>1
      <4>2. CASE n # pushed + 1
        <5>1. n \in 1 .. pushed
          BY <3>2, <4>2
        <5>2. n <= starttls \/ \E u \in unguarded : u.id = n
          BY <2>3, <5>1
        <5> QED
          BY <3>2, <5>2
      <4> QED
        BY <4>1, <4>2
    <3> QED
      BY <1>4, <2>3, <3>1, <3>2, <3>3 DEF Push
  <2> QED
    BY <2>1, <2>2, <2>3
<1>5. ASSUME NEW t \in Threads, LeaveToFlusher(t) PROVE UpgradeInv'
  BY <1>5 DEF LeaveToFlusher, Return
<1>6. ASSUME NEW t \in Threads, FlushPushed(t) PROVE UpgradeInv'
  BY <1>6 DEF FlushPushed, FlushOutgoingDataUnsafe
<1>7. ASSUME NEW t \in Threads, StartWrite(t) PROVE UpgradeInv'
  BY <1>7 DEF StartWrite, Return
<1>8. ASSUME NEW o \in ops, RunPosted(o) \/ WriteDone(o) \/ WriteFails(o) PROVE UpgradeInv'
  BY <1>8 DEF RunPosted, WriteDone, WriteFails, Restage
<1>9. ASSUME NEW o \in ops, HandleWriteIgnored(o) \/ HandleWriteError(o) \/ HandleWriteOk(o) PROVE UpgradeInv'
  BY <1>9 DEF HandleWriteIgnored, HandleWriteError, HandleWriteOk, Completed, IOReady
<1>10. CASE StopFlushing
  BY <1>10 DEF StopFlushing
<1>11. CASE FlushNext
  BY <1>11 DEF FlushNext, FlushOutgoingDataUnsafe
<1>12. CASE HandleReadError \/ StreamEnd \/ RunReturns
  BY <1>12 DEF HandleReadError, StreamEnd, RunReturns, IOReady
<1>13. CASE ConnectTLSSocket \/ HandshakeDone \/ HandshakeFailed
  BY <1>13 DEF ConnectTLSSocket, HandshakeDone, HandshakeFailed, IOReady
<1>14. CASE UNCHANGED vars
  BY <1>14 DEF vars
<1> QED
  BY <1>1, <1>2, <1>3, <1>4, <1>5, <1>6, <1>7, <1>8, <1>9, <1>10, <1>11, <1>12, <1>13, <1>14
  DEF Next, Calls, WriteStep, HandlerStep, Network, Handshake

(* A sender that is online passes the check again before it writes, so it  *)
(* has one late text behind <starttls/> at most.                           *)
LEMMA LateStep ==
  ASSUME QueueInv, QuietInv, UpgradeInv, LateInv, [Next]_vars
  PROVE  LateInv'
<1> USE QueueAssumption DEF QueueInv, TypeOK, ControlInv, QuietInv, UpgradeInv, LateInv, conn, data, Threads, Opening, Unguarded
<1>1. ASSUME NEW t \in Threads, SendStanza(t) \/ Subscribe(t) PROVE LateInv'
  <2>1. CASE SendStanza(t)
    BY <2>1 DEF SendStanza, Begin
  <2>2. CASE Subscribe(t)
    BY <2>2 DEF Subscribe, Begin, Opened
  <2> QED
    BY <1>1, <2>1, <2>2
<1>2. CASE OpenXMPPStream \/ WriteControl \/ HandleSubscribe \/ KeepAlive \/ RequestTLS \/ SessionUp
  <2>1. UNCHANGED <<pushed, unguarded, starttls>>
    BY <1>2 DEF OpenXMPPStream, WriteControl, HandleSubscribe, KeepAlive, RequestTLS, SessionUp, Begin, IOReady
  <2>2. \A t \in Senders : pc'[t] = pc[t] /\ kind'[t] = kind[t]
    BY <1>2 DEF OpenXMPPStream, WriteControl, HandleSubscribe, KeepAlive, RequestTLS, SessionUp, Begin, IOReady
  <2> QED
    BY <2>1, <2>2
<1>3. ASSUME NEW t \in Threads, EnterWrite(t) \/ DropWrite(t) PROVE LateInv'
  BY <1>3 DEF EnterWrite, DropWrite, Return
<1>4. ASSUME NEW t \in Threads, Push(t) PROVE LateInv'
  <2>1. CASE kind[t] = "starttls"
    BY <1>4, <2>1 DEF Push
  <2>2. CASE kind[t] \notin Unguarded \cup {"starttls"}
    BY <1>4, <2>2 DEF Push
  <2>3. CASE kind[t] = "roster"
    <3>1. t \notin Senders
      BY <2>3
    <3> QED
      BY <1>4, <2>3, <3>1 DEF Push
  <2>4. CASE kind[t] = "late"
    <3>1. pc[t] = "lock" /\ pc' = [pc EXCEPT ![t] = "locked"] /\ UNCHANGED <<kind, starttls>>
      BY <1>4, <2>4 DEF Push
    <3>2. unguarded' = unguarded \cup {[by |-> t, id |-> pushed + 1]} /\ pushed' = pushed + 1
      BY <1>4, <2>4 DEF Push
    <3>3. starttls # 0 => ~\E u \in unguarded : u.by \in Senders /\ u.id > starttls /\ u.by = t
      BY <2>4, <3>1
    <3> QED
      BY <3>1, <3>2, <3>3
  <2> QED
    BY <2>1, <2>2, <2>3, <2>4
<1>5. ASSUME NEW t \in Threads, LeaveToFlusher(t) PROVE LateInv'
  BY <1>5 DEF LeaveToFlusher, Return
<1>6. ASSUME NEW t \in Threads, FlushPushed(t) PROVE LateInv'
  BY <1>6 DEF FlushPushed, FlushOutgoingDataUnsafe
<1>7. ASSUME NEW t \in Threads, StartWrite(t) PROVE LateInv'
  BY <1>7 DEF StartWrite, Return
<1>8. ASSUME NEW o \in ops, RunPosted(o) \/ WriteDone(o) \/ WriteFails(o) PROVE LateInv'
  BY <1>8 DEF RunPosted, WriteDone, WriteFails, Restage
<1>9. ASSUME NEW o \in ops, HandleWriteIgnored(o) \/ HandleWriteError(o) \/ HandleWriteOk(o) PROVE LateInv'
  BY <1>9 DEF HandleWriteIgnored, HandleWriteError, HandleWriteOk, Completed, IOReady
<1>10. CASE StopFlushing
  BY <1>10 DEF StopFlushing
<1>11. CASE FlushNext
  BY <1>11 DEF FlushNext, FlushOutgoingDataUnsafe
<1>12. CASE HandleReadError \/ StreamEnd \/ RunReturns
  BY <1>12 DEF HandleReadError, StreamEnd, RunReturns, IOReady
<1>13. CASE ConnectTLSSocket \/ HandshakeDone \/ HandshakeFailed
  <2>1. UNCHANGED <<pushed, unguarded, starttls>>
    BY <1>13 DEF ConnectTLSSocket, HandshakeDone, HandshakeFailed, IOReady
  <2>2. \A t \in Senders : pc'[t] = pc[t] /\ kind'[t] = kind[t]
    BY <1>13 DEF ConnectTLSSocket, HandshakeDone, HandshakeFailed, IOReady
  <2> QED
    BY <2>1, <2>2
<1>14. CASE UNCHANGED vars
  BY <1>14 DEF vars
<1> QED
  BY <1>1, <1>2, <1>3, <1>4, <1>5, <1>6, <1>7, <1>8, <1>9, <1>10, <1>11, <1>12, <1>13, <1>14
  DEF Next, Calls, WriteStep, HandlerStep, Network, Handshake

(* What is popped after <starttls/> goes to the TLS stream. *)
LEMMA SecureStep ==
  ASSUME TLSInv, [Next]_vars
  PROVE  SecureInv'
<1> USE QueueAssumption DEF TLSInv, QueueInv, TypeOK, ControlInv, WriterInv, OrderInv, InOrder, Popped, NextOnWire, UpgradeInv, Upgrade, Later, SecureInv, Starting, conn, data, Threads, Ops, Streams
<1>1. ASSUME NEW t \in Threads, SendStanza(t) \/ Subscribe(t) PROVE SecureInv'
  BY <1>1 DEF SendStanza, Subscribe, Begin, Opened
<1>2. CASE OpenXMPPStream \/ WriteControl \/ HandleSubscribe \/ KeepAlive \/ RequestTLS \/ SessionUp
  <2>1. CASE OpenXMPPStream
    BY <2>1 DEF OpenXMPPStream
  <2>2. CASE WriteControl \/ HandleSubscribe
    BY <2>2 DEF WriteControl, HandleSubscribe, Begin, IOReady
  <2>3. CASE KeepAlive
    BY <2>3 DEF KeepAlive, Begin, IOReady
  <2>4. CASE RequestTLS
    BY <2>4 DEF RequestTLS, Begin, IOReady
  <2>5. CASE SessionUp
    BY <2>5 DEF SessionUp, Begin, IOReady
  <2> QED
    BY <1>2, <2>1, <2>2, <2>3, <2>4, <2>5
<1>3. ASSUME NEW t \in Threads, EnterWrite(t) \/ DropWrite(t) PROVE SecureInv'
  BY <1>3 DEF EnterWrite, DropWrite, Return
<1>4. ASSUME NEW t \in Threads, Push(t) PROVE SecureInv'
  BY <1>4 DEF Push
<1>5. ASSUME NEW t \in Threads, LeaveToFlusher(t) PROVE SecureInv'
  BY <1>5 DEF LeaveToFlusher, Return
<1>6. ASSUME NEW t \in Threads, FlushPushed(t) PROVE SecureInv'
  <2>1. Head(queue) \in 1 .. pushed
    BY <1>6, FrontOfQueue DEF FlushPushed
  <2>2. starttls # 0 /\ Later(Head(queue)) => ssl
    BY <2>1
  <2>3. ops' = {} /\ UNCHANGED <<wire, ssl, starttls, unguarded>>
    BY <1>6 DEF FlushPushed
  <2>4. /\ Starting' = {t} /\ item'[t] = Head(queue)
        /\ ssl => via'[t] = "tls"
    BY <1>6 DEF FlushPushed, FlushOutgoingDataUnsafe
  <2> QED
    BY <2>2, <2>3, <2>4
<1>7. ASSUME NEW t \in Threads, StartWrite(t) PROVE SecureInv'
  BY <1>7 DEF StartWrite, Return
<1>8. ASSUME NEW o \in ops, RunPosted(o) \/ WriteDone(o) \/ WriteFails(o) PROVE SecureInv'
  <2>1. ops = {o} /\ Starting = {}
    OBVIOUS
  <2>2. CASE RunPosted(o) \/ WriteFails(o)
    <3>1. PICK s \in {"writing", "failed"} : ops' = {[o EXCEPT !.stage = s]}
      BY <2>1, <2>2 DEF RunPosted, WriteFails, Restage
    <3>2. UNCHANGED <<wire, starttls, unguarded, pc, item, via>> /\ o.stage # "written"
      BY <2>2 DEF RunPosted, WriteFails
    <3>3. \A p \in ops' : p.id = o.id /\ p.via = o.via
      BY <3>1
    <3> QED
      BY <2>1, <3>2, <3>3
  <2>3. CASE WriteDone(o)
    <3>1. /\ wire' = Append(wire, [id |-> o.id, via |-> o.via])
          /\ UNCHANGED <<starttls, unguarded, pc, item, via>>
          /\ \A p \in ops' : p.stage = "written"
      BY <2>1, <2>3 DEF WriteDone, Restage
    <3>2. starttls # 0 /\ Later(o.id) => o.via = "tls"
      BY <2>3 DEF WriteDone
    <3>3. \A i \in DOMAIN wire' : \/ i \in DOMAIN wire /\ wire'[i] = wire[i]
                                  \/ wire'[i] = [id |-> o.id, via |-> o.via]
      BY <3>1
    <3>4. starttls # 0 => \A i \in DOMAIN wire' : Later(wire'[i].id) => wire'[i].via = "tls"
      <4> SUFFICES ASSUME starttls # 0, NEW i \in DOMAIN wire', Later(wire'[i].id)
                   PROVE  wire'[i].via = "tls"
        OBVIOUS
      <4>1. CASE i \in DOMAIN wire /\ wire'[i] = wire[i]
        BY <4>1
      <4>2. CASE wire'[i] = [id |-> o.id, via |-> o.via]
        <5>1. Later(o.id)
          BY <4>2
        <5> QED
          BY <5>1, <4>2, <3>2
      <4> QED
        BY <4>1, <4>2, <3>3
    <3> QED
      BY <2>1, <3>1, <3>4
  <2> QED
    BY <1>8, <2>2, <2>3
<1>9. ASSUME NEW o \in ops, HandleWriteIgnored(o) \/ HandleWriteError(o) \/ HandleWriteOk(o) PROVE SecureInv'
  BY <1>9 DEF HandleWriteIgnored, HandleWriteError, HandleWriteOk, Completed, IOReady
<1>10. CASE StopFlushing
  BY <1>10 DEF StopFlushing
<1>11. CASE FlushNext
  <2>1. Head(queue) \in 1 .. pushed
    BY <1>11, FrontOfQueue DEF FlushNext
  <2>2. starttls # 0 /\ Later(Head(queue)) => ssl
    BY <2>1
  <2>3. ops' = {} /\ UNCHANGED <<wire, ssl, starttls, unguarded>>
    BY <1>11 DEF FlushNext
  <2>4. /\ Starting' = {IO} /\ item'[IO] = Head(queue)
        /\ ssl => via'[IO] = "tls"
    BY <1>11 DEF FlushNext, FlushOutgoingDataUnsafe
  <2> QED
    BY <2>2, <2>3, <2>4
<1>12. CASE HandleReadError \/ StreamEnd \/ RunReturns
  BY <1>12 DEF HandleReadError, StreamEnd, RunReturns, IOReady
<1>13. CASE ConnectTLSSocket \/ HandshakeDone \/ HandshakeFailed
  BY <1>13 DEF ConnectTLSSocket, HandshakeDone, HandshakeFailed, IOReady
<1>14. CASE UNCHANGED vars
  BY <1>14 DEF vars
<1> QED
  BY <1>1, <1>2, <1>3, <1>4, <1>5, <1>6, <1>7, <1>8, <1>9, <1>10, <1>11, <1>12, <1>13, <1>14
  DEF Next, Calls, WriteStep, HandlerStep, Network, Handshake

(* After <starttls/> nothing goes over the bare TCP stream but texts of the *)
(* roster users and one stanza of each sender that passed its check on an   *)
(* attempt before, for any number of threads and of writes.                 *)
THEOREM PlaintextStops == SafeSpec => []PlaintextStopsAtStartTLS
<1>1. Init => TLSInv
  <2> SUFFICES ASSUME Init PROVE QuietInv /\ UpgradeInv /\ LateInv /\ SecureInv
    BY InitInv DEF TLSInv
  <2>1. /\ \A t \in Senders : (pc[t] = "idle" /\ kind[t] = "control") \/ kind[t] = "late"
        /\ \A t \in RosterUsers \cup {IO} : pc[t] = "idle" /\ kind[t] = "control"
    BY QueueAssumption DEF Init, Threads
  <2>2. phase \in Opening /\ ~timer /\ starttls = 0 /\ unguarded = {}
    BY DEF Init
  <2> QED
    BY <2>1, <2>2 DEF QuietInv, Opening, Unguarded, UpgradeInv, Upgrade, LateInv, SecureInv
<1>2. TLSInv /\ [Next]_vars => TLSInv'
  BY TypeStep, ControlStep, WriterStep, OrderStep, WakeStep,
     QuietStep, UpgradeStep, LateStep, SecureStep DEF TLSInv, QueueInv
<1>3. TLSInv => PlaintextStopsAtStartTLS
  BY DEF TLSInv, LateInv, SecureInv, Later, PlaintextStopsAtStartTLS
<1> QED
  BY <1>1, <1>2, <1>3, PTL DEF SafeSpec
=============================================================================
