------------------------- MODULE OutgoingQueueProofs -------------------------
(***************************************************************************)
(* Theorems about OutgoingQueue, for any number of threads and of writes.  *)
(* The inductive invariant is QueueInv; every lemma ...Step shows that an  *)
(* action preserves one of its parts, given all of them.                   *)
(***************************************************************************)
EXTENDS OutgoingQueue, TLAPS

(* Another stage of an operation leaves the set of operations typed. *)
LEMMA RestageType ==
  ASSUME ops \subseteq Ops, NEW o \in ops, NEW s \in Stages, Restage(o, s)
  PROVE  ops' \subseteq Ops
<1>1. [o EXCEPT !.stage = s] \in Ops
  BY DEF Ops
<1> QED
  BY <1>1 DEF Restage

(* The elements of a sequence are typed. *)
LEMMA ElementType ==
  ASSUME NEW S, NEW s \in Seq(S), NEW i \in DOMAIN s
  PROVE  s[i] \in S
OBVIOUS

(* Appending keeps the type of a sequence. *)
LEMMA AppendType ==
  ASSUME NEW S, NEW s \in Seq(S), NEW e \in S
  PROVE  Append(s, e) \in Seq(S)
OBVIOUS

(* What an operation puts on the wire is typed. *)
LEMMA WireType ==
  ASSUME ops \subseteq Ops, NEW o \in ops, wire \in Seq([id : Nat, via : Streams])
  PROVE  Append(wire, [id |-> o.id, via |-> o.via]) \in Seq([id : Nat, via : Streams])
<1>1. [id |-> o.id, via |-> o.via] \in [id : Nat, via : Streams]
  BY DEF Ops
<1> QED
  BY <1>1, AppendType

(* A queue numbered up to n stays numbered when text n + 1 is pushed.       *)
LEMMA NumberedPush ==
  ASSUME NEW n \in Nat, NEW q \in Seq(Nat), Len(q) <= n,
         \A i \in 1..Len(q) : q[i] = (n - Len(q)) + i
  PROVE  /\ Append(q, n + 1) \in Seq(Nat)
         /\ Len(Append(q, n + 1)) = Len(q) + 1
         /\ \A i \in 1..Len(Append(q, n + 1)) : Append(q, n + 1)[i] = (n - Len(q)) + i
<1> DEFINE r == Append(q, n + 1)
<1>1. r \in Seq(Nat) /\ Len(r) = Len(q) + 1 /\ Len(q) \in Nat
  OBVIOUS
<1>2. \A i \in 1..Len(q) : r[i] = q[i]
  OBVIOUS
<1>3. r[Len(q) + 1] = n + 1
  OBVIOUS
<1>4. ASSUME NEW i \in 1..Len(r) PROVE r[i] = (n - Len(q)) + i
  <2>1. CASE i = Len(q) + 1
    BY <1>1, <1>3, <2>1
  <2>2. CASE i # Len(q) + 1
    <3>1. i \in 1..Len(q)
      BY <1>1, <2>2
    <3> QED
      BY <1>2, <3>1
  <2> QED
    BY <2>1, <2>2
<1> QED
  BY <1>1, <1>4

(* The front of a numbered queue is the text after the last popped, and the *)
(* queue stays numbered without it.                                         *)
LEMMA NumberedPop ==
  ASSUME NEW n \in Nat, NEW q \in Seq(Nat), Len(q) <= n, q # <<>>,
         \A i \in 1..Len(q) : q[i] = (n - Len(q)) + i
  PROVE  /\ Tail(q) \in Seq(Nat)
         /\ Len(Tail(q)) = Len(q) - 1
         /\ Head(q) = (n - Len(q)) + 1
         /\ \A i \in 1..Len(Tail(q)) : Tail(q)[i] = (n - Len(Tail(q))) + i
<1>1. /\ Len(q) \in Nat \ {0}
      /\ Tail(q) \in Seq(Nat)
      /\ Len(Tail(q)) = Len(q) - 1
      /\ Head(q) = q[1]
  OBVIOUS
<1>2. \A i \in 1..Len(Tail(q)) : Tail(q)[i] = q[i + 1]
  OBVIOUS
<1>3. ASSUME NEW i \in 1..Len(Tail(q)) PROVE Tail(q)[i] = (n - Len(Tail(q))) + i
  <2>1. i + 1 \in 1..Len(q)
    BY <1>1
  <2>2. q[i + 1] = (n - Len(q)) + (i + 1)
    BY <2>1
  <2> QED
    BY <1>1, <1>2, <2>2
<1> QED
  BY <1>1, <1>3

(* The same of the queue of the specification. *)
LEMMA FrontOfQueue ==
  ASSUME TypeOK, OrderInv, queue # <<>>
  PROVE  /\ Tail(queue) \in Seq(Nat)
         /\ Len(Tail(queue)) = Len(queue) - 1
         /\ Head(queue) = Popped + 1 /\ Head(queue) \in Nat \ {0}
         /\ \A i \in 1..Len(Tail(queue)) : Tail(queue)[i] = (Popped + 1) + i
         /\ Popped \in Nat
<1>1. /\ queue \in Seq(Nat) /\ pushed \in Nat /\ Len(queue) <= pushed
      /\ \A i \in 1..Len(queue) : queue[i] = (pushed - Len(queue)) + i
  BY DEF TypeOK, OrderInv, Popped
<1>2. Len(queue) \in Nat
  BY <1>1
<1>3. /\ Tail(queue) \in Seq(Nat)
      /\ Len(Tail(queue)) = Len(queue) - 1
      /\ Head(queue) = (pushed - Len(queue)) + 1
      /\ \A i \in 1..Len(Tail(queue)) : Tail(queue)[i] = (pushed - Len(Tail(queue))) + i
  BY <1>1, NumberedPop
<1> QED
  BY <1>1, <1>2, <1>3 DEF Popped

(* Types are preserved. *)
LEMMA TypeStep == ASSUME QueueInv, [Next]_vars PROVE TypeOK'
<1> USE QueueAssumption DEF QueueInv, TypeOK, conn, data, Threads, States, Phases, Opening, Kinds, Streams, Stages, Places, Ops
<1>1. ASSUME NEW t \in Threads, SendStanza(t) \/ Subscribe(t) PROVE TypeOK'
  BY <1>1 DEF SendStanza, Subscribe, Begin, Opened
<1>2. CASE OpenXMPPStream \/ WriteControl \/ HandleSubscribe \/ KeepAlive \/ RequestTLS \/ SessionUp
  BY <1>2 DEF OpenXMPPStream, WriteControl, HandleSubscribe, KeepAlive, RequestTLS, SessionUp, Begin, IOReady
<1>3. ASSUME NEW t \in Threads, EnterWrite(t) \/ DropWrite(t) PROVE TypeOK'
  BY <1>3 DEF EnterWrite, DropWrite, Return
<1>4. ASSUME NEW t \in Threads, Push(t) PROVE TypeOK'
  BY <1>4 DEF Push
<1>5. ASSUME NEW t \in Threads, LeaveToFlusher(t) PROVE TypeOK'
  BY <1>5 DEF LeaveToFlusher, Return
<1>6. ASSUME NEW t \in Threads, FlushPushed(t) PROVE TypeOK'
  <2>1. queue # <<>>
    BY <1>6 DEF FlushPushed, ControlInv
  <2>2. Head(queue) \in Nat \ {0} /\ Tail(queue) \in Seq(Nat)
    BY <2>1, FrontOfQueue
  <2> QED
    BY <1>6, <2>2 DEF FlushPushed, FlushOutgoingDataUnsafe
<1>7. ASSUME NEW t \in Threads, StartWrite(t) PROVE TypeOK'
  BY <1>7 DEF StartWrite, Return
<1>8. ASSUME NEW o \in ops, RunPosted(o) \/ WriteDone(o) \/ WriteFails(o) PROVE TypeOK'
  <2>1. ops' \subseteq Ops
    BY <1>8, RestageType DEF RunPosted, WriteDone, WriteFails
  <2>2. CASE RunPosted(o) \/ WriteFails(o)
    BY <2>1, <2>2 DEF RunPosted, WriteFails
  <2>3. CASE WriteDone(o)
    <3>1. wire' \in Seq([id : Nat, via : Streams])
      BY <2>3, WireType DEF WriteDone
    <3> QED
      BY <2>1, <2>3, <3>1 DEF WriteDone
  <2> QED
    BY <1>8, <2>2, <2>3
<1>9. ASSUME NEW o \in ops, HandleWriteIgnored(o) \/ HandleWriteError(o) \/ HandleWriteOk(o) PROVE TypeOK'
  BY <1>9 DEF HandleWriteIgnored, HandleWriteError, HandleWriteOk, Completed, IOReady
<1>10. CASE StopFlushing
  BY <1>10 DEF StopFlushing
<1>11. CASE FlushNext
  <2>1. Head(queue) \in Nat \ {0} /\ Tail(queue) \in Seq(Nat)
    BY <1>11, FrontOfQueue DEF FlushNext
  <2> QED
    BY <1>11, <2>1 DEF FlushNext, FlushOutgoingDataUnsafe
<1>12. CASE HandleReadError \/ StreamEnd \/ RunReturns
  BY <1>12 DEF HandleReadError, StreamEnd, RunReturns, IOReady
<1>13. CASE ConnectTLSSocket \/ HandshakeDone \/ HandshakeFailed
  BY <1>13 DEF ConnectTLSSocket, HandshakeDone, HandshakeFailed, IOReady
<1>14. CASE UNCHANGED vars
  BY <1>14 DEF vars
<1> QED
  BY <1>1, <1>2, <1>3, <1>4, <1>5, <1>6, <1>7, <1>8, <1>9, <1>10, <1>11, <1>12, <1>13, <1>14
  DEF Next, Calls, WriteStep, HandlerStep, Network, Handshake

(* The mutex has one owner, the IO thread alone handles. *)
LEMMA ControlStep == ASSUME QueueInv, [Next]_vars PROVE ControlInv'
<1> USE QueueAssumption DEF QueueInv, TypeOK, ControlInv, conn, data, Threads, States, Phases, Opening, Kinds, Streams, Stages, Places, Ops
<1>1. ASSUME NEW t \in Threads, SendStanza(t) \/ Subscribe(t) PROVE ControlInv'
  BY <1>1 DEF SendStanza, Subscribe, Begin, Opened
<1>2. CASE OpenXMPPStream \/ WriteControl \/ HandleSubscribe \/ KeepAlive \/ RequestTLS \/ SessionUp
  BY <1>2 DEF OpenXMPPStream, WriteControl, HandleSubscribe, KeepAlive, RequestTLS, SessionUp, Begin, IOReady
<1>3. ASSUME NEW t \in Threads, EnterWrite(t) \/ DropWrite(t) PROVE ControlInv'
  BY <1>3 DEF EnterWrite, DropWrite, Return
<1>4. ASSUME NEW t \in Threads, Push(t) PROVE ControlInv'
  BY <1>4 DEF Push
<1>5. ASSUME NEW t \in Threads, LeaveToFlusher(t) PROVE ControlInv'
  BY <1>5 DEF LeaveToFlusher, Return
<1>6. ASSUME NEW t \in Threads, FlushPushed(t) PROVE ControlInv'
  BY <1>6 DEF FlushPushed, FlushOutgoingDataUnsafe
<1>7. ASSUME NEW t \in Threads, StartWrite(t) PROVE ControlInv'
  BY <1>7 DEF StartWrite, Return
<1>8. ASSUME NEW o \in ops, RunPosted(o) \/ WriteDone(o) \/ WriteFails(o) PROVE ControlInv'
  BY <1>8 DEF RunPosted, WriteDone, WriteFails, Restage
<1>9. ASSUME NEW o \in ops, HandleWriteIgnored(o) \/ HandleWriteError(o) \/ HandleWriteOk(o) PROVE ControlInv'
  BY <1>9 DEF HandleWriteIgnored, HandleWriteError, HandleWriteOk, Completed, IOReady
<1>10. CASE StopFlushing
  BY <1>10 DEF StopFlushing
<1>11. CASE FlushNext
  BY <1>11 DEF FlushNext, FlushOutgoingDataUnsafe
<1>12. CASE HandleReadError \/ StreamEnd \/ RunReturns
  BY <1>12 DEF HandleReadError, StreamEnd, RunReturns, IOReady
<1>13. CASE ConnectTLSSocket \/ HandshakeDone \/ HandshakeFailed
  BY <1>13 DEF ConnectTLSSocket, HandshakeDone, HandshakeFailed, IOReady
<1>14. CASE UNCHANGED vars
  BY <1>14 DEF vars
<1> QED
  BY <1>1, <1>2, <1>3, <1>4, <1>5, <1>6, <1>7, <1>8, <1>9, <1>10, <1>11, <1>12, <1>13, <1>14
  DEF Next, Calls, WriteStep, HandlerStep, Network, Handshake

(* One text at a time is on its way. *)
LEMMA WriterStep == ASSUME QueueInv, [Next]_vars PROVE WriterInv'
<1> USE QueueAssumption DEF QueueInv, TypeOK, ControlInv, WriterInv, Starting, conn, data, Threads, States, Phases, Opening, Kinds, Streams, Stages, Places, Ops
<1>1. ASSUME NEW t \in Threads, SendStanza(t) \/ Subscribe(t) PROVE WriterInv'
  BY <1>1 DEF SendStanza, Subscribe, Begin, Opened
<1>2. CASE OpenXMPPStream \/ WriteControl \/ HandleSubscribe \/ KeepAlive \/ RequestTLS \/ SessionUp
  BY <1>2 DEF OpenXMPPStream, WriteControl, HandleSubscribe, KeepAlive, RequestTLS, SessionUp, Begin, IOReady
<1>3. ASSUME NEW t \in Threads, EnterWrite(t) \/ DropWrite(t) PROVE WriterInv'
  BY <1>3 DEF EnterWrite, DropWrite, Return
<1>4. ASSUME NEW t \in Threads, Push(t) PROVE WriterInv'
  BY <1>4 DEF Push
<1>5. ASSUME NEW t \in Threads, LeaveToFlusher(t) PROVE WriterInv'
  BY <1>5 DEF LeaveToFlusher, Return
<1>6. ASSUME NEW t \in Threads, FlushPushed(t) PROVE WriterInv'
  BY <1>6 DEF FlushPushed, FlushOutgoingDataUnsafe
<1>7. ASSUME NEW t \in Threads, StartWrite(t) PROVE WriterInv'
  BY <1>7 DEF StartWrite, Return
<1>8. ASSUME NEW o \in ops, RunPosted(o) \/ WriteDone(o) \/ WriteFails(o) PROVE WriterInv'
  BY <1>8 DEF RunPosted, WriteDone, WriteFails, Restage
<1>9. ASSUME NEW o \in ops, HandleWriteIgnored(o) \/ HandleWriteError(o) \/ HandleWriteOk(o) PROVE WriterInv'
  BY <1>9 DEF HandleWriteIgnored, HandleWriteError, HandleWriteOk, Completed, IOReady
<1>10. CASE StopFlushing
  BY <1>10 DEF StopFlushing
<1>11. CASE FlushNext
  BY <1>11 DEF FlushNext, FlushOutgoingDataUnsafe
<1>12. CASE HandleReadError \/ StreamEnd \/ RunReturns
  BY <1>12 DEF HandleReadError, StreamEnd, RunReturns, IOReady
<1>13. CASE ConnectTLSSocket \/ HandshakeDone \/ HandshakeFailed
  BY <1>13 DEF ConnectTLSSocket, HandshakeDone, HandshakeFailed, IOReady
<1>14. CASE UNCHANGED vars
  BY <1>14 DEF vars
<1> QED
  BY <1>1, <1>2, <1>3, <1>4, <1>5, <1>6, <1>7, <1>8, <1>9, <1>10, <1>11, <1>12, <1>13, <1>14
  DEF Next, Calls, WriteStep, HandlerStep, Network, Handshake

(* Push: the new text has the next number. *)
LEMMA PushKeepsOrder ==
  ASSUME TypeOK, OrderInv, NEW t \in Threads, Push(t)
  PROVE  OrderInv'
<1>1. /\ queue' = Append(queue, pushed + 1) /\ pushed' = pushed + 1
      /\ UNCHANGED <<ops, wire, item, flushing>>
  BY DEF Push
<1>2. /\ queue \in Seq(Nat) /\ pushed \in Nat /\ Len(queue) <= pushed
      /\ \A i \in 1..Len(queue) : queue[i] = (pushed - Len(queue)) + i
  BY DEF TypeOK, OrderInv, Popped
<1>3. /\ Len(queue') = Len(queue) + 1
      /\ \A i \in 1..Len(queue') : queue'[i] = (pushed - Len(queue)) + i
  BY <1>1, <1>2, NumberedPush
<1>4. Popped' = Popped /\ Popped = pushed - Len(queue)
  BY <1>1, <1>2, <1>3 DEF Popped
<1>5. Len(queue') <= pushed'
  BY <1>1, <1>2, <1>3
<1>6. Starting' = Starting /\ (pc'[IO] = "handled" <=> pc[IO] = "handled")
  BY DEF Push, Starting, TypeOK, Threads
<1> QED
  BY <1>1, <1>3, <1>4, <1>5, <1>6 DEF OrderInv, InOrder, NextOnWire

(* FlushOutgoingDataUnsafe with no text on its way: the text it pops is the *)
(* next one the wire expects.                                               *)
LEMMA FlushKeepsOrder ==
  ASSUME TypeOK, OrderInv, NEW t \in Threads, FlushOutgoingDataUnsafe(t),
         ops = {}, Starting = {}, queue # <<>>, Len(wire) = Popped,
         UNCHANGED <<ops, wire, pushed>>, pc'[IO] # "handled"
  PROVE  OrderInv'
<1>1. /\ Len(queue') = Len(queue) - 1
      /\ Head(queue) = Popped + 1 /\ Popped \in Nat
      /\ \A i \in 1..Len(queue') : queue'[i] = (Popped + 1) + i
  BY FrontOfQueue DEF FlushOutgoingDataUnsafe
<1>2. Popped' = Popped + 1 /\ Len(queue') <= pushed'
  BY <1>1 DEF Popped, TypeOK, OrderInv
<1>3. Starting' = {t} /\ item'[t] = Head(queue) /\ flushing'
  BY DEF FlushOutgoingDataUnsafe, Starting, TypeOK
<1>4. NextOnWire' = Popped + 1
  BY DEF NextOnWire
<1>5. Len(wire') <= Popped'
  BY <1>1, <1>2
<1> QED
  BY <1>1, <1>2, <1>3, <1>4, <1>5 DEF OrderInv, InOrder

(* The socket takes the only text that is on its way. *)
LEMMA WriteDoneKeepsOrder ==
  ASSUME TypeOK, WriterInv, OrderInv, NEW o \in ops, WriteDone(o)
  PROVE  OrderInv'
<1>1. /\ ops = {o} /\ Starting = {} /\ flushing /\ pc[IO] # "handled"
      /\ o.id = Len(wire) + 1 /\ o.id = Popped
      /\ wire' = Append(wire, [id |-> o.id, via |-> o.via])
      /\ UNCHANGED <<queue, pushed, flushing, pc, item>>
  BY DEF WriterInv, OrderInv, NextOnWire, WriteDone
<1>2. \A p \in ops' : p.stage = "written"
  BY <1>1 DEF WriteDone, Restage, TypeOK, Ops
<1>3. wire \in Seq([id : Nat, via : Streams]) /\ Len(wire) \in Nat
  BY DEF TypeOK
<1>4. Len(wire') = Len(wire) + 1 /\ InOrder'
  BY <1>1, <1>3 DEF OrderInv, InOrder
<1> QED
  BY <1>1, <1>2, <1>3, <1>4 DEF OrderInv, Popped, Starting

(* Texts are popped and sent in the order of the pushes. *)
LEMMA OrderStep == ASSUME QueueInv, [Next]_vars PROVE OrderInv'
<1> USE QueueAssumption DEF QueueInv, TypeOK, ControlInv, WriterInv, OrderInv, InOrder, Popped, NextOnWire, Starting, conn, data, Threads, States, Phases, Opening, Kinds, Streams, Stages, Places, Ops
<1>1. ASSUME NEW t \in Threads, SendStanza(t) \/ Subscribe(t) PROVE OrderInv'
  BY <1>1 DEF SendStanza, Subscribe, Begin, Opened
<1>2. CASE OpenXMPPStream \/ WriteControl \/ HandleSubscribe \/ KeepAlive \/ RequestTLS \/ SessionUp
  BY <1>2 DEF OpenXMPPStream, WriteControl, HandleSubscribe, KeepAlive, RequestTLS, SessionUp, Begin, IOReady
<1>3. ASSUME NEW t \in Threads, EnterWrite(t) \/ DropWrite(t) PROVE OrderInv'
  BY <1>3 DEF EnterWrite, DropWrite, Return
<1>4. ASSUME NEW t \in Threads, Push(t) PROVE OrderInv'
  BY <1>4, PushKeepsOrder
<1>5. ASSUME NEW t \in Threads, LeaveToFlusher(t) PROVE OrderInv'
  BY <1>5 DEF LeaveToFlusher, Return
<1>6. ASSUME NEW t \in Threads, FlushPushed(t) PROVE OrderInv'
  <2>1. queue # <<>> /\ ops = {} /\ Starting = {} /\ Len(wire) = Popped /\ pc'[IO] # "handled"
    BY <1>6 DEF FlushPushed, FlushOutgoingDataUnsafe
  <2> QED
    BY <1>6, <2>1, FlushKeepsOrder DEF FlushPushed
<1>7. ASSUME NEW t \in Threads, StartWrite(t) PROVE OrderInv'
  BY <1>7 DEF StartWrite, Return
<1>8. ASSUME NEW o \in ops, RunPosted(o) \/ WriteDone(o) \/ WriteFails(o) PROVE OrderInv'
  <2>1. CASE RunPosted(o) \/ WriteFails(o)
    BY <2>1 DEF RunPosted, WriteFails, Restage
  <2> QED
    BY <1>8, <2>1, WriteDoneKeepsOrder
<1>9. ASSUME NEW o \in ops, HandleWriteIgnored(o) \/ HandleWriteError(o) \/ HandleWriteOk(o) PROVE OrderInv'
  BY <1>9 DEF HandleWriteIgnored, HandleWriteError, HandleWriteOk, Completed, IOReady
<1>10. CASE StopFlushing
  BY <1>10 DEF StopFlushing
<1>11. CASE FlushNext
  <2>1. ops = {} /\ Starting = {} /\ Len(wire) = Popped /\ pc'[IO] # "handled"
    BY <1>11 DEF FlushNext, FlushOutgoingDataUnsafe
  <2> QED
    BY <1>11, <2>1, FlushKeepsOrder DEF FlushNext
<1>12. CASE HandleReadError \/ StreamEnd \/ RunReturns
  BY <1>12 DEF HandleReadError, StreamEnd, RunReturns, IOReady
<1>13. CASE ConnectTLSSocket \/ HandshakeDone \/ HandshakeFailed
  BY <1>13 DEF ConnectTLSSocket, HandshakeDone, HandshakeFailed, IOReady
<1>14. CASE UNCHANGED vars
  BY <1>14 DEF vars
<1> QED
  BY <1>1, <1>2, <1>3, <1>4, <1>5, <1>6, <1>7, <1>8, <1>9, <1>10, <1>11, <1>12, <1>13, <1>14
  DEF Next, Calls, WriteStep, HandlerStep, Network, Handshake

(* A queued text is never forgotten. *)
LEMMA WakeStep == ASSUME QueueInv, [Next]_vars PROVE WakeInv'
<1> USE QueueAssumption DEF QueueInv, TypeOK, ControlInv, WriterInv, WakeInv, Starting, conn, data, Threads, States, Phases, Opening, Kinds, Streams, Stages, Places, Ops
<1>1. ASSUME NEW t \in Threads, SendStanza(t) \/ Subscribe(t) PROVE WakeInv'
  BY <1>1 DEF SendStanza, Subscribe, Begin, Opened
<1>2. CASE OpenXMPPStream \/ WriteControl \/ HandleSubscribe \/ KeepAlive \/ RequestTLS \/ SessionUp
  BY <1>2 DEF OpenXMPPStream, WriteControl, HandleSubscribe, KeepAlive, RequestTLS, SessionUp, Begin, IOReady
<1>3. ASSUME NEW t \in Threads, EnterWrite(t) \/ DropWrite(t) PROVE WakeInv'
  BY <1>3 DEF EnterWrite, DropWrite, Return
<1>4. ASSUME NEW t \in Threads, Push(t) PROVE WakeInv'
  BY <1>4 DEF Push
<1>5. ASSUME NEW t \in Threads, LeaveToFlusher(t) PROVE WakeInv'
  BY <1>5 DEF LeaveToFlusher, Return
<1>6. ASSUME NEW t \in Threads, FlushPushed(t) PROVE WakeInv'
  BY <1>6 DEF FlushPushed, FlushOutgoingDataUnsafe
<1>7. ASSUME NEW t \in Threads, StartWrite(t) PROVE WakeInv'
  BY <1>7 DEF StartWrite, Return
<1>8. ASSUME NEW o \in ops, RunPosted(o) \/ WriteDone(o) \/ WriteFails(o) PROVE WakeInv'
  BY <1>8 DEF RunPosted, WriteDone, WriteFails, Restage
<1>9. ASSUME NEW o \in ops, HandleWriteIgnored(o) \/ HandleWriteError(o) \/ HandleWriteOk(o) PROVE WakeInv'
  BY <1>9 DEF HandleWriteIgnored, HandleWriteError, HandleWriteOk, Completed, IOReady
<1>10. CASE StopFlushing
  BY <1>10 DEF StopFlushing
<1>11. CASE FlushNext
  BY <1>11 DEF FlushNext, FlushOutgoingDataUnsafe
<1>12. CASE HandleReadError \/ StreamEnd \/ RunReturns
  BY <1>12 DEF HandleReadError, StreamEnd, RunReturns, IOReady
<1>13. CASE ConnectTLSSocket \/ HandshakeDone \/ HandshakeFailed
  BY <1>13 DEF ConnectTLSSocket, HandshakeDone, HandshakeFailed, IOReady
<1>14. CASE UNCHANGED vars
  BY <1>14 DEF vars
<1> QED
  BY <1>1, <1>2, <1>3, <1>4, <1>5, <1>6, <1>7, <1>8, <1>9, <1>10, <1>11, <1>12, <1>13, <1>14
  DEF Next, Calls, WriteStep, HandlerStep, Network, Handshake

-----------------------------------------------------------------------------

(* A new client satisfies the invariant. *)
LEMMA InitInv == Init => QueueInv
<1> SUFFICES ASSUME Init PROVE QueueInv
  OBVIOUS
<1>1. TypeOK
  <2>1. queue \in Seq(Nat) /\ wire \in Seq([id : Nat, via : Streams]) /\ ops \subseteq Ops
    BY DEF Init
  <2>2. /\ pc \in [Threads -> Places] /\ kind \in [Threads -> Kinds]
        /\ item \in [Threads -> Nat] /\ via \in [Threads -> Streams]
        /\ \A t \in Threads : pc[t] # "start"
    BY DEF Init, Places, Kinds, Streams
  <2>3. pushed \in Nat /\ starttls \in Nat /\ unguarded \subseteq [by : Threads, id : Nat]
    BY DEF Init
  <2> QED
    BY <2>1, <2>2, <2>3 DEF Init, TypeOK, States, Phases
<1>2. ControlInv
  BY QueueAssumption DEF Init, ControlInv, Threads
<1>3. Starting = {} /\ pc[IO] = "idle"
  BY QueueAssumption DEF Init, Starting, Threads
<1>4. WriterInv /\ WakeInv
  BY <1>3 DEF Init, WriterInv, WakeInv
<1>5. OrderInv
  <2>1. queue = <<>> /\ wire = <<>> /\ ops = {} /\ pushed = 0
    BY DEF Init
  <2>2. Len(queue) = 0 /\ Len(wire) = 0
    BY <2>1
  <2>3. DOMAIN wire = {}
    BY <2>1
  <2>4. Popped = 0
    <3>1. pushed = 0 /\ Len(queue) = 0
      BY <2>1, <2>2
    <3> QED
      BY <3>1 DEF Popped
  <2> QED
    BY <1>3, <2>1, <2>2, <2>3, <2>4 DEF OrderInv, InOrder
<1> QED
  BY <1>1, <1>2, <1>4, <1>5 DEF QueueInv

(* QueueInv holds throughout the life of a client. *)
THEOREM Invariance == SafeSpec => []QueueInv
<1>1. QueueInv /\ [Next]_vars => QueueInv'
  BY TypeStep, ControlStep, WriterStep, OrderStep, WakeStep DEF QueueInv
<1> QED
  BY InitInv, <1>1, PTL DEF SafeSpec

(* What the invariant says of the socket and of the queue. *)
LEMMA InvariantImplies == QueueInv => TypeOK /\ SingleWriter /\ InOrder /\ NoStrandedData
<1> SUFFICES ASSUME QueueInv PROVE SingleWriter /\ NoStrandedData
  BY DEF QueueInv, OrderInv
<1>1. \A t, u \in Starting : t = u
  BY DEF QueueInv, ControlInv, Starting
<1>2. SingleWriter
  BY <1>1 DEF QueueInv, WriterInv, SingleWriter
<1>3. NoStrandedData
  BY DEF QueueInv, WakeInv, NoStrandedData
<1> QED
  BY <1>2, <1>3

(* Every state of a client is typed, for any number of threads and writes. *)
THEOREM TypeCorrect == SafeSpec => []TypeOK
BY Invariance, InvariantImplies, PTL

(* Never two writes on the socket at once, whichever threads flush. *)
THEOREM WritesOneAtATime == SafeSpec => []SingleWriter
BY Invariance, InvariantImplies, PTL

(* The socket takes the texts in the order WriteTextToSocket queued them.  *)
THEOREM WritesInOrder == SafeSpec => []InOrder
BY Invariance, InvariantImplies, PTL

(* No text stays in the queue of a working client without anybody about to *)
(* flush it.                                                                *)
THEOREM NoLostWakeUp == SafeSpec => []NoStrandedData
BY Invariance, InvariantImplies, PTL

-----------------------------------------------------------------------------
(* The queue implements OrderedChannel. *)

Delivered == [i \in DOMAIN wire |-> wire[i].id]

(* The texts delivered grow by the one the socket took. *)
LEMMA DeliveredGrows ==
  ASSUME NEW e \in [id : Nat, via : Streams], wire \in Seq([id : Nat, via : Streams]),
         wire' = Append(wire, e)
  PROVE  Delivered' = Append(Delivered, e.id) /\ Len(Delivered) = Len(wire)
<1>1. Len(wire) \in Nat /\ DOMAIN wire = 1..Len(wire) /\ DOMAIN wire' = 1..(Len(wire) + 1)
  OBVIOUS
<1>2. Delivered \in Seq(Nat) /\ Len(Delivered) = Len(wire)
  <2>1. ASSUME NEW i \in DOMAIN wire PROVE wire[i].id \in Nat
    <3>1. wire[i] \in [id : Nat, via : Streams]
      BY <2>1, ElementType
    <3> QED
      BY <3>1
  <2> QED
    BY <1>1, <2>1 DEF Delivered
<1>3. \A i \in 1..(Len(wire) + 1) : wire'[i].id = Append(Delivered, e.id)[i]
  BY <1>1, <1>2 DEF Delivered
<1>4. Delivered' = [i \in 1..(Len(wire) + 1) |-> wire'[i].id]
  BY <1>1 DEF Delivered
<1>5. Append(Delivered, e.id) = [i \in 1..(Len(wire) + 1) |-> Append(Delivered, e.id)[i]]
  BY <1>1, <1>2
<1> QED
  BY <1>2, <1>3, <1>4, <1>5

(* Every step of the queue is a step of the channel or leaves it alone:     *)
(* Push accepts, WriteDone delivers, what ends the client breaks it.        *)
LEMMA ChannelStep == ASSUME QueueInv, [Next]_vars PROVE [Channel!Next]_(Channel!vars)
<1> USE DEF QueueInv, Broken, Channel!Next, Channel!vars, conn, data
<1>1. ASSUME NEW t \in Threads, Push(t) PROVE Channel!Accept
  BY <1>1 DEF Push, Channel!Accept
<1>2. ASSUME NEW o \in ops, WriteDone(o) PROVE Channel!Deliver
  <2>1. o.id = Len(wire) + 1 /\ o.id <= pushed /\ Len(wire) \in Nat
    BY <1>2 DEF WriteDone, OrderInv, NextOnWire, Popped, TypeOK
  <2>2. [id |-> o.id, via |-> o.via] \in [id : Nat, via : Streams]
    BY DEF TypeOK, Ops
  <2>3. Delivered' = Append(Delivered, o.id) /\ Len(Delivered) = Len(wire)
    BY <1>2, <2>2, DeliveredGrows DEF WriteDone, TypeOK
  <2>4. UNCHANGED <<pushed, state, running>>
    BY <1>2 DEF WriteDone
  <2>5. Len(Delivered) < pushed
    BY <2>1, <2>3 DEF TypeOK
  <2> QED
    BY <2>1, <2>3, <2>4, <2>5 DEF Channel!Deliver, Delivered
<1>3. CASE HandshakeFailed \/ HandleReadError \/ RunReturns
  BY <1>3 DEF HandshakeFailed, HandleReadError, RunReturns, Channel!Break
<1>4. ASSUME NEW o \in ops, HandleWriteError(o) PROVE [Channel!Next]_(Channel!vars)
  BY <1>4 DEF HandleWriteError, Channel!Break
<1>5. ASSUME UNCHANGED <<pushed, wire>>, Broken' = Broken
      PROVE  UNCHANGED Channel!vars
  BY <1>5
<1>6. CASE Calls
  <2>1. UNCHANGED <<pushed, wire, state, running>>
    BY <1>6 DEF Calls, SendStanza, Subscribe, OpenXMPPStream, WriteControl, HandleSubscribe, KeepAlive, RequestTLS, SessionUp, Begin
  <2> QED
    BY <1>5, <2>1
<1>7. ASSUME NEW t \in Threads, EnterWrite(t) \/ DropWrite(t) \/ LeaveToFlusher(t)
                                  \/ FlushPushed(t) \/ StartWrite(t)
      PROVE  UNCHANGED Channel!vars
  <2>1. UNCHANGED <<pushed, wire, state, running>>
    BY <1>7 DEF EnterWrite, DropWrite, LeaveToFlusher, FlushPushed, StartWrite, Return
  <2> QED
    BY <1>5, <2>1
<1>8. ASSUME NEW o \in ops, RunPosted(o) \/ WriteFails(o) \/ HandleWriteIgnored(o) \/ HandleWriteOk(o)
      PROVE  UNCHANGED Channel!vars
  <2>1. UNCHANGED <<pushed, wire, state, running>>
    BY <1>8 DEF RunPosted, WriteFails, HandleWriteIgnored, HandleWriteOk
  <2> QED
    BY <1>5, <2>1
<1>9. CASE StopFlushing \/ FlushNext \/ StreamEnd \/ ConnectTLSSocket \/ HandshakeDone
  <2>1. UNCHANGED <<pushed, wire, running>>
    BY <1>9 DEF StopFlushing, FlushNext, StreamEnd, ConnectTLSSocket, HandshakeDone
  <2>2. (state # "Error" /\ state' # "Error") \/ state' = state
    BY <1>9 DEF StopFlushing, FlushNext, StreamEnd, ConnectTLSSocket, HandshakeDone, ControlInv
  <2> QED
    BY <1>5, <2>1, <2>2
<1>10. CASE UNCHANGED vars
  BY <1>5, <1>10 DEF vars
<1> QED
  BY <1>1, <1>2, <1>3, <1>4, <1>6, <1>7, <1>8, <1>9, <1>10
  DEF Next, WriteStep, HandlerStep, Network, Handshake

(* A client's queue is an ordered channel, for any number of threads and   *)
(* writes: accepted once, delivered in order, nothing invented.            *)
THEOREM SafeRefinement == SafeSpec => Channel!SafeSpec
<1>1. Init => Channel!Init
  <2> SUFFICES ASSUME Init PROVE Channel!Init
    OBVIOUS
  <2>1. [i \in DOMAIN wire |-> wire[i].id] = <<>>
    BY DEF Init
  <2> QED
    BY <2>1 DEF Init, Channel!Init, Broken
<1>2. QueueInv /\ [Next]_vars => [Channel!Next]_(Channel!vars)
  BY ChannelStep
<1> QED
  BY <1>1, <1>2, Invariance, PTL DEF SafeSpec, Channel!SafeSpec
=============================================================================
