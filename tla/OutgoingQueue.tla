---------------------------- MODULE OutgoingQueue ----------------------------
(***************************************************************************)
(* The outgoing side of AsyncTCPXMLClient: OutgoingData, its mutex and the *)
(* flag Flushing, shared by the application's threads and the IO thread,   *)
(* with the switch of the stream from TCP to TLS in the middle.            *)
(*                                                                         *)
(* One life of one client object, from a successful ConnectSocket on.  The *)
(* thread in Connect, which writes the stream header before it starts the  *)
(* IO thread, is the IO thread here.  Threads in SendStanza may be there   *)
(* before it: SendStanza checks the state of the Connection first and      *)
(* takes its client later, so the check may have been made on an attempt   *)
(* before.  A text is its place in the order of pushes.                    *)
(*                                                                         *)
(* Nothing cancels an operation of the socket, so the branch of the        *)
(* handlers for operation_canceled is never taken.                         *)
(***************************************************************************)
EXTENDS Naturals, Sequences, FiniteSets

CONSTANTS Senders,      \* application threads that call Connection::SendStanza
          RosterUsers,  \* application threads that call RosterMaintaner::Subscribe
          IO,           \* the thread in io_service->run()
          Nobody,       \* the owner of a mutex that is free
          MaxWrites     \* bound: how many texts are written

Threads == Senders \cup RosterUsers \cup {IO}

ASSUME QueueAssumption ==
    /\ Senders \cap RosterUsers = {}
    /\ IO \notin Senders \cup RosterUsers
    /\ Nobody \notin Threads
    /\ MaxWrites \in Nat

VARIABLES
    state,     \* CurrentConnectionState of the client
    ssl,       \* SSLConnection
    phase,     \* what the Connection is doing, as far as it decides who writes
    mutex,     \* the owner of OutgoingDataMutex
    queue,     \* OutgoingData
    flushing,  \* Flushing
    ops,       \* writes handed to asio whose handler has not run
    wire,      \* texts the socket took, in order, and by which stream
    pc,        \* where each thread is
    kind,      \* what each thread is writing
    item,      \* the text a thread popped and has not handed to asio
    via,       \* the stream it chose for that text
    pushed,    \* how many texts were pushed
    unguarded, \* those that no check of this attempt let pass, and by whom (history)
    starttls,  \* the number of the <starttls/> text, 0 before it is pushed
    timer,     \* SendKeepAliveWhitespaceTimer is armed
    running    \* the IO thread is inside io_service->run()

vars == <<state, ssl, phase, mutex, queue, flushing, ops, wire, pc, kind,
          item, via, pushed, unguarded, starttls, timer, running>>

conn == <<state, ssl, phase, starttls, timer, running>>
data == <<queue, flushing, ops, wire, pushed, unguarded>>

States == {"Connected", "Upgrading", "Error"}
Opening == {"stale", "opening"}
Phases == Opening \cup {"negotiating", "starttls", "online", "offline"}
Kinds == {"stanza", "late", "roster", "header", "control", "starttls", "presence"}
Unguarded == {"late", "roster"}
Streams == {"tcp", "tls"}
Stages == {"posted", "writing", "written", "failed"}
Places == {"idle", "called", "lock", "locked", "start", "handled", "handshake"}

-----------------------------------------------------------------------------

(* Connect is between ConnectSocket and OpenXMPPStream; the state of the    *)
(* Connection may still be Connected, from an attempt before (stale), and   *)
(* any sender may have passed its check then.                               *)
Init ==
    /\ state = "Connected" /\ ssl = FALSE /\ phase \in Opening
    /\ mutex = Nobody /\ queue = <<>> /\ flushing = FALSE
    /\ ops = {} /\ wire = <<>> /\ pushed = 0 /\ unguarded = {} /\ starttls = 0
    /\ \E late \in SUBSET Senders :
          /\ pc = [t \in Threads |-> IF t \in late THEN "called" ELSE "idle"]
          /\ kind = [t \in Threads |-> IF t \in late THEN "late" ELSE "control"]
    /\ item = [t \in Threads |-> 0]
    /\ via = [t \in Threads |-> "tcp"]
    /\ timer = FALSE /\ running = TRUE

(* Texts pushed, or sure to be unless the client fails. *)
Budget == pushed + Cardinality({t \in Threads : pc[t] \in {"called", "lock", "handshake"}})
                 + IF phase \in Opening THEN 1 ELSE 0

Begin(t, k) ==
    /\ Budget < MaxWrites
    /\ pc' = [pc EXCEPT ![t] = "called"]
    /\ kind' = [kind EXCEPT ![t] = k]
    /\ UNCHANGED <<mutex, item, via, data>>

(* Before it assigned the state, OpenXMPPStream has written nothing; the    *)
(* roster gets the client, and the IO thread starts, when it is done.       *)
OpenXMPPStream ==
    /\ phase \in Opening /\ pc[IO] = "idle"
    /\ phase' = "negotiating"
    /\ pc' = [pc EXCEPT ![IO] = "called"]
    /\ kind' = [kind EXCEPT ![IO] = "header"]
    /\ UNCHANGED <<state, ssl, starttls, timer, running, mutex, item, via, data>>

Opened == phase \notin Opening /\ (kind[IO] = "header" => pc[IO] = "idle")

(* Mutated: SendStanza without its check of the state. *)
SendStanzaUnchecked(t) ==
    /\ t \in Senders /\ pc[t] = "idle"
    /\ Begin(t, IF phase = "stale" THEN "late" ELSE "stanza")
    /\ UNCHANGED conn

(* SendStanza reads the Connection's state once, without a lock. *)
SendStanza(t) ==
    /\ t \in Senders /\ pc[t] = "idle"
    /\ phase \in {"stale", "online"}
    /\ Begin(t, IF phase = "stale" THEN "late" ELSE "stanza")
    /\ UNCHANGED conn

(* The roster writes to its Uplink whatever state the Connection is in. *)
Subscribe(t) ==
    /\ t \in RosterUsers /\ pc[t] = "idle" /\ Opened
    /\ Begin(t, "roster")
    /\ UNCHANGED conn

IOReady == running /\ phase \notin Opening /\ pc[IO] = "idle"

(* A handler that answers the server while the stream is negotiated.        *)
(* Between <starttls/> and <proceed/> the Connection writes nothing.        *)
WriteControl ==
    /\ IOReady /\ state = "Connected" /\ phase = "negotiating"
    /\ Begin(IO, "control")
    /\ UNCHANGED conn

(* Online, the IO thread writes for the callbacks: the answer to a presence *)
(* (two texts when the application subscribes in return), or a stanza.      *)
HandleSubscribe ==
    /\ IOReady /\ state = "Connected" /\ phase = "online"
    /\ Begin(IO, "control")
    /\ UNCHANGED conn

(* SendKeepAliveWhitespace: the write does not arm the timer again.         *)
KeepAlive ==
    /\ IOReady /\ timer
    /\ timer' = FALSE
    /\ Begin(IO, "control")
    /\ UNCHANGED <<state, ssl, phase, starttls, running>>

(* CheckStreamForFeatures with STARTTLS offered. *)
RequestTLS ==
    /\ IOReady /\ state = "Connected" /\ phase = "negotiating" /\ ~ssl /\ starttls = 0
    /\ phase' = "starttls"
    /\ Begin(IO, "starttls")
    /\ UNCHANGED <<state, ssl, starttls, timer, running>>

(* CheckForWaitingForSession: the presence is written, then the Connection  *)
(* is online and the keep-alive timer set (Return).                         *)
SessionUp ==
    /\ IOReady /\ state = "Connected" /\ phase = "negotiating"
    /\ Begin(IO, "presence")
    /\ UNCHANGED conn

-----------------------------------------------------------------------------
(* WriteTextToSocket, by any thread. *)

Return(t) ==
    /\ pc' = [pc EXCEPT ![t] = "idle"]
    /\ phase' = IF kind[t] = "presence" THEN "online" ELSE phase
    /\ timer' = (timer \/ kind[t] = "presence")
    /\ UNCHANGED <<state, ssl, starttls, running, kind>>

(* The client's state is read before the mutex is taken. *)
EnterWrite(t) ==
    /\ pc[t] = "called" /\ state = "Connected"
    /\ pc' = [pc EXCEPT ![t] = "lock"]
    /\ UNCHANGED <<conn, mutex, data, kind, item, via>>

DropWrite(t) ==
    /\ pc[t] = "called" /\ state # "Connected"
    /\ Return(t)
    /\ UNCHANGED <<mutex, data, item, via>>

Push(t) ==
    /\ pc[t] = "lock" /\ mutex = Nobody
    /\ mutex' = t
    /\ queue' = Append(queue, pushed + 1)
    /\ pushed' = pushed + 1
    /\ unguarded' = IF kind[t] \in Unguarded
                      THEN unguarded \cup {[by |-> t, id |-> pushed + 1]} ELSE unguarded
    /\ starttls' = IF kind[t] = "starttls" THEN pushed + 1 ELSE starttls
    /\ pc' = [pc EXCEPT ![t] = "locked"]
    /\ UNCHANGED <<state, ssl, phase, timer, running, flushing, ops, wire, kind, item, via>>

(* Mutated: the front is read after the pop; it is never popped; the newest *)
(* text is taken.                                                           *)
FlushFrontAfterPop(t) ==
    /\ flushing' = TRUE
    /\ item' = [item EXCEPT ![t] = IF Len(queue) > 1 THEN queue[2] ELSE 0]
    /\ via' = [via EXCEPT ![t] = IF ssl THEN "tls" ELSE "tcp"]
    /\ queue' = Tail(queue)
    /\ pc' = [pc EXCEPT ![t] = "start"]

FlushWithoutPop(t) ==
    /\ flushing' = TRUE
    /\ item' = [item EXCEPT ![t] = Head(queue)]
    /\ via' = [via EXCEPT ![t] = IF ssl THEN "tls" ELSE "tcp"]
    /\ pc' = [pc EXCEPT ![t] = "start"]
    /\ UNCHANGED queue

FlushNewest(t) ==
    /\ flushing' = TRUE
    /\ item' = [item EXCEPT ![t] = queue[Len(queue)]]
    /\ via' = [via EXCEPT ![t] = IF ssl THEN "tls" ELSE "tcp"]
    /\ queue' = SubSeq(queue, 1, Len(queue) - 1)
    /\ pc' = [pc EXCEPT ![t] = "start"]

(* FlushOutgoingDataUnsafe up to the choice of the stream, which reads      *)
(* SSLConnection without any lock.  Its callers hold the mutex.             *)
FlushOutgoingDataUnsafe(t) ==
    /\ flushing' = TRUE
    /\ item' = [item EXCEPT ![t] = Head(queue)]
    /\ via' = [via EXCEPT ![t] = IF ssl THEN "tls" ELSE "tcp"]
    /\ queue' = Tail(queue)
    /\ pc' = [pc EXCEPT ![t] = "start"]

LeaveToFlusher(t) ==
    /\ pc[t] = "locked" /\ flushing
    /\ mutex' = Nobody
    /\ Return(t)
    /\ UNCHANGED <<data, item, via>>

(* Mutated: WriteTextToSocket flushes without asking Flushing. *)
FlushPushedAlways(t) ==
    /\ pc[t] = "locked"
    /\ FlushOutgoingDataUnsafe(t)
    /\ UNCHANGED <<conn, mutex, ops, wire, pushed, unguarded, kind>>

FlushPushed(t) ==
    /\ pc[t] = "locked" /\ ~flushing
    /\ FlushOutgoingDataUnsafe(t)
    /\ UNCHANGED <<conn, mutex, ops, wire, pushed, unguarded, kind>>

(* The popped text goes to asio: posted to the strand for the TLS stream,   *)
(* written by this very thread for the TCP stream.  The mutex is released.  *)
StartWrite(t) ==
    /\ pc[t] = "start"
    /\ ops' = ops \cup {[id |-> item[t], via |-> via[t],
                         stage |-> IF via[t] = "tls" THEN "posted" ELSE "writing"]}
    /\ mutex' = Nobody
    /\ item' = [item EXCEPT ![t] = 0]
    /\ Return(t)
    /\ UNCHANGED <<queue, flushing, wire, pushed, unguarded, via>>

-----------------------------------------------------------------------------
(* The IO thread's handlers. *)

Restage(o, s) == ops' = (ops \ {o}) \cup {[o EXCEPT !.stage = s]}

RunPosted(o) ==
    /\ IOReady /\ o \in ops /\ o.stage = "posted"
    /\ Restage(o, "writing")
    /\ UNCHANGED <<conn, mutex, queue, flushing, wire, pushed, unguarded, pc, kind, item, via>>

Completed(o) == IOReady /\ o \in ops /\ o.stage \in {"written", "failed"}

(* HandleWrite for a client that is no longer connected: Flushing stays. *)
HandleWriteIgnored(o) ==
    /\ Completed(o) /\ state # "Connected"
    /\ ops' = ops \ {o}
    /\ UNCHANGED <<conn, mutex, queue, flushing, wire, pushed, unguarded, pc, kind, item, via>>

HandleWriteError(o) ==
    /\ Completed(o) /\ state = "Connected" /\ o.stage = "failed"
    /\ ops' = ops \ {o}
    /\ state' = "Error" /\ phase' = "offline" /\ timer' = FALSE
    /\ UNCHANGED <<ssl, starttls, running, mutex, queue, flushing, wire, pushed, unguarded, pc, kind, item, via>>

HandleWriteOk(o) ==
    /\ Completed(o) /\ state = "Connected" /\ o.stage = "written"
    /\ ops' = ops \ {o}
    /\ pc' = [pc EXCEPT ![IO] = "handled"]
    /\ kind' = [kind EXCEPT ![IO] = "control"]
    /\ UNCHANGED <<conn, mutex, queue, flushing, wire, pushed, unguarded, item, via>>

(* Mutated: HandleWrite stops without looking at the queue, or leaves       *)
(* Flushing set.                                                            *)
StopFlushingUnchecked ==
    /\ pc[IO] = "handled" /\ mutex = Nobody
    /\ flushing' = FALSE
    /\ pc' = [pc EXCEPT ![IO] = "idle"]
    /\ UNCHANGED <<conn, mutex, queue, ops, wire, pushed, unguarded, kind, item, via>>

StopFlushingWithoutReset ==
    /\ pc[IO] = "handled" /\ mutex = Nobody /\ queue = <<>>
    /\ pc' = [pc EXCEPT ![IO] = "idle"]
    /\ UNCHANGED <<conn, mutex, data, kind, item, via>>

(* The rest of HandleWrite, under the mutex. *)
StopFlushing ==
    /\ pc[IO] = "handled" /\ mutex = Nobody /\ queue = <<>>
    /\ flushing' = FALSE
    /\ pc' = [pc EXCEPT ![IO] = "idle"]
    /\ UNCHANGED <<conn, mutex, queue, ops, wire, pushed, unguarded, kind, item, via>>

FlushNext ==
    /\ pc[IO] = "handled" /\ mutex = Nobody /\ queue # <<>>
    /\ mutex' = IO
    /\ FlushOutgoingDataUnsafe(IO)
    /\ UNCHANGED <<conn, ops, wire, pushed, unguarded, kind>>

(* HandleRead with an error. *)
HandleReadError ==
    /\ IOReady /\ state = "Connected"
    /\ state' = "Error" /\ phase' = "offline" /\ timer' = FALSE
    /\ UNCHANGED <<ssl, starttls, running, mutex, data, pc, kind, item, via>>

(* The Connection gives up on a client that still works: end of stream, no  *)
(* <proceed/>, failed authentication.                                       *)
StreamEnd ==
    /\ IOReady /\ state = "Connected" /\ phase # "offline"
    /\ phase' = "offline"
    /\ UNCHANGED <<state, ssl, starttls, timer, running, mutex, data, pc, kind, item, via>>

(* <proceed/> arrives, possibly before the handler of <starttls/> has run:  *)
(* ConnectTLSSocket, whose handshake blocks the IO thread.                  *)
ConnectTLSSocket ==
    /\ IOReady /\ state = "Connected" /\ phase = "starttls"
    /\ Budget < MaxWrites
    /\ state' = "Upgrading" /\ ssl' = TRUE
    /\ pc' = [pc EXCEPT ![IO] = "handshake"]
    /\ UNCHANGED <<phase, starttls, timer, running, mutex, data, kind, item, via>>

(* The handshake succeeds and the stream is opened again. *)
HandshakeDone ==
    /\ pc[IO] = "handshake"
    /\ state' = "Connected" /\ phase' = "negotiating"
    /\ pc' = [pc EXCEPT ![IO] = "called"]
    /\ kind' = [kind EXCEPT ![IO] = "control"]
    /\ UNCHANGED <<ssl, starttls, timer, running, mutex, data, item, via>>

HandshakeFailed ==
    /\ pc[IO] = "handshake"
    /\ state' = "Error" /\ phase' = "offline"
    /\ pc' = [pc EXCEPT ![IO] = "idle"]
    /\ UNCHANGED <<ssl, starttls, timer, running, mutex, data, kind, item, via>>

(* io_service->run() ends: stopped by Reconnect, left by an exception of a  *)
(* callback, or out of work.  The Connection's state is not touched.        *)
RunReturns ==
    /\ IOReady
    /\ running' = FALSE
    /\ UNCHANGED <<state, ssl, phase, starttls, timer, mutex, data, pc, kind, item, via>>

-----------------------------------------------------------------------------
(* The network, external. *)

WriteDone(o) ==
    /\ o \in ops /\ o.stage = "writing"
    /\ Restage(o, "written")
    /\ wire' = Append(wire, [id |-> o.id, via |-> o.via])
    /\ UNCHANGED <<conn, mutex, queue, flushing, pushed, unguarded, pc, kind, item, via>>

WriteFails(o) ==
    /\ o \in ops /\ o.stage = "writing"
    /\ Restage(o, "failed")
    /\ UNCHANGED <<conn, mutex, queue, flushing, wire, pushed, unguarded, pc, kind, item, via>>

-----------------------------------------------------------------------------

WriteStep(t) == EnterWrite(t) \/ DropWrite(t) \/ Push(t) \/ LeaveToFlusher(t)
                  \/ FlushPushed(t) \/ StartWrite(t)

HandlerStep == \/ \E o \in ops : RunPosted(o) \/ HandleWriteIgnored(o)
                                   \/ HandleWriteError(o) \/ HandleWriteOk(o)
               \/ StopFlushing
               \/ FlushNext

Network == \E o \in ops : WriteDone(o) \/ WriteFails(o)

Calls == (\E t \in Threads : SendStanza(t) \/ Subscribe(t)) \/ OpenXMPPStream \/ WriteControl
            \/ HandleSubscribe \/ KeepAlive \/ RequestTLS \/ SessionUp

Handshake == HandshakeDone \/ HandshakeFailed

Next == \/ Calls
        \/ \E t \in Threads : WriteStep(t)
        \/ HandlerStep
        \/ Network
        \/ ConnectTLSSocket \/ Handshake
        \/ HandleReadError \/ StreamEnd \/ RunReturns

SafeSpec == Init /\ [][Next]_vars

(* A thread inside WriteTextToSocket goes on, the IO thread runs the        *)
(* handlers that are ready, the network ends every write and the server     *)
(* every handshake; Connect goes on to open the stream.  Nobody else has to *)
(* call, and nothing has to fail.                                           *)
Fairness == /\ \A t \in Threads : WF_vars(WriteStep(t))
            /\ WF_vars(HandlerStep)
            /\ WF_vars(Network)
            /\ WF_vars(Handshake)
            /\ WF_vars(OpenXMPPStream)

Spec == SafeSpec /\ Fairness

-----------------------------------------------------------------------------

Ops == [id : Nat \ {0}, via : Streams, stage : Stages]

TypeOK ==
    /\ state \in States /\ ssl \in BOOLEAN /\ phase \in Phases
    /\ mutex \in Threads \cup {Nobody}
    /\ queue \in Seq(Nat) /\ flushing \in BOOLEAN
    /\ ops \subseteq Ops
    /\ wire \in Seq([id : Nat, via : Streams])
    /\ pc \in [Threads -> Places] /\ kind \in [Threads -> Kinds]
    /\ item \in [Threads -> Nat] /\ via \in [Threads -> Streams]
    /\ \A t \in Threads : pc[t] = "start" => item[t] # 0
    /\ pushed \in Nat /\ unguarded \subseteq [by : Threads, id : Nat] /\ starttls \in Nat
    /\ timer \in BOOLEAN /\ running \in BOOLEAN

(* Threads that have popped a text and not yet handed it to asio. *)
Starting == {t \in Threads : pc[t] = "start"}

(* asio allows one composed write on a stream at a time, and Flushing is    *)
(* there to ensure it: no text is popped while another one is on its way    *)
(* or its handler is deciding what comes next.                              *)
SingleWriter ==
    /\ \A o1, o2 \in ops : o1 = o2
    /\ \A t, u \in Starting : t = u
    /\ ops = {} \/ Starting = {}
    /\ pc[IO] = "handled" => ops = {} /\ Starting = {}

(* The socket takes the texts in the order of the pushes, none left out and *)
(* none twice, whichever thread flushed them and over whichever stream.     *)
InOrder == \A i \in DOMAIN wire : wire[i].id = i

(* No lost wake-up: while the client is connected, a queued text has a      *)
(* write before it, whose handler will flush the queue, or a thread in the  *)
(* middle of WriteTextToSocket or HandleWrite that is about to look.        *)
NoStrandedData ==
    queue # <<>> /\ state # "Error" =>
        \/ ops # {} \/ Starting # {}
        \/ pc[IO] = "handled"
        \/ \E t \in Threads : pc[t] = "locked" /\ ~flushing

(* Nothing pushed after <starttls/> is sent over the bare TCP stream that   *)
(* SendStanza has checked on this attempt, nor what the Connection itself   *)
(* writes.  What is left: texts of the roster users, who check nothing, and *)
(* of each sender at most one stanza, whose check was made before this      *)
(* stream was opened.                                                       *)
PlaintextStopsAtStartTLS ==
    starttls # 0 =>
        /\ \A i \in DOMAIN wire :
              wire[i].id > starttls => \/ wire[i].via = "tls"
                                       \/ \E u \in unguarded : u.id = wire[i].id
        /\ \A u, v \in unguarded :
              u.by \in Senders /\ v.by = u.by /\ u.id > starttls /\ v.id > starttls => u = v

(* What the client is unable to do once it failed or its IO thread left. *)
Broken == state = "Error" \/ ~running

(* Every text WriteTextToSocket queued is sent, unless the client fails or  *)
(* the IO thread leaves io_service->run().                                  *)
EveryTextIsSent ==
    \A n \in 1..MaxWrites : pushed >= n ~> Len(wire) >= n \/ Broken

Channel == INSTANCE OrderedChannel WITH
    accepted <- pushed,
    delivered <- [i \in DOMAIN wire |-> wire[i].id],
    broken <- Broken

(* The queue implements the channel its callers rely on, safety and        *)
(* liveness: texts are sent in order, and all of them unless it is broken.  *)
ImplementsOrderedChannel == Channel!Spec

-----------------------------------------------------------------------------
(* The inductive invariant behind SingleWriter, InOrder and NoStrandedData. *)

(* Who is where: the mutex has one owner, only the IO thread handles.       *)
ControlInv ==
    /\ \A t \in Threads : pc[t] \in {"locked", "start"} <=> mutex = t
    /\ \A t \in Threads : pc[t] \in {"handled", "handshake"} => t = IO
    /\ state = "Upgrading" <=> pc[IO] = "handshake"
    /\ \A t \in Threads : pc[t] = "locked" => queue # <<>>

(* Flushing is set by whoever pops, and stays until a handler resets it.    *)
WriterInv ==
    /\ \A o1, o2 \in ops : o1 = o2
    /\ ops # {} => flushing /\ Starting = {}
    /\ Starting # {} => flushing
    /\ pc[IO] = "handled" => flushing /\ ops = {} /\ Starting = {}

(* The text popped last, and the one after the last on the wire: they       *)
(* differ only while a text is on its way.                                  *)
Popped == pushed - Len(queue)
NextOnWire == Len(wire) + 1

OrderInv ==
    /\ InOrder
    /\ Len(queue) <= pushed /\ Len(wire) <= Popped
    /\ \A i \in 1..Len(queue) : queue[i] = Popped + i
    /\ \A o \in ops : IF o.stage = "written" THEN Len(wire) = Popped
                      ELSE o.id = NextOnWire /\ o.id = Popped
    /\ \A t \in Starting : item[t] = NextOnWire /\ item[t] = Popped
    /\ ~flushing \/ pc[IO] = "handled" => Len(wire) = Popped

(* Somebody will look at the queue. *)
WakeInv ==
    /\ queue # <<>> /\ ~flushing => \E t \in Threads : pc[t] = "locked"
    /\ flushing /\ state # "Error" => ops # {} \/ Starting # {} \/ pc[IO] = "handled"

QueueInv == TypeOK /\ ControlInv /\ WriterInv /\ OrderInv /\ WakeInv

(* Behind PlaintextStopsAtStartTLS.  Before the Connection has been online, *)
(* the IO thread, the roster users and late senders alone write.            *)
QuietInv ==
    /\ phase \in Opening \cup {"negotiating", "starttls"} =>
          ~timer /\ \A t \in Senders : pc[t] = "idle" \/ kind[t] = "late"
    /\ phase \in Opening => starttls = 0 /\ pc[IO] = "idle"
    /\ pc[IO] = "handshake" => phase = "starttls"
    /\ \A t \in Senders : kind[t] \in {"control", "stanza", "late"}
    /\ \A t \in RosterUsers : kind[t] \in {"control", "roster"}
    /\ kind[IO] \notin Unguarded
    /\ \A t \in RosterUsers : pc[t] # "idle" => kind[t] = "roster"

(* From the push of <starttls/> to the handshake only they push.            *)
Upgrade == starttls # 0 /\ ~ssl
Later(n) == n > starttls /\ ~(\E u \in unguarded : u.id = n)

UpgradeInv ==
    /\ pc[IO] \in {"called", "lock"} /\ kind[IO] = "starttls" =>
          phase = "starttls" /\ ~ssl /\ starttls = 0
    /\ Upgrade =>
          /\ phase \in {"starttls", "offline"} /\ ~timer
          /\ \A t \in Senders : pc[t] = "idle" \/ kind[t] = "late"
          /\ pc[IO] \notin {"called", "lock", "handshake"} /\ kind[IO] # "presence"
          /\ \A n \in 1 .. pushed : ~Later(n)

(* Behind <starttls/> a sender has one late text at most, and none that it  *)
(* is still to push.                                                        *)
LateInv ==
    /\ \A u \in unguarded : u.id <= pushed
    /\ starttls # 0 =>
          \A u \in unguarded : u.by \in Senders /\ u.id > starttls =>
              /\ pc[u.by] \in {"called", "lock"} => kind[u.by] # "late"
              /\ \A v \in unguarded : v.by = u.by /\ v.id > starttls => u = v

(* What is popped after <starttls/> goes to the TLS stream, or is unguarded. *)
SecureInv ==
    starttls # 0 =>
        /\ \A o \in ops : o.stage # "written" /\ Later(o.id) => o.via = "tls"
        /\ \A t \in Starting : Later(item[t]) => via[t] = "tls"
        /\ \A i \in DOMAIN wire : Later(wire[i].id) => wire[i].via = "tls"

TLSInv == QueueInv /\ QuietInv /\ UpgradeInv /\ LateInv /\ SecureInv

=============================================================================
