# DXMPP in TLA+

A model of the DXMPP client library (`src/DXMPP`), checked with TLC; what
does not rest on fairness is also proved with TLAPS. Sources are cited as `File:line`, relative to `src/DXMPP`.

## 1. The system

DXMPP is an XMPP client. An application creates a `Connection`; the connection
owns one `AsyncTCPXMLClient` per attempt to connect, one IO thread that runs
Boost.Asio's `io_service`, and a `RosterMaintaner`.

| Component | State | Operations | Correct when |
|---|---|---|---|
| **Outgoing queue** of `AsyncTCPXMLClient` (`Network/AsyncTCPXMLClient.cpp:354-464, 616-652`) | `OutgoingData`, `OutgoingDataMutex`, `Flushing`, `SSLConnection`, the client's `CurrentConnectionState` | `WriteTextToSocket` by any thread; `HandleWrite` on the IO thread | one write at a time, order kept, nothing stranded, nothing that was checked on this attempt in the clear once TLS was asked for |
| **Reading side** of `AsyncTCPXMLClient` (`:124-351`, `:654-689`) | `ReadDataStream` (plain and TLS), `IncomingDocuments` | `HandleRead`, `LoadXML`, `FetchDocument`, the switch in `ConnectTLSSocket` | every document handled once and in order, none from the plain stream after the handshake |
| **Connection** (`Connection.cpp`) | `CurrentConnectionState`, `CurrentAuthenticationState`, the feature flags, `Authentication`, `PreviouslyBroadcastedState` | one handler per state of the negotiation, `BrodcastConnectionState`, `Run`, `Reconnect`, `SendStanza` | online only after a full negotiation, each failure reported, `Reconnect` comes back |
| **SASL mechanisms** (`SASL/`) | nonces, proofs | `Begin`, `Challenge`, `Verify` | the strongest mechanism offered is used, `<success/>` is verified |
| **RosterMaintaner** (`Roster.cpp`) | `Uplink` | `Subscribe`, `Unsubscribe`, `OnPresence`, `ResetClient` by `Connect` | presences reach the right callback and are answered where they came from |
| **Teardown** (`Connection.cpp:693-723`, `Connection.hpp:224-234`) | the handlers and their mutexes, the references to the Connection | `~Connection`, `DeRegisterHandlers` | a reset handler is not called, and the roster's callbacks, which are not reset, only inside `run()`; nothing in use is freed, callers come back |
| **Keep-alive** (`AsyncTCPXMLClient.cpp:501-537`) | a deadline timer, `LastWrite` | `SetKeepAliveByWhiteSpace`, `SendKeepAliveWhitespace` | an idle stream is written to in time, errors end the series |
| **Stanza and its dispatch** (`Stanza.hpp`, `Connection.cpp:372-453`) | a document, a `Payload` into it, `To`, `From`, `ID`, a type | `CreateStanza`, `ProvisionOutgoingStanza`, `SendStanza`, `DispatchStanza` | what arrives is what was sent; an answer reaches who asked |
| **JID** (`JID.hpp`) | node, domain, resource | `LoadJID`, `GetFullJID`, `GetBareJID` | an address written is read back as it was |
| `TLSVerification` | settings | OpenSSL's callbacks | not modelled |
| `OldAsyncTCPXMLClient` | - | - | dead code: not in `CMakeLists.txt` |

Interaction. The IO thread calls `HandleRead`, which calls the Connection's
`ClientGotData`, which calls the application's callbacks; callbacks may send
(back into the queue), throw, or call `Reconnect`. Application threads call
`SendStanza` and the roster (into the queue) and `Reconnect`, which stops the
`io_service`, joins the IO thread and replaces the client.

Hard behaviours: the queue's hand-over between pushing threads and write
handlers without a lock on the client's state; the upgrade to TLS in the
middle of it; a `Reconnect` racing the IO thread it is about to join;
exceptions that leave callbacks and unwind the IO thread; a negotiation spread
over three streams, two state variables and flags that outlive a stream; documents
cut by TCP wherever it likes; a destructor run by the thread it has to join;
raw pointers replaced while another thread calls through them.
`PROJECT.json` lists these hazards line by line, with the properties that watch
them.

## 2. Modules

| Module | What it is | Instance | Theorems |
|---|---|---|---|
| `OrderedChannel` | What users of a channel rely on: delivered in the order of acceptance, and all of it unless the channel breaks | | |
| `OutgoingQueue` | The outgoing queue in full, at the grain of its locks; implements `OrderedChannel` | `MCOutgoingQueue` | `OutgoingQueueProofs`, `OutgoingQueueTLSProofs` |
| `ReadFraming` | The reading side: reads cut anywhere, features, delimiting, leftovers; implements `OrderedChannel` for documents | `MCReadFraming` | `ReadFramingProofs` |
| `ReportedState` | What an application may see through `ConnectionStateChanged` | | |
| `Connection` | Negotiation, document loop, reports, exceptions, `Reconnect` against the IO thread; implements `ReportedState` | `MCConnection` | `ConnectionProofs` |
| `Teardown` | `DeRegisterHandlers` and `~Connection` against the IO thread, whose reports follow `ReportedState` | `MCTeardown` | `TeardownProofs` |
| `KeepAlive` | The keep-alive timer against a clock, writers and errors | `MCKeepAlive` | `KeepAliveProofs` |
| `Roster` | The roster's presences, answers and `Uplink` against `Connect` | `MCRoster` | `RosterProofs` |
| `Jid` | Addresses as sequences of characters | | `StanzasProofs` |
| `Stanzas` | Two applications that create, send, receive and answer stanzas; uses `Jid` | `MCStanzas` | `StanzasProofs` |

The composition is by abstraction: `OrderedChannel` is what `Connection`
assumes of both directions of the client (`written` and the tokens of `rds`),
and `OutgoingQueue` and `ReadFraming` are shown to implement it;
`ReportedState` is what `Connection` implements and `Teardown` assumes.

### OutgoingQueue and the code

One behaviour is the life of one client from a successful `ConnectSocket` on.
`state`, `ssl`, `queue`, `flushing`, `mutex` are the client's fields of section
1; `phase` is what the Connection is doing, only as far as it decides who may
write: `stale` between `ConnectSocket` and `OpenXMPPStream` when the
Connection's state is still `Connected` from the attempt before
(`Connection.cpp:650-657`), `opening` there when it is not; then `negotiating`,
`starttls`, `online` and `offline`. `OpenXMPPStream` writes the header on the
thread in `Connect`, which stands here as the IO thread, since that one starts
only when the other is done. `ops` are the composed writes asio holds (posted to the strand, being
written, written, failed), `wire` is what the socket took and by which stream.
A text is its number in the order of pushes, so "in order, none lost, none
twice" is `wire[i].id = i`.

`WriteTextToSocket` is five steps of a thread, one per place where another
thread can come between: the unlocked check of the state (`EnterWrite`,
`DropWrite`), the push under the mutex (`Push`), the choice by `Flushing`
(`LeaveToFlusher`, `FlushPushed`), and the hand-over to asio, with the stream
that `FlushOutgoingDataUnsafe` chose a moment before (`StartWrite`). The
callers are `SendStanza`, the roster's calls (which check nothing), and the IO thread itself (`WriteControl`, `KeepAlive`,
`RequestTLS`, `SessionUp`, and `HandleSubscribe`, the roster's answer to a
presence). `SendStanza` checks the Connection's state at `Connection.cpp:441` and
takes `Client` at `:452`, so a sender may have made its check on an attempt
before, or while the state is stale, and write to this client: `Init` lets any
set of senders be there already, and `SendStanza` in phase `stale` adds to them.
Their texts, and the roster's, are the `unguarded` ones. `HandleWrite` is
`HandleWriteIgnored`, `HandleWriteError` or
`HandleWriteOk` with `StopFlushing` or `FlushNext`. `ConnectTLSSocket` blocks
the IO thread in its handshake while other threads go on. `RunReturns` is the
end of `io_service->run()`, after which no handler runs.

### Connection and the code

`cs`, `auth`, `features`, `mech`, `prev` are the Connection's fields; `net`,
`tls`, `rds`, `armed` those of the client it looks at. `io` is where the IO
thread is: `idle` in `run()`, in the `loop` of `CheckStreamForValidXML` or at
its `tail`, in the TLS `handshake`, in an application `callback`, `unwinding`
an exception, `ended` (out of `Run`), or `crashed` (the process is gone).
`user` is the thread in `Reconnect`, whose steps `stop`, `joining` and
`connecting` interleave with all of that. `written`, `offered` and `verified`
record what was written to this client, what its server announced and whether
`<success/>` was verified; no action reads them except, in `Expected`, the
environment.

A document is one complete top-level element; each `CheckFor...` function is
an action on the head of `rds`. Reports go through `Report`, which does what
`BrodcastConnectionState` does: nothing when the state was the last one
reported, otherwise a callback, which returns, throws or calls `Reconnect`.
Whether the state is assigned before the report (`GiveUp`) or after it
(`ReportAndGiveUp`) differs from function to function in the code and is kept:
an exception in between leaves the assignment out.

### ReadFraming and the code

`stream` is `ReadDataStream`, `incoming` is `IncomingDocuments`, both as
sequences of tags (`<x>` or `</x>`); `wire` is what the server wrote and no read
has taken. `HandleRead` takes any part of it. `io` is where the IO thread is in
`CheckStreamForValidXML`: searching `features`, about to `load` or to `fetch`
in the loop. `InnerLoadXML` cuts out the first text that ends its root by
`SAXEndElementHandler`'s count of names; expat stops at the first tag that does
not fit (`WellFormed`), and a text that pugixml refuses (`Unparsable`) ends the
loop. `CheckForStreamEnd` searches what is left. A read that ends within a tag
is modelled as ending in front of it. `sent` and `garbled` record what the
server sent (the documents that parse, the number of those that do not) and
`handled` what reached the connection; only the bound on documents reads them.

### Teardown and the code

`shared` and `calls` are the two `boost::shared_mutex`es: what the IO thread
holds shared, what a thread in `DeRegisterHandlers` waits for exclusively.
`registered` are the handlers that are not null. `inRun` and `io` say where the
IO thread is, `dtor` and `by` where `~Connection` is and on which thread: the
application's (`AppLetsGo`), or the IO thread's when a callback held the last
reference (`DestroyHere`). `alive` are the objects not freed, `Touched` those
the IO thread uses next; `UseAfterFree` is what it does with one that is gone.
`Throw` is an exception: caught by `Run` inside `run()`, by nobody behind it.
`Create` makes one object the handler of all six callbacks
(`Connection.cpp:733-738`), and `DeRegisterHandlers` resets the two of the
Connection; the roster keeps its four, and its callbacks go on.

### KeepAlive and the code

`now` is the clock in units the timeout `T` counts, `lastWrite` is `LastWrite`,
`queue` and `flushing` the outgoing queue reduced to lengths, `timer` whether
the timer object exists, `armed` and `due` its wait, `aborted` a wait cancelled
whose handler is still to run. `Lag` is how late the IO thread may run a
handler that is due. `SocketError` is where `HandleRead` and `HandleWrite`
destroy the timer.

### Roster and the code

`uplink` is the roster's pointer, `client` the number of the Connection's
client: an older one is freed. `connect` is where `Connect` is, from the join of
the old IO thread over `ResetClient(nullptr)` (`ResetUplink`) and the new client
to the fork of its IO thread. `HandleSubscribe` is the callback (`OnSubscribe`)
and one write or two (`AnswerSubscribed`, `SubscribeBack`). `handlers` are the
callbacks that the application has set; a presence for one that is null
(`Unheard`) is dropped, as in `Roster.cpp:17` and `:45`. A call of the
application reads the pointer in one step (`ReadUplink`) and writes through it
in the next (`WritePresence`). A write through a null or freed client ends in
`fault`, which says whose write it was.

### Stanzas, Jid and the code

A character is a model value or a word; `Find`, `LoadJID`, `GetFullJID` and
`GetBareJID` do what `JID.hpp` does on sequences of them. A document is an
element and at most one within it, each with the attributes it `has` and what
they read as: `SetValue` on an absent attribute does nothing, as in pugixml.
`stanzas` are the objects in the order of their construction, sent or received,
with their public fields, which an application may change before it sends
(`Ready`). `SendStanza` fills the payload in and writes the whole document;
`DispatchStanza` hands over a message or an iq found anywhere in one. Each of
the two that is found takes the document by a move, the message first; `Owner`
is who has it after both moves, and `Handed` what is handed over, the iq when
there is one. So for a document with both, the iq handed over owns nothing
(`owns`). `IQTypesRead` is nondeterministic for an unknown type: the
constructor leaves `IQType` uninitialised. The server between the applications
is external: it hands documents on in order, as they are.

## 3. Runs

| Run | Bounds | Shows |
|---|---|---|
| `queue` | 1 sender, 1 roster user, IO thread; 5 texts; fair | `SingleWriter`, `InOrder`, `NoStrandedData`, `PlaintextStopsAtStartTLS`, `EveryTextIsSent`, `ImplementsOrderedChannel`, `TypeOK` |
| `connection_early` | arbitrary server, 2 attempts, 2 documents per buffer, `Reconnect` at any time | `NoPlainLeftovers`, `DeadIsReported`, `NegotiatingIsConnecting`, `ImplementsReportedState`, `ReconnectReturns`, `TypeOK` |
| `connection_patient` | arbitrary server, 3 attempts, 2 documents, `Reconnect` only after a report | `OnlineMeansNegotiated`, `MechanismWasOffered`, `NoCredentialsBeforeTLS`, `AuthenticatesOnce` |
| `connection_answered` | a server that answers, fair | `AttemptEnds` |
| `connection_send` | as above; expected to fail | `SendRefusedWhenDisconnected` |
| `teardown` | both threads may deregister, callbacks throw or not; fair | `QuietAfterDeRegister`, `OutsideRunIsSafe`, `DeRegisterReturns`, `TypeOK` |
| `framing` | 4 documents of 4 kinds, reads cut at every tag; fair | `HandledInOrder`, `NothingWaits`, `EndIsNoticed`, `ImplementsOrderedChannel`, `TypeOK` |
| `framing_end` | a message and an iq with a `<stream/>`; expected to fail | `EndOnlyWhenClosed` |
| `keepalive` | timeout 2, lag 1, time to 9, 2 texts queued | `IdleGap`, `OneWhitespace`, `TypeOK` |
| `roster` | 2 peers, 1 caller, 2 clients, 2 presences, any set of handlers; symmetry of peers | `AnswersNeverFault`, `AnswersGoBack`, `SubscribesAfterAllowing`, `TypeOK` |
| `roster_callbacks` | as above; expected to fail | `CallbacksMatchPresences` |
| `stanzas` | 2 applications, 3 addresses, 3 foreign documents, 2 stanzas created, 2 sent | `ArrivesAsSent`, `AnswersReachTheAsker`, `TypeOK` |

Why the bounds are enough. Five texts hold the stream header, `<starttls/>`,
the header over TLS and two texts that race them. A text needs at
most two actors to be overtaken; a sender (late or not), a roster's user and the
IO thread are three that push, one of each role, and two texts of one sender are
what "one late stanza at most" can go wrong with. The theorems of section 5
remove these bounds. For the Connection, two documents in one read are what it
takes to have something behind the document being handled, and one `Reconnect` after `Create`'s (the
count starts at -1, so `MaxReconnects = 1` is two attempts) puts an old IO
thread beside a new attempt; three attempts let stale state skip one. The
offers are a server with TLS and a weak mechanism, one with TLS and two
mechanisms, one without TLS, and one with nothing the client knows; they may
change from stream to stream. `Teardown` needs no bound: its state is finite.
Four documents hold a restart of the stream with something on either side and
an unparsable one with something behind it; nested elements of the root's name
are what the count of names could get wrong. In `keepalive` nine units are four
timeouts: two re-arms, the whitespace and a timeout after it, at each phase of
the clock. Two clients are the old and the new one of a `Connect`, two
presences one being answered while another waits. Two stanzas sent are a
question and its answer, or one stanza sent twice; the addresses are one
without a node whose resource holds an at sign, one whose resource holds a
slash, and a second resource to be bound to in between; the documents from
elsewhere are an iq around a message, an iq without a type and a message within
another element.

`CHECK_DEADLOCK FALSE` everywhere: the queue stops when all texts are spent,
a connection may wait for a server that says nothing, a process may be over, and
the other systems stop at the bounds of their runs.

### Fairness

`OutgoingQueue!Fairness`: a thread inside `WriteTextToSocket` goes on; the IO
thread runs handlers that are ready as long as it is in `run()`; the network
ends every write and every handshake, well or badly; `Connect` goes on to
`OpenXMPPStream`. Nobody has to call
anything and nothing has to fail. `Connection!Spec`: the IO thread goes on with
the documents it has, handshakes are answered (the code has no timeout there),
callbacks end, `run()` returns once stopped or out of work, and `Connect`'s
steps follow each other. The server owes nothing, except in `AnsweredSpec`.
`Teardown!Spec`: callbacks return, the IO thread and the destructor go on, and
the thread that waits for a handler mutex gets it (strong fairness):
`boost::shared_mutex` keeps new readers out while a writer waits.
`ReadFraming!Spec`: what was written arrives and the IO thread runs; the server
need not send anything. `KeepAlive`, `Roster` and `Stanzas` state safety only;
what the clock must not do there (run past a handler that is due by more than
`Lag`) is a guard of `Tick`.

### What the runs brought up

* **`SendStanza` after the IO thread died** (`connection_send`, a finding). A
  callback that throws ends `io_service->run()`; `Run` reports `ErrorUnknown`
  but leaves `CurrentConnectionState` at `Connected`, so `SendStanza` does not
  throw "Trying to send Stanza with disconnected connection."
  (`Connection.cpp:443`) and the stanza is queued for nobody.
* **`Reconnect` resets too early.** `Reset` runs before the old IO thread is
  stopped and joined (`Connection.cpp:529`), and that thread may set
  `CurrentAuthenticationState` and the feature flags again. With
  `EarlyReconnect = TRUE` the four properties of `connection_patient` are
  violated: a connection may come online without having authenticated. They are
  therefore stated for applications that reconnect only after a report. No
  document of the repository says when `Reconnect` may be called, so this is a
  hazard and not a finding.
* **EXTERNAL** is neither initialised nor reset (`Connection.cpp:512-516`), so
  `MechanismWasOffered` leaves it out.
* **Roster writes** ignore the Connection's state: `PlaintextStopsAtStartTLS`
  is stated for all texts but those the roster's users push, for which it does
  not hold.
* **A late sender** checked the Connection's state on an attempt before and
  takes the client of this one (`Connection.cpp:441`, `:452`). Its stanza may go
  out during the negotiation, also behind `<starttls/>` and in the clear.
  `PlaintextStopsAtStartTLS` says that this is all there is besides the roster:
  one stanza of each sender at most, since its next call is refused.
* **A child `<stream/>` ends the stream** (`framing_end`, a finding):
  `CheckForStreamEnd` searches the beginning of an incomplete stanza for
  `</stream>` (`Connection.cpp:212`).
* **Presences reach the wrong callback** (`roster_callbacks`, a finding):
  `OnPresence` hands `subscribed` and `unsubscribe` to `HandleSubscribe` and
  `unsubscribed` to `HandleSubscribed` (`Roster.cpp:80-93`).
* **When an application may let go.** `~Connection` frees the client before it
  joins the thread that runs in it (`Connection.cpp:714`). `OutsideRunIsSafe` is
  what remains true: a disposal begun while the IO thread is out of `run()`.
  The examples let go whenever `main` returns; nothing documents otherwise.
* **`DeRegisterHandlers` from a callback** of the same mutex waits for itself
  (`SelfLocked`), and `DeRegisterReturns` leaves it out.
* **After `DeRegisterHandlers` the handler's object is still called**, by the
  roster: it is the handler of all six callbacks and only two are reset
  (`Connection.hpp:224-234`). So it may not be destroyed while the IO thread is
  in `run()`. `QuietAfterDeRegister` says what does hold: the callbacks reset
  are over and do not come back, and no callback of either kind runs behind
  `run()` once they are.
* **A server that does not wait** for the answer to its features loses what it
  sends behind them (`CheckStreamForFeatures` drops the buffer). The properties
  of `framing` are stated for one that waits, as XMPP servers do (`Eager =
  FALSE`); with `Eager = TRUE` TLC violates them.
* **The keep-alive series ends with its first whitespace**, for
  `SendKeepAliveWhitespace` arms the timer again only after a recent write
  (`OneWhitespace`). `IdleGap` so speaks of the time up to it.
* **A document with a message and an iq** is moved twice in `DispatchStanza`
  (`Connection.cpp:393-404`), and the iq handed over owns nothing: its
  `Payload` dangles. `ArrivesAsSent` is stated for other documents, and no
  property speaks of this one.
* The calls that broadcast `Connecting` during the negotiation
  (`Connection.cpp:459, 484, 490`) never reach the application, because
  `Connect` has set `PreviouslyBroadcastedState` to that very value
  (`NegotiatingIsConnecting`).

## 4. What is assumed

* Only the outcome of a write, a read or a handshake is modelled, not bytes.
  Nothing in the code cancels socket operations, so the handlers' branch for
  `operation_canceled` is dead.
* `Reset`, run by an application thread while the IO thread may be inside
  `Authentication`, is one atomic step: the model shows the outcomes of the
  logical race, not of a pointer freed in mid-call.
* In `Connection` the queue is abstracted to a set of texts written; the
  `OutgoingQueue` theorems are what allows it.
* After a failed `Connect`, `IOThread` is a joined `boost::thread` and joining it
  again returns at once.
* `Conforming` and `AnsweredSpec` describe the peer, external code.
* `Teardown` leaves `Reconnect` out: its caller holds a reference.
* In `Roster`, a pointer read from `Uplink` is one step and the write through it
  another; the copy of the `shared_ptr` itself, which races with `Connect`, is
  not torn.
* In `Stanzas`, the Connections are Connected and have a handler; ids are
  distinct (`ID` is a random UUID in the code); a node or a domain holds no `@`
  or `/` (`WellFormed`), as the protocol has it.

## 5. Proofs

Assumptions: `QueueAssumption` (threads are distinct, `MaxWrites` is a natural
number), `ConnectionAssumption`, `TeardownAssumption`, `KeepAliveAssumption`,
`RosterAssumption` (the types of the constants), `FramingAssumption` (a
document is a text that ends where its root does and not before, by the count of
names that `SAXEndElementHandler` keeps), `CharactersAssumption` (the
separators are characters) and `StanzasAssumption` (addresses are well formed,
and different applications have different accounts).
Nothing is assumed about the number of threads, texts, attempts, documents,
peers or applications, nor about the length of timeouts and strings. Two
theorem groups have a hypothesis on a constant: `~EarlyReconnect` (the
application reconnects only after a report) and `~Eager` (the server waits for
the client's answer to its features). Section 3 says what goes wrong without
them; the runs `connection_patient` and `framing` are instances with them.

### The outgoing queue

The properties are not inductive. `QueueInv` strengthens them with four parts:

* `ControlInv`: the mutex is held exactly by the thread at `locked` or `start`,
  only the IO thread handles, `Upgrading` is exactly the handshake. Without it,
  two threads could be about to pop.
* `WriterInv`: `Flushing` is set from the pop until a handler, and the text
  popped, the write, and its handler exclude each other: this is `SingleWriter`.
* `OrderInv`: the queue holds the numbers behind `Popped = pushed - Len(queue)`
  and the wire those before it, and only a text on its way may be between the
  two. `InOrder` needs it because the socket appends what a thread popped long
  before.
* `WakeInv`: a queue that is not empty has `Flushing` set or a thread under the
  mutex about to look, and `Flushing` has a write, a starter or a handler
  behind it, unless the client is in error. This is `NoStrandedData`, and the
  reason why the early return of `HandleWrite` (`:620`) does no harm: it is
  reached only in state `Error`, since `Upgrading` blocks the IO thread.

`Invariance` proves `SafeSpec => []QueueInv`; `TypeCorrect`, `WritesOneAtATime`,
`WritesInOrder` and `NoLostWakeUp` follow. `SafeRefinement` proves that every
step is a step of `OrderedChannel` or a stutter. `PlaintextStops` adds
`QuietInv` (before the Connection is online only the IO thread, the roster's
users and late senders write), `UpgradeInv` (from the push of `<starttls/>` to
the handshake nobody but these two pushes), `LateInv` (behind `<starttls/>` a
sender has one late text at most, and once it has it is no longer on its way to
another) and `SecureInv` (what is popped behind `<starttls/>` goes to the TLS
stream, the unguarded texts apart). `LateInv` holds because a thread is
in one call at a time, and its next call finds the state of this attempt.

### The Connection

The theorems about buffers and reports hold for `EarlyReconnect = TRUE` too, the
case in which the negotiation itself may go wrong. `NothingPlainIsReadSecure` is
inductive with the types: what a read appends is marked by the stream in use, and the only
action that changes the stream drops the buffer. The reports need `ReportInv`,
of which `DeadIsReported` is one part and the others are what the code relies
on without saying so:

* `AttemptInv`: while `Connect` runs no IO thread does, and the last report is
  `Connecting`. Without it, a report of the old attempt could follow the first
  one of the new. It needs the join in `Connect`.
* `FailedInv`: a client in error has a Connection that gave up, and still will
  have when the running callback returns, since some functions assign the state
  only after the report.
* `LiveInv`: while the IO thread works, negotiating means that `Connecting` was
  reported last, and connected that no error was. An exception makes it false
  at once, which is why it speaks only of places before `Run` catches one.
* `CallbackInv`: where a callback returns to, the assignment still to be made
  agrees with what was just reported.

`ReportInvariance` proves it for every action; `FailuresAreReported` and
`NegotiationIsConnecting` follow, and `ReportRefinement` shows that each step
is a step of `ReportedState` or a stutter: `NewAttempt` is the join in
`Connect`, and `Ended` is there because `ErrorUnknown` may follow
`ErrorAuthenticating` on the way out of `Run`.

For an application that reconnects only after a report, the negotiation itself
is right. None of the four properties of `connection_patient` is inductive: each
handler looks at two state variables and a few flags and trusts that they belong
to this client and to each other. `PatientInv` states that trust, on top of
`ReportInv`:

* `ReconnectInv`: from the call of `Reconnect` on, `auth`, `mech` and the flags
  are as `Reset` left them. `Reset` runs long before the old thread is joined,
  so this needs that thread to be out of the way; it is, for `prev` is no longer
  `Connecting`, and by `LiveInv` nobody negotiates then. With
  `EarlyReconnect = TRUE` this is the part that breaks.
* `ClientInv`: wherever the IO thread works there is a connected client, and the
  handshake is exactly `Upgrading`.
* `OfferedInv`: the flags of the features are among what this client was offered,
  EXTERNAL apart. It is why a server's second set of features cannot bring back
  a mechanism of an attempt before.
* `FeaturesInv`, `AuthenticatingInv`, `SessionInv`: for each value of the two
  state variables, what this client has written, on which stream, and whether
  `<success/>` was verified. `Bind` in `WaitingForFeatures`, for instance, means
  that the new stream was opened behind a verified login, and `StartTLS` there
  that the stream is secure and carries no credentials yet.
* `OnlineInv`: the callback that reports `Connected` returns into a Connection
  that is; with `OnlineMeansNegotiated` itself.

`PatientStep` proves it action by action, `PatientInvariance` of every
behaviour. `OnlineIsNegotiated` and `MechanismIsOffered` are parts of it. The
two action properties need one more observation, `OnlyFeaturesLogIn` (no other
action begins SASL or writes `<auth/>`), after which `LoginStep` looks at that
one: `TLSBeforeCredentials` and `LogsInOnce`.

### Teardown

`TeardownInv` adds to the properties `Places` (where the IO thread is decides
whether it is inside `run()`, and behind it the only handler it may call is the
connection's), `Living` (what is not freed yet at each step of the destructor,
and that a held reference means that none has begun) and `Outside` (after a
disposal begun out of `run()`, the IO thread is on its way to its end with at
most its own report before it, and the join waits for it). Without `Living` a
callback that holds a reference could run beside the destructor. `Quiet` (of
the callbacks, the roster's included only as far as `run()` has ended),
`SafeOutsideRun` and `TypeCorrect` follow.

### The keep-alive

`Waiting` bounds the timer from both sides: it was armed less than a timeout
after the last write, and time does not pass its expiry by more than `Lag`;
their sum is `IdleGap`. `Series` ties the timer, the errors and the whitespaces
together: a series started in a client that works and that sent no whitespace
has its timer armed. It must say that a cancelled wait means a destroyed timer,
or the handler of a cancelled wait could begin a second series.

### The roster

While the IO thread runs, `Connect` has not begun to change the roster's client
(`Wired`): this is the join in `Connect`, and all that makes the answers safe.
`Forking`, `Created` and `Numbered` carry the pointer over the steps of
`Connect`, and `Answering` says that the presence being answered came over the
client there is. `AnswersAreSafe` and `AnswersReturn` follow, and with the types
of the other variables (`Rest`) `TypeCorrect`.

`AllowsBeforeSubscribing` needs `Allowed`: at the second presence of
`AllowAndSubscribe` the first one is among the writes, over the client there is
and for the presence being answered. It survives the writes of callers in
between (`WriteOne`) and, because the IO thread is joined first, every
`Connect`.

### The reading side

`LoopInv` ties the place in `CheckStreamForValidXML` to `LoadMore` and to
`IncomingDocuments`; in particular, the loop ends without looking for a document
only behind a text that did not parse. `TypeCorrect` and `NoDocumentWaits`
follow, for any server.

`HandledInOrder` needs an account of all that is on its way. `OpenInv` says that
buffer and wire together (`Text`) are the texts of some list of documents
(`Framed`, with the positions where each ends), that those of them that parse
are the documents sent behind the ones already handled or fetched (`Numbered`,
likewise by positions), and that one that restarts the stream is the last
(`RestartIsLast`), so that dropping the buffer with the features drops nothing
else; `FeaturesInv` is the same for a connection that waits for features, and
`TakenInv` for the document just fetched. Stating the split by its positions,
and not by a recursive concatenation, is what keeps the proof within first-order
reach.

A read moves tags from the wire to the buffer and changes nothing in `Text`,
wherever it is cut. The step that matters is `InnerLoadXML`. Its count need not
be computed: `DocumentFirst` says that a buffer that begins as a document does
is cut where the document ends, and not before all of it is there, because it
is whole and no proper beginning of it is (`Minimal`), however elements of the
root's name are nested in it; `FramedFirst`, that what is cut off is therefore
the first document of the list. What is left is framed by the rest of the list
(`FramedTake`, `NumberedTake`). `FramingInvariance`, `DocumentsInOrder` and `SafeRefinement`
follow, the last one saying that each step accepts a document, delivers one,
breaks the channel or leaves it alone.

### Addresses and stanzas

`RoundTrip` says that an address written by `GetFullJID` is read back by
`LoadJID` as it was, whatever its resource holds. It rests on what `find` and
`substr` do with two strings and a separator between them: `Before` finds the
separator and splits there, `FindInPrefix` and `SliceOfPrefix` say that what
follows the bare address changes nothing that is found in it, and `BareRead`
that no slash is.

The properties need `StanzaInv`. `StanzasInv` says that every stanza points
to an element of its kind in a document that has at most one element within
it (`GoodStanza`), that it owns the document exactly when the document does not
have both a message and an iq, and that the addresses in it, also those of elements it does not
point to, read as well-formed ones (`ProperParts`): only then does `RoundTrip`
apply to a stanza that is sent on. `WireInv` says that a document on its way
carries what its sender had filled in (`Carries`), and `SentInv` and `BoundInv`
that the addresses recorded and bound are well formed. `TypeCorrect` follows; `Faithful` is proved of each step, with `Carries` for
the document that is handed over.

`AnswersReach` adds `AskInv`, which relates addresses over three moments: what
an application sends comes from an address the server has bound it to, though
perhaps no longer does; a stanza read from it has that address as its `From`;
and a stanza made for an answer goes there, also when it was sent. The answer
is then addressed to an application that shares the account, and
`StanzasAssumption` says that only one does.

### What is only model-checked

What is temporal under fairness, which is beyond the proof system:
`EveryTextIsSent`, `ReconnectReturns`, `AttemptEnds`, `DeRegisterReturns`,
`EndIsNoticed`, and the liveness half of both `ImplementsOrderedChannel`, whose
safety halves are the two `SafeRefinement`. Every invariant and every action
property of a passing run is proved. That the documents of an instance are
`Minimal` is what TLC evaluates as `FramingAssumption`: the counting by which
expat and the handlers find an end is defined over all positions of a text, and
is not computed in a proof.

## 6. Not modelled

* Bytes: half tags, character data, encodings, the namespaces and attributes of
  the negotiation. `ReadFraming` cuts reads between tags only.
* The cryptography of the SASL mechanisms (nonces, proofs and hashes are
  outcomes), certificate checks (`TLSVerification`), the options of the socket.
* `RosterMaintaner::HandleError` and `HandleUnsubscribed`: nobody calls them.
* A torn `shared_ptr` and a SASL object freed in mid-call: undefined behaviour
  whose outcomes in the build have no bound.
* Logging and the example programs, except as callers of the library;
  `OldAsyncTCPXMLClient`, which `CMakeLists.txt` does not build; pugixml, expat,
  Boost.Asio and Crypto++, except as the code uses them.

## 7. Plan

In order of importance:

1. `ReadFraming` in the place of the token stream of `Connection`, in one
   composed module, with small documents.
2. The exchange of messages of SCRAM and DIGEST-MD5, as parsed fields.
3. What `Connection` assumes of the queue (a set of texts written) as a
   refinement of `OutgoingQueue`, in place of the argument of section 4.
