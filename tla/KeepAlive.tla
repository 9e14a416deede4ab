------------------------------ MODULE KeepAlive ------------------------------
(***************************************************************************)
(* The keep-alive of AsyncTCPXMLClient against the clock: a timer that     *)
(* looks at the time of the last write, and a queue that moves this time   *)
(* when it hands a text to asio.                                           *)
(***************************************************************************)
EXTENDS Naturals

CONSTANTS T,         \* SendKeepAliveWhiteSpaceTimeeoutSeconds
          Lag,       \* how late the IO thread may run an expired timer
          MaxTime,   \* bound on the clock
          MaxQueue   \* bound on the texts that wait

ASSUME KeepAliveAssumption == T \in Nat \ {0} /\ Lag \in Nat /\ MaxTime \in Nat /\ MaxQueue \in Nat

VARIABLES
    now,          \* the clock
    lastWrite,    \* LastWrite
    flushing,     \* Flushing
    queue,        \* how many texts OutgoingData holds
    state,        \* CurrentConnectionState of the client
    timer,        \* SendKeepAliveWhitespaceTimer is not null
    armed,        \* its wait is pending
    due,          \* when it expires
    aborted,      \* a handler of a destroyed timer is about to run
    started,      \* SetKeepAliveByWhiteSpace was called
    whitespaces   \* how many were pushed (history)

writing == <<lastWrite, flushing, queue>>
waiting == <<timer, armed, due, aborted>>
vars == <<now, writing, state, waiting, started, whitespaces>>

(* The session was asked for just now. *)
Init ==
    /\ now = 0 /\ lastWrite = 0 /\ flushing = TRUE /\ queue = 0
    /\ state = "Connected"
    /\ timer = FALSE /\ armed = FALSE /\ due = 0 /\ aborted = FALSE
    /\ started = FALSE /\ whitespaces = 0

(* Time passes, but the IO thread runs a timer at most Lag late. *)
Tick ==
    /\ now < MaxTime
    /\ armed => now < due + Lag
    /\ now' = now + 1
    /\ UNCHANGED <<writing, state, waiting, started, whitespaces>>

WriteTextToSocket ==
    IF flushing THEN queue' = queue + 1 /\ UNCHANGED <<flushing, lastWrite>>
                ELSE flushing' = TRUE /\ lastWrite' = now /\ UNCHANGED queue

Write ==
    /\ state = "Connected" /\ queue < MaxQueue
    /\ WriteTextToSocket
    /\ UNCHANGED <<now, state, waiting, started, whitespaces>>

HandleWrite ==
    /\ state = "Connected" /\ flushing
    /\ IF queue = 0 THEN flushing' = FALSE /\ UNCHANGED <<queue, lastWrite>>
                    ELSE queue' = queue - 1 /\ lastWrite' = now /\ UNCHANGED flushing
    /\ UNCHANGED <<now, state, waiting, started, whitespaces>>

(* HandleWrite and HandleRead destroy the timer; asio then calls its        *)
(* handler, which takes no error code.                                      *)
SocketError ==
    /\ state = "Connected"
    /\ state' = "Error"
    /\ timer' = FALSE /\ armed' = FALSE /\ aborted' = armed
    /\ UNCHANGED <<now, writing, due, started, whitespaces>>

Arm ==
    /\ armed' = TRUE /\ due' = now + T
    /\ UNCHANGED <<writing, whitespaces>>

PushWhitespace ==
    /\ WriteTextToSocket
    /\ whitespaces' = whitespaces + 1
    /\ armed' = FALSE /\ UNCHANGED due

(* Mutated: a recent write does not arm the timer again. *)
SendWithoutRearm ==
    IF now - lastWrite < T
    THEN armed' = FALSE /\ UNCHANGED <<due, writing, whitespaces>>
    ELSE PushWhitespace

(* Mutated: the timer is armed whether or not something was written. *)
SendLate ==
    IF now - lastWrite < 3 * T THEN Arm ELSE PushWhitespace

SendKeepAliveWhitespace ==
    IF now - lastWrite < T THEN Arm ELSE PushWhitespace

SetKeepAliveByWhiteSpace ==
    /\ ~started /\ state = "Connected" /\ queue < MaxQueue
    /\ started' = TRUE /\ timer' = TRUE
    /\ SendKeepAliveWhitespace
    /\ UNCHANGED <<now, state, aborted>>

Expires ==
    /\ armed /\ now >= due /\ queue < MaxQueue
    /\ SendKeepAliveWhitespace
    /\ UNCHANGED <<now, state, timer, aborted, started>>

(* Mutated: the handler of a destroyed timer goes on. *)
AbortedUnchecked ==
    /\ aborted /\ queue < MaxQueue
    /\ aborted' = FALSE
    /\ SendKeepAliveWhitespace
    /\ UNCHANGED <<now, state, timer, started>>

Aborted ==
    /\ aborted
    /\ aborted' = FALSE
    /\ IF timer THEN SendKeepAliveWhitespace
                ELSE UNCHANGED <<writing, armed, due, whitespaces>>
    /\ UNCHANGED <<now, state, timer, started>>

Next ==
    \/ Tick \/ Write \/ HandleWrite \/ SocketError
    \/ SetKeepAliveByWhiteSpace \/ Expires \/ Aborted

Spec == Init /\ [][Next]_vars

-----------------------------------------------------------------------------
TypeOK ==
    /\ now \in Nat /\ lastWrite \in 0 .. now /\ queue \in Nat /\ due \in Nat
    /\ flushing \in BOOLEAN /\ timer \in BOOLEAN /\ armed \in BOOLEAN
    /\ aborted \in BOOLEAN /\ started \in BOOLEAN
    /\ state \in {"Connected", "Error"} /\ whitespaces \in Nat
    /\ armed => timer /\ state = "Connected"

(* While the keep-alive waits, the line is never silent for as long as two  *)
(* timeouts (and the lag of the IO thread): the timer is armed again only   *)
(* after a write less than one timeout ago.                                 *)
IdleGap == armed => now - lastWrite < 2 * T + Lag

(* The series goes on until it sends its first whitespace, and ends with    *)
(* it: nothing else stops it while the client works, and nothing sends a    *)
(* second one.                                                              *)
OneWhitespace ==
    /\ whitespaces <= 1
    /\ started /\ state = "Connected" => armed = (whitespaces = 0)
=============================================================================
