------------------------------ MODULE Teardown ------------------------------
(***************************************************************************)
(* The end of a Connection: DeRegisterHandlers against the callbacks that  *)
(* the IO thread makes under the handler mutexes, and ~Connection, run by  *)
(* whichever thread drops the last reference, against the IO thread.       *)
(*                                                                         *)
(* The IO thread is seen from outside: what it reports follows module      *)
(* ReportedState, which Connection implements.  Reconnect is left out: its *)
(* caller holds a reference, so it never meets the destructor.             *)
(***************************************************************************)
EXTENDS Naturals

CONSTANTS DeRegisters   \* the threads that call DeRegisterHandlers

Threads == {"app", "io"}
Handlers == {"connection", "stanza"}    \* each has a mutex of its own

ASSUME TeardownAssumption == DeRegisters \subseteq Threads

VARIABLES
    registered,  \* the handlers that are not null
    shared,      \* the handler mutexes the IO thread holds shared
    calls,       \* the mutex each thread wants in DeRegisterHandlers, or "none"
    reported,    \* PreviouslyBroadcastedState
    io,          \* where the IO thread is
    what,        \* the handler it is about to call or is calling
    inRun,       \* it is inside io_service->run()
    stopped,     \* io_service->stop() was called
    held,        \* the application holds its SharedConnection
    dtor,        \* the next step of ~Connection
    by,          \* the thread that runs ~Connection
    letGo,       \* where the IO thread was when ~Connection began (history)
    alive,       \* the objects not freed
    fault        \* how the process died, or "none"

callbacks == <<registered, shared, calls>>
thread == <<reported, io, what, inRun>>
disposal == <<stopped, held, dtor, by, letGo, alive>>
vars == <<callbacks, thread, disposal, fault>>

Reported == INSTANCE ReportedState

Objects == {"roster", "client", "connection"}

(* A callback of the two handlers is given a reference of its own. *)
InCallback(kinds) == io = "callback" /\ what \in kinds
Referenced == held \/ InCallback(Handlers)

(* What the IO thread is going to touch: run() and its handlers live in the *)
(* client and its io_service, a roster callback also in the roster.         *)
Touched == (IF io \in {"ended", "destroying"} THEN {} ELSE {"connection"})
             \cup (IF inRun THEN {"client"} ELSE {})
             \cup (IF InCallback({"roster"}) THEN {"roster"} ELSE {})

(* The application got its reference from Create, with the IO thread        *)
(* running, or without one when the socket did not connect.                 *)
Create ==
    /\ registered \in SUBSET Handlers
    /\ shared = {} /\ calls = [t \in Threads |-> "none"]
    /\ \/ reported = "Connecting" /\ io = "run" /\ inRun = TRUE
       \/ reported = "ErrorConnecting" /\ io = "ended" /\ inRun = FALSE
    /\ what = "none"
    /\ stopped = FALSE /\ held = TRUE
    /\ dtor = "no" /\ by = "app" /\ letGo = "no"
    /\ alive = Objects /\ fault = "none"

-----------------------------------------------------------------------------
(* The IO thread. *)

Runs == fault = "none" /\ Touched \subseteq alive

HandleEvent ==
    /\ Runs /\ io = "run" /\ ~stopped
    /\ io' = "handler"
    /\ UNCHANGED <<callbacks, reported, what, inRun, disposal, fault>>

EventDone ==
    /\ Runs /\ io = "handler"
    /\ io' = "run"
    /\ UNCHANGED <<callbacks, reported, what, inRun, disposal, fault>>

(* BrodcastConnectionState with a new state, up to the lock. *)
BrodcastConnectionState ==
    /\ Runs /\ io = "handler"
    /\ Reported!Online \/ Reported!Failed \/ Reported!Ended
    /\ reported' # "ErrorConnecting"
    /\ io' = "locking" /\ what' = "connection"
    /\ UNCHANGED <<callbacks, inRun, disposal, fault>>

(* DispatchStanza, up to the lock. *)
DispatchStanza ==
    /\ Runs /\ io = "handler" /\ reported = "Connected"
    /\ io' = "locking" /\ what' = "stanza"
    /\ UNCHANGED <<callbacks, reported, inRun, disposal, fault>>

(* CheckForPresence: the roster's callbacks take neither lock nor reference. *)
CheckForPresence ==
    /\ Runs /\ io = "handler" /\ reported = "Connected"
    /\ io' = "callback" /\ what' = "roster"
    /\ UNCHANGED <<callbacks, reported, inRun, disposal, fault>>

(* Where the IO thread is when a report or a dispatch has returned, and     *)
(* where an exception takes it: Run catches what leaves run(), and nobody   *)
(* what leaves the report that Run makes itself.                            *)
Return == IF inRun THEN "handler" ELSE "ended"

Throw ==
    /\ what' = "none" /\ inRun' = FALSE
    /\ IF inRun THEN io' = "final" /\ UNCHANGED fault
                ELSE fault' = "terminated" /\ UNCHANGED io

NoHandler ==
    /\ Runs /\ io = "locking" /\ what \notin registered
    /\ io' = Return /\ what' = "none"
    /\ UNCHANGED <<callbacks, reported, inRun, disposal, fault>>

(* shared_from_this() throws when the last reference is gone. *)
NoReference ==
    /\ Runs /\ io = "locking" /\ what \in registered /\ ~Referenced
    /\ Throw
    /\ UNCHANGED <<callbacks, reported, disposal>>

CallHandler ==
    /\ Runs /\ io = "locking" /\ what \in registered /\ Referenced
    /\ shared' = {what}
    /\ io' = "callback"
    /\ UNCHANGED <<registered, calls, reported, what, inRun, disposal, fault>>

(* The reference of a callback goes with it; the last one takes the         *)
(* Connection along, on this thread.                                        *)
LastReference == what # "roster" /\ ~held

DestroyHere ==
    /\ io' = "destroying" /\ dtor' = "parts" /\ by' = "io" /\ letGo' = "self"
    /\ UNCHANGED <<stopped, held, alive>>

CallbackReturns ==
    /\ Runs /\ io = "callback" /\ calls["io"] = "none"
    /\ shared' = {} /\ what' = "none"
    /\ IF LastReference THEN DestroyHere
                        ELSE io' = Return /\ UNCHANGED disposal
    /\ UNCHANGED <<registered, calls, reported, inRun, fault>>

(* Mutated: the lock is not released when a callback throws. *)
CallbackThrowsLocked ==
    /\ Runs /\ io = "callback" /\ calls["io"] = "none"
    /\ ~LastReference
    /\ Throw
    /\ UNCHANGED <<callbacks, reported, disposal>>

CallbackThrows ==
    /\ Runs /\ io = "callback" /\ calls["io"] = "none"
    /\ shared' = {}
    /\ IF LastReference THEN DestroyHere /\ what' = "none" /\ UNCHANGED <<inRun, fault>>
                        ELSE Throw /\ UNCHANGED disposal
    /\ UNCHANGED <<registered, calls, reported>>

(* Challenge of a SASL mechanism throws. *)
HandlerThrows ==
    /\ Runs /\ io = "handler"
    /\ Throw
    /\ UNCHANGED <<callbacks, reported, disposal>>

(* run() returns when it is stopped, or has nothing left after a failure. *)
RunReturns ==
    /\ Runs /\ io = "run" /\ (stopped \/ reported \in Reported!Errors)
    /\ io' = "final" /\ inRun' = FALSE
    /\ UNCHANGED <<callbacks, reported, what, disposal, fault>>

(* The report that ends Run. *)
RunReports ==
    /\ Runs /\ io = "final"
    /\ reported' = "ErrorUnknown"
    /\ IF reported = "ErrorUnknown" THEN io' = "ended" /\ UNCHANGED what
                                    ELSE io' = "locking" /\ what' = "connection"
    /\ UNCHANGED <<callbacks, inRun, disposal, fault>>

UseAfterFree ==
    /\ fault = "none" /\ ~(Touched \subseteq alive)
    /\ fault' = "freed"
    /\ UNCHANGED <<callbacks, thread, disposal>>

-----------------------------------------------------------------------------
(* DeRegisterHandlers: one mutex after the other, each exclusively. *)

MayDeRegister(t) ==
    /\ t \in DeRegisters /\ calls[t] = "none"
    /\ IF t = "app" THEN held ELSE io = "callback" /\ Runs

DeRegisterHandlers(t) ==
    /\ fault = "none" /\ MayDeRegister(t)
    /\ calls' = [calls EXCEPT ![t] = "connection"]
    /\ UNCHANGED <<registered, shared, thread, disposal, fault>>

Following(h) == IF h = "connection" THEN "stanza" ELSE "none"

(* Mutated: the handler is reset without its mutex. *)
ResetUnlocked(t) ==
    /\ fault = "none" /\ calls[t] \in Handlers
    /\ registered' = registered \ {calls[t]}
    /\ calls' = [calls EXCEPT ![t] = Following(calls[t])]
    /\ UNCHANGED <<shared, thread, disposal, fault>>

ResetHandler(t) ==
    /\ fault = "none" /\ calls[t] \in Handlers \ shared
    /\ registered' = registered \ {calls[t]}
    /\ calls' = [calls EXCEPT ![t] = Following(calls[t])]
    /\ UNCHANGED <<shared, thread, disposal, fault>>

-----------------------------------------------------------------------------
(* ~Connection *)

(* The application drops its reference, as the examples do when main        *)
(* returns.  A callback that holds one of its own takes the destructor over.            *)
AppLetsGo ==
    /\ fault = "none" /\ held /\ calls["app"] = "none"
    /\ held' = FALSE
    /\ IF InCallback(Handlers)
       THEN UNCHANGED <<dtor, letGo>>
       ELSE dtor' = "parts" /\ letGo' = IF inRun THEN "inside" ELSE "outside"
    /\ UNCHANGED <<callbacks, thread, stopped, by, alive, fault>>

FreeParts ==
    /\ fault = "none" /\ dtor = "parts"
    /\ alive' = alive \ {"roster"} /\ dtor' = "stop"
    /\ UNCHANGED <<callbacks, thread, stopped, held, by, letGo, fault>>

StopIO ==
    /\ fault = "none" /\ dtor = "stop"
    /\ stopped' = TRUE /\ dtor' = "client"
    /\ UNCHANGED <<callbacks, thread, held, by, letGo, alive, fault>>

FreeClient ==
    /\ fault = "none" /\ dtor = "client"
    /\ alive' = alive \ {"client"} /\ dtor' = "join"
    /\ UNCHANGED <<callbacks, thread, stopped, held, by, letGo, fault>>

(* Mutated: the destructor does not wait for the IO thread. *)
NoJoin ==
    /\ fault = "none" /\ dtor = "join" /\ by = "app"
    /\ alive' = {} /\ dtor' = "done"
    /\ UNCHANGED <<callbacks, thread, stopped, held, by, letGo, fault>>

JoinIO ==
    /\ fault = "none" /\ dtor = "join" /\ by = "app" /\ io = "ended"
    /\ alive' = {} /\ dtor' = "done"
    /\ UNCHANGED <<callbacks, thread, stopped, held, by, letGo, fault>>

(* A thread that joins itself gets an exception, out of a destructor. *)
JoinSelf ==
    /\ fault = "none" /\ dtor = "join" /\ by = "io"
    /\ fault' = "terminated"
    /\ UNCHANGED <<callbacks, thread, disposal>>

-----------------------------------------------------------------------------
CallbackEnds == CallbackReturns \/ CallbackThrows
Report == NoHandler \/ NoReference \/ CallHandler
Destructor == FreeParts \/ StopIO \/ FreeClient \/ JoinIO \/ JoinSelf

Next ==
    \/ HandleEvent \/ EventDone \/ HandlerThrows
    \/ BrodcastConnectionState \/ DispatchStanza \/ CheckForPresence
    \/ Report \/ CallbackEnds
    \/ RunReturns \/ RunReports \/ UseAfterFree
    \/ \E t \in Threads : DeRegisterHandlers(t) \/ ResetHandler(t)
    \/ AppLetsGo \/ Destructor

SafeSpec == Create /\ [][Next]_vars

(* Callbacks return, the threads run, and boost::shared_mutex keeps new     *)
(* readers out while a writer waits, so that the writer gets its turn.      *)
Spec ==
    /\ SafeSpec
    /\ WF_vars(EventDone) /\ WF_vars(Report) /\ WF_vars(CallbackEnds)
    /\ WF_vars(RunReturns) /\ WF_vars(RunReports) /\ WF_vars(Destructor)
    /\ \A t \in Threads : SF_vars(ResetHandler(t))

-----------------------------------------------------------------------------
TypeOK ==
    /\ registered \subseteq Handlers
    /\ shared = IF InCallback(Handlers) THEN {what} ELSE {}
    /\ calls \in [Threads -> Handlers \cup {"none"}]
    /\ reported \in Reported!Errors \cup {"Connecting", "Connected"}
    /\ io \in {"run", "handler", "locking", "callback", "final", "ended", "destroying"}
    /\ what \in Handlers \cup {"none", "roster"}
    /\ inRun \in BOOLEAN /\ stopped \in BOOLEAN /\ held \in BOOLEAN
    /\ dtor \in {"no", "parts", "stop", "client", "join", "done"}
    /\ by \in Threads /\ letGo \in {"no", "inside", "outside", "self"}
    /\ alive \subseteq Objects
    /\ fault \in {"none", "freed", "terminated"}

(* Once DeRegisterHandlers has reset a handler, none of its callbacks is    *)
(* running or starts any more.  That does not yet free the application to   *)
(* destroy the object: Create makes the same one the handler of the roster, *)
(* which is never reset.  The roster calls it inside run() alone, so it may *)
(* be destroyed once both handlers are reset and the IO thread is out.      *)
QuietAfterDeRegister ==
    /\ \A h \in Handlers : InCallback({h}) => h \in registered
    /\ InCallback(Handlers \cup {"roster"}) => inRun \/ registered # {}

(* An application that lets go while the IO thread is out of run() has      *)
(* nothing freed under that thread; one that has reset its connection       *)
(* handler before is not terminated by the report the thread ends with.     *)
OutsideRunIsSafe ==
    letGo = "outside" =>
        /\ fault # "freed"
        /\ "connection" \notin registered => fault = "none"

(* DeRegisterHandlers returns, unless it is called from a callback that     *)
(* holds the mutex it waits for, or the process died.                       *)
SelfLocked == calls["io"] \in shared
DeRegisterReturns ==
    \A t \in Threads :
        calls[t] # "none" ~> calls[t] = "none" \/ SelfLocked \/ fault # "none"
=============================================================================
