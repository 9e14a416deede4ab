--------------------------- MODULE TeardownProofs ---------------------------
(* What module Teardown guarantees whatever the application and the server  *)
(* do: proofs for TLAPS.                                                    *)
EXTENDS Teardown, TLAPS

(* Where the IO thread is decides whether it is inside run().               *)
Places ==
    fault = "none" =>
        /\ io \in {"final", "ended"} => ~inRun
        /\ io \in {"run", "handler"} => inRun
        /\ io \in {"locking", "callback"} =>
              /\ what \in Handlers \cup {"roster"}
              /\ ~inRun => what = "connection"
        /\ io = "locking" => what \in Handlers
        /\ io = "destroying" => ~held
        /\ calls["io"] # "none" => io = "callback"

(* What is not freed yet at each step of the destructor. *)
Living ==
    /\ dtor = "no" <=> letGo = "no"
    /\ dtor = "no" => alive = Objects
    /\ dtor # "done" => "connection" \in alive
    /\ held \/ InCallback(Handlers) => dtor = "no"
    /\ by = "io" => letGo = "self"

(* A disposal begun out of run(): no reference is left, and the IO thread   *)
(* has only its own report before it.                                       *)
Outside ==
    letGo = "outside" =>
        /\ by = "app" /\ ~held /\ ~inRun
        /\ io \in {"final", "locking", "ended"}
        /\ dtor = "done" => io = "ended"
        /\ fault # "freed"
        /\ "connection" \notin registered => fault = "none"

TeardownInv == TypeOK /\ QuietAfterDeRegister /\ Places /\ Living /\ Outside

ThreadSteps ==
    \/ HandleEvent \/ EventDone \/ HandlerThrows
    \/ BrodcastConnectionState \/ DispatchStanza \/ CheckForPresence
    \/ RunReturns \/ RunReports

(* The names the proofs expand together. *)
USE DEF Threads, Handlers, Objects, InCallback, callbacks, thread, disposal

LEMMA Initially == Create => TeardownInv
  <1> SUFFICES ASSUME Create PROVE TeardownInv
    OBVIOUS
  <1>1. TypeOK
    BY DEF Create, TypeOK, Reported!Errors
  <1>2. QuietAfterDeRegister /\ Places /\ Living /\ Outside
    BY DEF Create, QuietAfterDeRegister, Places, Living, Outside
  <1> QED
    BY <1>1, <1>2 DEF TeardownInv

LEMMA ThreadStep == TeardownInv /\ ThreadSteps => TeardownInv'
  <1> SUFFICES ASSUME TeardownInv, ThreadSteps PROVE TeardownInv'
    OBVIOUS
  <1> USE DEF TeardownInv, TypeOK, QuietAfterDeRegister, Places, Living, Outside, Runs
  <1>1. CASE HandleEvent
    BY <1>1 DEF HandleEvent
  <1>2. CASE EventDone
    BY <1>2 DEF EventDone
  <1>3. CASE HandlerThrows
    BY <1>3 DEF HandlerThrows, Throw
  <1>4. CASE BrodcastConnectionState
    BY <1>4 DEF BrodcastConnectionState, Reported!Online, Reported!Failed, Reported!Ended,
                Reported!Errors
  <1>5. CASE DispatchStanza
    BY <1>5 DEF DispatchStanza
  <1>6. CASE CheckForPresence
    BY <1>6 DEF CheckForPresence
  <1>7. CASE RunReturns
    BY <1>7 DEF RunReturns
  <1>8. CASE RunReports
    BY <1>8 DEF RunReports, Reported!Errors
  <1> QED
    BY <1>1, <1>2, <1>3, <1>4, <1>5, <1>6, <1>7, <1>8 DEF ThreadSteps

LEMMA ReportStep == TeardownInv /\ Report => TeardownInv'
  <1> SUFFICES ASSUME TeardownInv, Report PROVE TeardownInv'
    OBVIOUS
  <1> USE DEF TeardownInv, TypeOK, QuietAfterDeRegister, Places, Living, Outside, Runs
  <1>1. CASE NoHandler
    BY <1>1 DEF NoHandler, Return
  <1>2. CASE NoReference
    <2>1. TypeOK'
      BY <1>2 DEF NoReference, Throw
    <2>2. QuietAfterDeRegister'
      BY <1>2 DEF NoReference, Throw
    <2>3. Places'
      <3>1. CASE inRun
        BY <1>2, <3>1 DEF NoReference, Throw
      <3>2. CASE ~inRun
        BY <1>2, <3>2 DEF NoReference, Throw
      <3> QED
        BY <3>1, <3>2
    <2>4. Living'
      BY <1>2 DEF NoReference, Throw
    <2>5. Outside'
      BY <1>2 DEF NoReference, Throw
    <2> QED
      BY <2>1, <2>2, <2>3, <2>4, <2>5
  <1>3. CASE CallHandler
    BY <1>3 DEF CallHandler, Referenced
  <1> QED
    BY <1>1, <1>2, <1>3 DEF Report

LEMMA CallbackStep == TeardownInv /\ CallbackEnds => TeardownInv'
  <1> SUFFICES ASSUME TeardownInv, CallbackEnds PROVE TeardownInv'
    OBVIOUS
  <1> USE DEF TeardownInv, TypeOK, QuietAfterDeRegister, Places, Living, Outside, Runs,
              LastReference, DestroyHere
  <1>1. CASE CallbackReturns
    <2>1. TypeOK'
      BY <1>1 DEF CallbackReturns, Return
    <2>2. QuietAfterDeRegister'
      BY <1>1 DEF CallbackReturns, Return
    <2>3. Places'
      BY <1>1 DEF CallbackReturns, Return
    <2>4. Living'
      <3>1. CASE LastReference
        BY <1>1, <3>1 DEF CallbackReturns
      <3>2. CASE ~LastReference
        BY <1>1, <3>2 DEF CallbackReturns
      <3> QED
        BY <3>1, <3>2
    <2>5. Outside'
      BY <1>1 DEF CallbackReturns, Return
    <2> QED
      BY <2>1, <2>2, <2>3, <2>4, <2>5
  <1>2. CASE CallbackThrows
    <2>1. TypeOK'
      BY <1>2 DEF CallbackThrows, Throw
    <2>2. QuietAfterDeRegister'
      BY <1>2 DEF CallbackThrows, Throw
    <2>3. Places'
      <3>1. CASE LastReference
        BY <1>2, <3>1 DEF CallbackThrows
      <3>2. CASE ~LastReference /\ inRun
        BY <1>2, <3>2 DEF CallbackThrows, Throw
      <3>3. CASE ~LastReference /\ ~inRun
        BY <1>2, <3>3 DEF CallbackThrows, Throw
      <3> QED
        BY <3>1, <3>2, <3>3
    <2>4. Living'
      <3>1. CASE LastReference
        BY <1>2, <3>1 DEF CallbackThrows
      <3>2. CASE ~LastReference /\ inRun
        BY <1>2, <3>2 DEF CallbackThrows, Throw
      <3>3. CASE ~LastReference /\ ~inRun
        BY <1>2, <3>3 DEF CallbackThrows, Throw
      <3> QED
        BY <3>1, <3>2, <3>3
    <2>5. Outside'
      BY <1>2 DEF CallbackThrows, Throw
    <2> QED
      BY <2>1, <2>2, <2>3, <2>4, <2>5
  <1> QED
    BY <1>1, <1>2 DEF CallbackEnds

LEMMA DeRegisterStep ==
    ASSUME TeardownInv, NEW t \in Threads, DeRegisterHandlers(t) \/ ResetHandler(t)
    PROVE  TeardownInv'
  <1> USE DEF TeardownInv, TypeOK, QuietAfterDeRegister, Places, Living, Outside, Runs
  <1>1. CASE DeRegisterHandlers(t)
    BY <1>1 DEF DeRegisterHandlers, MayDeRegister
  <1>2. CASE ResetHandler(t)
    <2>1. TypeOK'
      <3>1. calls' \in [Threads -> Handlers \cup {"none"}]
        BY <1>2 DEF ResetHandler, Following
      <3>2. registered' \subseteq Handlers /\ UNCHANGED <<shared, thread, disposal, fault>>
        BY <1>2 DEF ResetHandler
      <3> QED
        BY <3>1, <3>2
    <2>2. QuietAfterDeRegister'
      BY <1>2 DEF ResetHandler, Following
    <2>3. Places'
      BY <1>2 DEF ResetHandler, Following
    <2>4. Living'
      BY <1>2 DEF ResetHandler, Following
    <2>5. Outside'
      BY <1>2 DEF ResetHandler, Following
    <2> QED
      BY <2>1, <2>2, <2>3, <2>4, <2>5
  <1> QED
    BY <1>1, <1>2

LEMMA DestructorStep == TeardownInv /\ (AppLetsGo \/ Destructor) => TeardownInv'
  <1> SUFFICES ASSUME TeardownInv, AppLetsGo \/ Destructor PROVE TeardownInv'
    OBVIOUS
  <1> USE DEF TeardownInv, TypeOK, QuietAfterDeRegister, Places, Living, Outside
  <1>1. CASE AppLetsGo
    <2>1. TypeOK'
      BY <1>1 DEF AppLetsGo
    <2>2. QuietAfterDeRegister'
      BY <1>1 DEF AppLetsGo
    <2>3. Places'
      BY <1>1 DEF AppLetsGo
    <2>4. Living'
      <3>1. CASE InCallback(Handlers)
        BY <1>1, <3>1 DEF AppLetsGo
      <3>2. CASE ~InCallback(Handlers) /\ inRun
        BY <1>1, <3>2 DEF AppLetsGo
      <3>3. CASE ~InCallback(Handlers) /\ ~inRun
        BY <1>1, <3>3 DEF AppLetsGo
      <3> QED
        BY <3>1, <3>2, <3>3
    <2>5. Outside'
      <3>1. CASE InCallback(Handlers)
        BY <1>1, <3>1 DEF AppLetsGo
      <3>2. CASE ~InCallback(Handlers) /\ inRun
        BY <1>1, <3>2 DEF AppLetsGo
      <3>3. CASE ~InCallback(Handlers) /\ ~inRun
        <4>1. io \in {"final", "locking", "ended"} /\ fault = "none" /\ dtor = "no"
          BY <1>1, <3>3 DEF AppLetsGo
        <4>2. ~held' /\ ~inRun' /\ io' = io /\ fault' = "none" /\ by' = by /\ dtor' = "parts"
          BY <1>1, <3>3 DEF AppLetsGo
        <4>3. by = "app"
          BY <1>1 DEF AppLetsGo
        <4> QED
          BY <4>1, <4>2, <4>3
      <3> QED
        BY <3>1, <3>2, <3>3
    <2> QED
      BY <2>1, <2>2, <2>3, <2>4, <2>5
  <1>2. CASE FreeParts
    BY <1>2 DEF FreeParts
  <1>3. CASE StopIO
    BY <1>3 DEF StopIO
  <1>4. CASE FreeClient
    BY <1>4 DEF FreeClient
  <1>5. CASE JoinIO
    BY <1>5 DEF JoinIO
  <1>6. CASE JoinSelf
    BY <1>6 DEF JoinSelf
  <1> QED
    BY <1>1, <1>2, <1>3, <1>4, <1>5, <1>6 DEF Destructor

(* A disposal begun out of run() frees nothing that a thread still touches. *)
LEMMA FreeStep == TeardownInv /\ UseAfterFree => TeardownInv'
  <1> SUFFICES ASSUME TeardownInv, UseAfterFree PROVE TeardownInv'
    OBVIOUS
  <1> USE DEF TeardownInv, TypeOK, QuietAfterDeRegister, Places, Living, Outside
  <1>1. letGo # "outside"
    BY DEF UseAfterFree, Touched
  <1> QED
    BY <1>1 DEF UseAfterFree

(* TeardownInv is an invariant of every behaviour of module Teardown.       *)
THEOREM Invariance == SafeSpec => []TeardownInv
  <1>1. TeardownInv /\ [Next]_vars => TeardownInv'
    <2> SUFFICES ASSUME TeardownInv, [Next]_vars PROVE TeardownInv'
      OBVIOUS
    <2>1. CASE UNCHANGED vars
      BY <2>1 DEF vars, TeardownInv, TypeOK, QuietAfterDeRegister, Places, Living, Outside
    <2>2. CASE Next
      BY <2>2, ThreadStep, ReportStep, CallbackStep, DeRegisterStep, DestructorStep, FreeStep
         DEF Next, ThreadSteps
    <2> QED
      BY <2>1, <2>2
  <1> QED
    BY Initially, <1>1, PTL DEF SafeSpec

(* A handler that DeRegisterHandlers has reset is not being called, and     *)
(* once the IO thread is out of run() not even by the roster: for every     *)
(* interleaving of the two threads' calls with the callbacks.               *)
THEOREM Quiet == SafeSpec => []QuietAfterDeRegister
  BY Invariance, PTL DEF TeardownInv

(* Every variable keeps its type, and a mutex is held exactly while its     *)
(* callback runs, also when it is left by an exception.                     *)
THEOREM TypeCorrect == SafeSpec => []TypeOK
  BY Invariance, PTL DEF TeardownInv

(* A disposal begun while the IO thread is out of run() frees nothing under *)
(* it, and kills nothing when the connection handler was reset before.      *)
THEOREM SafeOutsideRun == SafeSpec => []OutsideRunIsSafe
  <1>1. TeardownInv => OutsideRunIsSafe
    BY DEF TeardownInv, Outside, OutsideRunIsSafe
  <1> QED
    BY <1>1, Invariance, PTL
=============================================================================
