-------------------------- MODULE KeepAliveProofs --------------------------
(* What the keep-alive guarantees for any timeout: proofs for TLAPS.  With *)
(* the bounds on the clock and the queue as constants of any size, they    *)
(* hold for every finite behaviour of the timer.                           *)
EXTENDS KeepAlive, TLAPS

USE KeepAliveAssumption

(* The inductive core: a waiting timer was armed after a write less than a  *)
(* timeout ago and expires a timeout after it was armed; and it waits until *)
(* the first whitespace.                                                    *)
Waiting ==
    armed => /\ due <= lastWrite + 2 * T - 1
             /\ now <= due + Lag

Series ==
    /\ ~started => ~armed /\ ~timer /\ whitespaces = 0
    /\ state = "Error" => ~timer
    /\ aborted => state = "Error"
    /\ armed => whitespaces = 0
    /\ whitespaces \in {0, 1}
    /\ started /\ state = "Connected" /\ whitespaces = 0 => armed

KeepAliveInv == TypeOK /\ Waiting /\ Series

LEMMA Initially == Init => KeepAliveInv
  <1> SUFFICES ASSUME Init PROVE KeepAliveInv
    OBVIOUS
  <1>1. now = 0 /\ lastWrite \in 0 .. now
    BY DEF Init
  <1>3. TypeOK
    <2>1. now \in Nat /\ queue \in Nat /\ due \in Nat /\ whitespaces \in Nat
      BY DEF Init
    <2>2. /\ flushing \in BOOLEAN /\ timer \in BOOLEAN /\ armed \in BOOLEAN
          /\ aborted \in BOOLEAN /\ started \in BOOLEAN /\ ~armed /\ state = "Connected"
      BY DEF Init
    <2> QED
      BY <1>1, <2>1, <2>2 DEF TypeOK
  <1>2. Waiting /\ Series
    BY DEF Init, Waiting, Series
  <1> QED
    BY <1>2, <1>3 DEF KeepAliveInv

(* A push or a write handler moves the time of the last write to now, or    *)
(* leaves it alone: a waiting timer stays in its bounds.                    *)
Written ==
    /\ lastWrite' \in {lastWrite, now} /\ now' = now
    /\ flushing' \in BOOLEAN /\ queue' \in Nat

LEMMA PushWrites == TypeOK /\ WriteTextToSocket /\ now' = now => Written
  <1> SUFFICES ASSUME TypeOK, WriteTextToSocket, now' = now PROVE Written
    OBVIOUS
  <1>1. CASE flushing
    BY <1>1 DEF WriteTextToSocket, Written, TypeOK
  <1>2. CASE ~flushing
    BY <1>2 DEF WriteTextToSocket, Written, TypeOK
  <1> QED
    BY <1>1, <1>2

LEMMA LaterWrite ==
    ASSUME NEW d \in Nat, NEW w \in Nat, NEW v \in Nat, NEW gap \in Nat,
           d <= w + gap - 1, w <= v
    PROVE  d <= v + gap - 1
  OBVIOUS

LEMMA WrittenStep ==
    ASSUME KeepAliveInv, Written, UNCHANGED <<state, waiting, started, whitespaces>>
    PROVE  KeepAliveInv'
  <1> USE DEF KeepAliveInv, Written, waiting
  <1>1. lastWrite' \in 0 .. now' /\ lastWrite <= lastWrite'
    BY DEF TypeOK
  <1>2. TypeOK'
    BY <1>1 DEF TypeOK
  <1>3. Waiting'
    <2>1. lastWrite \in Nat /\ lastWrite' \in Nat /\ lastWrite <= lastWrite'
      BY <1>1 DEF TypeOK
    <2>2. armed' = armed /\ due' = due /\ now' = now /\ due \in Nat
      BY DEF TypeOK
    <2>3. ASSUME armed'
          PROVE  due' <= lastWrite' + 2 * T - 1 /\ now' <= due' + Lag
      <3>1. due <= lastWrite + 2 * T - 1 /\ now <= due + Lag
        BY <2>2, <2>3 DEF Waiting
      <3>2. 2 * T \in Nat
        OBVIOUS
      <3>3. due <= lastWrite' + 2 * T - 1
        BY <2>1, <2>2, <3>1, <3>2, LaterWrite
      <3> QED
        BY <2>2, <3>1, <3>3
    <2> QED
      BY <2>3 DEF Waiting
  <1>4. Series'
    BY DEF Series
  <1> QED
    BY <1>2, <1>3, <1>4

(* What one look at the time of the last write leaves behind.               *)
LEMMA SendStep ==
    ASSUME KeepAliveInv, SendKeepAliveWhitespace, UNCHANGED <<now, state>>,
           state = "Connected", timer', aborted' = aborted, started',
           whitespaces = 0
    PROVE  KeepAliveInv'
  <1> USE DEF KeepAliveInv, TypeOK, Waiting, Series
  <1>1. CASE now - lastWrite < T
    <2>1. armed' = TRUE /\ due' = now + T /\ UNCHANGED <<writing, whitespaces>>
      BY <1>1 DEF SendKeepAliveWhitespace, Arm
    <2> QED
      BY <2>1, <1>1 DEF writing
  <1>2. CASE ~(now - lastWrite < T)
    <2>1. WriteTextToSocket /\ whitespaces' = 1 /\ armed' = FALSE /\ due' = due
      BY <1>2 DEF SendKeepAliveWhitespace, PushWhitespace
    <2>2. Written
      BY <2>1, PushWrites
    <2>3. lastWrite' \in 0 .. now' /\ flushing' \in BOOLEAN /\ queue' \in Nat
      BY <2>2 DEF Written
    <2>4. TypeOK'
      BY <2>1, <2>3
    <2>5. Waiting' /\ Series'
      BY <2>1
    <2> QED
      BY <2>4, <2>5
  <1> QED
    BY <1>1, <1>2

LEMMA Step == KeepAliveInv /\ [Next]_vars => KeepAliveInv'
  <1> SUFFICES ASSUME KeepAliveInv, [Next]_vars PROVE KeepAliveInv'
    OBVIOUS
  <1> USE DEF KeepAliveInv, TypeOK, Waiting, Series
  <1>1. CASE Tick
    BY <1>1 DEF Tick, writing, waiting
  <1>2. CASE Write
    <2>1. Written
      BY <1>2, PushWrites DEF Write
    <2> QED
      BY <1>2, <2>1, WrittenStep DEF Write
  <1>3. CASE HandleWrite
    <2>1. CASE queue = 0
      BY <1>3, <2>1, WrittenStep DEF HandleWrite, Written
    <2>2. CASE queue # 0
      <3>1. queue - 1 \in Nat
        BY <2>2
      <3>2. Written
        BY <1>3, <2>2, <3>1 DEF HandleWrite, Written
      <3> QED
        BY <1>3, <3>2, WrittenStep DEF HandleWrite
    <2> QED
      BY <2>1, <2>2
  <1>4. CASE SocketError
    BY <1>4 DEF SocketError, writing
  <1>5. CASE SetKeepAliveByWhiteSpace
    <2>1. SendKeepAliveWhitespace /\ state = "Connected" /\ timer' /\ started'
            /\ UNCHANGED <<now, state, aborted>> /\ whitespaces = 0
      BY <1>5 DEF SetKeepAliveByWhiteSpace
    <2> QED
      BY <2>1, SendStep
  <1>6. CASE Expires
    <2>1. SendKeepAliveWhitespace /\ armed /\ UNCHANGED <<now, state, timer, aborted, started>>
      BY <1>6 DEF Expires
    <2>2. state = "Connected" /\ timer' /\ started' /\ whitespaces = 0
      BY <2>1
    <2> QED
      BY <2>1, <2>2, SendStep
  <1>7. CASE Aborted
    <2>1. ~timer /\ state = "Error"
      BY <1>7 DEF Aborted
    <2> QED
      BY <1>7, <2>1 DEF Aborted, writing
  <1>8. CASE UNCHANGED vars
    BY <1>8 DEF vars, writing, waiting
  <1> QED
    BY <1>1, <1>2, <1>3, <1>4, <1>5, <1>6, <1>7, <1>8 DEF Next

(* KeepAliveInv is an invariant for every timeout, lag and bound.           *)
THEOREM Invariance == Spec => []KeepAliveInv
  BY Initially, Step, PTL DEF Spec

(* Every variable keeps its type, and a timer waits only in a client that   *)
(* works.                                                                   *)
THEOREM TypeCorrect == Spec => []TypeOK
  BY Invariance, PTL DEF KeepAliveInv

(* While the timer waits, the last write is less than two timeouts (and the *)
(* lag of the IO thread) ago.                                               *)
THEOREM IdleIsBounded == Spec => []IdleGap
  <1>1. KeepAliveInv => IdleGap
    BY DEF KeepAliveInv, TypeOK, Waiting, IdleGap
  <1> QED
    BY <1>1, Invariance, PTL

(* The series sends one whitespace and ends with it, or with the client.    *)
THEOREM SeriesEndsOnce == Spec => []OneWhitespace
  <1>1. KeepAliveInv => OneWhitespace
    BY DEF KeepAliveInv, TypeOK, Series, OneWhitespace
  <1> QED
    BY <1>1, Invariance, PTL
=============================================================================
