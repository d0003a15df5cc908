--------------------------- MODULE NatsPublisherProofs ---------------------------
(***************************************************************************)
(* Proofs about NatsPublisher, for all frames and all backoff limits: its  *)
(* type invariant, that a message is given up only if NATS refused it, and *)
(* that it implements the safety part of AtMostOnceBus.                    *)
(***************************************************************************)
EXTENDS NatsPublisher, TLAPS

USE BackoffAssumption, ClientAssumption, FramesAssumption

LEMMA DoubledInRange ==
    ASSUME NEW b \in MinBackoff..MaxBackoff
    PROVE  Doubled(b) \in MinBackoff..MaxBackoff
BY DEF Doubled

(* Sleeping starts with a refusal, which the end of the sleep relies on. *)
SleptIfRefused == (pc = "sleeping") => refused

IInv == TypeOK /\ GivenUpOnlyIfRefused /\ SleptIfRefused

LEMMA InitIInv == Init => IInv
<1> SUFFICES ASSUME Init PROVE IInv
    OBVIOUS
<1>1. up \in BOOLEAN /\ changed \in BOOLEAN /\ refused \in BOOLEAN /\ client \in BOOLEAN
    BY Zenon DEF Init
<1>2. backoff \in MinBackoff..MaxBackoff /\ slept \in MinBackoff..MaxBackoff
    BY DEF Init
<1>4. queued \in 0..ClientCap /\ queued = 0
    BY DEF Init
<1>3. inbox \in Seq(Frames)
    BY DEF Init
<1> QED
    BY <1>1, <1>2, <1>3, <1>4 DEF Init, IInv, TypeOK, GivenUpOnlyIfRefused, SleptIfRefused,
       InPublish

LEMMA NextIInv == IInv /\ [Next]_vars => IInv'
<1> SUFFICES ASSUME IInv, [Next]_vars PROVE IInv'
    OBVIOUS
<1> USE DEF IInv, TypeOK, GivenUpOnlyIfRefused, SleptIfRefused, InPublish, Frames, env, publisher
<1>1. CASE NatsUpOrDown
    BY <1>1 DEF NatsUpOrDown
<1>2. CASE Broadcast
    BY <1>2 DEF Broadcast
<1>16. CASE Drain
    BY <1>16 DEF Drain
<1>3. ASSUME NEW f \in Frames, Arrive(f) PROVE IInv'
    BY <1>3 DEF Arrive
<1>4. CASE ReadMessage
    <2>1. up' \in BOOLEAN /\ changed' \in BOOLEAN /\ refused' \in BOOLEAN /\ client' \in BOOLEAN
        BY <1>4, Zenon DEF ReadMessage
    <2>2. backoff' = backoff /\ slept' \in MinBackoff..MaxBackoff
        BY <1>4 DEF ReadMessage
    <2>3. call' \in Messages /\ inbox' \in Seq(Frames) /\ out' = out
        BY <1>4 DEF ReadMessage
    <2>4. /\ pc' \in {"publishing", "connecting"}
          /\ ((pc' = "publishing") => client')
        BY <1>4, Zenon DEF ReadMessage
    <2>6. client' = client /\ queued' = queued
        BY <1>4 DEF ReadMessage
    <2>5. TypeOK'
        BY <2>1, <2>2, <2>3, <2>4, <2>6
    <2> QED
        BY <2>4, <2>5, Zenon
<1>5. CASE ReadOther
    BY <1>5 DEF ReadOther
<1>6. CASE Changed
    <2>1. up' \in BOOLEAN /\ changed' \in BOOLEAN /\ refused' \in BOOLEAN /\ client' \in BOOLEAN
        BY <1>6, Zenon DEF Changed
    <2>2. CASE pc' = "rejoin" /\ inbox' = <<>>
        BY <1>6, <2>1, <2>2 DEF Changed
    <2>3. CASE UNCHANGED <<pc, inbox>>
        BY <1>6, <2>1, <2>3 DEF Changed
    <2> QED
        BY <1>6, <2>2, <2>3 DEF Changed
<1>7. CASE SocketEnds
    BY <1>7 DEF SocketEnds
<1>8. CASE Rejoin
    BY <1>8 DEF Rejoin
<1>9. CASE ConnectOk
    BY <1>9 DEF ConnectOk
<1>10. CASE ConnectErr
    BY <1>10 DEF ConnectErr
<1>11. CASE Wake
    <2>1. up' \in BOOLEAN /\ changed' \in BOOLEAN /\ refused' \in BOOLEAN /\ client' \in BOOLEAN
        BY <1>11, Zenon DEF Wake
    <2>2. backoff' \in MinBackoff..MaxBackoff
        BY <1>11, DoubledInRange DEF Wake
    <2>3. TypeOK'
        BY <1>11, <2>1, <2>2 DEF Wake
    <2>4. GivenUpOnlyIfRefused' /\ SleptIfRefused'
        BY <1>11, Zenon DEF Wake
    <2> QED
        BY <2>3, <2>4
<1>12. CASE PublishOk
    BY <1>12 DEF PublishOk
<1>13. CASE PublishErr
    <2>1. backoff' \in MinBackoff..MaxBackoff
        BY <1>13, DoubledInRange DEF PublishErr
    <2>2. up' \in BOOLEAN /\ changed' \in BOOLEAN /\ refused' \in BOOLEAN /\ client' \in BOOLEAN
        BY <1>13, Zenon DEF PublishErr
    <2>3. TypeOK'
        BY <1>13, <2>1, <2>2 DEF PublishErr
    <2>4. GivenUpOnlyIfRefused' /\ SleptIfRefused'
        BY <1>13 DEF PublishErr
    <2> QED
        BY <2>3, <2>4
<1>14. CASE PublishNothing
    BY <1>14 DEF PublishNothing
<1>15. CASE UNCHANGED vars
    BY <1>15 DEF vars
<1> QED
    BY <1>1, <1>2, <1>3, <1>4, <1>5, <1>6, <1>7, <1>8, <1>9, <1>10, <1>11,
       <1>12, <1>13, <1>14, <1>15, <1>16 DEF Next, ReadLoop, Publish

LEMMA Invariance == Spec => []IInv
BY InitIInv, NextIInv, PTL DEF Spec

(* The backoff stays between its limits, a call always carries a message.   *)
THEOREM TypeCorrect == Spec => []TypeOK
BY Invariance, PTL DEF IInv

(* A message is given up only if NATS refused a connection in its own call. *)
THEOREM GivenUpCorrect == Spec => []GivenUpOnlyIfRefused
BY Invariance, PTL DEF IInv

--------------------------------------------------------------------------------
(* The refinement.  Outside publish() the abstract queue is the inbox; in   *)
(* it, the call precedes the inbox.                                         *)

LEMMA HeadFirst ==
    ASSUME NEW s \in Seq(Frames), s # <<>>
    PROVE  /\ <<Head(s)>> \o Tail(s) = s
           /\ Tail(s) \in Seq(Frames)
OBVIOUS

LEMMA CallFirst ==
    ASSUME NEW c, NEW s \in Seq(Frames)
    PROVE  /\ <<c>> \o s # <<>>
           /\ Head(<<c>> \o s) = c
           /\ Tail(<<c>> \o s) = s
           /\ \A f \in Frames : <<c>> \o Append(s, f) = Append(<<c>> \o s, f)
OBVIOUS

(* Every step of the manager maps to a step of the bus, or to a stutter.    *)
LEMMA StepRefines ==
    IInv /\ [Next]_vars => [Bus!Next]_(Bus!busVars)
<1> SUFFICES ASSUME IInv, [Next]_vars PROVE [Bus!Next]_(Bus!busVars)
    OBVIOUS
<1> USE DEF Bus!busVars, Bus!Next, Bus!Arrive, Bus!Deliver, Bus!GiveUp, Bus!Drop,
            Pending, InPublish, env, publisher
<1>0. inbox \in Seq(Frames)
    BY DEF IInv, TypeOK
<1>1. CASE NatsUpOrDown \/ Drain \/ Broadcast
    BY <1>1 DEF NatsUpOrDown, Drain, Broadcast
<1>2. ASSUME NEW f \in Frames, Arrive(f) PROVE Bus!Next
    BY <1>0, <1>2, CallFirst DEF Arrive
<1>3. CASE ReadMessage
    BY <1>0, <1>3, HeadFirst DEF ReadMessage
<1>4. CASE ReadOther
    BY <1>0, <1>4 DEF ReadOther
<1>5. CASE Changed
    BY <1>5 DEF Changed
<1>6. CASE SocketEnds
    BY <1>6 DEF SocketEnds
<1>7. CASE Rejoin
    BY <1>7 DEF Rejoin
<1>8. CASE ConnectOk \/ ConnectErr \/ Wake
    BY <1>8 DEF ConnectOk, ConnectErr, Wake
<1>9. CASE PublishOk
    BY <1>0, <1>9, CallFirst DEF PublishOk
<1>10. CASE PublishErr \/ PublishNothing
    BY <1>0, <1>10, CallFirst DEF PublishErr, PublishNothing
<1>11. CASE UNCHANGED vars
    BY <1>11 DEF vars
<1> QED
    BY <1>1, <1>2, <1>3, <1>4, <1>5, <1>6, <1>7, <1>8, <1>9, <1>10, <1>11
    DEF Next, ReadLoop, Publish

(* Frames reach NATS at most once and in order of arrival.                  *)
THEOREM RefinesBus == Spec => BusSafety
<1>1. Init => Bus!Init
    BY DEF Init, Bus!Init, Pending, InPublish
<1> QED
    BY <1>1, Invariance, StepRefines, PTL DEF Spec, BusSafety, Bus!Safety
================================================================================
