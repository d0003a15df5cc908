----------------------------- MODULE ClockSyncProofs -----------------------------
(***************************************************************************)
(* The error of the normalised ingest times, for every set of skews, every *)
(* round trip and every number of attempts.                                *)
(***************************************************************************)
EXTENDS ClockSync, TLAPS

(* What the request in flight knows: the clock has moved by slewing at most *)
(* since local_before was read.                                             *)
InFlight == pc = "sent" => Abs(skew - before) <= slewing

(* What the last sync left behind, with all that the clock has moved since. *)
OffsetError == synced # None => 2 * Abs(skew - offset) <= Bound(synced)

IInv == TypeOK /\ InFlight /\ OffsetError /\ StampError

--------------------------------------------------------------------------------
(* Rust's division by two is off by half of a unit at most. *)
LEMMA HalfBound ==
    ASSUME NEW x \in Int
    PROVE  Half(x) \in Int /\ 2 * Half(x) \in x - 1 .. x + 1
BY SMT DEF Half

LEMMA AbsInt ==
    ASSUME NEW x \in Int
    PROVE  Abs(x) \in Nat /\ x \in -Abs(x) .. Abs(x)
BY SMT DEF Abs

(* The sync itself: the server read its clock at some point of the round   *)
(* trip e, and the host clock moved by d from local_before on, by s at most.*)
LEMMA SyncError ==
    ASSUME NEW e \in Nat, NEW d \in Int, NEW s \in Nat, NEW r \in 0..e,
           Abs(d) <= s
    PROVE  2 * Abs(d - Half(e + d) + r) <= e + 1 + 2 * s
<1>1. d \in -s .. s
  BY SMT DEF Abs
<1>2. PICK x \in Int : x = e + d
  OBVIOUS
<1>3. Half(x) \in Int /\ 2 * Half(x) \in x - 1 .. x + 1
  BY HalfBound
<1>4. PICK h \in Int : h = Half(x)
  BY <1>3
<1>5. 2 * Abs(d - h + r) <= e + 1 + 2 * s
  BY <1>1, <1>2, <1>3, <1>4, SMT DEF Abs
<1> QED
  BY <1>2, <1>4, <1>5

LEMMA InitInv == Init => IInv
<1> SUFFICES ASSUME Init PROVE IInv
  OBVIOUS
<1> USE SkewsAssumption, InitialRetriesAssumption
<1>1. TypeOK
  BY SMT DEF Init, TypeOK
<1>2. InFlight /\ OffsetError /\ StampError
  BY DEF Init, InFlight, OffsetError, StampError
<1> QED
  BY <1>1, <1>2 DEF IInv

--------------------------------------------------------------------------------
(* A row is stamped: its error is that of the offset when it is normalised. *)
LEMMA StampInv ==
    ASSUME IInv, NEW k \in Normalised \union Raw, NEW error \in Int, Stamp(k, error),
           k \in Normalised => error = skew - offset
    PROVE  IInv'
<1> USE SkewsAssumption DEF IInv
<1>1. ASSUME synced # None
      PROVE  synced \in [rtt : Nat, slew : Nat] /\ Bound(synced) \in Nat
  <2>1. synced \in [rtt : Nat, slew : Nat]
    BY <1>1 DEF TypeOK
  <2>2. synced.rtt \in Nat /\ synced.slew \in Nat
    BY <2>1
  <2> QED
    BY <2>1, <2>2, SMT DEF Bound
<1>2. TypeOK'
  BY <1>1 DEF TypeOK, Stamp, request
<1>3. InFlight' /\ OffsetError'
  BY DEF InFlight, OffsetError, Stamp, request, Bound
<1>4. StampError'
  BY SkewsAssumption, <1>1 DEF StampError, OffsetError, Stamp, TypeOK
<1> QED
  BY <1>2, <1>3, <1>4

LEMMA AnswerOkInv == ASSUME IInv, AnswerOk PROVE IInv'
<1> USE SkewsAssumption, InitialRetriesAssumption DEF IInv
<1>1. /\ skew \in Int /\ before \in Int /\ elapsed \in Nat /\ slewing \in Nat
      /\ server \in 0..elapsed
  BY DEF TypeOK, AnswerOk
<1>2. Abs(skew - before) <= slewing
  BY DEF InFlight, AnswerOk
<1> DEFINE d == skew - before
<1>3. d \in Int
  BY <1>1
<1>4. 2 * Abs(d - Half(elapsed + d) + server) <= elapsed + 1 + 2 * slewing
  BY <1>1, <1>2, <1>3, SyncError
<1>5. Half(elapsed + d) \in Int
  <2>1. elapsed + d \in Int
    BY <1>1, <1>3
  <2> QED
    BY <2>1, HalfBound
<1>6. elapsed + skew - before = elapsed + d
  BY <1>1
<1>7. offset' = before + Half(elapsed + d) - server
  BY <1>6 DEF AnswerOk
<1>8. skew' - offset' = d - Half(elapsed + d) + server
  BY <1>1, <1>5, <1>7 DEF AnswerOk
<1>9. TypeOK'
  <2>1. offset' \in Int
    BY <1>1, <1>5, <1>7
  <2>2. synced' \in [rtt : Nat, slew : Nat]
    BY <1>1 DEF AnswerOk
  <2> QED
    BY <2>1, <2>2 DEF TypeOK, AnswerOk, RequestEnds
<1>10. InFlight'
  BY DEF InFlight, AnswerOk, RequestEnds
<1>11. OffsetError'
  <2>1. Bound(synced') = elapsed + 1 + 2 * slewing
    BY DEF AnswerOk, Bound
  <2> QED
    BY <1>4, <1>8, <2>1 DEF OffsetError
<1>12. StampError'
  BY DEF StampError, AnswerOk
<1> QED
  BY <1>9, <1>10, <1>11, <1>12

LEMMA SlewInv == ASSUME IInv, NEW s \in Skews, Slew(s) PROVE IInv'
<1> USE SkewsAssumption DEF IInv
<1>1. s \in Int /\ skew \in Int /\ offset \in Int /\ before \in Int /\ slewing \in Nat
  BY DEF TypeOK
<1> DEFINE d == Abs(s - skew)
<1>2. d \in Nat /\ skew' = s /\ offset' = offset /\ before' = before /\ pc' = pc
  BY <1>1, AbsInt DEF Slew, request
<1>3. slewing' \in Nat /\ (pc = "sent" => slewing' = slewing + d)
  BY <1>1, <1>2 DEF Slew
<1>4. ASSUME synced # None
      PROVE  /\ synced.rtt \in Nat /\ synced.slew \in Nat
             /\ synced' = [rtt |-> synced.rtt, slew |-> synced.slew + d]
  <2>1. synced \in [rtt : Nat, slew : Nat]
    BY <1>4 DEF TypeOK
  <2> QED
    BY <1>4, <2>1 DEF Slew
<1>5. synced = None => synced' = None
  BY DEF Slew
<1>6. TypeOK'
  <2>1. synced' \in [rtt : Nat, slew : Nat] \union {None}
    BY <1>2, <1>4, <1>5
  <2> QED
    BY <1>2, <1>3, <2>1 DEF TypeOK, Slew, request
<1>7. InFlight'
  BY <1>1, <1>2, <1>3, SMT DEF InFlight, Abs
<1>8. OffsetError'
  <2> SUFFICES ASSUME synced' # None
               PROVE  2 * Abs(skew' - offset') <= Bound(synced')
    BY DEF OffsetError
  <2>1. synced # None
    BY <1>5
  <2>2. Bound(synced) = synced.rtt + 1 + 2 * synced.slew
    BY DEF Bound
  <2>3. Bound(synced') = synced.rtt + 1 + 2 * (synced.slew + d)
    BY <1>4, <2>1 DEF Bound
  <2>4. 2 * Abs(skew - offset) <= synced.rtt + 1 + 2 * synced.slew
    BY <2>1, <2>2 DEF OffsetError
  <2>5. Abs(s - offset) <= Abs(skew - offset) + d
    BY <1>1, SMT DEF Abs
  <2>6. Abs(s - offset) \in Nat /\ Abs(skew - offset) \in Nat
    BY <1>1, AbsInt
  <2> QED
    BY <1>2, <1>4, <2>1, <2>3, <2>4, <2>5, <2>6, SMT
<1>9. StampError'
  BY DEF StampError, Slew
<1> QED
  BY <1>6, <1>7, <1>8, <1>9

LEMMA NextInv == ASSUME IInv, [Next]_vars PROVE IInv'
<1> USE SkewsAssumption, InitialRetriesAssumption
<1>1. CASE Tick
  <2>1. TypeOK'
    BY <1>1 DEF IInv, TypeOK, Tick
  <2>2. InFlight' /\ OffsetError' /\ StampError'
    BY <1>1 DEF IInv, InFlight, OffsetError, StampError, Tick
  <2> QED
    BY <2>1, <2>2 DEF IInv
<1>2. CASE \E s \in Skews : Slew(s)
  BY <1>2, SlewInv
<1>3. CASE ServerReads
  <2>1. TypeOK'
    BY <1>3 DEF IInv, TypeOK, ServerReads
  <2>2. InFlight' /\ OffsetError' /\ StampError'
    BY <1>3 DEF IInv, InFlight, OffsetError, StampError, ServerReads
  <2> QED
    BY <2>1, <2>2 DEF IInv
<1>4. CASE Send
  <2>1. skew \in Int /\ slewing \in Nat
    BY DEF IInv, TypeOK
  <2>2. TypeOK'
    BY <1>4, <2>1 DEF IInv, TypeOK, Send
  <2>3. InFlight'
    BY <1>4, <2>1, SMT DEF InFlight, Send, Abs
  <2>4. OffsetError' /\ StampError'
    BY <1>4 DEF IInv, OffsetError, StampError, Send
  <2> QED
    BY <2>2, <2>3, <2>4 DEF IInv
<1>5. CASE AnswerOk
  BY <1>5, AnswerOkInv
<1>6. CASE AnswerErr
  <2>1. attempt' \in 0..InitialRetries
    BY <1>6 DEF IInv, TypeOK, AnswerErr
  <2>2. TypeOK'
    BY <1>6, <2>1 DEF IInv, TypeOK, AnswerErr, RequestEnds
  <2>3. InFlight' /\ OffsetError' /\ StampError'
    BY <1>6 DEF IInv, InFlight, OffsetError, StampError, AnswerErr, RequestEnds
  <2> QED
    BY <2>2, <2>3 DEF IInv
<1>7. ASSUME NEW k \in Normalised, HandleFuturesMessage(k) PROVE IInv'
  <2>1. skew - offset \in Int
    BY DEF IInv, TypeOK
  <2> QED
    BY <1>7, <2>1, StampInv DEF HandleFuturesMessage
<1>8. ASSUME NEW k \in Raw, IngestRaw(k), Normalised \intersect Raw = {} PROVE IInv'
  <2>1. skew \in Int
    BY DEF IInv, TypeOK
  <2> QED
    BY <1>8, <2>1, StampInv DEF IngestRaw
<1>9. CASE UNCHANGED vars
  <2>1. TypeOK'
    BY <1>9 DEF IInv, TypeOK, vars
  <2>2. InFlight' /\ OffsetError' /\ StampError'
    BY <1>9 DEF IInv, InFlight, OffsetError, StampError, vars
  <2> QED
    BY <2>1, <2>2 DEF IInv
<1> QED
  BY <1>1, <1>2, <1>3, <1>4, <1>5, <1>6, <1>7, <1>8, <1>9, KindsAssumption DEF Next

--------------------------------------------------------------------------------
LEMMA InductiveInv == Spec => []IInv
<1>1. Init => IInv
  BY InitInv
<1>2. IInv /\ [Next]_vars => IInv'
  BY NextInv
<1> QED
  BY <1>1, <1>2, PTL DEF Spec

(* The state of the sync and of the rows has its type: the attempts stay    *)
(* within INITIAL_RETRIES.                                                  *)
THEOREM TypeCorrect == Spec => []TypeOK
<1>1. IInv => TypeOK
  BY DEF IInv
<1> QED
  BY <1>1, InductiveInv, PTL

(* Every ingest time of the futures manager made after a first sync is off  *)
(* by half of the round trip of the last sync and by what the host clock    *)
(* has moved since that sync was begun, at most: whatever the round trips,  *)
(* the failures and the jumps of the clock are.                             *)
THEOREM StampErrorBounded == Spec => []StampError
<1>1. IInv => StampError
  BY DEF IInv
<1> QED
  BY <1>1, InductiveInv, PTL
================================================================================
