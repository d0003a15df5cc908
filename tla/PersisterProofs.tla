---------------------------- MODULE PersisterProofs ----------------------------
(***************************************************************************)
(* Proofs about Persister, for every set of pipelines, every flush         *)
(* threshold, every channel capacity and every bound on the rows.          *)
(***************************************************************************)
EXTENDS Persister, SequenceTheorems, FiniteSetTheorems, TLAPS

--------------------------------------------------------------------------------
(* What the sequence operators do to the set of rows in a sequence.         *)

(* The rows of a sequence are of the type of its elements. *)
LEMMA RangeType ==
    ASSUME NEW S, NEW s \in Seq(S)
    PROVE  Range(s) \subseteq S
  BY DEF Range

(* An appended row joins the rows of the channel or buffer. *)
LEMMA RangeAppend ==
    ASSUME NEW S, NEW s \in Seq(S), NEW e \in S
    PROVE  /\ Append(s, e) \in Seq(S)
           /\ Len(Append(s, e)) = Len(s) + 1
           /\ Range(Append(s, e)) = Range(s) \union {e}
<1>1. /\ Append(s, e) \in Seq(S)
      /\ Len(Append(s, e)) = Len(s) + 1
      /\ \A i \in 1..Len(s) : Append(s, e)[i] = s[i]
      /\ Append(s, e)[Len(s) + 1] = e
      /\ Len(s) \in Nat
  BY AppendProperties
<1>2. DOMAIN Append(s, e) = 1..(Len(s) + 1) /\ DOMAIN s = 1..Len(s)
  BY <1>1
<1>3. ASSUME NEW x \in Range(Append(s, e)) PROVE x \in Range(s) \union {e}
  <2>1. PICK i \in 1..(Len(s) + 1) : x = Append(s, e)[i]
    BY <1>2 DEF Range
  <2>2. i \in 1..Len(s) \/ i = Len(s) + 1
    BY <1>1
  <2> QED
    BY <1>1, <1>2, <2>1, <2>2 DEF Range
<1>4. ASSUME NEW x \in Range(s) PROVE x \in Range(Append(s, e))
  BY <1>1, <1>2 DEF Range
<1>5. e \in Range(Append(s, e))
  BY <1>1, <1>2 DEF Range
<1> QED
  BY <1>1, <1>3, <1>4, <1>5

(* Taking the head of a channel splits its rows into the head and the rest. *)
LEMMA RangeHeadTail ==
    ASSUME NEW S, NEW s \in Seq(S), s # <<>>
    PROVE  /\ Head(s) \in S
           /\ Tail(s) \in Seq(S)
           /\ Len(Tail(s)) = Len(s) - 1
           /\ Range(s) = {Head(s)} \union Range(Tail(s))
<1>1. /\ Head(s) \in S
      /\ Tail(s) \in Seq(S)
      /\ Len(Tail(s)) = Len(s) - 1
      /\ Len(s) \in Nat \ {0}
  OBVIOUS
<1>2. ASSUME NEW x \in Range(s) PROVE x \in {Head(s)} \union Range(Tail(s))
  <2>1. PICK i \in 1..Len(s) : x = s[i]
    BY DEF Range
  <2>2. CASE i = 1
    BY <2>1, <2>2
  <2>3. CASE i # 1
    <3>1. i - 1 \in DOMAIN Tail(s) /\ Tail(s)[i - 1] = s[i]
      BY <1>1, <2>3
    <3> QED
      BY <2>1, <3>1 DEF Range
  <2> QED
    BY <2>2, <2>3
<1>3. ASSUME NEW x \in {Head(s)} \union Range(Tail(s)) PROVE x \in Range(s)
  <2>1. CASE x = Head(s)
    <3>1. 1 \in DOMAIN s /\ Head(s) = s[1]
      BY <1>1
    <3> QED
      BY <2>1, <3>1 DEF Range
  <2>2. CASE x \in Range(Tail(s))
    <3>1. PICK i \in 1..Len(Tail(s)) : x = Tail(s)[i]
      BY <1>1, <2>2 DEF Range
    <3>2. i + 1 \in DOMAIN s /\ Tail(s)[i] = s[i + 1]
      BY <1>1
    <3> QED
      BY <3>1, <3>2 DEF Range
  <2> QED
    BY <2>1, <2>2, <1>3
<1> QED
  BY <1>1, <1>2, <1>3

(* Appending a batch to a table adds exactly the rows of the batch. *)
LEMMA RangeConcat ==
    ASSUME NEW S, NEW s \in Seq(S), NEW t \in Seq(S)
    PROVE  /\ s \o t \in Seq(S)
           /\ Range(s \o t) = Range(s) \union Range(t)
<1>1. s \o t \in Seq(S) /\ Len(s \o t) = Len(s) + Len(t)
  BY ConcatProperties
<1>2. ASSUME NEW x \in Range(s \o t) PROVE x \in Range(s) \union Range(t)
  <2>1. PICK i \in 1..(Len(s) + Len(t)) : x = (s \o t)[i]
    BY <1>1 DEF Range
  <2>2. CASE i <= Len(s)
    BY <2>1, <2>2 DEF Range
  <2>3. CASE i > Len(s)
    <3>1. i - Len(s) \in DOMAIN t /\ (s \o t)[i] = t[i - Len(s)]
      BY <2>1, <2>3
    <3> QED
      BY <2>1, <3>1 DEF Range
  <2> QED
    BY <2>1, <2>2, <2>3
<1>3. ASSUME NEW x \in Range(s) PROVE x \in Range(s \o t)
  <2>1. PICK i \in 1..Len(s) : x = s[i]
    BY DEF Range
  <2>2. i \in DOMAIN (s \o t) /\ (s \o t)[i] = s[i]
    BY <1>1
  <2> QED
    BY <2>1, <2>2 DEF Range
<1>4. ASSUME NEW x \in Range(t) PROVE x \in Range(s \o t)
  <2>1. PICK i \in 1..Len(t) : x = t[i]
    BY DEF Range
  <2>2. Len(s) + i \in DOMAIN (s \o t) /\ (s \o t)[Len(s) + i] = t[i]
    BY <1>1
  <2> QED
    BY <2>1, <2>2 DEF Range
<1> QED
  BY <1>1, <1>2, <1>3, <1>4

(* A prefix of a batch holds no row the batch does not hold. *)
LEMMA RangePrefix ==
    ASSUME NEW S, NEW s \in Seq(S), NEW n \in 0..Len(s)
    PROVE  /\ SubSeq(s, 1, n) \in Seq(S)
           /\ Range(SubSeq(s, 1, n)) \subseteq Range(s)
<1>1. /\ SubSeq(s, 1, n) \in Seq(S)
      /\ Len(SubSeq(s, 1, n)) = n
      /\ \A i \in 1..n : SubSeq(s, 1, n)[i] = s[i]
  BY SubSeqProperties
<1>2. ASSUME NEW x \in Range(SubSeq(s, 1, n)) PROVE x \in Range(s)
  <2>1. PICK i \in 1..n : x = SubSeq(s, 1, n)[i]
    BY <1>1 DEF Range
  <2> QED
    BY <1>1, <2>1 DEF Range
<1> QED
  BY <1>1, <1>2

--------------------------------------------------------------------------------
(* Where a row can be, before and after a step.                             *)

(* A row of the process is in an ingest task, in a channel or in a buffer. *)
LEMMA InFlightMember ==
    ASSUME NEW r
    PROVE  r \in InFlight <=>
             \/ \E p \in Pipelines : r \in Range(held[p]) \/ r \in Range(chan[p])
             \/ \E k \in Kinds : r \in Range(buffer[k])
<1>1. r \in Queued <=>
        \E p \in Pipelines : r \in Range(held[p]) \union Range(chan[p])
  BY Zenon DEF Queued
<1>2. r \in Buffered <=> \E k \in Kinds : r \in Range(buffer[k])
  BY Zenon DEF Buffered
<1> QED
  BY <1>1, <1>2 DEF InFlight

(* The same after a step. *)
LEMMA InFlightMemberNext ==
    ASSUME NEW r
    PROVE  r \in InFlight' <=>
             \/ \E p \in Pipelines : r \in Range(held'[p]) \/ r \in Range(chan'[p])
             \/ \E k \in Kinds : r \in Range(buffer'[k])
<1>1. r \in Queued' <=>
        \E p \in Pipelines : r \in Range(held'[p]) \union Range(chan'[p])
  BY Zenon DEF Queued
<1>2. r \in Buffered' <=> \E k \in Kinds : r \in Range(buffer'[k])
  BY Zenon DEF Buffered
<1> QED
  BY <1>1, <1>2 DEF InFlight

(* A row is in ClickHouse when one of the tables has a copy. *)
LEMMA StoredMember ==
    ASSUME NEW r
    PROVE  /\ r \in Stored <=> \E k \in Kinds : r \in Range(store[k])
           /\ r \in Stored' <=> \E k \in Kinds : r \in Range(store'[k])
<1>1. r \in Stored <=> \E k \in Kinds : r \in Range(store[k])
  BY Zenon DEF Stored
<1>2. r \in Stored' <=> \E k \in Kinds : r \in Range(store'[k])
  BY Zenon DEF Stored
<1> QED
  BY <1>1, <1>2

(* A step that touches no sequence leaves every row where it is. *)
LEMMA RowsUnmoved ==
    UNCHANGED <<held, chan, buffer, store>> => InFlight' = InFlight /\ Stored' = Stored
  BY DEF InFlight, Queued, Buffered, Stored

--------------------------------------------------------------------------------
(* Type correctness.                                                        *)

(* There are five tables, and every kind of a running pipeline is a kind. *)
LEMMA KindFacts ==
    /\ Len(DDL) \in Nat
    /\ \A p \in Pipelines : KindsOf(p) \subseteq Kinds
  BY DEF DDL, Kinds

(* A statement of ensure_schema that succeeds adds a table, none drops one. *)
LEMMA SchemaType ==
    ASSUME created \in 0..Len(DDL), NEW n \in 0..Len(DDL), SchemaUpTo(n)
    PROVE  created' \in 0..Len(DDL)
  BY KindFacts DEF SchemaUpTo

(* Finishing a kind keeps the writer's position and its work list in step. *)
LEMMA FlushedKindType ==
    ASSUME TypeOK, NEW p \in Pipelines, NEW k, FlushedKind(p, k)
    PROVE  /\ writer' \in [Pipelines -> {"ping", "schema", "select", "flush", "recover"}]
           /\ todo' \in [Pipelines -> SUBSET Kinds]
           /\ \A q \in Pipelines : /\ todo'[q] \subseteq KindsOf(q)
                                   /\ todo'[q] # {} <=> writer'[q] \in {"flush", "recover"}
  BY DEF TypeOK, FlushedKind

(* The initial state, and the state a process starts from, are well typed. *)
LEMMA TypeInit == Init => TypeOK
<1> SUFFICES ASSUME Init PROVE TypeOK
  OBVIOUS
<1>1. /\ <<>> \in Seq(Rows)
      /\ Len(<<>>) = 0
      /\ Range(<<>>) = {}
  BY DEF Range
<1>2. \A p \in Pipelines : ChanCap[p] \in Nat \ {0}
  BY ChanCapAssumption
<1> QED
  BY <1>1, <1>2, BoundsAssumption DEF Init, VolatileInit, TypeOK

(* Every step preserves TypeOK: Send only when the channel has room, Recv   *)
(* and the flushes keep the writer's position and its work list in step.    *)
LEMMA TypeStep == TypeOK /\ [Next]_vars => TypeOK'
<1> SUFFICES ASSUME TypeOK, [Next]_vars PROVE TypeOK'
  OBVIOUS
<1> USE KindFacts
<1>0. CASE UNCHANGED vars
  BY <1>0 DEF TypeOK, vars, RowsOf
<1>1. ASSUME NEW p \in Pipelines, NatsSubscribed(p) \/ NatsEnded(p) PROVE TypeOK'
  BY <1>1 DEF TypeOK, RowsOf, NatsSubscribed, NatsEnded
<1>2. ASSUME NEW p \in Pipelines, NEW k \in KindsOf(p), Receive(p, k) PROVE TypeOK'
  <2> DEFINE row == [kind |-> k, id |-> nextId]
  <2>1. row \in Rows /\ row \in RowsOf(p)
    BY <1>2, BoundsAssumption DEF TypeOK, Rows, RowsOf, Receive
  <2>2. <<row>> \in Seq(Rows) /\ Len(<<row>>) = 1 /\ Range(<<row>>) = {row}
    BY <2>1 DEF Range
  <2>3. held' = [held EXCEPT ![p] = <<row>>] /\ taken' = taken \union {row}
    BY <1>2 DEF Receive
  <2>4. nextId' \in 1..(MaxRows + 1)
    BY <1>2, BoundsAssumption DEF TypeOK, Receive
  <2> DEFINE one == <<row>>
  <2>6. one \in Seq(Rows) /\ Len(one) = 1 /\ Range(one) \subseteq RowsOf(p)
    BY <2>1, <2>2
  <2>7. held' = [held EXCEPT ![p] = one]
    BY <2>3
  <2> HIDE DEF row, one
  <2>5. /\ held' \in [Pipelines -> Seq(Rows)]
        /\ \A q \in Pipelines : Len(held'[q]) <= 1 /\ Range(held'[q]) \subseteq RowsOf(q)
    <3>1. held' \in [Pipelines -> Seq(Rows)]
      BY <2>6, <2>7 DEF TypeOK
    <3>2. ASSUME NEW q \in Pipelines
          PROVE  Len(held'[q]) <= 1 /\ Range(held'[q]) \subseteq RowsOf(q)
      <4>1. CASE q = p
        <5>1. held'[q] = one
          BY <4>1, <2>7 DEF TypeOK
        <5> QED
          BY <5>1, <4>1, <2>6
      <4>2. CASE q # p
        <5>1. held'[q] = held[q]
          BY <4>2, <2>7 DEF TypeOK
        <5> QED
          BY <5>1 DEF TypeOK
      <4> QED
        BY <4>1, <4>2
    <3> QED
      BY <3>1, <3>2
  <2> QED
    BY <1>2, <2>1, <2>3, <2>4, <2>5 DEF TypeOK, Receive, RowsOf
<1>3. ASSUME NEW p \in Pipelines, Send(p) PROVE TypeOK'
  <2> DEFINE row == Head(held[p])
  <2>1. held[p] \in Seq(Rows) /\ held[p] # <<>> /\ chan[p] \in Seq(Rows)
    BY <1>3 DEF TypeOK, Send
  <2>2. row \in Rows /\ row \in RowsOf(p)
    BY <2>1, RangeHeadTail DEF TypeOK
  <2> HIDE DEF row
  <2>3. /\ Append(chan[p], row) \in Seq(Rows)
        /\ Len(Append(chan[p], row)) = Len(chan[p]) + 1
        /\ Range(Append(chan[p], row)) = Range(chan[p]) \union {row}
    BY <2>1, <2>2, RangeAppend
  <2>4. /\ chan' = [chan EXCEPT ![p] = Append(chan[p], row)]
        /\ held' = [held EXCEPT ![p] = <<>>]
        /\ Len(chan[p]) < ChanCap[p]
    BY <1>3 DEF Send, row
  <2>5. /\ chan' \in [Pipelines -> Seq(Rows)]
        /\ \A q \in Pipelines : Len(chan'[q]) <= ChanCap[q] /\ Range(chan'[q]) \subseteq RowsOf(q)
    <3>1. Len(Append(chan[p], row)) <= ChanCap[p]
      BY <2>1, <2>3, <2>4, ChanCapAssumption
    <3> QED
      BY <2>2, <2>3, <2>4, <3>1 DEF TypeOK
  <2>6. <<>> \in Seq(Rows) /\ Len(<<>>) = 0 /\ Range(<<>>) = {}
    BY DEF Range
  <2>7. /\ held' \in [Pipelines -> Seq(Rows)]
        /\ \A q \in Pipelines : Len(held'[q]) <= 1 /\ Range(held'[q]) \subseteq RowsOf(q)
    BY <2>4, <2>6 DEF TypeOK
  <2> QED
    BY <1>3, <2>5, <2>7 DEF TypeOK, Send, RowsOf
<1>4. ASSUME NEW p \in Pipelines, PingOk(p) PROVE TypeOK'
  BY <1>4 DEF TypeOK, RowsOf, PingOk
<1>5. ASSUME NEW p \in Pipelines, NEW n \in 0..Len(DDL), EnsureSchema(p, n) PROVE TypeOK'
  BY <1>5, SchemaType DEF TypeOK, RowsOf, EnsureSchema
<1>6. ASSUME NEW p \in Pipelines, Tick(p) PROVE TypeOK'
  BY <1>6 DEF TypeOK, RowsOf, Tick
<1>7. ASSUME NEW p \in Pipelines, Recv(p) PROVE TypeOK'
  <2> DEFINE row == Head(chan[p])
             k == row.kind
             full == Len(buffer[k]) + 1 >= Batch[k]
  <2>1. chan[p] \in Seq(Rows) /\ chan[p] # <<>>
    BY <1>7 DEF TypeOK, Recv
  <2>2. row \in Rows /\ row \in RowsOf(p)
    BY <2>1, RangeHeadTail DEF TypeOK
  <2>3. k \in KindsOf(p) /\ k \in Kinds
    BY <2>2 DEF RowsOf
  <2>4. /\ Tail(chan[p]) \in Seq(Rows)
        /\ Len(Tail(chan[p])) <= ChanCap[p]
        /\ Range(Tail(chan[p])) \subseteq RowsOf(p)
    BY <2>1, RangeHeadTail, ChanCapAssumption DEF TypeOK
  <2>5. /\ buffer' = [buffer EXCEPT ![k] = Append(buffer[k], row)]
        /\ todo' = [todo EXCEPT ![p] = IF full THEN {k} ELSE {}]
        /\ writer' = [writer EXCEPT ![p] = IF full THEN "flush" ELSE "select"]
        /\ chan' = [chan EXCEPT ![p] = Tail(chan[p])]
    BY <1>7 DEF Recv
  <2> HIDE DEF row, k, full
  <2>6. buffer' \in [Kinds -> Seq(Rows)]
    BY <2>2, <2>3, <2>5, RangeAppend DEF TypeOK
  <2>7. /\ chan' \in [Pipelines -> Seq(Rows)]
        /\ \A q \in Pipelines : Len(chan'[q]) <= ChanCap[q] /\ Range(chan'[q]) \subseteq RowsOf(q)
    BY <2>4, <2>5 DEF TypeOK
  <2>8. /\ writer' \in [Pipelines -> {"ping", "schema", "select", "flush", "recover"}]
        /\ todo' \in [Pipelines -> SUBSET Kinds]
        /\ \A q \in Pipelines : /\ todo'[q] \subseteq KindsOf(q)
                                /\ todo'[q] # {} <=> writer'[q] \in {"flush", "recover"}
    BY <2>3, <2>5 DEF TypeOK
  <2> QED
    BY <1>7, <2>6, <2>7, <2>8 DEF TypeOK, Recv, RowsOf
<1>8. ASSUME NEW p \in Pipelines, NEW k \in KindsOf(p), FlushOk(p, k) PROVE TypeOK'
  <2>1. store' \in [Kinds -> Seq(Rows)]
    BY <1>8, RangeConcat DEF TypeOK, FlushOk
  <2>2. buffer' \in [Kinds -> Seq(Rows)]
    BY <1>8 DEF TypeOK, FlushOk
  <2> QED
    BY <1>8, <2>1, <2>2, FlushedKindType DEF TypeOK, RowsOf, FlushOk
<1>9. ASSUME NEW p \in Pipelines, NEW k \in KindsOf(p),
             NEW n \in 0..Len(buffer[k]), FlushErr(p, k, n) PROVE TypeOK'
  <2>1. buffer[k] \in Seq(Rows) /\ store[k] \in Seq(Rows)
    BY DEF TypeOK
  <2>2. store' \in [Kinds -> Seq(Rows)]
    BY <1>9, <2>1, RangeConcat, RangePrefix DEF TypeOK, FlushErr
  <2>3. Range(buffer[k]) \subseteq Rows
    BY <2>1 DEF Range
  <2>4. /\ writer' \in [Pipelines -> {"ping", "schema", "select", "flush", "recover"}]
        /\ \A q \in Pipelines : todo[q] # {} <=> writer'[q] \in {"flush", "recover"}
    BY <1>9 DEF TypeOK, FlushErr, Flushing
  <2> QED
    BY <1>9, <2>2, <2>3, <2>4 DEF TypeOK, RowsOf, FlushErr
<1>10. ASSUME NEW p \in Pipelines, NEW k \in KindsOf(p),
              NEW n \in 0..Len(DDL), Recover(p, k, n) PROVE TypeOK'
  BY <1>10, FlushedKindType, SchemaType DEF TypeOK, RowsOf, Recover
<1>11. CASE Shutdown
  <2>1. <<>> \in Seq(Rows) /\ Len(<<>>) = 0 /\ Range(<<>>) = {}
    BY DEF Range
  <2>2. InFlight \subseteq Rows
    <3>1. /\ \A p \in Pipelines : Range(held[p]) \subseteq Rows /\ Range(chan[p]) \subseteq Rows
          /\ \A k \in Kinds : Range(buffer[k]) \subseteq Rows
      BY RangeType DEF TypeOK
    <3> QED
      BY <3>1, InFlightMember
  <2> DEFINE none == <<>>
  <2>3. /\ held' = [p \in Pipelines |-> none]
        /\ chan' = [p \in Pipelines |-> none]
        /\ buffer' = [k \in Kinds |-> none]
        /\ lost' \subseteq Rows
    BY <1>11, <2>2 DEF TypeOK, Shutdown
  <2>4. /\ none \in Seq(Rows) /\ Len(none) = 0 /\ Range(none) = {}
        /\ \A p \in Pipelines : 0 <= ChanCap[p]
    BY <2>1, ChanCapAssumption
  <2> HIDE DEF none
  <2>5. /\ held' \in [Pipelines -> Seq(Rows)]
        /\ \A p \in Pipelines : Len(held'[p]) <= 1 /\ Range(held'[p]) \subseteq RowsOf(p)
        /\ chan' \in [Pipelines -> Seq(Rows)]
        /\ \A p \in Pipelines : Len(chan'[p]) <= ChanCap[p] /\ Range(chan'[p]) \subseteq RowsOf(p)
        /\ buffer' \in [Kinds -> Seq(Rows)]
    BY <2>3, <2>4
  <2> QED
    BY <1>11, <2>3, <2>5 DEF TypeOK, Shutdown, RowsOf
<1>12. CASE Restart
  BY <1>12 DEF TypeOK, RowsOf, Restart
<1> QED
  BY <1>0, <1>1, <1>2, <1>3, <1>4, <1>5, <1>6, <1>7, <1>8, <1>9, <1>10, <1>11, <1>12
    DEF Next, IngestStep, WriterStep

(* The shape of the state holds in every reachable state: in particular no  *)
(* channel exceeds its capacity, and a writer that is not flushing has no   *)
(* kind left over from an earlier arm of its select.                        *)
THEOREM TypeCorrect == Spec => []TypeOK
  BY TypeInit, TypeStep, PTL DEF Spec

--------------------------------------------------------------------------------
(* How each step moves rows.                                                *)

(* Taking a message adds its row to those of the process. *)
LEMMA ReceiveMoves ==
    ASSUME TypeOK, NEW p \in Pipelines, NEW k \in KindsOf(p), Receive(p, k)
    PROVE  LET row == [kind |-> k, id |-> nextId] IN
             /\ InFlight' = InFlight \union {row}
             /\ Stored' = Stored
<1> DEFINE row == [kind |-> k, id |-> nextId]
           one == <<row>>
<1>1. Range(one) = {row} /\ Range(<<>>) = {}
  BY DEF Range
<1>2. held' = [held EXCEPT ![p] = one] /\ held[p] = <<>>
  BY DEF Receive
<1>3. UNCHANGED <<chan, buffer, store>>
  BY DEF Receive
<1> HIDE DEF one, row
<1>4. /\ held'[p] = one
      /\ \A q \in Pipelines \ {p} : held'[q] = held[q]
  BY <1>2 DEF TypeOK
<1>5. ASSUME NEW r PROVE r \in InFlight' <=> r \in InFlight \/ r = row
  <2>1. \A q \in Pipelines : r \in Range(held'[q]) <=>
                                r \in Range(held[q]) \/ (q = p /\ r = row)
    BY <1>1, <1>2, <1>4
  <2> QED
    BY <2>1, <1>3, InFlightMember, InFlightMemberNext
<1>6. Stored' = Stored
  BY <1>3 DEF Stored
<1>7. InFlight' = InFlight \union {row}
  BY <1>5
<1> QED
  BY <1>6, <1>7 DEF row

(* Sending moves a row from the ingest task to the channel. *)
LEMMA SendMoves ==
    ASSUME TypeOK, NEW p \in Pipelines, Send(p)
    PROVE  InFlight' = InFlight /\ Stored' = Stored
<1> DEFINE row == Head(held[p])
<1>1. held[p] \in Seq(Rows) /\ held[p] # <<>> /\ chan[p] \in Seq(Rows) /\ Len(held[p]) <= 1
  BY DEF TypeOK, Send
<1>2. /\ row \in Rows
      /\ Range(held[p]) = {row}
  <2>1. /\ row \in Rows
        /\ Tail(held[p]) \in Seq(Rows)
        /\ Len(Tail(held[p])) = Len(held[p]) - 1
        /\ Range(held[p]) = {row} \union Range(Tail(held[p]))
    BY <1>1, RangeHeadTail
  <2>2. Len(Tail(held[p])) = 0
    <3>1. Len(Tail(held[p])) \in Nat /\ Len(held[p]) \in Nat
      BY <1>1, <2>1, LenProperties
    <3>2. \A a, b \in Nat : a <= 1 /\ b = a - 1 => b = 0
      OBVIOUS
    <3> HIDE DEF row
    <3> QED
      BY <1>1, <2>1, <3>1, <3>2, Zenon
  <2>3. Range(Tail(held[p])) = {}
    BY <2>1, <2>2 DEF Range
  <2> QED
    BY <2>1, <2>3
<1>3. /\ chan' = [chan EXCEPT ![p] = Append(chan[p], row)]
      /\ held' = [held EXCEPT ![p] = <<>>]
      /\ UNCHANGED <<buffer, store>>
  BY DEF Send
<1> HIDE DEF row
<1>4. Range(Append(chan[p], row)) = Range(chan[p]) \union {row}
  BY <1>1, <1>2, RangeAppend
<1>5. Range(<<>>) = {}
  BY DEF Range
<1>6. /\ \A q \in Pipelines : Range(chan'[q]) = IF q = p THEN Range(chan[q]) \union {row}
                                                          ELSE Range(chan[q])
      /\ \A q \in Pipelines : Range(held'[q]) = IF q = p THEN {} ELSE Range(held[q])
  BY <1>3, <1>4, <1>5 DEF TypeOK
<1>7. ASSUME NEW r PROVE r \in InFlight' <=> r \in InFlight
  <2>1. \A q \in Pipelines : r \in Range(held'[q]) \/ r \in Range(chan'[q]) <=>
                                r \in Range(held[q]) \/ r \in Range(chan[q])
    BY <1>2, <1>6
  <2> QED
    BY <2>1, <1>3, InFlightMember, InFlightMemberNext
<1> QED
  BY <1>3, <1>7 DEF Stored

(* Receiving from the channel moves a row to the buffer of its kind. *)
LEMMA RecvMoves ==
    ASSUME TypeOK, NEW p \in Pipelines, Recv(p)
    PROVE  InFlight' = InFlight /\ Stored' = Stored
<1> DEFINE row == Head(chan[p])
           kind == row.kind
<1>1. chan[p] \in Seq(Rows) /\ chan[p] # <<>>
  BY DEF TypeOK, Recv
<1>2. row \in Rows /\ kind \in Kinds /\ Range(chan[p]) = {row} \union Range(Tail(chan[p]))
  <2>1. row \in Rows /\ Range(chan[p]) = {row} \union Range(Tail(chan[p]))
    BY <1>1, RangeHeadTail
  <2>2. \A r \in Rows : r.kind \in Kinds
    BY DEF Rows
  <2> QED
    BY <2>1, <2>2
<1>3. /\ chan' = [chan EXCEPT ![p] = Tail(chan[p])]
      /\ buffer' = [buffer EXCEPT ![kind] = Append(buffer[kind], row)]
      /\ UNCHANGED <<held, store>>
  BY DEF Recv
<1> HIDE DEF row, kind
<1>4. buffer[kind] \in Seq(Rows)
  BY <1>2 DEF TypeOK
<1>5. Range(Append(buffer[kind], row)) = Range(buffer[kind]) \union {row}
  BY <1>2, <1>4, RangeAppend
<1>6. /\ \A q \in Pipelines : Range(chan'[q]) = IF q = p THEN Range(Tail(chan[q]))
                                                          ELSE Range(chan[q])
      /\ \A k \in Kinds : Range(buffer'[k]) = IF k = kind THEN Range(buffer[k]) \union {row}
                                                         ELSE Range(buffer[k])
  BY <1>3, <1>5 DEF TypeOK
<1>7. ASSUME NEW r PROVE r \in InFlight' <=> r \in InFlight
  <2>1. CASE r = row
    <3>1. r \in Range(chan[p]) /\ r \in Range(buffer'[kind])
      BY <2>1, <1>2, <1>6
    <3> QED
      BY <3>1, <1>2, InFlightMember, InFlightMemberNext
  <2>2. CASE r # row
    <3>1. /\ \A q \in Pipelines : r \in Range(chan'[q]) <=> r \in Range(chan[q])
          /\ \A k \in Kinds : r \in Range(buffer'[k]) <=> r \in Range(buffer[k])
      BY <2>2, <1>2, <1>6
    <3> QED
      BY <3>1, <1>3, InFlightMember, InFlightMemberNext
  <2> QED
    BY <2>1, <2>2
<1> QED
  BY <1>3, <1>7 DEF Stored

(* A successful insert moves the rows of one buffer to their table. *)
LEMMA FlushOkMoves ==
    ASSUME TypeOK, NEW p \in Pipelines, NEW k \in KindsOf(p), FlushOk(p, k)
    PROVE  /\ Range(buffer[k]) \subseteq InFlight
           /\ InFlight' \union Range(buffer[k]) = InFlight
           /\ Stored' = Stored \union Range(buffer[k])
<1>1. k \in Kinds /\ buffer[k] \in Seq(Rows) /\ store[k] \in Seq(Rows)
  BY KindFacts DEF TypeOK
<1>2. /\ store' = [store EXCEPT ![k] = store[k] \o buffer[k]]
      /\ buffer' = [buffer EXCEPT ![k] = <<>>]
      /\ UNCHANGED <<held, chan>>
  BY DEF FlushOk
<1>3. Range(store[k] \o buffer[k]) = Range(store[k]) \union Range(buffer[k]) /\ Range(<<>>) = {}
  <2>1. Range(store[k] \o buffer[k]) = Range(store[k]) \union Range(buffer[k])
    BY <1>1, RangeConcat
  <2>2. Range(<<>>) = {}
    BY DEF Range
  <2> QED
    BY <2>1, <2>2
<1>4. /\ \A j \in Kinds : Range(store'[j]) = IF j = k THEN Range(store[j]) \union Range(buffer[j])
                                                        ELSE Range(store[j])
      /\ \A j \in Kinds : Range(buffer'[j]) = IF j = k THEN {} ELSE Range(buffer[j])
  BY <1>2, <1>3 DEF TypeOK
<1>5. ASSUME NEW r PROVE r \in InFlight' \/ r \in Range(buffer[k]) <=> r \in InFlight
  <2>1. \A j \in Kinds : j # k => (r \in Range(buffer'[j]) <=> r \in Range(buffer[j]))
    BY <1>4
  <2>2. r \notin Range(buffer'[k])
    BY <1>1, <1>4
  <2> QED
    BY <1>1, <1>2, <2>1, <2>2, InFlightMember, InFlightMemberNext
<1>6. ASSUME NEW r PROVE r \in Stored' <=> r \in Stored \/ r \in Range(buffer[k])
  <2>1. \A j \in Kinds : r \in Range(store'[j]) <=>
                            r \in Range(store[j]) \/ (j = k /\ r \in Range(buffer[k]))
    BY <1>4
  <2> QED
    BY <1>1, <2>1, StoredMember
<1> QED
  BY <1>5, <1>6

(* A failed insert leaves the rows of the process where they are; copies of *)
(* some rows of the batch may be in the table.                              *)
LEMMA FlushErrMoves ==
    ASSUME TypeOK, NEW p \in Pipelines, NEW k \in KindsOf(p),
           NEW n \in 0..Len(buffer[k]), FlushErr(p, k, n)
    PROVE  /\ Range(SubSeq(buffer[k], 1, n)) \subseteq InFlight
           /\ InFlight' = InFlight
           /\ Stored' = Stored \union Range(SubSeq(buffer[k], 1, n))
<1> DEFINE landed == SubSeq(buffer[k], 1, n)
<1>1. k \in Kinds /\ buffer[k] \in Seq(Rows) /\ store[k] \in Seq(Rows)
  BY KindFacts DEF TypeOK
<1>2. landed \in Seq(Rows) /\ Range(landed) \subseteq Range(buffer[k])
  BY <1>1, RangePrefix
<1>3. store' = [store EXCEPT ![k] = store[k] \o landed] /\ UNCHANGED <<held, chan, buffer>>
  BY DEF FlushErr
<1> HIDE DEF landed
<1>4. Range(store[k] \o landed) = Range(store[k]) \union Range(landed)
  BY <1>1, <1>2, RangeConcat
<1>5. \A j \in Kinds : Range(store'[j]) = IF j = k THEN Range(store[j]) \union Range(landed)
                                                    ELSE Range(store[j])
  BY <1>3, <1>4 DEF TypeOK
<1>6. ASSUME NEW r PROVE r \in Stored' <=> r \in Stored \/ r \in Range(landed)
  <2>1. \A j \in Kinds : r \in Range(store'[j]) <=>
                            r \in Range(store[j]) \/ (j = k /\ r \in Range(landed))
    BY <1>5
  <2> QED
    BY <1>1, <2>1, StoredMember
<1>7. Range(landed) \subseteq InFlight
  BY <1>1, <1>2, InFlightMember
<1>8. InFlight' = InFlight
  BY <1>3 DEF InFlight, Queued, Buffered
<1>9. Stored' = Stored \union Range(landed)
  BY <1>6
<1> QED
  BY <1>7, <1>8, <1>9 DEF landed

(* When the process ends nothing is left in it; ClickHouse is untouched. *)
LEMMA ShutdownMoves ==
    ASSUME Shutdown
    PROVE  InFlight' = {} /\ Stored' = Stored
<1>1. Range(<<>>) = {}
  BY DEF Range
<1>2. /\ \A p \in Pipelines : held'[p] = <<>> /\ chan'[p] = <<>>
      /\ \A k \in Kinds : buffer'[k] = <<>>
  BY DEF Shutdown
<1>3. ASSUME NEW r PROVE r \notin InFlight'
  BY <1>1, <1>2, InFlightMemberNext
<1>4. store' = store
  BY DEF Shutdown
<1> QED
  BY <1>3, <1>4 DEF Stored

--------------------------------------------------------------------------------
(* Delivery.                                                                *)

(* Nothing was taken, nothing is in flight, nothing is stored. *)
LEMMA DeliveryInit == Init => DeliveryInv
<1> SUFFICES ASSUME Init PROVE DeliveryInv
  OBVIOUS
<1>1. Range(<<>>) = {}
  BY DEF Range
<1>2. /\ \A p \in Pipelines : held[p] = <<>> /\ chan[p] = <<>>
      /\ \A k \in Kinds : buffer[k] = <<>> /\ store[k] = <<>>
  BY DEF Init, VolatileInit
<1>3. ASSUME NEW r PROVE r \notin InFlight /\ r \notin Stored
  BY <1>1, <1>2, InFlightMember, StoredMember
<1>4. taken = {} /\ lost = {}
  BY DEF Init
<1> QED
  BY <1>3, <1>4, TypeInit DEF DeliveryInv, NoSilentLoss, IdsFresh

(* Every step preserves the invariant.  Only Receive takes a row, and one   *)
(* with a number not used before; only an insert makes rows stored; only    *)
(* Shutdown loses rows, those that are in flight and not stored.            *)
LEMMA DeliveryStep == DeliveryInv /\ [Next]_vars => DeliveryInv'
<1> SUFFICES ASSUME DeliveryInv, [Next]_vars PROVE DeliveryInv'
  OBVIOUS
<1>1. TypeOK /\ TypeOK'
  BY TypeStep DEF DeliveryInv
<1>2. /\ taken = InFlight \union Stored \union lost
      /\ lost \intersect (InFlight \union Stored) = {}
      /\ \A r \in taken : r.id < nextId
  BY DEF DeliveryInv, NoSilentLoss, IdsFresh
<1> SUFFICES /\ taken' = InFlight' \union Stored' \union lost'
             /\ lost' \intersect (InFlight' \union Stored') = {}
             /\ \A r \in taken' : r.id < nextId'
  BY <1>1 DEF DeliveryInv, NoSilentLoss, IdsFresh
<1> DEFINE Delivered == /\ taken' = InFlight' \union Stored' \union lost'
                        /\ lost' \intersect (InFlight' \union Stored') = {}
                        /\ \A r \in taken' : r.id < nextId'
<1> SUFFICES Delivered
  OBVIOUS
<1>3. ASSUME UNCHANGED <<held, chan, buffer, store>>, UNCHANGED <<nextId, taken, lost>>
      PROVE  Delivered
  BY <1>2, <1>3, RowsUnmoved
<1>4. CASE UNCHANGED vars
  BY <1>3, <1>4 DEF vars
<1>5. ASSUME NEW p \in Pipelines, NatsSubscribed(p) \/ NatsEnded(p) PROVE Delivered
  BY <1>3, <1>5 DEF NatsSubscribed, NatsEnded
<1>6. ASSUME NEW p \in Pipelines, NEW k \in KindsOf(p), Receive(p, k) PROVE Delivered
  <2> DEFINE row == [kind |-> k, id |-> nextId]
  <2>1. InFlight' = InFlight \union {row} /\ Stored' = Stored
    BY <1>1, <1>6, ReceiveMoves
  <2>2. taken' = taken \union {row} /\ nextId' = nextId + 1 /\ lost' = lost
    BY <1>6 DEF Receive
  <2>3. nextId \in Int /\ row.id = nextId /\ \A r \in taken : r.id \in Int
    BY <1>1, BoundsAssumption DEF TypeOK, Rows
  <2>4. row \notin taken
    BY <1>2, <2>3
  <2>5. \A r \in taken' : r.id < nextId'
    BY <1>2, <2>2, <2>3
  <2> HIDE DEF row
  <2> QED
    BY <1>2, <2>1, <2>2, <2>4, <2>5
<1>7. ASSUME NEW p \in Pipelines, Send(p) PROVE Delivered
  <2>1. InFlight' = InFlight /\ Stored' = Stored
    BY <1>1, <1>7, SendMoves
  <2> QED
    BY <1>2, <1>7, <2>1 DEF Send
<1>8. ASSUME NEW p \in Pipelines, PingOk(p) \/ Tick(p) PROVE Delivered
  BY <1>3, <1>8 DEF PingOk, Tick
<1>9. ASSUME NEW p \in Pipelines, NEW n \in 0..Len(DDL), EnsureSchema(p, n) PROVE Delivered
  BY <1>3, <1>9 DEF EnsureSchema
<1>10. ASSUME NEW p \in Pipelines, Recv(p) PROVE Delivered
  <2>1. InFlight' = InFlight /\ Stored' = Stored
    BY <1>1, <1>10, RecvMoves
  <2> QED
    BY <1>2, <1>10, <2>1 DEF Recv
<1>11. ASSUME NEW p \in Pipelines, NEW k \in KindsOf(p), FlushOk(p, k) PROVE Delivered
  <2>1. /\ InFlight' \union Range(buffer[k]) = InFlight
        /\ Stored' = Stored \union Range(buffer[k])
    BY <1>1, <1>11, FlushOkMoves
  <2>2. UNCHANGED <<nextId, taken, lost>>
    BY <1>11 DEF FlushOk
  <2> QED
    BY <1>2, <2>1, <2>2
<1>12. ASSUME NEW p \in Pipelines, NEW k \in KindsOf(p),
              NEW n \in 0..Len(buffer[k]), FlushErr(p, k, n) PROVE Delivered
  <2>1. /\ Range(SubSeq(buffer[k], 1, n)) \subseteq InFlight
        /\ InFlight' = InFlight
        /\ Stored' = Stored \union Range(SubSeq(buffer[k], 1, n))
    BY <1>1, <1>12, FlushErrMoves
  <2>2. UNCHANGED <<nextId, taken, lost>>
    BY <1>12 DEF FlushErr
  <2> QED
    BY <1>2, <2>1, <2>2
<1>13. ASSUME NEW p \in Pipelines, NEW k \in KindsOf(p),
              NEW n \in 0..Len(DDL), Recover(p, k, n) PROVE Delivered
  BY <1>3, <1>13 DEF Recover
<1>14. CASE Shutdown
  <2>1. InFlight' = {} /\ Stored' = Stored
    BY <1>14, ShutdownMoves
  <2>2. /\ lost' = lost \union (InFlight \ Stored)
        /\ UNCHANGED <<nextId, taken>>
    BY <1>14 DEF Shutdown
  <2> QED
    BY <1>2, <2>1, <2>2
<1>15. CASE Restart
  BY <1>3, <1>15 DEF Restart
<1> QED
  BY <1>4, <1>5, <1>6, <1>7, <1>8, <1>9, <1>10, <1>11, <1>12, <1>13, <1>14, <1>15
    DEF Next, IngestStep, WriterStep

(* The delivery invariant holds of every behaviour. *)
THEOREM DeliveryCorrect == Spec => []DeliveryInv
  BY DeliveryInit, DeliveryStep, PTL DEF Spec

(* No row is lost silently: whatever inserts fail, land partly or are       *)
(* retried, a row taken from the bus is in the process, in ClickHouse, or   *)
(* was given up when the process ended (and then is not in ClickHouse).     *)
THEOREM NoSilentLossCorrect == Spec => []NoSilentLoss
<1>1. DeliveryInv => NoSilentLoss
  BY DEF DeliveryInv
<1> QED
  BY <1>1, DeliveryCorrect, PTL

--------------------------------------------------------------------------------
(* Refinement.                                                              *)

(* An insert, seen from outside, stores rows that were taken and not lost. *)
LEMMA InsertIsStore ==
    ASSUME DeliveryInv, NEW S, S \subseteq InFlight,
           Stored' = Stored \union S, UNCHANGED <<taken, lost>>
    PROVE  Sink!Next
<1>1. S \in SUBSET (taken \ lost)
  BY DEF DeliveryInv, NoSilentLoss
<1>2. Sink!Store(S)
  BY <1>1 DEF Sink!Store
<1> QED
  BY <1>1, <1>2 DEF Sink!Next

(* Every step of the persister is a step of the sink, or invisible to it. *)
LEMMA SinkStep == DeliveryInv /\ [Next]_vars => [Sink!Next]_(Sink!sinkVars)
<1> SUFFICES ASSUME DeliveryInv, [Next]_vars
             PROVE  Sink!Next \/ UNCHANGED <<taken, Stored, lost>>
  BY DEF Sink!sinkVars
<1>1. TypeOK
  BY DEF DeliveryInv
<1>2. /\ taken = InFlight \union Stored \union lost
      /\ lost \intersect (InFlight \union Stored) = {}
      /\ \A r \in taken : r.id < nextId
  BY DEF DeliveryInv, NoSilentLoss, IdsFresh
<1>3. ASSUME UNCHANGED <<held, chan, buffer, store>>, UNCHANGED <<taken, lost>>
      PROVE  UNCHANGED <<taken, Stored, lost>>
  BY <1>3, RowsUnmoved
<1>4. CASE UNCHANGED vars
  BY <1>3, <1>4 DEF vars
<1>5. ASSUME NEW p \in Pipelines,
             NatsSubscribed(p) \/ NatsEnded(p) \/ PingOk(p) \/ Tick(p)
      PROVE  UNCHANGED <<taken, Stored, lost>>
  BY <1>3, <1>5 DEF NatsSubscribed, NatsEnded, PingOk, Tick
<1>6. ASSUME NEW p \in Pipelines, NEW k \in KindsOf(p), Receive(p, k)
      PROVE  Sink!Next
  <2> DEFINE row == [kind |-> k, id |-> nextId]
  <2>1. Stored' = Stored /\ taken' = taken \union {row} /\ lost' = lost
    BY <1>1, <1>6, ReceiveMoves DEF Receive
  <2>2. nextId \in Int /\ row.id = nextId
    BY <1>1, BoundsAssumption DEF TypeOK
  <2>3. row \notin taken
    BY <1>2, <2>2
  <2>4. row \in Rows
    BY <1>1, <1>6, KindFacts, BoundsAssumption DEF TypeOK, Rows, Receive
  <2> HIDE DEF row
  <2>5. Sink!Take(row)
    BY <2>1, <2>3 DEF Sink!Take
  <2> QED
    BY <2>4, <2>5 DEF Sink!Next
<1>7. ASSUME NEW p \in Pipelines, Send(p) PROVE UNCHANGED <<taken, Stored, lost>>
  BY <1>1, <1>7, SendMoves DEF Send
<1>8. ASSUME NEW p \in Pipelines, Recv(p) PROVE UNCHANGED <<taken, Stored, lost>>
  BY <1>1, <1>8, RecvMoves DEF Recv
<1>9. ASSUME NEW p \in Pipelines, NEW n \in 0..Len(DDL), EnsureSchema(p, n)
      PROVE  UNCHANGED <<taken, Stored, lost>>
  BY <1>3, <1>9 DEF EnsureSchema
<1>10. ASSUME NEW p \in Pipelines, NEW k \in KindsOf(p), FlushOk(p, k) PROVE Sink!Next
  <2>1. UNCHANGED <<taken, lost>>
    BY <1>10 DEF FlushOk
  <2>2. Range(buffer[k]) \subseteq InFlight /\ Stored' = Stored \union Range(buffer[k])
    BY <1>1, <1>10, FlushOkMoves
  <2> QED
    BY <2>1, <2>2, InsertIsStore
<1>11. ASSUME NEW p \in Pipelines, NEW k \in KindsOf(p),
              NEW n \in 0..Len(buffer[k]), FlushErr(p, k, n) PROVE Sink!Next
  <2>1. UNCHANGED <<taken, lost>>
    BY <1>11 DEF FlushErr
  <2>2. /\ Range(SubSeq(buffer[k], 1, n)) \subseteq InFlight
        /\ Stored' = Stored \union Range(SubSeq(buffer[k], 1, n))
    BY <1>1, <1>11, FlushErrMoves
  <2> QED
    BY <2>1, <2>2, InsertIsStore
<1>12. ASSUME NEW p \in Pipelines, NEW k \in KindsOf(p),
              NEW n \in 0..Len(DDL), Recover(p, k, n)
       PROVE  UNCHANGED <<taken, Stored, lost>>
  BY <1>3, <1>12 DEF Recover
<1>13. CASE Shutdown
  <2>1. Stored' = Stored /\ taken' = taken /\ lost' = lost \union (InFlight \ Stored)
    BY <1>13, ShutdownMoves DEF Shutdown
  <2>2. Sink!GiveUp
    BY <1>2, <2>1 DEF Sink!GiveUp
  <2> QED
    BY <2>2 DEF Sink!Next
<1>14. CASE Restart
  BY <1>3, <1>14 DEF Restart
<1> QED
  BY <1>4, <1>5, <1>6, <1>7, <1>8, <1>9, <1>10, <1>11, <1>12, <1>13, <1>14
    DEF Next, IngestStep, WriterStep

(* The persister implements the at-least-once sink: seen from outside, a    *)
(* row is taken once, is stored only after it was taken, and is given up    *)
(* only when the process ends without it in ClickHouse.                     *)
THEOREM PersisterImplementsSink == Spec => SinkSpec
<1>1. Init => Sink!Init
  <2> SUFFICES ASSUME Init PROVE Sink!Init
    OBVIOUS
  <2>1. DeliveryInv
    BY DeliveryInit
  <2>2. taken = {} /\ lost = {}
    BY DEF Init
  <2> QED
    BY <2>1, <2>2 DEF Sink!Init, DeliveryInv, NoSilentLoss
<1> QED
  BY <1>1, SinkStep, DeliveryCorrect, PTL DEF Spec, SinkSpec, Sink!Spec

(* What the sink's user may rely on: every row in ClickHouse was taken, and *)
(* a row that was given up is not there, at any time of the persister.      *)
THEOREM SinkInvariantCorrect == Spec => []Sink!SinkTypeOK
<1>1. DeliveryInv => Sink!SinkTypeOK
  BY DEF DeliveryInv, TypeOK, NoSilentLoss, Sink!SinkTypeOK
<1> QED
  BY <1>1, DeliveryCorrect, PTL
--------------------------------------------------------------------------------
(* Order.                                                                   *)

(* The rows of a sequence have increasing numbers; every row of S is before *)
(* every row of T.                                                          *)
Increasing(s) == \A i \in DOMAIN s, j \in DOMAIN s : i < j => s[i].id < s[j].id

Before(S, T) == \A r \in S, q \in T : r.id < q.id

Waiting(p) == Range(chan[p]) \union Range(held[p])

QueueOrdered(p) ==
    /\ Increasing(chan[p])
    /\ Before(Range(chan[p]), Range(held[p]))

(* A pipeline is one line of rows: those of a table and its buffer have     *)
(* left the channel before all that is in it, and of the rows in the buffer *)
(* those that an insert got into the table are in front.                    *)
KindOrdered(p, k) ==
    /\ \A r \in Range(buffer[k]) \union Range(store[k]) : r \in Rows /\ r.kind = k
    /\ Increasing(buffer[k])
    /\ Before(Range(buffer[k]) \union Range(store[k]), Waiting(p))
    /\ Before(Range(store[k]), Range(buffer[k]) \ Range(store[k]))

OrderInv ==
    \A p \in Pipelines :
        QueueOrdered(p) /\ \A k \in KindsOf(p) : KindOrdered(p, k)

(* A row was inserted again only if an insert failed: no row is twice in a  *)
(* table, or in it and still in the buffer, without having been retried.    *)
DuplicatesInv ==
    \A k \in Kinds :
        /\ \A i \in DOMAIN store[k], j \in DOMAIN store[k] :
              store[k][i] = store[k][j] => i = j \/ store[k][i] \in retried
        /\ Range(buffer[k]) \intersect Range(store[k]) \subseteq retried

Oldest(p, k) == k \in todo[p] /\ \A j \in todo[p] : Rank(k) <= Rank(j)

BatchRetried(k) == \A i \in 1..Batch[k] : buffer[k][i] \in retried

(* A buffer that reached its threshold is flushed at once, alone; it can    *)
(* only grow further after that insert has failed.                          *)
BatchAt(p, k) ==
    /\ Len(buffer[k]) >= Batch[k] =>
          \/ BatchRetried(k)
          \/ Len(buffer[k]) = Batch[k] /\ writer[p] = "flush" /\ todo[p] = {k}
    /\ writer[p] = "recover" /\ Oldest(p, k) => Range(buffer[k]) \subseteq retried

BatchInv == \A p \in Pipelines : \A k \in KindsOf(p) : BatchAt(p, k)
--------------------------------------------------------------------------------
(* What the sequence operators do to the order of rows.                     *)

(* A row may have one pipeline only. *)
LEMMA KindsDisjoint ==
    ASSUME NEW p \in Pipelines, NEW q \in Pipelines, NEW k,
           k \in KindsOf(p), k \in KindsOf(q)
    PROVE  p = q
<1>1. /\ p \in {"raw", "context", "depth", "liq"}
      /\ q \in {"raw", "context", "depth", "liq"}
  BY PipelinesAssumption DEF AllPipelines
<1>2. CASE p = "raw"
  <2>1. k \in {"trade", "bbo"}
    BY <1>2 DEF KindsOf
  <2>2. q # "raw" => k = q
    BY DEF KindsOf
  <2> QED
    BY <1>1, <1>2, <2>1, <2>2
<1>3. CASE p # "raw"
  <2>1. k = p
    BY <1>3 DEF KindsOf
  <2>2. IF q = "raw" THEN k \in {"trade", "bbo"} ELSE k = q
    BY DEF KindsOf
  <2> QED
    BY <1>1, <1>3, <2>1, <2>2
<1> QED
  BY <1>2, <1>3

(* Every kind of row belongs to a pipeline that runs. *)
LEMMA KindHasPipeline ==
    ASSUME NEW k \in Kinds
    PROVE  \E p \in Pipelines : k \in KindsOf(p)
  BY SMT DEF Kinds

(* Rows are numbered. *)
LEMMA RowId == \A r \in Rows : r.id \in Int
  BY BoundsAssumption DEF Rows

(* Rows of an increasing sequence are all different. *)
LEMMA IncreasingDistinct ==
    ASSUME NEW s \in Seq(Rows), Increasing(s),
           NEW i \in DOMAIN s, NEW j \in DOMAIN s, s[i] = s[j]
    PROVE  i = j
<1>1. i \in Int /\ j \in Int /\ s[i] \in Rows
  OBVIOUS
<1>2. s[i].id \in Int
  BY <1>1, RowId
<1> QED
  BY <1>1, <1>2 DEF Increasing

(* A later row goes to the end. *)
LEMMA AppendIncreasing ==
    ASSUME NEW s \in Seq(Rows), NEW e \in Rows, Increasing(s),
           \A r \in Range(s) : r.id < e.id
    PROVE  Increasing(Append(s, e))
<1> DEFINE t == Append(s, e)
<1>1. /\ Len(s) \in Nat /\ DOMAIN s = 1..Len(s) /\ DOMAIN t = 1..(Len(s) + 1)
      /\ \A i \in 1..Len(s) : t[i] = s[i]
      /\ t[Len(s) + 1] = e
  BY AppendProperties
<1>2. \A i \in 1..Len(s) : s[i].id < e.id
  BY <1>1 DEF Range
<1> HIDE DEF t
<1>3. ASSUME NEW i \in DOMAIN t, NEW j \in DOMAIN t, i < j
      PROVE  t[i].id < t[j].id
  <2>1. i \in 1..Len(s) /\ (j \in 1..Len(s) \/ j = Len(s) + 1)
    BY <1>1, <1>3
  <2> QED
    BY <1>1, <1>2, <1>3, <2>1 DEF Increasing
<1> QED
  BY <1>3 DEF Increasing, t

(* The head is before the rest, and the rest is in order. *)
LEMMA TailIncreasing ==
    ASSUME NEW s \in Seq(Rows), s # <<>>, Increasing(s)
    PROVE  /\ Increasing(Tail(s))
           /\ \A r \in Range(Tail(s)) : Head(s).id < r.id
<1> DEFINE t == Tail(s)
<1>1. /\ Len(s) \in Nat \ {0} /\ DOMAIN s = 1..Len(s) /\ DOMAIN t = 1..(Len(s) - 1)
      /\ \A i \in 1..(Len(s) - 1) : t[i] = s[i + 1]
      /\ Head(s) = s[1]
  OBVIOUS
<1> HIDE DEF t
<1>2. \A i \in DOMAIN t : t[i] = s[i + 1] /\ i + 1 \in DOMAIN s /\ 1 < i + 1
  BY <1>1
<1>3. Increasing(t)
  <2> SUFFICES ASSUME NEW i \in DOMAIN t, NEW j \in DOMAIN t, i < j
               PROVE  t[i].id < t[j].id
    BY DEF Increasing
  <2>1. i + 1 < j + 1
    BY <1>1
  <2> QED
    BY <1>2, <2>1 DEF Increasing
<1>4. \A r \in Range(t) : Head(s).id < r.id
  <2> SUFFICES ASSUME NEW i \in DOMAIN t PROVE Head(s).id < t[i].id
    BY DEF Range
  <2>1. 1 \in DOMAIN s
    BY <1>1
  <2> QED
    BY <1>1, <1>2, <2>1 DEF Increasing
<1> QED
  BY <1>3, <1>4 DEF t

(* What an insert got into the table is in front of what it did not. *)
LEMMA PrefixBefore ==
    ASSUME NEW s \in Seq(Rows), Increasing(s), NEW n \in 0..Len(s)
    PROVE  Before(Range(SubSeq(s, 1, n)), Range(s) \ Range(SubSeq(s, 1, n)))
<1> DEFINE t == SubSeq(s, 1, n)
<1>1. DOMAIN t = 1..n /\ \A i \in 1..n : t[i] = s[i]
  BY SubSeqProperties
<1>2. DOMAIN s = 1..Len(s) /\ Len(s) \in Nat
  OBVIOUS
<1> HIDE DEF t
<1>3. ASSUME NEW i \in DOMAIN t, NEW j \in DOMAIN s, s[j] \notin Range(t)
      PROVE  t[i].id < s[j].id
  <2>1. j \notin 1..n
    BY <1>1, <1>3 DEF Range
  <2>2. i \in DOMAIN s /\ i < j /\ t[i] = s[i]
    BY <1>1, <1>2, <2>1
  <2> QED
    BY <2>2 DEF Increasing
<1>4. ASSUME NEW r \in Range(t), NEW q \in Range(s) \ Range(t)
      PROVE  r.id < q.id
  <2>1. PICK i \in DOMAIN t : r = t[i]
    BY DEF Range
  <2>2. PICK j \in DOMAIN s : q = s[j]
    BY DEF Range
  <2> QED
    BY <1>3, <2>1, <2>2
<1> QED
  BY <1>4 DEF Before, t
--------------------------------------------------------------------------------
(* No overtaking.                                                           *)

(* A pipeline whose channel and buffers are as they were, or from which     *)
(* nothing but waiting rows has gone, is in order still.                    *)
LEMMA KindOrderedKept ==
    ASSUME NEW p, NEW k, KindOrdered(p, k),
           buffer'[k] = buffer[k], store'[k] = store[k],
           Waiting(p)' \subseteq Waiting(p)
    PROVE  KindOrdered(p, k)'
<1>1. /\ \A r \in Range(buffer'[k]) \union Range(store'[k]) : r \in Rows /\ r.kind = k
      /\ Increasing(buffer'[k])
      /\ Before(Range(store'[k]), Range(buffer'[k]) \ Range(store'[k]))
  BY DEF KindOrdered
<1>2. Before(Range(buffer'[k]) \union Range(store'[k]), Waiting(p)')
  BY DEF KindOrdered, Before
<1> QED
  BY <1>1, <1>2 DEF KindOrdered, Before, Increasing, Waiting

LEMMA OrderKept ==
    ASSUME OrderInv, UNCHANGED <<held, chan, buffer, store>>
    PROVE  OrderInv'
  BY DEF OrderInv, QueueOrdered, KindOrdered, Waiting, Before, Increasing

(* The row that arrives has a number behind all the others. *)
LEMMA ReceiveOrder ==
    ASSUME DeliveryInv, OrderInv, NEW p \in Pipelines, NEW k \in KindsOf(p), Receive(p, k)
    PROVE  OrderInv'
<1> DEFINE row == [kind |-> k, id |-> nextId]
<1>1. /\ held[p] = <<>> /\ held' = [held EXCEPT ![p] = <<row>>]
      /\ UNCHANGED <<chan, buffer, store>>
  BY DEF Receive
<1>2. held \in [Pipelines -> Seq(Rows)] /\ row.id = nextId
  BY DEF DeliveryInv, TypeOK
<1> DEFINE one == <<row>>
<1>3. Range(one) = {row} /\ Range(<<>>) = {}
  BY DEF Range
<1>4. held' = [held EXCEPT ![p] = one]
  BY <1>1
<1> HIDE DEF row, one
<1>5. \A q \in Pipelines : Range(held'[q]) = IF q = p THEN {row} ELSE Range(held[q])
  BY <1>2, <1>3, <1>4
<1>6. \A r \in InFlight \union Stored : r.id < row.id
  BY <1>2 DEF DeliveryInv, NoSilentLoss, IdsFresh
<1>7. /\ \A r \in Range(chan[p]) : r.id < row.id
      /\ \A j \in KindsOf(p) : \A r \in Range(buffer[j]) \union Range(store[j]) : r.id < row.id
  BY <1>6, KindFacts, InFlightMember, StoredMember
<1>8. QueueOrdered(p)'
  BY <1>1, <1>5, <1>7 DEF OrderInv, QueueOrdered, Before, Increasing
<1>9. ASSUME NEW j \in KindsOf(p) PROVE KindOrdered(p, j)'
  <2>1. Before(Range(buffer[j]) \union Range(store[j]), Range(chan[p]) \union {row})
    BY <1>7 DEF OrderInv, KindOrdered, Before, Waiting
  <2> QED
    BY <1>1, <1>5, <2>1 DEF OrderInv, KindOrdered, Waiting, Before, Increasing
<1>10. ASSUME NEW q \in Pipelines, q # p
       PROVE  QueueOrdered(q)' /\ \A j \in KindsOf(q) : KindOrdered(q, j)'
  <2>1. Range(held'[q]) = Range(held[q])
    BY <1>5, <1>10
  <2>2. Waiting(q)' \subseteq Waiting(q)
    BY <1>1, <2>1 DEF Waiting
  <2>3. QueueOrdered(q)'
    BY <1>1, <2>1 DEF OrderInv, QueueOrdered, Before, Increasing
  <2> QED
    BY <1>1, <2>2, <2>3, KindOrderedKept DEF OrderInv
<1> QED
  BY <1>8, <1>9, <1>10 DEF OrderInv

(* The row held is behind those in the channel. *)
LEMMA SendOrder ==
    ASSUME TypeOK, OrderInv, NEW p \in Pipelines, Send(p)
    PROVE  OrderInv'
<1> DEFINE row == Head(held[p])
<1>1. /\ held[p] \in Seq(Rows) /\ held[p] # <<>> /\ Len(held[p]) <= 1
      /\ chan[p] \in Seq(Rows)
      /\ held \in [Pipelines -> Seq(Rows)] /\ chan \in [Pipelines -> Seq(Rows)]
  BY DEF TypeOK, Send
<1>2. row \in Rows /\ Range(held[p]) = {row}
  <2>1. /\ row \in Rows
        /\ Range(held[p]) = {row} \union Range(Tail(held[p]))
        /\ Len(Tail(held[p])) = Len(held[p]) - 1 /\ Tail(held[p]) \in Seq(Rows)
    BY <1>1, RangeHeadTail
  <2>2. Len(held[p]) \in Nat \ {0}
    BY <1>1
  <2>3. DOMAIN Tail(held[p]) = {}
    BY <1>1, <2>1, <2>2
  <2>4. Range(Tail(held[p])) = {}
    BY <2>3 DEF Range
  <2> QED
    BY <2>1, <2>4
<1>3. /\ chan' = [chan EXCEPT ![p] = Append(chan[p], row)]
      /\ held' = [held EXCEPT ![p] = <<>>]
      /\ UNCHANGED <<buffer, store>>
  BY DEF Send
<1> HIDE DEF row
<1>4. /\ Range(Append(chan[p], row)) = Range(chan[p]) \union {row}
      /\ Increasing(Append(chan[p], row))
  BY <1>1, <1>2, RangeAppend, AppendIncreasing DEF OrderInv, QueueOrdered, Before
<1>5. Range(<<>>) = {}
  BY DEF Range
<1>6. ASSUME NEW q \in Pipelines PROVE QueueOrdered(q)' /\ Waiting(q)' \subseteq Waiting(q)
  <2>1. CASE q = p
    <3>1. chan'[p] = Append(chan[p], row) /\ held'[p] = <<>>
      BY <1>1, <1>3
    <3>2. Range(chan'[p]) = Range(chan[p]) \union {row} /\ Range(held'[p]) = {}
      BY <1>4, <1>5, <3>1
    <3>3. Increasing(chan'[p])
      BY <1>4, <3>1
    <3>4. QueueOrdered(p)'
      BY <3>2, <3>3 DEF QueueOrdered, Before, Increasing
    <3>5. Waiting(p)' \subseteq Waiting(p)
      BY <1>2, <3>2 DEF Waiting
    <3> QED
      BY <2>1, <3>4, <3>5
  <2>2. CASE q # p
    <3>1. chan'[q] = chan[q] /\ held'[q] = held[q]
      BY <1>1, <1>3, <2>2
    <3> QED
      BY <3>1 DEF OrderInv, QueueOrdered, Waiting, Before, Increasing
  <2> QED
    BY <2>1, <2>2
<1>7. ASSUME NEW q \in Pipelines, NEW k \in KindsOf(q) PROVE KindOrdered(q, k)'
  BY <1>3, <1>6, KindOrderedKept DEF OrderInv
<1> QED
  BY <1>6, <1>7 DEF OrderInv
(* The row that is received is behind those in its buffer and its table.    *)
LEMMA RecvOrder ==
    ASSUME TypeOK, OrderInv, NEW p \in Pipelines, Recv(p)
    PROVE  OrderInv'
<1>0. PICK row, kind : row = Head(chan[p]) /\ kind = row.kind
  OBVIOUS
<1>1. /\ chan[p] \in Seq(Rows) /\ chan[p] # <<>>
      /\ chan \in [Pipelines -> Seq(Rows)]
      /\ buffer \in [Kinds -> Seq(Rows)]
  BY DEF TypeOK, Recv
<1>2. /\ row \in Rows /\ row \in RowsOf(p)
      /\ Range(chan[p]) = {row} \union Range(Tail(chan[p]))
  BY <1>0, <1>1, RangeHeadTail DEF TypeOK
<1>3. /\ buffer' = [buffer EXCEPT ![kind] = Append(buffer[kind], row)]
      /\ chan' = [chan EXCEPT ![p] = Tail(chan[p])]
      /\ UNCHANGED <<held, store>>
  BY <1>0 DEF Recv
<1>4. kind \in KindsOf(p) /\ kind \in Kinds
  BY <1>0, <1>2, KindFacts DEF RowsOf
<1>5. QueueOrdered(p) /\ KindOrdered(p, kind)
  BY <1>4 DEF OrderInv
<1>6. /\ Increasing(Tail(chan[p]))
      /\ \A r \in Range(Tail(chan[p])) : row.id < r.id
      /\ \A r \in Range(held[p]) : row.id < r.id
  BY <1>0, <1>1, <1>2, <1>5, TailIncreasing DEF QueueOrdered, Before
<1>7. \A r \in Range(buffer[kind]) \union Range(store[kind]) : r.id < row.id
  BY <1>2, <1>5 DEF KindOrdered, Before, Waiting
<1>8. /\ Increasing(Append(buffer[kind], row))
      /\ Range(Append(buffer[kind], row)) = Range(buffer[kind]) \union {row}
  BY <1>1, <1>2, <1>4, <1>5, <1>7, AppendIncreasing, RangeAppend DEF KindOrdered
<1>9. ASSUME NEW q \in Pipelines PROVE QueueOrdered(q)' /\ Waiting(q)' \subseteq Waiting(q)
  <2>1. CASE q = p
    <3>1. chan'[p] = Tail(chan[p]) /\ held'[p] = held[p]
      BY <1>1, <1>3
    <3>2. QueueOrdered(p)'
      BY <1>2, <1>5, <1>6, <3>1 DEF QueueOrdered, Before, Increasing
    <3>3. Waiting(p)' \subseteq Waiting(p)
      BY <1>2, <3>1 DEF Waiting
    <3> QED
      BY <2>1, <3>2, <3>3
  <2>2. CASE q # p
    <3>1. chan'[q] = chan[q] /\ held'[q] = held[q]
      BY <1>1, <1>3, <2>2
    <3> QED
      BY <3>1 DEF OrderInv, QueueOrdered, Waiting, Before, Increasing
  <2> QED
    BY <2>1, <2>2
<1>10. ASSUME NEW q \in Pipelines, NEW k \in KindsOf(q), k # kind PROVE KindOrdered(q, k)'
  <2>1. k \in Kinds
    BY KindFacts
  <2>2. buffer'[k] = buffer[k] /\ store'[k] = store[k]
    BY <1>1, <1>3, <1>10, <2>1
  <2> QED
    BY <1>9, <2>2, KindOrderedKept DEF OrderInv
<1>11. KindOrdered(p, kind)'
  <2>1. /\ buffer'[kind] = Append(buffer[kind], row) /\ store'[kind] = store[kind]
        /\ chan'[p] = Tail(chan[p]) /\ held'[p] = held[p]
    BY <1>1, <1>3, <1>4
  <2>2. Range(buffer'[kind]) = Range(buffer[kind]) \union {row} /\ Increasing(buffer'[kind])
    BY <1>8, <2>1
  <2>3. \A r \in Range(buffer'[kind]) \union Range(store'[kind]) : r \in Rows /\ r.kind = kind
    BY <1>0, <1>2, <1>5, <2>1, <2>2 DEF KindOrdered
  <2>4. Waiting(p)' = Range(Tail(chan[p])) \union Range(held[p])
    BY <2>1 DEF Waiting
  <2>5. Before(Range(buffer'[kind]) \union Range(store'[kind]), Waiting(p)')
    BY <1>2, <1>5, <1>6, <2>1, <2>2, <2>4 DEF KindOrdered, Before, Waiting
  <2>6. Before(Range(store'[kind]), Range(buffer'[kind]) \ Range(store'[kind]))
    BY <1>5, <1>7, <2>1, <2>2 DEF KindOrdered, Before
  <2> QED
    BY <2>2, <2>3, <2>5, <2>6 DEF KindOrdered, Before, Increasing
<1>12. ASSUME NEW q \in Pipelines, NEW k \in KindsOf(q) PROVE KindOrdered(q, k)'
  <2>1. CASE k = kind
    <3>1. q = p
      BY <1>4, <2>1, KindsDisjoint
    <3> QED
      BY <1>11, <2>1, <3>1
  <2> QED
    BY <1>10, <2>1
<1> QED
  BY <1>9, <1>12 DEF OrderInv

(* What an insert does to one kind: its table gains a part of its buffer,   *)
(* which keeps its rows or, once all of them are in the table, is cleared.  *)
LEMMA InsertOrder ==
    ASSUME TypeOK, OrderInv, NEW p \in Pipelines, NEW k \in KindsOf(p),
           UNCHANGED <<held, chan>>,
           \A j \in Kinds : j # k => buffer'[j] = buffer[j] /\ store'[j] = store[j],
           KindOrdered(p, k)'
    PROVE  OrderInv'
<1>1. ASSUME NEW q \in Pipelines PROVE QueueOrdered(q)' /\ Waiting(q)' \subseteq Waiting(q)
  BY DEF OrderInv, QueueOrdered, Waiting, Before, Increasing
<1>2. ASSUME NEW q \in Pipelines, NEW j \in KindsOf(q) PROVE KindOrdered(q, j)'
  <2>1. CASE j = k
    <3>1. q = p
      BY <2>1, KindsDisjoint
    <3> QED
      BY <2>1, <3>1
  <2>2. CASE j # k
    BY <1>1, <2>2, KindFacts, KindOrderedKept DEF OrderInv
  <2> QED
    BY <2>1, <2>2
<1> QED
  BY <1>1, <1>2 DEF OrderInv

LEMMA FlushOkOrder ==
    ASSUME TypeOK, OrderInv, NEW p \in Pipelines, NEW k \in KindsOf(p), FlushOk(p, k)
    PROVE  OrderInv'
<1>1. k \in Kinds /\ buffer[k] \in Seq(Rows) /\ store[k] \in Seq(Rows)
  BY KindFacts DEF TypeOK
<1>2. /\ store' = [store EXCEPT ![k] = store[k] \o buffer[k]]
      /\ buffer' = [buffer EXCEPT ![k] = <<>>]
      /\ UNCHANGED <<held, chan>>
  BY DEF FlushOk
<1>3. \A j \in Kinds : j # k => buffer'[j] = buffer[j] /\ store'[j] = store[j]
  BY <1>2 DEF TypeOK
<1>4. store'[k] = store[k] \o buffer[k] /\ buffer'[k] = <<>>
  BY <1>1, <1>2 DEF TypeOK
<1>5. Range(store'[k]) = Range(store[k]) \union Range(buffer[k])
  BY <1>1, <1>4, RangeConcat
<1>6. Range(buffer'[k]) = {} /\ Increasing(buffer'[k])
  BY <1>4 DEF Range, Increasing
<1>7. KindOrdered(p, k)
  BY DEF OrderInv
<1>8. KindOrdered(p, k)'
  BY <1>2, <1>5, <1>6, <1>7 DEF KindOrdered, Before, Increasing, Waiting
<1> QED
  BY <1>2, <1>3, <1>8, InsertOrder

(* The rows that landed are the first ones of the buffer. *)
LEMMA FlushErrOrder ==
    ASSUME TypeOK, OrderInv, NEW p \in Pipelines, NEW k \in KindsOf(p),
           NEW n \in 0..Len(buffer[k]), FlushErr(p, k, n)
    PROVE  OrderInv'
<1> DEFINE landed == SubSeq(buffer[k], 1, n)
<1>1. k \in Kinds /\ buffer[k] \in Seq(Rows) /\ store[k] \in Seq(Rows)
  BY KindFacts DEF TypeOK
<1>2. landed \in Seq(Rows) /\ Range(landed) \subseteq Range(buffer[k])
  BY <1>1, RangePrefix
<1>3. KindOrdered(p, k)
  BY DEF OrderInv
<1>4. Before(Range(landed), Range(buffer[k]) \ Range(landed))
  BY <1>1, <1>3, PrefixBefore DEF KindOrdered
<1>5. store' = [store EXCEPT ![k] = store[k] \o landed] /\ UNCHANGED <<held, chan, buffer>>
  BY DEF FlushErr
<1> HIDE DEF landed
<1>6. \A j \in Kinds : j # k => buffer'[j] = buffer[j] /\ store'[j] = store[j]
  BY <1>5 DEF TypeOK
<1>7. store'[k] = store[k] \o landed /\ buffer'[k] = buffer[k]
  BY <1>1, <1>5 DEF TypeOK
<1>8. Range(store'[k]) = Range(store[k]) \union Range(landed)
  BY <1>1, <1>2, <1>7, RangeConcat
<1>9. Before(Range(store'[k]), Range(buffer'[k]) \ Range(store'[k]))
  BY <1>3, <1>4, <1>7, <1>8 DEF KindOrdered, Before
<1>10. /\ \A r \in Range(buffer'[k]) \union Range(store'[k]) : r \in Rows /\ r.kind = k
       /\ Increasing(buffer'[k])
       /\ Before(Range(buffer'[k]) \union Range(store'[k]), Waiting(p))
  BY <1>2, <1>3, <1>7, <1>8 DEF KindOrdered, Before
<1>11. KindOrdered(p, k)'
  BY <1>5, <1>9, <1>10 DEF KindOrdered, Before, Increasing, Waiting
<1> QED
  BY <1>5, <1>6, <1>11, InsertOrder

(* With the process goes all that waits; the tables stay as they are. *)
LEMMA ShutdownOrder ==
    ASSUME OrderInv, Shutdown
    PROVE  OrderInv'
<1>1. Range(<<>>) = {} /\ Increasing(<<>>)
  BY DEF Range, Increasing
<1> DEFINE none == <<>>
<1>2. /\ held' = [p \in Pipelines |-> none] /\ chan' = [p \in Pipelines |-> none]
      /\ buffer' = [k \in Kinds |-> none] /\ store' = store
  BY DEF Shutdown
<1>3. Range(none) = {} /\ Increasing(none)
  BY <1>1
<1> HIDE DEF none
<1>4. ASSUME NEW p \in Pipelines PROVE QueueOrdered(p)' /\ Waiting(p)' = {}
  <2>1. held'[p] = none /\ chan'[p] = none
    BY <1>2
  <2> QED
    BY <1>3, <2>1 DEF QueueOrdered, Before, Increasing, Waiting
<1>5. ASSUME NEW p \in Pipelines, NEW k \in KindsOf(p) PROVE KindOrdered(p, k)'
  <2>1. buffer'[k] = none /\ store'[k] = store[k]
    BY <1>2, KindFacts
  <2>2. Range(buffer'[k]) = {} /\ Increasing(buffer'[k])
    BY <1>3, <2>1
  <2>3. \A r \in Range(store'[k]) : r \in Rows /\ r.kind = k
    BY <2>1 DEF OrderInv, KindOrdered
  <2> QED
    BY <1>4, <2>2, <2>3 DEF KindOrdered, Before, Increasing
<1> QED
  BY <1>4, <1>5 DEF OrderInv

LEMMA OrderInit == Init => OrderInv
<1> SUFFICES ASSUME Init PROVE OrderInv
  OBVIOUS
<1>1. Range(<<>>) = {} /\ Increasing(<<>>)
  BY DEF Range, Increasing
<1>2. /\ \A p \in Pipelines : held[p] = <<>> /\ chan[p] = <<>>
      /\ \A k \in Kinds : buffer[k] = <<>> /\ store[k] = <<>>
  BY DEF Init, VolatileInit
<1> QED
  BY <1>1, <1>2, KindFacts DEF OrderInv, QueueOrdered, KindOrdered, Before, Waiting

(* Every step keeps every pipeline in order. *)
LEMMA OrderStep == DeliveryInv /\ OrderInv /\ [Next]_vars => OrderInv'
<1> SUFFICES ASSUME DeliveryInv, OrderInv, [Next]_vars PROVE OrderInv'
  OBVIOUS
<1>1. TypeOK
  BY DEF DeliveryInv
<1>2. CASE UNCHANGED vars
  BY <1>2, OrderKept DEF vars
<1>3. ASSUME NEW p \in Pipelines,
             NatsSubscribed(p) \/ NatsEnded(p) \/ PingOk(p) \/ Tick(p)
      PROVE  OrderInv'
  BY <1>3, OrderKept DEF NatsSubscribed, NatsEnded, PingOk, Tick
<1>4. ASSUME NEW p \in Pipelines, NEW n \in 0..Len(DDL), EnsureSchema(p, n) PROVE OrderInv'
  BY <1>4, OrderKept DEF EnsureSchema
<1>5. ASSUME NEW p \in Pipelines, NEW k \in KindsOf(p),
             NEW n \in 0..Len(DDL), Recover(p, k, n)
      PROVE  OrderInv'
  BY <1>5, OrderKept DEF Recover
<1>6. CASE Restart
  BY <1>6, OrderKept DEF Restart
<1> QED
  BY <1>1, <1>2, <1>3, <1>4, <1>5, <1>6, ReceiveOrder, SendOrder, RecvOrder, FlushOkOrder,
     FlushErrOrder, ShutdownOrder
    DEF Next, IngestStep, WriterStep

(* In order all the time. *)
THEOREM OrderCorrect == Spec => []OrderInv
  BY OrderInit, OrderStep, DeliveryCorrect, PTL DEF Spec

(* No overtaking: a row is in ClickHouse only with every row of its kind    *)
(* that was taken before it, except those that went with a process that     *)
(* ended; whichever inserts failed, wherever in a batch they did.           *)
THEOREM NoOvertakingCorrect == Spec => []NoOvertaking
<1>1. DeliveryInv /\ OrderInv => NoOvertaking
  <2> SUFFICES ASSUME DeliveryInv, OrderInv, NEW r \in Stored, NEW q \in taken,
                      q.kind = r.kind, q.id < r.id, q \notin Stored, q \in InFlight
               PROVE  FALSE
    BY DEF DeliveryInv, NoSilentLoss, NoOvertaking
  <2>1. PICK k \in Kinds : r \in Range(store[k])
    BY StoredMember
  <2>2. PICK p \in Pipelines : k \in KindsOf(p)
    BY KindHasPipeline
  <2>3. KindOrdered(p, k) /\ r \in Rows /\ q \in Rows
    BY <2>1, <2>2 DEF OrderInv, KindOrdered, DeliveryInv, TypeOK
  <2>4. r.kind = k /\ r.id \in Int /\ q.id \in Int
    BY <2>1, <2>3, RowId DEF KindOrdered
  <2>5. ASSUME NEW o \in Pipelines, q \in Range(held[o]) \/ q \in Range(chan[o])
        PROVE  FALSE
    <3>1. q \in RowsOf(o)
      BY <2>5 DEF DeliveryInv, TypeOK
    <3>2. o = p
      BY <2>2, <2>4, <3>1, KindsDisjoint DEF RowsOf
    <3>3. r.id < q.id
      BY <2>1, <2>3, <2>5, <3>2 DEF KindOrdered, Before, Waiting
    <3> QED
      BY <2>4, <3>3
  <2>6. ASSUME NEW j \in Kinds, q \in Range(buffer[j])
        PROVE  FALSE
    <3>1. PICK o \in Pipelines : j \in KindsOf(o)
      BY KindHasPipeline
    <3>2. j = k
      BY <2>4, <2>6, <3>1 DEF OrderInv, KindOrdered
    <3>3. q \notin Range(store[k])
      BY StoredMember
    <3>4. r.id < q.id
      BY <2>1, <2>3, <2>6, <3>2, <3>3 DEF KindOrdered, Before
    <3> QED
      BY <2>4, <3>4
  <2> QED
    BY <2>5, <2>6, InFlightMember
<1> QED
  BY <1>1, DeliveryCorrect, OrderCorrect, PTL
--------------------------------------------------------------------------------
(* Duplicates.                                                              *)

(* A row that stands at one place at most has one copy at most. *)
LEMMA OneCopy ==
    ASSUME NEW s, NEW r,
           \A i \in DOMAIN s, j \in DOMAIN s : s[i] = r /\ s[j] = r => i = j
    PROVE  Cardinality({i \in DOMAIN s : s[i] = r}) <= 1
<1>1. CASE {i \in DOMAIN s : s[i] = r} = {}
  BY <1>1, FS_EmptySet
<1>2. ASSUME NEW i \in DOMAIN s, s[i] = r
      PROVE  Cardinality({j \in DOMAIN s : s[j] = r}) <= 1
  <2>1. {j \in DOMAIN s : s[j] = r} = {i}
    BY <1>2
  <2> QED
    BY <2>1, FS_Singleton
<1> QED
  BY <1>1, <1>2

(* The places of a table after an insert: those it had, then the batch. *)
LEMMA PlacesAfterInsert ==
    ASSUME NEW s \in Seq(Rows), NEW t \in Seq(Rows),
           NEW i \in DOMAIN (s \o t)
    PROVE  \/ i \in DOMAIN s /\ (s \o t)[i] = s[i]
           \/ /\ i - Len(s) \in DOMAIN t /\ (s \o t)[i] = t[i - Len(s)]
              /\ i \in Int
<1>1. /\ Len(s) \in Nat /\ Len(t) \in Nat
      /\ DOMAIN s = 1..Len(s) /\ DOMAIN t = 1..Len(t)
      /\ DOMAIN (s \o t) = 1..(Len(s) + Len(t))
  OBVIOUS
<1>2. CASE i <= Len(s)
  BY <1>1, <1>2
<1>3. CASE i > Len(s)
  BY <1>1, <1>3
<1> QED
  BY <1>1, <1>2, <1>3

(* An insert of different rows, of which those that were in the table have  *)
(* been retried, leaves no other row twice in it.                           *)
LEMMA InsertDuplicates ==
    ASSUME NEW s \in Seq(Rows), NEW t \in Seq(Rows), NEW R,
           \A i \in DOMAIN s, j \in DOMAIN s : s[i] = s[j] => i = j \/ s[i] \in R,
           \A i \in DOMAIN t, j \in DOMAIN t : t[i] = t[j] => i = j,
           Range(t) \intersect Range(s) \subseteq R
    PROVE  \A i \in DOMAIN (s \o t), j \in DOMAIN (s \o t) :
              (s \o t)[i] = (s \o t)[j] => i = j \/ (s \o t)[i] \in R
<1> DEFINE u == s \o t
<1> SUFFICES ASSUME NEW i \in DOMAIN u, NEW j \in DOMAIN u, u[i] = u[j], i # j
             PROVE  u[i] \in R
  OBVIOUS
<1>1. /\ \/ i \in DOMAIN s /\ u[i] = s[i]
         \/ i - Len(s) \in DOMAIN t /\ u[i] = t[i - Len(s)] /\ i \in Int
      /\ \/ j \in DOMAIN s /\ u[j] = s[j]
         \/ j - Len(s) \in DOMAIN t /\ u[j] = t[j - Len(s)] /\ j \in Int
  BY PlacesAfterInsert
<1> HIDE DEF u
<1>2. CASE /\ i \in DOMAIN s /\ u[i] = s[i]
           /\ j \in DOMAIN s /\ u[j] = s[j]
  BY <1>2
<1>3. ASSUME u[i] \in Range(s) \/ u[j] \in Range(s), u[i] \in Range(t) \/ u[j] \in Range(t)
      PROVE  u[i] \in R
  BY <1>3
<1>4. CASE /\ i - Len(s) \in DOMAIN t /\ u[i] = t[i - Len(s)] /\ i \in Int
           /\ j - Len(s) \in DOMAIN t /\ u[j] = t[j - Len(s)] /\ j \in Int
  <2>1. i - Len(s) = j - Len(s)
    BY <1>4
  <2>2. Len(s) \in Int
    OBVIOUS
  <2> QED
    BY ONLY <1>4, <2>1, <2>2, i # j
<1>5. /\ \A x \in DOMAIN s : s[x] \in Range(s)
      /\ \A x \in DOMAIN t : t[x] \in Range(t)
  BY DEF Range
<1> QED
  BY <1>1, <1>2, <1>3, <1>4, <1>5

LEMMA DuplicatesKept ==
    ASSUME DuplicatesInv, UNCHANGED <<buffer, store, retried>>
    PROVE  DuplicatesInv'
  BY DEF DuplicatesInv

(* A row that waits is in no table, so the one received is in none. *)
LEMMA RecvDuplicates ==
    ASSUME TypeOK, OrderInv, DuplicatesInv, NEW p \in Pipelines, Recv(p)
    PROVE  DuplicatesInv'
<1>1. PICK row, kind : row = Head(chan[p]) /\ kind = row.kind
  OBVIOUS
<1>2. chan[p] \in Seq(Rows) /\ chan[p] # <<>> /\ buffer \in [Kinds -> Seq(Rows)]
  BY DEF TypeOK, Recv
<1>3. row \in Rows /\ row \in RowsOf(p) /\ row \in Range(chan[p])
  BY <1>1, <1>2, RangeHeadTail DEF TypeOK
<1>4. kind \in KindsOf(p) /\ kind \in Kinds
  BY <1>1, <1>3, KindFacts DEF RowsOf
<1>5. buffer' = [buffer EXCEPT ![kind] = Append(buffer[kind], row)] /\ UNCHANGED <<store, retried>>
  BY <1>1 DEF Recv
<1>6. row \notin Range(store[kind])
  <2>1. \A r \in Range(store[kind]) : r.id < row.id
    BY <1>3, <1>4 DEF OrderInv, KindOrdered, Before, Waiting
  <2>2. row.id \in Int
    BY <1>3, RowId
  <2> QED
    BY <2>1, <2>2
<1>7. /\ \A k \in Kinds : k # kind => buffer'[k] = buffer[k]
      /\ Range(buffer'[kind]) = Range(buffer[kind]) \union {row}
  BY <1>2, <1>3, <1>4, <1>5, RangeAppend
<1>8. ASSUME NEW k \in Kinds
      PROVE  Range(buffer'[k]) \intersect Range(store[k]) \subseteq retried
  BY <1>6, <1>7 DEF DuplicatesInv
<1> QED
  BY <1>5, <1>8 DEF DuplicatesInv

(* What a flush that succeeds inserts is cleared from the buffer. *)
LEMMA FlushOkDuplicates ==
    ASSUME TypeOK, OrderInv, DuplicatesInv,
           NEW p \in Pipelines, NEW k \in KindsOf(p), FlushOk(p, k)
    PROVE  DuplicatesInv'
<1>1. /\ k \in Kinds /\ buffer[k] \in Seq(Rows) /\ store[k] \in Seq(Rows)
      /\ buffer \in [Kinds -> Seq(Rows)] /\ store \in [Kinds -> Seq(Rows)]
  BY KindFacts DEF TypeOK
<1> DEFINE none == <<>>
           table == store[k] \o buffer[k]
<1>2. /\ store' = [store EXCEPT ![k] = table]
      /\ buffer' = [buffer EXCEPT ![k] = none]
      /\ retried' = retried
  BY DEF FlushOk
<1>3. \A i \in DOMAIN buffer[k], j \in DOMAIN buffer[k] : buffer[k][i] = buffer[k][j] => i = j
  BY <1>1, IncreasingDistinct DEF OrderInv, KindOrdered
<1>4. \A i \in DOMAIN table, j \in DOMAIN table : table[i] = table[j] => i = j \/ table[i] \in retried
  BY <1>1, <1>3, InsertDuplicates DEF DuplicatesInv
<1>5. Range(none) = {}
  BY DEF Range
<1> HIDE DEF none, table
<1>6. ASSUME NEW j \in Kinds
      PROVE  /\ \A i \in DOMAIN store'[j], l \in DOMAIN store'[j] :
                   store'[j][i] = store'[j][l] => i = l \/ store'[j][i] \in retried'
             /\ Range(buffer'[j]) \intersect Range(store'[j]) \subseteq retried'
  <2>1. CASE j = k
    <3>1. store'[j] = table /\ buffer'[j] = none
      BY <1>1, <1>2, <2>1
    <3> QED
      BY <1>2, <1>4, <1>5, <3>1
  <2>2. CASE j # k
    BY <1>1, <1>2, <2>2 DEF DuplicatesInv
  <2> QED
    BY <2>1, <2>2
<1> QED
  BY <1>6 DEF DuplicatesInv

(* A failed insert has all the rows of its batch retried. *)
LEMMA FlushErrDuplicates ==
    ASSUME TypeOK, OrderInv, DuplicatesInv, NEW p \in Pipelines, NEW k \in KindsOf(p),
           NEW n \in 0..Len(buffer[k]), FlushErr(p, k, n)
    PROVE  DuplicatesInv'
<1>1. /\ k \in Kinds /\ buffer[k] \in Seq(Rows) /\ store[k] \in Seq(Rows)
      /\ buffer \in [Kinds -> Seq(Rows)] /\ store \in [Kinds -> Seq(Rows)]
  BY KindFacts DEF TypeOK
<1> DEFINE landed == SubSeq(buffer[k], 1, n)
           table == store[k] \o landed
<1>2. /\ store' = [store EXCEPT ![k] = table]
      /\ buffer' = buffer /\ retried' = retried \union Range(buffer[k])
  BY DEF FlushErr
<1>3. landed \in Seq(Rows) /\ Range(landed) \subseteq Range(buffer[k])
  BY <1>1, RangePrefix
<1>4. \A i \in DOMAIN landed, j \in DOMAIN landed : landed[i] = landed[j] => i = j
  <2>1. /\ DOMAIN landed = 1..n /\ n \in 0..Len(buffer[k]) /\ DOMAIN buffer[k] = 1..Len(buffer[k])
        /\ \A i \in 1..n : landed[i] = buffer[k][i]
    BY <1>1, SubSeqProperties
  <2>2. \A i \in 1..n : i \in DOMAIN buffer[k]
    BY <1>1, <2>1
  <2>3. Increasing(buffer[k])
    BY DEF OrderInv, KindOrdered
  <2> HIDE DEF landed
  <2> QED
    BY <1>1, <2>1, <2>2, <2>3, IncreasingDistinct
<1> HIDE DEF landed
<1>5. /\ \A i \in DOMAIN store[k], j \in DOMAIN store[k] :
            store[k][i] = store[k][j] => i = j \/ store[k][i] \in retried'
      /\ Range(landed) \intersect Range(store[k]) \subseteq retried'
  BY <1>1, <1>2, <1>3 DEF DuplicatesInv
<1>6. \A i \in DOMAIN table, j \in DOMAIN table : table[i] = table[j] => i = j \/ table[i] \in retried'
  BY <1>1, <1>3, <1>4, <1>5, InsertDuplicates
<1> HIDE DEF table
<1>7. ASSUME NEW j \in Kinds
      PROVE  /\ \A i \in DOMAIN store'[j], l \in DOMAIN store'[j] :
                   store'[j][i] = store'[j][l] => i = l \/ store'[j][i] \in retried'
             /\ Range(buffer'[j]) \intersect Range(store'[j]) \subseteq retried'
  <2>1. CASE j = k
    <3>1. store'[j] = table /\ buffer'[j] = buffer[k]
      BY <1>1, <1>2, <2>1
    <3> QED
      BY <1>2, <1>6, <3>1
  <2>2. CASE j # k
    <3>1. store'[j] = store[j] /\ buffer'[j] = buffer[j] /\ retried \subseteq retried'
      BY <1>1, <1>2, <2>2
    <3> QED
      BY <3>1 DEF DuplicatesInv
  <2> QED
    BY <2>1, <2>2
<1> QED
  BY <1>7 DEF DuplicatesInv

LEMMA ShutdownDuplicates ==
    ASSUME DuplicatesInv, Shutdown
    PROVE  DuplicatesInv'
<1> DEFINE none == <<>>
<1>1. buffer' = [k \in Kinds |-> none] /\ UNCHANGED <<store, retried>>
  BY DEF Shutdown
<1>2. Range(none) = {}
  BY DEF Range
<1> HIDE DEF none
<1> QED
  BY <1>1, <1>2 DEF DuplicatesInv

LEMMA DuplicatesInit == Init => DuplicatesInv
<1> SUFFICES ASSUME Init, NEW k \in Kinds PROVE buffer[k] = <<>> /\ store[k] = <<>>
  BY DEF DuplicatesInv, Range
<1> QED
  BY DEF Init, VolatileInit

(* Only inserts put rows into a table, and only Recv into a buffer. *)
LEMMA DuplicatesStep == TypeOK /\ OrderInv /\ DuplicatesInv /\ [Next]_vars => DuplicatesInv'
<1> SUFFICES ASSUME TypeOK, OrderInv, DuplicatesInv, [Next]_vars PROVE DuplicatesInv'
  OBVIOUS
<1>1. CASE UNCHANGED vars
  BY <1>1, DuplicatesKept DEF vars
<1>2. ASSUME NEW p \in Pipelines,
             NatsSubscribed(p) \/ NatsEnded(p) \/ Send(p) \/ PingOk(p) \/ Tick(p)
      PROVE  DuplicatesInv'
  BY <1>2, DuplicatesKept DEF NatsSubscribed, NatsEnded, Send, PingOk, Tick
<1>3. ASSUME NEW p \in Pipelines, NEW k \in KindsOf(p), Receive(p, k) PROVE DuplicatesInv'
  BY <1>3, DuplicatesKept DEF Receive
<1>4. ASSUME NEW p \in Pipelines, NEW n \in 0..Len(DDL), EnsureSchema(p, n) PROVE DuplicatesInv'
  BY <1>4, DuplicatesKept DEF EnsureSchema
<1>5. ASSUME NEW p \in Pipelines, NEW k \in KindsOf(p),
             NEW n \in 0..Len(DDL), Recover(p, k, n)
      PROVE  DuplicatesInv'
  BY <1>5, DuplicatesKept DEF Recover
<1>6. CASE Restart
  BY <1>6, DuplicatesKept DEF Restart
<1> QED
  BY <1>1, <1>2, <1>3, <1>4, <1>5, <1>6, RecvDuplicates, FlushOkDuplicates,
     FlushErrDuplicates, ShutdownDuplicates
    DEF Next, IngestStep, WriterStep

(* Without an insert that failed no row is stored twice: the copies in      *)
(* ClickHouse all come from batches that were sent again after an error.    *)
THEOREM DuplicatesOnlyByRetryCorrect == Spec => []DuplicatesOnlyByRetry
<1>1. TypeOK /\ DuplicatesInv => DuplicatesOnlyByRetry
  <2> SUFFICES ASSUME TypeOK, DuplicatesInv, NEW r \in taken, Copies(r) > 1, r \notin retried
               PROVE  FALSE
    BY DEF DuplicatesOnlyByRetry
  <2>1. r.kind \in Kinds
    BY DEF TypeOK, Rows
  <2> DEFINE s == store[r.kind]
  <2>2. \A i \in DOMAIN s, j \in DOMAIN s : s[i] = r /\ s[j] = r => i = j
    BY <2>1 DEF DuplicatesInv
  <2>3. Cardinality({i \in DOMAIN s : s[i] = r}) <= 1
    <3> HIDE DEF s
    <3> QED
      BY <2>2, OneCopy
  <2>4. Cardinality({i \in DOMAIN s : s[i] = r}) \in Int
    <3>1. DOMAIN s = 1..Len(s) /\ Len(s) \in Nat
      BY <2>1 DEF TypeOK
    <3>2. IsFiniteSet(1..Len(s))
      BY <3>1, FS_Interval
    <3> HIDE DEF s
    <3>3. {i \in DOMAIN s : s[i] = r} \in SUBSET (1..Len(s))
      BY <3>1
    <3>4. IsFiniteSet({i \in DOMAIN s : s[i] = r})
      BY <3>2, <3>3, FS_Subset
    <3> QED
      BY <3>4, FS_CardinalityType
  <2> QED
    BY <2>3, <2>4 DEF Copies
<1>2. DeliveryInv => TypeOK
  BY DEF DeliveryInv
<1> QED
  BY <1>1, <1>2, DuplicatesInit, DuplicatesStep, DeliveryCorrect, OrderCorrect, PTL DEF Spec
--------------------------------------------------------------------------------
(* The size of a batch.                                                     *)

(* The order of the tables is an order of the kinds. *)
LEMMA RankInjective ==
    ASSUME NEW p \in Pipelines, NEW j \in KindsOf(p), NEW k \in KindsOf(p),
           Rank(j) <= Rank(k), Rank(k) <= Rank(j)
    PROVE  j = k
<1>1. CASE p = "raw"
  <2>1. /\ j \in {"trade", "bbo"}
        /\ k \in {"trade", "bbo"}
    BY <1>1 DEF KindsOf
  <2>2. \A i \in DOMAIN DDL : (DDL[i] = "trade") <=> (i = 1)
    BY DEF DDL
  <2>3. \A i \in DOMAIN DDL : (DDL[i] = "bbo") <=> (i = 2)
    BY DEF DDL
  <2>4. 1 \in DOMAIN DDL /\ 2 \in DOMAIN DDL
    BY DEF DDL
  <2>5. Rank("trade") = 1
    BY <2>2, <2>4 DEF Rank
  <2>6. Rank("bbo") = 2
    BY <2>3, <2>4 DEF Rank
  <2> QED
    BY <2>1, <2>5, <2>6
<1>2. CASE p # "raw"
  BY <1>2 DEF KindsOf
<1> QED
  BY <1>1, <1>2

(* A step that leaves the buffer of k alone. *)
LEMMA BatchKept ==
    ASSUME BatchInv, NEW p \in Pipelines, NEW k \in KindsOf(p),
           buffer'[k] = buffer[k], retried \subseteq retried',
           \/ writer'[p] = writer[p] /\ todo'[p] = todo[p]
           \/ /\ writer[p] = "flush" => todo[p] # {k}
              /\ writer'[p] # "recover"
    PROVE  BatchAt(p, k)'
<1>1. BatchAt(p, k)
  BY DEF BatchInv
<1>2. BatchRetried(k) => BatchRetried(k)'
  BY DEF BatchRetried
<1>3. Len(buffer'[k]) >= Batch[k] =>
          \/ BatchRetried(k)'
          \/ Len(buffer'[k]) = Batch[k] /\ writer'[p] = "flush" /\ todo'[p] = {k}
  BY <1>1, <1>2 DEF BatchAt
<1>4. writer'[p] = "recover" /\ Oldest(p, k)' => Range(buffer'[k]) \subseteq retried'
  BY <1>1 DEF BatchAt, Oldest
<1> QED
  BY <1>3, <1>4 DEF BatchAt

(* A full buffer whose turn to flush is not now was tried and refused. *)
LEMMA ReadyBatches ==
    ASSUME TypeOK, BatchInv, NEW p \in Pipelines, NEW k \in KindsOf(p),
           \/ writer[p] # "flush"
           \/ \E j \in todo[p] : j # k,
           Len(buffer[k]) >= Batch[k]
    PROVE  BatchRetried(k)
BY DEF BatchInv, BatchAt

(* The writer of another pipeline keeps its hands off the buffers of q. *)
LEMMA OtherBatches ==
    ASSUME BatchInv, NEW p \in Pipelines, NEW k \in KindsOf(p),
           NEW q \in Pipelines, NEW j \in KindsOf(q), p # q,
           TypeOK,
           \A i \in Kinds : i # k => buffer'[i] = buffer[i],
           retried \subseteq retried',
           writer'[q] = writer[q], todo'[q] = todo[q]
    PROVE  BatchAt(q, j)'
<1>1. j # k
  BY KindsDisjoint
<1>2. j \in Kinds
  BY KindFacts
<1> QED
  BY <1>1, <1>2, BatchKept

LEMMA RecvBatch ==
    ASSUME TypeOK, BatchInv, NEW p \in Pipelines, Recv(p)
    PROVE  BatchInv'
<1>1. PICK row : row = Head(chan[p])
  OBVIOUS
<1>2. PICK k : k = row.kind
  OBVIOUS
<1>3. row \in Range(chan[p])
  BY <1>1, RangeHeadTail DEF TypeOK, Recv
<1>4. k \in KindsOf(p) /\ k \in Kinds /\ row \in Rows
  BY <1>2, <1>3, KindFacts DEF TypeOK, RowsOf
<1>5. buffer' = [buffer EXCEPT ![k] = Append(@, row)] /\ retried' = retried
  BY <1>1, <1>2 DEF Recv
<1>6. buffer'[k] = Append(buffer[k], row) /\ buffer[k] \in Seq(Rows)
  BY <1>4, <1>5 DEF TypeOK
<1>7. \A i \in Kinds : i # k => buffer'[i] = buffer[i]
  BY <1>5 DEF TypeOK
<1>8. \A q \in Pipelines : q # p => writer'[q] = writer[q] /\ todo'[q] = todo[q]
  BY DEF Recv, TypeOK
<1>9. writer[p] = "select" /\ writer'[p] # "recover"
  BY DEF Recv, TypeOK
<1>10. Len(buffer[k]) + 1 >= Batch[k] => writer'[p] = "flush" /\ todo'[p] = {k}
  BY <1>1, <1>2 DEF Recv, TypeOK
<1>11. Batch[k] \in Nat /\ Len(buffer[k]) \in Nat
       /\ Len(buffer'[k]) = Len(buffer[k]) + 1
  BY <1>4, <1>6, BatchAssumption
<1>12. BatchAt(p, k)'
  <2>1. CASE Len(buffer[k]) >= Batch[k]
    <3>1. BatchRetried(k)
      BY <1>4, <1>9, <2>1, ReadyBatches
    <3>2. \A i \in 1..Batch[k] : buffer'[k][i] = buffer[k][i]
      BY <1>6, <1>11, <2>1
    <3>3. retried' = retried
      BY <1>5
    <3>4. \A i \in 1..Batch[k] : buffer'[k][i] \in retried'
      BY <3>1, <3>2, <3>3 DEF BatchRetried
    <3>5. BatchRetried(k)'
      BY <3>4 DEF BatchRetried
    <3> QED
      BY <1>9, <3>5 DEF BatchAt
  <2>2. CASE Len(buffer[k]) < Batch[k]
    <3>1. Len(buffer'[k]) >= Batch[k] =>
            Len(buffer'[k]) = Batch[k] /\ writer'[p] = "flush" /\ todo'[p] = {k}
      BY <1>10, <1>11, <2>2
    <3> QED
      BY <1>9, <3>1 DEF BatchAt
  <2> QED
    BY <1>11, <2>1, <2>2
<1>13. ASSUME NEW q \in Pipelines, NEW j \in KindsOf(q)
       PROVE  BatchAt(q, j)'
  <2>1. CASE q # p
    BY <1>4, <1>5, <1>7, <1>8, <1>13, <2>1, OtherBatches
  <2>2. CASE q = p /\ j # k
    BY <1>5, <1>7, <1>9, <1>13, <2>2, KindFacts, BatchKept
  <2> QED
    BY <1>12, <2>1, <2>2
<1> QED
  BY <1>13 DEF BatchInv

LEMMA FlushOkBatch ==
    ASSUME TypeOK, BatchInv, NEW p \in Pipelines, NEW k \in KindsOf(p), FlushOk(p, k)
    PROVE  BatchInv'
<1>1. k \in Kinds /\ Batch[k] \in Nat \ {0}
  BY KindFacts, BatchAssumption
<1>2. buffer'[k] = <<>> /\ \A i \in Kinds : i # k => buffer'[i] = buffer[i]
  BY <1>1 DEF FlushOk, TypeOK
<1>3. retried' = retried /\ k \in todo[p] /\ writer'[p] # "recover"
  BY DEF FlushOk, Flushing, FlushedKind, TypeOK
<1>4. \A q \in Pipelines : q # p => writer'[q] = writer[q] /\ todo'[q] = todo[q]
  BY DEF FlushOk, FlushedKind, TypeOK
<1>5. BatchAt(p, k)'
  <2>1. ~(Len(buffer'[k]) >= Batch[k])
    BY <1>1, <1>2
  <2> QED
    BY <1>3, <2>1 DEF BatchAt
<1>6. ASSUME NEW q \in Pipelines, NEW j \in KindsOf(q)
      PROVE  BatchAt(q, j)'
  <2>1. CASE q # p
    BY <1>2, <1>3, <1>4, <1>6, <2>1, OtherBatches
  <2>2. CASE q = p /\ j # k
    BY <1>2, <1>3, <1>6, <2>2, KindFacts, BatchKept
  <2> QED
    BY <1>5, <2>1, <2>2
<1> QED
  BY <1>6 DEF BatchInv

LEMMA FlushErrBatch ==
    ASSUME TypeOK, BatchInv, NEW p \in Pipelines, NEW k \in KindsOf(p),
           NEW n \in 0..Len(buffer[k]), FlushErr(p, k, n)
    PROVE  BatchInv'
<1>1. k \in Kinds
  BY KindFacts
<1>2. buffer' = buffer /\ todo' = todo /\ retried' = retried \union Range(buffer[k])
  BY DEF FlushErr
<1>3. Oldest(p, k)
  BY DEF FlushErr, Flushing, Oldest
<1>4. \A q \in Pipelines : q # p => writer'[q] = writer[q]
  BY DEF FlushErr, TypeOK
<1>5. BatchAt(p, k)'
  <2>1. Len(buffer[k]) >= Batch[k] => BatchRetried(k)'
    <3>1. HAVE Len(buffer[k]) >= Batch[k]
    <3>2. buffer[k] \in Seq(Rows) /\ Batch[k] \in Nat \ {0}
      BY <1>1, BatchAssumption DEF TypeOK
    <3>3. \A i \in 1..Batch[k] : i \in DOMAIN buffer[k]
      BY <3>1, <3>2
    <3>4. \A i \in 1..Batch[k] : buffer[k][i] \in Range(buffer[k])
      BY <3>3 DEF Range
    <3> QED
      BY <1>2, <3>4 DEF BatchRetried
  <2> QED
    BY <1>2, <2>1 DEF BatchAt
<1>6. ASSUME NEW j \in KindsOf(p), j # k
      PROVE  BatchAt(p, j)'
  <2>1. Len(buffer[j]) >= Batch[j] => BatchRetried(j)
    BY <1>3, <1>6, ReadyBatches DEF Oldest
  <2>2. Len(buffer[j]) >= Batch[j] => BatchRetried(j)'
    BY <1>2, <2>1 DEF BatchRetried
  <2>3. ~ Oldest(p, j)
    BY <1>3, <1>6, RankInjective DEF Oldest
  <2>4. ~ Oldest(p, j)'
    BY <1>2, <2>3 DEF Oldest
  <2> QED
    BY <1>2, <2>2, <2>4 DEF BatchAt
<1>7. ASSUME NEW q \in Pipelines, NEW j \in KindsOf(q)
      PROVE  BatchAt(q, j)'
  <2>1. CASE q # p
    BY <1>2, <1>4, <1>7, <2>1, BatchKept
  <2> QED
    BY <1>5, <1>6, <1>7, <2>1
<1> QED
  BY <1>7 DEF BatchInv

LEMMA RecoverBatch ==
    ASSUME TypeOK, BatchInv, NEW p \in Pipelines, NEW k \in KindsOf(p),
           NEW n \in 0..Len(DDL), Recover(p, k, n)
    PROVE  BatchInv'
<1>1. k \in Kinds
  BY KindFacts
<1>2. buffer' = buffer /\ retried' = retried /\ writer[p] = "recover"
  BY DEF Recover
<1>3. Oldest(p, k) /\ writer'[p] # "recover"
  BY DEF Recover, FlushedKind, Oldest, TypeOK
<1>4. \A q \in Pipelines : q # p => writer'[q] = writer[q] /\ todo'[q] = todo[q]
  BY DEF Recover, FlushedKind, TypeOK
<1>5. ASSUME NEW q \in Pipelines, NEW j \in KindsOf(q)
      PROVE  BatchAt(q, j)'
  <2>1. CASE q # p
    BY <1>2, <1>4, <1>5, <2>1, BatchKept
  <2>2. CASE q = p
    BY <1>2, <1>3, <1>5, <2>2, BatchKept
  <2> QED
    BY <2>1, <2>2
<1> QED
  BY <1>5 DEF BatchInv

LEMMA ShutdownBatch ==
    ASSUME TypeOK, Shutdown
    PROVE  BatchInv'
<1>1. ASSUME NEW p \in Pipelines, NEW k \in KindsOf(p)
      PROVE  BatchAt(p, k)'
  <2>1. k \in Kinds /\ Batch[k] \in Nat \ {0}
    BY <1>1, KindFacts, BatchAssumption
  <2>2. buffer'[k] = <<>> /\ writer'[p] = "ping"
    BY <1>1, <2>1 DEF Shutdown
  <2>3. ~(Len(buffer'[k]) >= Batch[k])
    BY <2>1, <2>2
  <2> QED
    BY <2>2, <2>3 DEF BatchAt
<1> QED
  BY <1>1 DEF BatchInv

LEMMA BatchInit == Init => BatchInv
<1>1. ASSUME Init, NEW p \in Pipelines, NEW k \in KindsOf(p)
      PROVE  BatchAt(p, k)
  <2>1. k \in Kinds /\ Batch[k] \in Nat \ {0}
    BY <1>1, KindFacts, BatchAssumption
  <2>2. buffer[k] = <<>> /\ writer[p] = "ping"
    BY <1>1, <2>1 DEF Init, VolatileInit
  <2>3. ~(Len(buffer[k]) >= Batch[k])
    BY <2>1, <2>2
  <2> QED
    BY <2>2, <2>3 DEF BatchAt
<1> QED
  BY <1>1 DEF BatchInv

LEMMA BatchStep == TypeOK /\ BatchInv /\ [Next]_vars => BatchInv'
<1> SUFFICES ASSUME TypeOK, BatchInv, [Next]_vars
             PROVE  BatchInv'
  OBVIOUS
<1>1. ASSUME buffer' = buffer, retried' = retried, todo' = todo, writer' = writer
      PROVE  BatchInv'
  <2>1. ASSUME NEW p \in Pipelines, NEW k \in KindsOf(p)
        PROVE  BatchAt(p, k)'
    BY <1>1, <2>1, BatchKept
  <2> QED
    BY <2>1 DEF BatchInv
<1>2. ASSUME NEW p \in Pipelines, IngestStep(p)
      PROVE  BatchInv'
  BY <1>1, <1>2 DEF IngestStep, NatsSubscribed, NatsEnded, Receive, Send
<1>3. ASSUME NEW p \in Pipelines, buffer' = buffer, retried' = retried,
             writer[p] # "flush", writer'[p] # "recover",
             \A q \in Pipelines : q # p => writer'[q] = writer[q] /\ todo'[q] = todo[q]
      PROVE  BatchInv'
  <2>1. ASSUME NEW q \in Pipelines, NEW j \in KindsOf(q)
        PROVE  BatchAt(q, j)'
    <3>1. CASE q = p
      BY <1>3, <2>1, <3>1, BatchKept
    <3>2. CASE q # p
      BY <1>3, <2>1, <3>2, BatchKept
    <3> QED
      BY <3>1, <3>2
  <2> QED
    BY <2>1 DEF BatchInv
<1>4. ASSUME NEW p \in Pipelines, WriterStep(p)
      PROVE  BatchInv'
  <2>1. CASE PingOk(p)
    BY <1>3, <1>4, <2>1 DEF PingOk, TypeOK
  <2>2. CASE \E n \in 0..Len(DDL) : EnsureSchema(p, n)
    BY <1>3, <1>4, <2>2 DEF EnsureSchema, TypeOK
  <2>3. CASE Tick(p)
    BY <1>3, <1>4, <2>3 DEF Tick, TypeOK
  <2>4. CASE Recv(p)
    BY <1>4, <2>4, RecvBatch
  <2>5. CASE \E k \in KindsOf(p) : FlushOk(p, k)
    BY <1>4, <2>5, FlushOkBatch
  <2>6. CASE \E k \in KindsOf(p) : \E n \in 0..Len(buffer[k]) : FlushErr(p, k, n)
    BY <1>4, <2>6, FlushErrBatch
  <2>7. CASE \E k \in KindsOf(p) : \E n \in 0..Len(DDL) : Recover(p, k, n)
    BY <1>4, <2>7, RecoverBatch
  <2> QED
    BY <1>4, <2>1, <2>2, <2>3, <2>4, <2>5, <2>6, <2>7 DEF WriterStep
<1>5. CASE Shutdown
  BY <1>5, ShutdownBatch
<1>6. CASE Restart \/ UNCHANGED vars
  BY <1>1, <1>6 DEF Restart, vars
<1> QED
  BY <1>2, <1>4, <1>5, <1>6 DEF Next

(* BatchBound: a buffer beyond its threshold starts with a full batch of    *)
(* rows that an insert has already failed on, for any thresholds.  A writer *)
(* in its select has every full buffer tried and failed (BatchInv): the arm *)
(* of a row flushes the buffer it fills before it takes another.            *)
THEOREM BatchBoundCorrect == Spec => []BatchBound
<1>1. TypeOK /\ BatchInv => BatchBound
  <2> SUFFICES ASSUME TypeOK, BatchInv, NEW k \in Kinds, Len(buffer[k]) > Batch[k]
               PROVE  BatchRetried(k)
    BY DEF BatchBound, BatchRetried
  <2>1. PICK p \in Pipelines : k \in KindsOf(p)
    BY DEF Kinds
  <2>2. Len(buffer[k]) \in Nat /\ Batch[k] \in Nat
    BY BatchAssumption DEF TypeOK
  <2>3. BatchAt(p, k)
    BY <2>1 DEF BatchInv
  <2> QED
    BY <2>2, <2>3 DEF BatchAt
<1> QED
  BY <1>1, BatchInit, BatchStep, TypeCorrect, PTL DEF Spec
================================================================================
