----------------------------- MODULE TcnWindowsProofs ----------------------------
(***************************************************************************)
(* The samples are aligned and look ahead by Horizon ticks, for any sizes  *)
(* of window and horizon, any table, and any rows dropped from it.         *)
(***************************************************************************)
EXTENDS TcnWindows, SequenceTheorems, TLAPS

(* Rows in the order of the query; each of another snapshot.                *)
Sorted(q) == \A i \in 1..Len(q), j \in 1..Len(q) : i <= j => q[i].tick <= q[j].tick

Apart(q) ==
    \A i \in 1..Len(q), j \in 1..Len(q) : i <= j => q[i].tick + (j - i) <= q[j].tick

Spaced(q) == Sorted(q) /\ (Single => Apart(q))

(* The rows of the table, and of what is kept of df, are older than what is *)
(* still to come.                                                           *)
TableBehind ==
    \A i \in 1..Len(table) : table[i].tick <= tick

KeptBehind ==
    \A i \in 1..Len(kept), j \in pos + 1..Len(df) :
        kept[i].tick <= df[j].tick /\ (Single => kept[i].tick < df[j].tick)

(* What each step of the script has made sure of. *)
Stage ==
    /\ pc = "idle" => df = <<>> /\ pos = 0 /\ kept = <<>> /\ features = <<>>
    /\ pc = "dropna" => features = <<>> /\ \A i \in 1..Len(kept) : kept[i].l1 # "empty"
    /\ pc = "mask" => \A i \in 1..Len(df) : df[i].l1 # "empty"
    /\ pc \in {"mask", "done"} =>
          features = kept /\ \A i \in 1..Len(kept) : kept[i].l1 = "ok"
    /\ pc # "done" => samples = {}

IInv ==
    /\ TypeOK
    /\ Spaced(table) /\ Spaced(df) /\ Spaced(kept)
    /\ TableBehind /\ KeptBehind
    /\ Stage
    /\ SamplesAligned /\ NoLeakage

--------------------------------------------------------------------------------
(* What Append and SubSeq keep. *)

LEMMA SingleRests ==
    ASSUME UNCHANGED table
    PROVE  Single' = Single
BY DEF Single

LEMMA RowTick == \A r \in Rows : r.tick \in Nat /\ r.tick \in 1..MaxTicks /\ r.l1 \in Kinds
BY BoundsAssumption DEF Rows

LEMMA AppendRow ==
    ASSUME NEW q \in Seq(Rows), NEW r \in Rows
    PROVE  /\ Append(q, r) \in Seq(Rows)
           /\ Len(Append(q, r)) = Len(q) + 1
           /\ Append(q, r)[Len(q) + 1] = r
           /\ \A i \in 1..Len(q) : Append(q, r)[i] = q[i]
OBVIOUS

LEMMA AppendSorted ==
    ASSUME NEW q \in Seq(Rows), NEW r \in Rows, Sorted(q),
           \A i \in 1..Len(q) : q[i].tick <= r.tick
    PROVE  Sorted(Append(q, r))
<1> DEFINE p == Append(q, r)
<1>1. Len(p) = Len(q) + 1 /\ p[Len(q) + 1] = r /\ \A i \in 1..Len(q) : p[i] = q[i]
  BY AppendRow
<1>2. Len(q) \in Nat /\ r.tick \in Nat
  BY RowTick
<1> HIDE DEF p
<1>3. ASSUME NEW i \in 1..Len(p), NEW j \in 1..Len(p), i <= j
      PROVE  p[i].tick <= p[j].tick
  <2>1. CASE j \in 1..Len(q)
    BY <2>1, <1>1, <1>2, <1>3 DEF Sorted
  <2>2. CASE j = Len(q) + 1
    BY <2>2, <1>1, <1>2, <1>3
  <2> QED
    BY <2>1, <2>2, <1>1, <1>2
<1> QED
  BY <1>3 DEF Sorted, p

LEMMA AppendApart ==
    ASSUME NEW q \in Seq(Rows), NEW r \in Rows, Apart(q),
           \A i \in 1..Len(q) : q[i].tick < r.tick
    PROVE  Apart(Append(q, r))
<1> DEFINE p == Append(q, r)
<1>1. Len(p) = Len(q) + 1 /\ p[Len(q) + 1] = r /\ \A i \in 1..Len(q) : p[i] = q[i]
  BY AppendRow
<1>2. Len(q) \in Nat /\ r.tick \in Nat /\ \A i \in 1..Len(q) : q[i].tick \in Nat
  BY RowTick, ElementOfSeq
<1> HIDE DEF p
<1>3. ASSUME NEW i \in 1..Len(p), NEW j \in 1..Len(p), i <= j
      PROVE  p[i].tick + (j - i) <= p[j].tick
  <2>1. CASE j \in 1..Len(q)
    <3>1. i \in 1..Len(q) /\ p[i] = q[i] /\ p[j] = q[j]
      BY <2>1, <1>1, <1>2, <1>3
    <3>2. q[i].tick + (j - i) <= q[j].tick
      BY <3>1, <2>1, <1>3 DEF Apart
    <3> QED
      BY <3>1, <3>2
  <2>2. CASE j = Len(q) + 1 /\ i = Len(q) + 1
    BY <2>2, <1>1, <1>2
  <2>3. CASE j = Len(q) + 1 /\ i \in 1..Len(q)
    <3>1. Len(q) \in 1..Len(q) /\ i <= Len(q)
      BY <2>3, <1>2
    <3>2. q[i].tick + (Len(q) - i) <= q[Len(q)].tick /\ q[Len(q)].tick < r.tick
      BY <3>1, <2>3 DEF Apart
    <3>3. p[i].tick = q[i].tick /\ p[j].tick = r.tick
      BY <2>3, <1>1
    <3>4. /\ q[i].tick \in Int /\ q[Len(q)].tick \in Int /\ r.tick \in Int
          /\ i \in Int /\ Len(q) \in Int /\ j = Len(q) + 1
      BY <3>1, <2>3, <1>2
    <3>5. q[i].tick + (j - i) <= r.tick
      BY ONLY <3>2, <3>4
    <3> QED
      BY ONLY <3>3, <3>5
  <2> QED
    BY <2>1, <2>2, <2>3, <1>1, <1>2
<1> QED
  BY <1>3 DEF Apart, p

LEMMA PrefixSpaced ==
    ASSUME NEW q \in Seq(Rows), NEW n \in 0..Len(q)
    PROVE  /\ SubSeq(q, 1, n) \in Seq(Rows) /\ Len(SubSeq(q, 1, n)) = n
           /\ Sorted(q) => Sorted(SubSeq(q, 1, n))
           /\ Apart(q) => Apart(SubSeq(q, 1, n))
<1> DEFINE p == SubSeq(q, 1, n)
<1>1. /\ p \in Seq(Rows) /\ Len(p) = n
      /\ \A i \in 1..n : p[i] = q[i]
  <2>1. \A i \in 1..n : q[i] \in Rows
    BY ElementOfSeq
  <2> QED
    BY <2>1, SubSeqProperties
<1> HIDE DEF p
<1>2. \A i \in 1..Len(p) : p[i] = q[i] /\ i \in 1..Len(q)
  BY <1>1
<1>3. Sorted(q) => Sorted(p)
  BY <1>2 DEF Sorted
<1>4. Apart(q) => Apart(p)
  BY <1>2 DEF Apart
<1> QED
  BY <1>1, <1>3, <1>4 DEF p

--------------------------------------------------------------------------------
LEMMA InitInv == Init => IInv
BY BoundsAssumption DEF Init, IInv, TypeOK, Spaced, Sorted, Apart, TableBehind, KeptBehind, Stage,
                        SamplesAligned, NoLeakage

LEMMA SnapshotInv ==
    ASSUME IInv, NEW k \in Kinds, Snapshot(k)
    PROVE  IInv'
<1>1. UNCHANGED <<table, pc, df, pos, kept, features, samples>>
  BY DEF Snapshot, script
<1>2. Single' = Single
  BY <1>1, SingleRests
<1>3. TypeOK'
  BY <1>1, BoundsAssumption DEF IInv, TypeOK, Snapshot
<1>4. TableBehind'
  <2>1. tick \in Nat /\ tick' = tick + 1 /\ copies' = 0
    BY DEF IInv, TypeOK, Snapshot
  <2>2. ASSUME NEW i \in 1..Len(table)
        PROVE  table[i].tick <= tick /\ table[i].tick \in Nat
    BY RowTick, ElementOfSeq DEF IInv, TypeOK, TableBehind
  <2> QED
    BY <1>1, <2>1, <2>2 DEF TableBehind
<1>5. Spaced(table)' /\ Spaced(df)' /\ Spaced(kept)' /\ KeptBehind' /\ Stage'
  BY <1>1, <1>2 DEF IInv, Spaced, KeptBehind, Stage
<1>6. SamplesAligned' /\ NoLeakage'
  BY <1>1, <1>2 DEF IInv, SamplesAligned, NoLeakage
<1> QED
  BY <1>3, <1>4, <1>5, <1>6 DEF IInv

(* A copy is stored: the first one is later than all of the table. *)
LEMMA StoreInv ==
    ASSUME IInv, Store
    PROVE  IInv'
<1> DEFINE r == [tick |-> tick, l1 |-> kind]
<1>1. UNCHANGED <<tick, kind, pc, df, pos, kept, features, samples>>
  BY DEF Store, script
<1>2. table \in Seq(Rows) /\ tick \in Nat /\ copies \in Nat /\ copies < MaxCopies /\ tick > 0
  BY BoundsAssumption DEF IInv, TypeOK, Store
<1>3. r \in Rows /\ r.tick = tick
  BY <1>2 DEF IInv, TypeOK, Rows
<1>4. table' = Append(table, r) /\ copies' = copies + 1
  BY DEF Store
<1> HIDE DEF r
<1>5. /\ table' \in Seq(Rows) /\ Len(table') = Len(table) + 1
      /\ table'[Len(table) + 1] = r
      /\ \A i \in 1..Len(table) : table'[i] = table[i]
  BY <1>2, <1>3, <1>4, AppendRow
<1>6. TypeOK'
  <2>1. copies' \in 0..MaxCopies
    BY <1>2, <1>4, BoundsAssumption
  <2>2. UNCHANGED <<tick, kind, pc, df, pos, kept, features, samples>> /\ table' \in Seq(Rows)
    BY <1>1, <1>5
  <2> QED
    BY <2>1, <2>2 DEF IInv, TypeOK
<1>7. \A i \in 1..Len(table) : table[i].tick <= tick /\ table[i].tick \in Nat
  BY <1>2, RowTick, ElementOfSeq DEF IInv, TableBehind
<1>8. Single' => Single /\ \A i \in 1..Len(table) : table[i].tick < tick
  <2>1. DOMAIN table = 1..Len(table) /\ DOMAIN table' = 1..Len(table) + 1 /\ Len(table) \in Nat
    BY <1>2, <1>5
  <2>2. ASSUME Single' PROVE Single
    BY <2>1, <2>2, <1>5 DEF Single
  <2>3. ASSUME Single', NEW i \in 1..Len(table)
        PROVE  table[i].tick # tick
    <3>1. i \in DOMAIN table' /\ Len(table) + 1 \in DOMAIN table' /\ i # Len(table) + 1
      BY <2>1
    <3>2. table'[i].tick # table'[Len(table) + 1].tick
      BY <3>1, <2>3 DEF Single
    <3> QED
      BY <3>2, <1>3, <1>5
  <2> QED
    BY <2>2, <2>3, <1>2, <1>7
<1>9. Spaced(table)'
  <2>1. Sorted(table')
    BY <1>2, <1>3, <1>4, <1>7, AppendSorted DEF IInv, Spaced
  <2>2. Single' => Apart(table')
    BY <1>2, <1>3, <1>4, <1>8, AppendApart DEF IInv, Spaced
  <2> QED
    BY <2>1, <2>2 DEF Spaced
<1>10. TableBehind'
  <2>1. \A i \in 1..Len(table') : table'[i].tick <= tick
    BY <1>2, <1>3, <1>5, <1>7
  <2> QED
    BY <1>1, <1>2, <1>4, <2>1 DEF TableBehind
<1>11. Spaced(df)' /\ Spaced(kept)' /\ KeptBehind' /\ Stage'
  BY <1>1, <1>8 DEF IInv, Spaced, KeptBehind, Stage
<1>12. SamplesAligned' /\ NoLeakage'
  BY <1>1, <1>8 DEF IInv, SamplesAligned, NoLeakage
<1> QED
  BY <1>6, <1>9, <1>10, <1>11, <1>12 DEF IInv, Spaced

(* What the table and the market keep while the script works. *)
LEMMA MarketRests ==
    ASSUME IInv, UNCHANGED market
    PROVE  /\ TableBehind' /\ Spaced(table)' /\ Single' = Single
           /\ tick' \in 0..MaxTicks /\ kind' \in Kinds /\ copies' \in 0..MaxCopies
           /\ table' \in Seq(Rows)
BY SingleRests DEF IInv, TypeOK, TableBehind, Spaced, market

(* No samples: nothing to show of them. *)
LEMMA NoSamples ==
    ASSUME samples' = {}
    PROVE  SamplesAligned' /\ NoLeakage' /\ (samples \subseteq Window)'
BY DEF SamplesAligned, NoLeakage

LEMMA FetchDataInv ==
    ASSUME IInv, FetchData
    PROVE  IInv'
<1> DEFINE n == IF Len(table) < Limit THEN Len(table) ELSE Limit
<1>1. table \in Seq(Rows) /\ n \in 0..Len(table) /\ df' = SubSeq(table, 1, n)
  BY SizesAssumption DEF IInv, TypeOK, FetchData
<1> HIDE DEF n
<1>2. df' \in Seq(Rows) /\ Spaced(df)'
  <2>1. UNCHANGED market /\ Single' = Single
    BY MarketRests DEF FetchData
  <2>2. df' \in Seq(Rows) /\ (Sorted(table) => Sorted(df')) /\ (Apart(table) => Apart(df'))
    BY <1>1, PrefixSpaced
  <2> QED
    BY <2>1, <2>2 DEF IInv, Spaced
<1>3. /\ pc = "idle" /\ pc' = "dropna" /\ pos' = 0 /\ kept' = <<>> /\ features' = <<>>
      /\ samples' = {} /\ UNCHANGED market
  BY DEF FetchData, IInv, Stage
<1>4. TypeOK'
  BY <1>2, <1>3, MarketRests, NoSamples DEF TypeOK
<1>5. KeptBehind' /\ Stage' /\ Spaced(kept)'
  BY <1>3 DEF KeptBehind, Stage, Spaced, Sorted, Apart
<1> QED
  BY <1>2, <1>3, <1>4, <1>5, MarketRests, NoSamples DEF IInv, Spaced

(* A row that is kept is as good as the ones before it, and is the newest.  *)
LEMMA KeepRow ==
    ASSUME IInv, pos < Len(df), pos' = pos + 1, UNCHANGED <<table, df>>,
           kept' = kept \/ kept' = Append(kept, df[pos + 1])
    PROVE  kept' \in Seq(Rows) /\ Spaced(kept)' /\ KeptBehind' /\ pos' \in 0..Len(df')
<1>1. /\ df \in Seq(Rows) /\ kept \in Seq(Rows) /\ pos \in Nat
      /\ Len(df) \in Nat /\ Len(kept) \in Nat
      /\ pos + 1 \in 1..Len(df) /\ df[pos + 1] \in Rows
  BY ElementOfSeq DEF IInv, TypeOK
<1>2. /\ \A i \in 1..Len(kept) : kept[i].tick \in Nat
      /\ \A i \in 1..Len(df) : df[i].tick \in Nat
  BY <1>1, RowTick, ElementOfSeq
<1>3. /\ Len(Append(kept, df[pos + 1])) = Len(kept) + 1
      /\ Append(kept, df[pos + 1]) \in Seq(Rows)
      /\ Append(kept, df[pos + 1])[Len(kept) + 1] = df[pos + 1]
      /\ \A i \in 1..Len(kept) : Append(kept, df[pos + 1])[i] = kept[i]
  BY <1>1, AppendRow
<1>4. \A i \in 1..Len(kept) :
          kept[i].tick <= df[pos + 1].tick /\ (Single => kept[i].tick < df[pos + 1].tick)
  BY <1>1 DEF IInv, KeptBehind
<1>5. Single' = Single
  BY SingleRests
<1>6. kept' \in Seq(Rows) /\ Spaced(kept)'
  <2>1. Sorted(Append(kept, df[pos + 1]))
    BY <1>1, <1>4, AppendSorted DEF IInv, Spaced
  <2>2. Single => Apart(Append(kept, df[pos + 1]))
    BY <1>1, <1>4, AppendApart DEF IInv, Spaced
  <2> QED
    BY <2>1, <2>2, <1>1, <1>3, <1>5 DEF IInv, Spaced
<1>7. ASSUME NEW i \in 1..Len(kept'), NEW j \in pos + 2..Len(df)
      PROVE  kept'[i].tick <= df[j].tick /\ (Single => kept'[i].tick < df[j].tick)
  <2>1. j \in pos + 1..Len(df) /\ j \in 1..Len(df)
    BY <1>1
  <2>2. CASE i \in 1..Len(kept) /\ kept'[i] = kept[i]
    BY <2>1, <2>2 DEF IInv, KeptBehind
  <2>3. CASE kept'[i] = df[pos + 1]
    <3>1. df[pos + 1].tick <= df[j].tick
      BY <1>1, <2>1 DEF IInv, Spaced, Sorted
    <3>2. Single => df[pos + 1].tick + (j - (pos + 1)) <= df[j].tick
      BY <1>1, <2>1 DEF IInv, Spaced, Apart
    <3>3. j - (pos + 1) >= 1 /\ df[pos + 1].tick \in Nat /\ df[j].tick \in Nat
      BY <1>1, <1>2, <2>1
    <3>4. Single => df[pos + 1].tick < df[j].tick
      BY <3>2, <3>3, <1>1
    <3> QED
      BY <2>3, <3>1, <3>4
  <2>4. (i \in 1..Len(kept) /\ kept'[i] = kept[i]) \/ kept'[i] = df[pos + 1]
    <3>1. CASE kept' = kept
      BY <3>1
    <3>2. CASE kept' = Append(kept, df[pos + 1])
      <4>1. i \in 1..Len(kept) + 1
        BY <3>2, <1>3
      <4>2. i \in 1..Len(kept) \/ i = Len(kept) + 1
        BY ONLY <4>1, <1>1
      <4> QED
        BY ONLY <3>2, <4>2, <1>3
    <3> QED
      BY <3>1, <3>2
  <2> QED
    BY <2>2, <2>3, <2>4
<1>8. pos' + 1 = pos + 2 /\ pos' \in 0..Len(df')
  BY <1>1
<1> QED
  BY <1>6, <1>7, <1>8, <1>5 DEF KeptBehind

LEMMA DropNaInv ==
    ASSUME IInv, DropNa
    PROVE  IInv'
<1>1. /\ pc = "dropna" /\ pos < Len(df) /\ pos' = pos + 1
      /\ UNCHANGED market /\ UNCHANGED <<pc, df, features, samples>>
      /\ kept' = IF df[pos + 1].l1 = "empty" THEN kept ELSE Append(kept, df[pos + 1])
  BY DEF DropNa
<1>2. kept' \in Seq(Rows) /\ Spaced(kept)' /\ KeptBehind' /\ pos' \in 0..Len(df')
  BY <1>1, KeepRow DEF market
<1>3. samples' = {} /\ features' = <<>>
  BY <1>1 DEF IInv, Stage
<1>4. TypeOK'
  BY <1>1, <1>2, <1>3, MarketRests, NoSamples DEF IInv, TypeOK
<1>5. Stage'
  <2>1. kept \in Seq(Rows) /\ df[pos + 1] \in Rows
    BY <1>1, ElementOfSeq DEF IInv, TypeOK
  <2>2. \A i \in 1..Len(kept') : kept'[i].l1 # "empty"
    BY <1>1, <2>1, AppendRow DEF IInv, Stage
  <2> QED
    BY <1>1, <1>3, <2>2 DEF Stage
<1>6. Spaced(df)'
  BY <1>1, MarketRests DEF IInv, Spaced
<1> QED
  BY <1>1, <1>2, <1>3, <1>4, <1>5, <1>6, MarketRests, NoSamples DEF IInv, Spaced

LEMMA DropNaDoneInv ==
    ASSUME IInv, DropNaDone
    PROVE  IInv'
<1>1. /\ pc = "dropna" /\ pc' = "mask" /\ df' = kept /\ kept' = <<>> /\ pos' = 0
      /\ UNCHANGED market /\ UNCHANGED <<features, samples>>
  BY DEF DropNaDone
<1>2. samples' = {} /\ features' = <<>> /\ \A i \in 1..Len(df') : df'[i].l1 # "empty"
  BY <1>1 DEF IInv, Stage
<1>3. df' \in Seq(Rows) /\ Spaced(df)' /\ kept' \in Seq(Rows)
  BY <1>1, MarketRests DEF IInv, TypeOK, Spaced, Sorted, Apart
<1>4. TypeOK'
  BY <1>1, <1>2, <1>3, MarketRests, NoSamples DEF TypeOK
<1>5. Stage' /\ KeptBehind' /\ Spaced(kept)'
  BY <1>1, <1>2 DEF Stage, KeptBehind, Spaced, Sorted, Apart
<1> QED
  BY <1>2, <1>3, <1>4, <1>5, <1>1, MarketRests, NoSamples DEF IInv, Spaced

LEMMA MaskInv ==
    ASSUME IInv, Mask
    PROVE  IInv'
<1>1. /\ pc = "mask" /\ pos < Len(df) /\ pos' = pos + 1
      /\ UNCHANGED market /\ UNCHANGED <<pc, df, samples>>
      /\ df[pos + 1].l1 = "overflow" => kept' = kept /\ features' = features
      /\ df[pos + 1].l1 # "overflow" =>
             kept' = Append(kept, df[pos + 1]) /\ features' = Append(features, df[pos + 1])
  BY DEF Mask
<1>2. kept' \in Seq(Rows) /\ Spaced(kept)' /\ KeptBehind' /\ pos' \in 0..Len(df')
  BY <1>1, KeepRow DEF market
<1>3. samples' = {} /\ features' = kept'
  BY <1>1 DEF IInv, Stage
<1>4. TypeOK'
  BY <1>1, <1>2, <1>3, MarketRests, NoSamples DEF IInv, TypeOK
<1>5. Stage'
  <2>1. kept \in Seq(Rows) /\ pos + 1 \in 1..Len(df) /\ df[pos + 1] \in Rows
    BY <1>1, ElementOfSeq DEF IInv, TypeOK
  <2>2. df[pos + 1].l1 \in {"ok", "overflow"}
    BY <2>1, <1>1, RowTick, KindsAssumption DEF IInv, Stage
  <2>3. \A i \in 1..Len(kept') : kept'[i].l1 = "ok"
    <3>1. \A i \in 1..Len(kept) : kept[i].l1 = "ok"
      BY <1>1 DEF IInv, Stage
    <3>2. CASE df[pos + 1].l1 = "overflow"
      BY <1>1, <3>1, <3>2
    <3>3. CASE df[pos + 1].l1 = "ok"
      <4>1. kept' = Append(kept, df[pos + 1])
        BY <1>1, <3>3
      <4> QED
        BY <4>1, <3>1, <3>3, <2>1, AppendRow
    <3> QED
      BY <2>2, <3>2, <3>3
  <2>4. \A i \in 1..Len(df') : df'[i].l1 # "empty"
    BY <1>1 DEF IInv, Stage
  <2> QED
    BY <1>1, <1>3, <2>3, <2>4 DEF Stage
<1>6. Spaced(df)'
  BY <1>1, MarketRests DEF IInv, Spaced
<1> QED
  BY <1>1, <1>2, <1>3, <1>4, <1>5, <1>6, MarketRests, NoSamples DEF IInv, Spaced

--------------------------------------------------------------------------------
(* What a sample of a valid window is. *)

LEMMA SampleOfWindow ==
    ASSUME IInv, pc = "mask", NEW w \in ValidWindows
    PROVE  LET s == Sample(w) IN
           /\ s \in Window
           /\ Len(s.x) = Lookback
           /\ s.x[Lookback] = s.now
           /\ \A i \in 1..Lookback : s.x[i].l1 = "ok" /\ s.x[i].tick <= s.now.tick
           /\ s.now.tick <= s.then.tick
           /\ Single => s.then.tick >= s.now.tick + Horizon
<1> DEFINE x == SubSeq(features, w + 1, w + Lookback)
           last == w + Lookback
           ahead == w + Lookback + Horizon
<1>1. features = kept /\ kept \in Seq(Rows) /\ Len(kept) \in Nat
  BY DEF IInv, Stage, TypeOK
<1>2. /\ w \in Nat /\ Lookback \in Nat \ {0} /\ Horizon \in Nat \ {0}
      /\ w + Lookback - 1 < Len(kept) - Horizon
  BY <1>1, SizesAssumption DEF ValidWindows, NumWindows, EndOf
<1>3. /\ last \in 1..Len(kept) /\ ahead \in 1..Len(kept) /\ last <= ahead
      /\ EndOf(w) + 1 = last /\ EndOf(w) + 1 + Horizon = ahead
      /\ ahead - last = Horizon
  BY <1>1, <1>2 DEF EndOf
<1>4. \A i \in w + 1..last : i \in 1..Len(kept) /\ kept[i] \in Rows /\ features[i] = kept[i]
  BY <1>1, <1>2, <1>3, ElementOfSeq
<1>5. /\ x \in Seq(Rows) /\ Len(x) = Lookback
      /\ \A i \in 1..Lookback : x[i] = kept[w + i] /\ w + i \in 1..Len(kept) /\ w + i <= last
  <2>1. /\ x \in Seq(Rows) /\ Len(x) = IF w + 1 <= last THEN last - (w + 1) + 1 ELSE 0
        /\ \A i \in 1..last - (w + 1) + 1 : x[i] = features[w + 1 + i - 1]
    <3>1. w + 1 \in Int /\ last \in Int /\ \A i \in w + 1..last : features[i] \in Rows
      BY <1>2, <1>4
    <3> HIDE DEF last, x
    <3>2. /\ SubSeq(features, w + 1, last) \in Seq(Rows)
          /\ Len(SubSeq(features, w + 1, last)) = IF w + 1 <= last THEN last - (w + 1) + 1 ELSE 0
          /\ \A i \in 1..last - (w + 1) + 1 :
                 SubSeq(features, w + 1, last)[i] = features[w + 1 + i - 1]
      BY ONLY <3>1, SubSeqProperties
    <3> QED
      BY ONLY <3>2 DEF x, last
  <2>2. w + 1 <= last /\ last - (w + 1) + 1 = Lookback
    BY <1>2
  <2>3. \A i \in 1..Lookback : w + 1 + i - 1 = w + i /\ w + i \in w + 1..last
    BY <1>2
  <2> QED
    BY <2>1, <2>2, <2>3, <1>4
<1>6. Sample(w) = [x |-> x, now |-> kept[last], then |-> kept[ahead]]
  BY <1>3 DEF Sample
<1> HIDE DEF x, last, ahead
<1>7. kept[last] \in Rows /\ kept[ahead] \in Rows
  BY <1>1, <1>3, ElementOfSeq
<1>8. Lookback \in 1..Lookback /\ w + Lookback = last
  BY <1>2 DEF last
<1>9. \A i \in 1..Lookback : x[i].l1 = "ok" /\ x[i].tick <= kept[last].tick
  BY <1>3, <1>5 DEF IInv, Stage, Spaced, Sorted
<1>10. kept[last].tick <= kept[ahead].tick
  BY <1>3 DEF IInv, Spaced, Sorted
<1>11. Single => kept[ahead].tick >= kept[last].tick + Horizon
  <2>1. Single => kept[last].tick + (ahead - last) <= kept[ahead].tick
    BY <1>3 DEF IInv, Spaced, Apart
  <2>2. kept[last].tick \in Nat /\ kept[ahead].tick \in Nat
    BY <1>7, RowTick
  <2> QED
    BY <2>1, <2>2, <1>2, <1>3
<1> QED
  BY <1>5, <1>6, <1>7, <1>8, <1>9, <1>10, <1>11 DEF Window

LEMMA WindowsInv ==
    ASSUME IInv, Windows
    PROVE  IInv'
<1>1. /\ pc = "mask" /\ pc' = "done" /\ samples' = {Sample(w) : w \in ValidWindows}
      /\ UNCHANGED market /\ UNCHANGED <<df, pos, kept, features>>
  BY DEF Windows
<1>2. samples' \subseteq Window
  BY <1>1, SampleOfWindow
<1>3. TypeOK'
  BY <1>1, <1>2, MarketRests DEF IInv, TypeOK
<1>4. Spaced(df)' /\ Spaced(kept)' /\ KeptBehind' /\ Stage'
  BY <1>1, MarketRests DEF IInv, Spaced, KeptBehind, Stage
<1>5. SamplesAligned'
  BY <1>1, SampleOfWindow DEF SamplesAligned
<1>6. NoLeakage'
  BY <1>1, SampleOfWindow, MarketRests DEF NoLeakage
<1> QED
  BY <1>1, <1>3, <1>4, <1>5, <1>6, MarketRests DEF IInv

LEMMA StopInv ==
    ASSUME IInv, Stop, UNCHANGED market
    PROVE  IInv'
<1>1. /\ pc' = "idle" /\ df' = <<>> /\ pos' = 0 /\ kept' = <<>> /\ features' = <<>>
      /\ samples' = {}
  BY DEF Stop
<1>2. TypeOK'
  BY <1>1, MarketRests, NoSamples DEF TypeOK
<1>3. Spaced(df)' /\ Spaced(kept)' /\ KeptBehind' /\ Stage'
  BY <1>1 DEF Spaced, Sorted, Apart, KeptBehind, Stage
<1> QED
  BY <1>1, <1>2, <1>3, MarketRests, NoSamples DEF IInv

--------------------------------------------------------------------------------
LEMMA StutterInv == IInv /\ UNCHANGED vars => IInv'
BY SingleRests DEF vars, market, script, IInv, TypeOK, Spaced, TableBehind, KeptBehind, Stage,
       SamplesAligned, NoLeakage

THEOREM Inductive == Spec => []IInv
<1>1. ASSUME IInv, [Next]_vars
      PROVE  IInv'
  <2>1. ASSUME NEW k \in Kinds, Snapshot(k) PROVE IInv'
    BY <1>1, <2>1, SnapshotInv
  <2>2. CASE Store
    BY <1>1, <2>2, StoreInv
  <2>3. CASE FetchData
    BY <1>1, <2>3, FetchDataInv
  <2>4. CASE DropNa
    BY <1>1, <2>4, DropNaInv
  <2>5. CASE DropNaDone
    BY <1>1, <2>5, DropNaDoneInv
  <2>6. CASE Mask
    BY <1>1, <2>6, MaskInv
  <2>7. CASE Windows
    BY <1>1, <2>7, WindowsInv
  <2>8. CASE NotEnough
    BY <1>1, <2>8, StopInv DEF NotEnough
  <2>9. CASE Save
    BY <1>1, <2>9, StopInv DEF Save
  <2>10. CASE UNCHANGED vars
    BY <1>1, <2>10, StutterInv
  <2> QED
    BY <1>1, <2>1, <2>2, <2>3, <2>4, <2>5, <2>6, <2>7, <2>8, <2>9, <2>10 DEF Next
<1> QED
  BY <1>1, InitInv, PTL DEF Spec

(* feature_data and df have as many rows when the windows are cut.          *)
THEOREM TypeCorrect == Spec => []TypeOK
BY Inductive, PTL DEF IInv

(* Every window ends with the row its target starts from, whatever rows     *)
(* were dropped from the table, lost, or stored again.                      *)
THEOREM SamplesAlignedCorrect == Spec => []SamplesAligned
BY Inductive, PTL DEF IInv

(* No price of a window is as late as the one its target looks at, which is *)
(* at least Horizon ticks ahead, while no snapshot is stored twice.         *)
THEOREM NoLeakageCorrect == Spec => []NoLeakage
BY Inductive, PTL DEF IInv
--------------------------------------------------------------------------------
(* Completeness.                                                            *)

(* The samples are those of the windows cut last, until they are saved.     *)
SamplesCut == pc = "done" => samples = {Sample(w) : w \in ValidWindows}

(* Only Windows gets the script to "done", where it does nothing but save:  *)
(* the rows the samples were cut from are still there.                      *)
LEMMA CutStep == SamplesCut /\ [Next]_vars => SamplesCut'
<1> SUFFICES ASSUME SamplesCut, [Next]_vars, pc' = "done"
             PROVE  samples' = {Sample(w)' : w \in ValidWindows'}
  BY DEF SamplesCut
<1>1. CASE UNCHANGED vars
  <2>1. UNCHANGED <<pc, kept, features, samples>>
    BY <1>1 DEF vars, script
  <2>2. samples = {Sample(w) : w \in ValidWindows}
    BY <2>1 DEF SamplesCut
  <2> QED
    BY <2>1, <2>2 DEF ValidWindows, NumWindows, EndOf, Sample
<1>2. CASE Windows
  <2>1. UNCHANGED <<kept, features>> /\ samples' = {Sample(w) : w \in ValidWindows}
    BY <1>2 DEF Windows
  <2> QED
    BY <2>1 DEF ValidWindows, NumWindows, EndOf, Sample
<1>3. ~ \E k \in Kinds : Snapshot(k)
  BY DEF Snapshot, script
<1>4. /\ ~Store /\ ~FetchData /\ ~DropNa /\ ~DropNaDone
      /\ ~Mask /\ ~NotEnough /\ ~Save
  BY DEF Store, script, FetchData, DropNa, DropNaDone, Mask, NotEnough, Save, Stop
<1> QED
  BY <1>1, <1>2, <1>3, <1>4 DEF Next

(* The window that ends at row i is valid if there are Lookback rows up to  *)
(* i and Horizon rows after it, and its sample starts its target at row i.  *)
LEMMA WindowOfRow ==
    ASSUME IInv, pc = "done"
    PROVE  /\ \A w \in ValidWindows :
                 /\ w + Lookback \in DOMAIN kept
                 /\ w + Lookback >= Lookback /\ w + Lookback + Horizon <= Len(kept)
                 /\ Sample(w).now = kept[w + Lookback]
           /\ \A i \in DOMAIN kept : i >= Lookback /\ i + Horizon <= Len(kept) =>
                 i - Lookback \in ValidWindows /\ Sample(i - Lookback).now = kept[i]
<1>1. /\ features = kept /\ kept \in Seq(Rows)
      /\ Len(kept) \in Nat /\ DOMAIN kept = 1..Len(kept)
  BY DEF IInv, Stage, TypeOK
<1>2. Lookback \in Nat \ {0} /\ Horizon \in Nat \ {0}
  BY SizesAssumption
<1>3. \A w : Sample(w).now = kept[EndOf(w) + 1]
  BY DEF Sample
<1>4. ASSUME NEW w \in ValidWindows
      PROVE  /\ w + Lookback \in DOMAIN kept
             /\ w + Lookback >= Lookback /\ w + Lookback + Horizon <= Len(kept)
             /\ Sample(w).now = kept[w + Lookback]
  <2>1. w \in Nat /\ w + Lookback - 1 < Len(kept) - Horizon
    BY <1>1, <1>2 DEF ValidWindows, NumWindows, EndOf
  <2>2. EndOf(w) + 1 = w + Lookback
    BY <1>2, <2>1 DEF EndOf
  <2>3. /\ w + Lookback \in DOMAIN kept
        /\ w + Lookback >= Lookback /\ w + Lookback + Horizon <= Len(kept)
    BY <1>1, <1>2, <2>1
  <2> QED
    BY <1>3, <2>2, <2>3
<1>5. ASSUME NEW i \in DOMAIN kept, i >= Lookback, i + Horizon <= Len(kept)
      PROVE  i - Lookback \in ValidWindows /\ Sample(i - Lookback).now = kept[i]
  <2>1. i \in 1..Len(kept) /\ i - Lookback \in 0 .. NumWindows - 1
    BY <1>1, <1>2, <1>5 DEF NumWindows
  <2>2. EndOf(i - Lookback) = i - 1 /\ i - 1 < Len(kept) - Horizon /\ i - 1 + 1 = i
    BY <1>1, <1>2, <1>5, <2>1 DEF EndOf
  <2>3. i - Lookback \in ValidWindows
    <3>1. EndOf(i - Lookback) < Len(kept) - Horizon
      BY <2>2
    <3> QED
      BY <2>1, <3>1 DEF ValidWindows
  <2>4. Sample(i - Lookback).now = kept[i]
    BY <1>3, <2>2
  <2> QED
    BY <2>3, <2>4
<1> QED
  BY <1>4, <1>5

(* No sample is left out and none is made up: whatever rows were dropped,   *)
(* there is one for each row that has Lookback - 1 rows before it and       *)
(* Horizon rows after it.                                                   *)
THEOREM SamplesCompleteCorrect == Spec => []SamplesComplete
<1>1. Init => SamplesCut
  BY DEF Init, SamplesCut
<1>2. IInv /\ SamplesCut => SamplesComplete
  <2> SUFFICES ASSUME IInv, SamplesCut, pc = "done"
               PROVE  {s.now.tick : s \in samples} =
                        {kept[i].tick : i \in {i \in DOMAIN kept :
                                                i >= Lookback /\ i + Horizon <= Len(kept)}}
    BY DEF SamplesComplete
  <2>1. samples = {Sample(w) : w \in ValidWindows}
    BY DEF SamplesCut
  <2>2. ASSUME NEW s \in samples
        PROVE  \E i \in DOMAIN kept : /\ i >= Lookback /\ i + Horizon <= Len(kept)
                                      /\ s.now.tick = kept[i].tick
    <3>1. PICK w \in ValidWindows : s = Sample(w)
      BY <2>1
    <3>2. /\ w + Lookback \in DOMAIN kept
          /\ w + Lookback >= Lookback /\ w + Lookback + Horizon <= Len(kept)
          /\ s.now = kept[w + Lookback]
      BY <3>1, WindowOfRow
    <3> QED
      BY <3>2
  <2>3. ASSUME NEW i \in DOMAIN kept, i >= Lookback, i + Horizon <= Len(kept)
        PROVE  \E s \in samples : s.now.tick = kept[i].tick
    <3>1. i - Lookback \in ValidWindows /\ Sample(i - Lookback).now = kept[i]
      BY <2>3, WindowOfRow
    <3> QED
      BY <2>1, <3>1
  <2> QED
    BY <2>2, <2>3
<1> QED
  BY <1>1, <1>2, CutStep, Inductive, PTL DEF Spec
================================================================================
