-------------------------------- MODULE TcnWindows -------------------------------
(***************************************************************************)
(* scripts/prepare_tcn_data.py: the samples for training made from         *)
(* depth_snapshots, with the table as market-persister fills it.           *)
(*                                                                         *)
(* A row is [tick, l1]: the snapshot it is a copy of, and whether its      *)
(* first levels are there ("ok"), missing ("empty"), or such that a        *)
(* feature is not finite as a float32 ("overflow").  A snapshot may be     *)
(* lost on its way, or be stored more than once by a retried insert (see   *)
(* Persister).  The table is kept in the order of the query.  The script   *)
(* reads it once, so it rests while the script runs.  The values of the    *)
(* four features and of the return are left out: what matters is from      *)
(* which rows they are made.                                               *)
(***************************************************************************)
EXTENDS Integers, Sequences

CONSTANTS
    Lookback,       \* lookback
    Horizon,        \* forecast_horizon
    Limit,          \* --limit
    MinRows,        \* main: fewer rows are not processed
    Kinds,          \* what the first levels of a snapshot may be
    MaxTicks,       \* bound of the model: snapshots
    MaxCopies       \* bound of the model: copies of a snapshot in the table

ASSUME SizesAssumption ==
    /\ Lookback \in Nat \ {0} /\ Horizon \in Nat \ {0}
    /\ Limit \in Nat /\ MinRows \in Nat
ASSUME BoundsAssumption == MaxTicks \in Nat /\ MaxCopies \in Nat
ASSUME KindsAssumption == Kinds \subseteq {"ok", "empty", "overflow"}

VARIABLES
    tick, kind,     \* the last snapshot of the exchange
    copies,         \* how often it is stored
    table,          \* depth_snapshots of the symbol ORDER BY ts_exchange
    pc,             \* what the script does
    df,             \* the rows it works on
    pos,            \* rows of df that are done with in the running step
    kept,           \* rows of df that remain
    features,       \* feature_data: the rows its features are made from
    samples         \* the rows of each sample: window x, target from now to then

market == <<tick, kind, copies, table>>
script == <<pc, df, pos, kept, features, samples>>
vars == <<market, script>>

Rows == [tick : 1..MaxTicks, l1 : Kinds]

Init ==
    /\ tick = 0 /\ kind \in Kinds /\ copies = 0
    /\ table = <<>>
    /\ pc = "idle"
    /\ df = <<>> /\ pos = 0 /\ kept = <<>>
    /\ features = <<>>
    /\ samples = {}

--------------------------------------------------------------------------------
(* The market and the persister.                                            *)

Snapshot(k) ==
    /\ pc = "idle"
    /\ tick < MaxTicks
    /\ tick' = tick + 1
    /\ kind' = k
    /\ copies' = 0
    /\ UNCHANGED <<table, script>>

Store ==
    /\ pc = "idle"
    /\ tick > 0 /\ copies < MaxCopies
    /\ copies' = copies + 1
    /\ table' = Append(table, [tick |-> tick, l1 |-> kind])
    /\ UNCHANGED <<tick, kind, script>>

--------------------------------------------------------------------------------
(* The script.                                                              *)

(* The ValueErrors of process_data are logged and end the script.           *)
Stop ==
    /\ pc' = "idle"
    /\ df' = <<>> /\ pos' = 0 /\ kept' = <<>>
    /\ features' = <<>>
    /\ samples' = {}

(* fetch_data and the check of main. *)
FetchData ==
    /\ pc = "idle"
    /\ LET n == IF Len(table) < Limit THEN Len(table) ELSE Limit IN
       /\ n >= MinRows /\ n > 0
       /\ df' = SubSeq(table, 1, n)
    /\ pc' = "dropna"
    /\ UNCHANGED <<market, pos, kept, features, samples>>

(* Rows without first levels are dropped, one after the other. *)
DropNa ==
    /\ pc = "dropna"
    /\ pos < Len(df)
    /\ pos' = pos + 1
    /\ kept' = IF df[pos + 1].l1 = "empty" THEN kept ELSE Append(kept, df[pos + 1])
    /\ UNCHANGED <<market, pc, df, features, samples>>

DropNaDone ==
    /\ pc = "dropna"
    /\ pos = Len(df)
    /\ pc' = "mask"
    /\ df' = kept /\ kept' = <<>> /\ pos' = 0
    /\ UNCHANGED <<market, features, samples>>

(* Mutant: the rows of df stay when those of feature_data are dropped.      *)
Mask_FeaturesOnly ==
    /\ pc = "mask"
    /\ pos < Len(df)
    /\ pos' = pos + 1
    /\ kept' = Append(kept, df[pos + 1])
    /\ features' = IF df[pos + 1].l1 = "overflow" THEN features ELSE Append(features, df[pos + 1])
    /\ UNCHANGED <<market, pc, df, samples>>

(* The same rows are dropped from feature_data and from df when a feature   *)
(* of theirs is not finite.                                                 *)
Mask ==
    /\ pc = "mask"
    /\ pos < Len(df)
    /\ pos' = pos + 1
    /\ IF df[pos + 1].l1 = "overflow"
           THEN UNCHANGED <<kept, features>>
           ELSE kept' = Append(kept, df[pos + 1]) /\ features' = Append(features, df[pos + 1])
    /\ UNCHANGED <<market, pc, df, samples>>

(* sliding_window_view and valid_mask, with the row numbers of the code,    *)
(* which start at 0: window w ends at row w + Lookback - 1, and is valid if *)
(* there is a row Horizon after it.                                         *)
NumWindows == Len(features) - Lookback + 1
EndOf(w) == w + Lookback - 1

(* Mutant: the last row with a return is left out.                          *)
ValidWindows_OneLess == {w \in 0 .. NumWindows - 1 : EndOf(w) + 1 < Len(kept) - Horizon}

ValidWindows == {w \in 0 .. NumWindows - 1 : EndOf(w) < Len(kept) - Horizon}

(* Mutant: a window starts at the row of its target.                        *)
Sample_FromTarget(w) ==
    [x |-> SubSeq(features, EndOf(w) + 1, EndOf(w) + Lookback),
     now |-> kept[EndOf(w) + 1], then |-> kept[EndOf(w) + 1 + Horizon]]

(* Mutant: the return is that of Horizon - 1 rows.                          *)
Sample_Early(w) ==
    [x |-> SubSeq(features, w + 1, w + Lookback),
     now |-> kept[EndOf(w) + 1], then |-> kept[EndOf(w) + Horizon]]

Sample(w) ==
    [x |-> SubSeq(features, w + 1, w + Lookback),
     now |-> kept[EndOf(w) + 1], then |-> kept[EndOf(w) + 1 + Horizon]]

Windows ==
    /\ pc = "mask"
    /\ pos = Len(df)
    /\ Len(features) >= Lookback /\ ValidWindows # {}
    /\ pc' = "done"
    /\ samples' = {Sample(w) : w \in ValidWindows}
    /\ UNCHANGED <<market, df, pos, kept, features>>

NotEnough ==
    /\ pc = "mask"
    /\ pos = Len(df)
    /\ Len(features) < Lookback \/ ValidWindows = {}
    /\ Stop
    /\ UNCHANGED market

(* The samples are saved and the script ends; it may be run again.          *)
Save ==
    /\ pc = "done"
    /\ Stop
    /\ UNCHANGED market

Next ==
    \/ \E k \in Kinds : Snapshot(k)
    \/ Store
    \/ FetchData
    \/ DropNa
    \/ DropNaDone
    \/ Mask
    \/ Windows
    \/ NotEnough
    \/ Save

Spec == Init /\ [][Next]_vars

--------------------------------------------------------------------------------
Window == [x : Seq(Rows), now : Rows, then : Rows]

(* feature_data and df have as many rows, and rows without first levels do  *)
(* not get past the first step.                                             *)
TypeOK ==
    /\ tick \in 0..MaxTicks /\ kind \in Kinds /\ copies \in 0..MaxCopies
    /\ pc \in {"idle", "dropna", "mask", "done"}
    /\ table \in Seq(Rows) /\ df \in Seq(Rows) /\ kept \in Seq(Rows) /\ features \in Seq(Rows)
    /\ pos \in 0..Len(df)
    /\ pc \in {"mask", "done"} => Len(features) = Len(kept)
    /\ samples \subseteq Window

(* The window of a sample ends with the row its target starts from, and is  *)
(* made of Lookback rows none of which is later, missing or not finite      *)
(* (prepare_tcn_data.py:139-189): also when rows were dropped in between,   *)
(* lost, or stored more than once.                                          *)
SamplesAligned ==
    \A s \in samples :
        /\ Len(s.x) = Lookback
        /\ s.x[Lookback] = s.now
        /\ \A i \in 1..Lookback : s.x[i].l1 = "ok" /\ s.x[i].tick <= s.now.tick
        /\ s.now.tick <= s.then.tick

(* No snapshot is in the table twice.                                       *)
Single ==
    \A i \in DOMAIN table, j \in DOMAIN table : table[i].tick = table[j].tick => i = j

(* While no snapshot is stored twice, nothing of a window is as late as the *)
(* price its target looks at: the target is at least Horizon ticks ahead    *)
(* (PHASE_2_TODO.md:14, tests/test_data_pipeline.py:131).                   *)
NoLeakage ==
    Single => \A s \in samples : s.then.tick >= s.now.tick + Horizon

(* No sample is left out: there is one for each row that has Lookback - 1   *)
(* rows before it and Horizon after it (tests/test_data_pipeline.py:40-43). *)
SamplesComplete ==
    pc = "done" =>
        {s.now.tick : s \in samples} =
            {kept[i].tick : i \in {i \in DOMAIN kept : i >= Lookback /\ i + Horizon <= Len(kept)}}
================================================================================
