---------------------------- MODULE AtLeastOnceSink ----------------------------
(***************************************************************************)
(* What market-persister promises about the rows it takes from NATS, seen  *)
(* from outside: a row that was taken is either still on its way, or is in *)
(* ClickHouse (at least once), or was given up because the process ended.  *)
(* The number of copies in ClickHouse and the way a row travels are not    *)
(* visible here.                                                           *)
(***************************************************************************)

CONSTANT Rows      \* the rows that the messages of the bus are decoded to

VARIABLES
    taken,         \* rows decoded from a NATS message so far
    stored,        \* rows with at least one copy in ClickHouse
    lost           \* rows given up when the process ended

sinkVars == <<taken, stored, lost>>

(* Only rows that were taken are stored or given up, and no row is both. *)
SinkTypeOK ==
    /\ taken \subseteq Rows
    /\ stored \subseteq taken
    /\ lost \subseteq taken \ stored

Init ==
    /\ taken = {}
    /\ stored = {}
    /\ lost = {}

(* A row that was never seen before is taken from the bus. *)
Take(r) ==
    /\ r \notin taken
    /\ taken' = taken \union {r}
    /\ UNCHANGED <<stored, lost>>

(* Some of the rows on their way reach ClickHouse; rows already there may  *)
(* arrive again.                                                           *)
Store(S) ==
    /\ S \subseteq taken \ lost
    /\ stored' = stored \union S
    /\ UNCHANGED <<taken, lost>>

(* The process ends: whatever is not in ClickHouse by now never gets there. *)
GiveUp ==
    /\ lost' = taken \ stored
    /\ UNCHANGED <<taken, stored>>

Next ==
    \/ \E r \in Rows : Take(r)
    \/ \E S \in SUBSET (taken \ lost) : Store(S)
    \/ GiveUp

Spec == Init /\ [][Next]_sinkVars
================================================================================
