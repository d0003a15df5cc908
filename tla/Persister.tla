------------------------------- MODULE Persister -------------------------------
(***************************************************************************)
(* market-persister: for each pipeline a NATS ingest task and a ClickHouse *)
(* writer task joined by a bounded mpsc channel (market-persister/src/     *)
(* main.rs), all writers sharing one database whose tables any of them may *)
(* create (ch.rs, ensure_schema).  One action per await point at which     *)
(* another task, the broker or ClickHouse can step in.                     *)
(*                                                                         *)
(* Abstracted: the payload of a row (a row is its kind and a fresh number),*)
(* the length of the backoff delays, messages that do not decode (the      *)
(* ingest loop skips them and nothing changes).  The `None` arm of the     *)
(* writers' select is left out: the only Sender lives in an ingest task    *)
(* that returns only after the Receiver is gone, so the arm cannot run.    *)
(***************************************************************************)
EXTENDS Integers, Sequences, FiniteSets, Functions

CONSTANTS
    Pipelines,     \* the pipelines running: a subset of AllPipelines
    Batch,         \* Batch[k]: buffered rows of kind k that start a flush
    ChanCap,       \* ChanCap[p]: capacity of the mpsc channel of p
    MaxRows,       \* bound: how many rows the bus delivers in all
    MaxLanded      \* bound: copies of a kind that failed inserts may leave

AllPipelines == {"raw", "context", "depth", "liq"}

(* The tables, in the order ensure_schema creates them. *)
DDL == <<"trade", "bbo", "context", "depth", "liq">>

(* What the channel of a pipeline carries: MarketRow is Trade or BBO. *)
KindsOf(p) == IF p = "raw" THEN {"trade", "bbo"} ELSE {p}

Kinds == UNION {KindsOf(p) : p \in Pipelines}

ASSUME PipelinesAssumption == Pipelines \subseteq AllPipelines
ASSUME BatchAssumption == Batch \in [Kinds -> Nat \ {0}]
ASSUME ChanCapAssumption == ChanCap \in [Pipelines -> Nat \ {0}]
ASSUME BoundsAssumption == MaxRows \in Nat /\ MaxLanded \in Nat

Rows == [kind : Kinds, id : 1..MaxRows]

VARIABLES
    connected,     \* connected[p]: the ingest task of p has a subscription
    held,          \* held[p]: the row the ingest task waits to send, if any
    chan,          \* chan[p]: rows in the mpsc channel, oldest first
    writer,        \* writer[p]: where the writer task of p is
    todo,          \* todo[p]: kinds the current arm of the select flushes yet
    buffer,        \* buffer[k]: the rows of kind k that the writer keeps
    created,       \* how many tables of DDL exist
    store,         \* store[k]: the copies in the table of k, as they landed
    alive,         \* the process is running
    nextId,        \* the number of the next row the bus delivers
    taken,         \* history: rows decoded from a message
    lost,          \* history: rows that went with a process that ended
    retried        \* history: rows that a failed insert had in its batch

vars == <<connected, held, chan, writer, todo, buffer, created, store, alive,
          nextId, taken, lost, retried>>

Rank(k) == CHOOSE i \in DOMAIN DDL : DDL[i] = k

TableExists(k) == Rank(k) <= created

(* Rows the process holds in memory, between the bus and ClickHouse: in the *)
(* ingest tasks and their channels, and in the buffers of the writers.      *)
Queued == UNION {Range(held[p]) \union Range(chan[p]) : p \in Pipelines}

Buffered == UNION {Range(buffer[k]) : k \in Kinds}

InFlight == Queued \union Buffered

Stored == UNION {Range(store[k]) : k \in Kinds}

VolatileInit ==
    /\ connected = [p \in Pipelines |-> FALSE]
    /\ held = [p \in Pipelines |-> <<>>]
    /\ chan = [p \in Pipelines |-> <<>>]
    /\ writer = [p \in Pipelines |-> "ping"]
    /\ todo = [p \in Pipelines |-> {}]
    /\ buffer = [k \in Kinds |-> <<>>]

Init ==
    /\ VolatileInit
    /\ created \in 0..Len(DDL)
    /\ store = [k \in Kinds |-> <<>>]
    /\ alive = TRUE
    /\ nextId = 1
    /\ taken = {}
    /\ lost = {}
    /\ retried = {}

--------------------------------------------------------------------------------
(* The ingest task: connect and subscribe, then one message at a time.      *)

NatsSubscribed(p) ==
    /\ alive
    /\ ~connected[p]
    /\ connected' = [connected EXCEPT ![p] = TRUE]
    /\ UNCHANGED <<held, chan, writer, todo, buffer, created, store, alive,
                   nextId, taken, lost, retried>>

(* The subscription ends: the task goes back to its connect loop. *)
NatsEnded(p) ==
    /\ alive
    /\ connected[p]
    /\ held[p] = <<>>
    /\ connected' = [connected EXCEPT ![p] = FALSE]
    /\ UNCHANGED <<held, chan, writer, todo, buffer, created, store, alive,
                   nextId, taken, lost, retried>>

(* A message decodes to a row of kind k; the task starts to send it. *)
Receive(p, k) ==
    /\ alive
    /\ connected[p]
    /\ held[p] = <<>>
    /\ nextId <= MaxRows
    /\ LET row == [kind |-> k, id |-> nextId] IN
         /\ held' = [held EXCEPT ![p] = <<row>>]
         /\ taken' = taken \union {row}
    /\ nextId' = nextId + 1
    /\ UNCHANGED <<connected, chan, writer, todo, buffer, created, store, alive,
                   lost, retried>>

(* Mutant: an unbounded channel. *)
Send_Unbounded(p) ==
    /\ alive
    /\ held[p] # <<>>
    /\ chan' = [chan EXCEPT ![p] = Append(@, Head(held[p]))]
    /\ held' = [held EXCEPT ![p] = <<>>]
    /\ UNCHANGED <<connected, writer, todo, buffer, created, store, alive,
                   nextId, taken, lost, retried>>

(* tx.send(row).await completes once the channel has room. *)
Send(p) ==
    /\ alive
    /\ held[p] # <<>>
    /\ Len(chan[p]) < ChanCap[p]
    /\ chan' = [chan EXCEPT ![p] = Append(@, Head(held[p]))]
    /\ held' = [held EXCEPT ![p] = <<>>]
    /\ UNCHANGED <<connected, writer, todo, buffer, created, store, alive,
                   nextId, taken, lost, retried>>

--------------------------------------------------------------------------------
(* The writer task.                                                         *)

(* The startup loop ends with the first ping ClickHouse answers. *)
PingOk(p) ==
    /\ alive
    /\ writer[p] = "ping"
    /\ writer' = [writer EXCEPT ![p] = "schema"]
    /\ UNCHANGED <<connected, held, chan, todo, buffer, created, store, alive,
                   nextId, taken, lost, retried>>

(* ensure_schema stops at the first statement that fails: of those it did   *)
(* reach, the first n tables exist afterwards.                              *)
SchemaUpTo(n) == created' = IF n > created THEN n ELSE created

(* At startup an error of ensure_schema is logged and the loop goes on. *)
EnsureSchema(p, n) ==
    /\ alive
    /\ writer[p] = "schema"
    /\ SchemaUpTo(n)
    /\ writer' = [writer EXCEPT ![p] = "select"]
    /\ UNCHANGED <<connected, held, chan, todo, buffer, store, alive,
                   nextId, taken, lost, retried>>

(* The one second tick: flush whatever is buffered, kind after kind. *)
Tick(p) ==
    /\ alive
    /\ writer[p] = "select"
    /\ \E k \in KindsOf(p) : buffer[k] # <<>>
    /\ todo' = [todo EXCEPT ![p] = {k \in KindsOf(p) : buffer[k] # <<>>}]
    /\ writer' = [writer EXCEPT ![p] = "flush"]
    /\ UNCHANGED <<connected, held, chan, buffer, created, store, alive,
                   nextId, taken, lost, retried>>

(* Mutant: only the tick flushes. *)
Recv_NoFlush(p) ==
    /\ alive
    /\ writer[p] = "select"
    /\ chan[p] # <<>>
    /\ LET row == Head(chan[p]) IN
         buffer' = [buffer EXCEPT ![row.kind] = Append(@, row)]
    /\ chan' = [chan EXCEPT ![p] = Tail(@)]
    /\ UNCHANGED <<connected, held, writer, todo, created, store, alive,
                   nextId, taken, lost, retried>>

(* A row arrives on the channel; a full buffer is flushed at once. *)
Recv(p) ==
    /\ alive
    /\ writer[p] = "select"
    /\ chan[p] # <<>>
    /\ LET row == Head(chan[p])
           k == row.kind
           full == Len(buffer[k]) + 1 >= Batch[k] IN
         /\ buffer' = [buffer EXCEPT ![k] = Append(@, row)]
         /\ todo' = [todo EXCEPT ![p] = IF full THEN {k} ELSE {}]
         /\ writer' = [writer EXCEPT ![p] = IF full THEN "flush" ELSE "select"]
    /\ chan' = [chan EXCEPT ![p] = Tail(@)]
    /\ UNCHANGED <<connected, held, created, store, alive,
                   nextId, taken, lost, retried>>

(* k is the kind the writer of p is inserting: trade goes before bbo. *)
Flushing(p, k) ==
    /\ alive
    /\ writer[p] = "flush"
    /\ k \in todo[p]
    /\ \A j \in todo[p] : Rank(k) <= Rank(j)

(* The flush of k is over: the next kind of this arm, or back to select. *)
FlushedKind(p, k) ==
    /\ todo' = [todo EXCEPT ![p] = @ \ {k}]
    /\ writer' = [writer EXCEPT ![p] =
                    IF todo[p] \ {k} = {} THEN "select" ELSE "flush"]

(* Mutant: the buffer is not cleared after an insert that succeeded. *)
FlushOk_KeepsBuffer(p, k) ==
    /\ Flushing(p, k)
    /\ TableExists(k)
    /\ store' = [store EXCEPT ![k] = @ \o buffer[k]]
    /\ FlushedKind(p, k)
    /\ UNCHANGED <<connected, held, chan, buffer, created, alive,
                   nextId, taken, lost, retried>>

(* The insert succeeds: the batch is in the table, the buffer is cleared. *)
FlushOk(p, k) ==
    /\ Flushing(p, k)
    /\ TableExists(k)
    /\ store' = [store EXCEPT ![k] = @ \o buffer[k]]
    /\ buffer' = [buffer EXCEPT ![k] = <<>>]
    /\ FlushedKind(p, k)
    /\ UNCHANGED <<connected, held, chan, created, alive,
                   nextId, taken, lost, retried>>

(* Mutant: the buffer is cleared although the insert failed. *)
FlushErr_ClearsBuffer(p, k, n) ==
    /\ Flushing(p, k)
    /\ n > 0 => TableExists(k) /\ Len(store[k]) + n <= MaxLanded
    /\ store' = [store EXCEPT ![k] = @ \o SubSeq(buffer[k], 1, n)]
    /\ buffer' = [buffer EXCEPT ![k] = <<>>]
    /\ retried' = retried \union Range(buffer[k])
    /\ writer' = [writer EXCEPT ![p] = "recover"]
    /\ UNCHANGED <<connected, held, chan, todo, created, alive, nextId, taken, lost>>

(* Mutant: the row an insert failed on is taken for poison and dropped. *)
FlushErr_DropsFirst(p, k, n) ==
    /\ Flushing(p, k)
    /\ n > 0 => TableExists(k) /\ Len(store[k]) + n <= MaxLanded
    /\ store' = [store EXCEPT ![k] = @ \o SubSeq(buffer[k], 1, n)]
    /\ buffer' = [buffer EXCEPT ![k] = Tail(@)]
    /\ retried' = retried \union Range(buffer[k])
    /\ writer' = [writer EXCEPT ![p] = "recover"]
    /\ UNCHANGED <<connected, held, chan, todo, created, alive, nextId, taken, lost>>

(* The insert returns an error.  The table may be missing, or the server or *)
(* the connection failed after the first n rows of the batch landed (all of *)
(* them when only the answer was lost).  The buffer is retained.            *)
FlushErr(p, k, n) ==
    /\ Flushing(p, k)
    /\ n > 0 => TableExists(k) /\ Len(store[k]) + n <= MaxLanded
    /\ store' = [store EXCEPT ![k] = @ \o SubSeq(buffer[k], 1, n)]
    /\ retried' = retried \union Range(buffer[k])
    /\ writer' = [writer EXCEPT ![p] = "recover"]
    /\ UNCHANGED <<connected, held, chan, todo, buffer, created, alive,
                   nextId, taken, lost>>

(* Mutant: the error arm does not call ensure_schema. *)
Recover_NoSchema(p, k, n) ==
    /\ alive
    /\ writer[p] = "recover"
    /\ k \in todo[p]
    /\ \A j \in todo[p] : Rank(k) <= Rank(j)
    /\ n \in 0..Len(DDL)
    /\ FlushedKind(p, k)
    /\ UNCHANGED <<connected, held, chan, buffer, created, store, alive,
                   nextId, taken, lost, retried>>

(* The rest of the error arm: sleep, new client, ping and ensure_schema,    *)
(* whose results are ignored; then the next kind, or back to select.        *)
Recover(p, k, n) ==
    /\ alive
    /\ writer[p] = "recover"
    /\ k \in todo[p]
    /\ \A j \in todo[p] : Rank(k) <= Rank(j)
    /\ SchemaUpTo(n)
    /\ FlushedKind(p, k)
    /\ UNCHANGED <<connected, held, chan, buffer, store, alive,
                   nextId, taken, lost, retried>>

--------------------------------------------------------------------------------
(* The process.                                                             *)

(* Ctrl-C: main returns from its select and every task, channel and buffer  *)
(* is dropped, wherever the tasks are.                                      *)
Shutdown ==
    /\ alive
    /\ alive' = FALSE
    /\ lost' = lost \union (InFlight \ Stored)
    /\ connected' = [p \in Pipelines |-> FALSE]
    /\ held' = [p \in Pipelines |-> <<>>]
    /\ chan' = [p \in Pipelines |-> <<>>]
    /\ writer' = [p \in Pipelines |-> "ping"]
    /\ todo' = [p \in Pipelines |-> {}]
    /\ buffer' = [k \in Kinds |-> <<>>]
    /\ UNCHANGED <<created, store, nextId, taken, retried>>

Restart ==
    /\ ~alive
    /\ alive' = TRUE
    /\ UNCHANGED <<connected, held, chan, writer, todo, buffer, created, store,
                   nextId, taken, lost, retried>>

IngestStep(p) ==
    \/ NatsSubscribed(p)
    \/ NatsEnded(p)
    \/ \E k \in KindsOf(p) : Receive(p, k)
    \/ Send(p)

WriterStep(p) ==
    \/ PingOk(p)
    \/ \E n \in 0..Len(DDL) : EnsureSchema(p, n)
    \/ Tick(p)
    \/ Recv(p)
    \/ \E k \in KindsOf(p) :
         \/ FlushOk(p, k)
         \/ \E n \in 0..Len(buffer[k]) : FlushErr(p, k, n)
         \/ \E n \in 0..Len(DDL) : Recover(p, k, n)

Next ==
    \/ \E p \in Pipelines : IngestStep(p) \/ WriterStep(p)
    \/ Shutdown
    \/ Restart

Spec == Init /\ [][Next]_vars

(* Fairness.  Each task is driven by the tokio runtime (weak fairness).     *)
(* select! picks at random among its ready arms, so an arm that is ready    *)
(* again and again is taken.  ClickHouse is assumed to answer some ping,    *)
(* some ensure_schema and some insert of each kind if asked for ever.       *)
(* Nothing is assumed of NATS, of Ctrl-C or of a restart.                   *)
Fairness ==
    \A p \in Pipelines :
      /\ WF_vars(WriterStep(p))
      /\ SF_vars(Send(p))
      /\ SF_vars(PingOk(p))
      /\ SF_vars(Recv(p))
      /\ SF_vars(Tick(p))
      /\ \A k \in KindsOf(p) :
           /\ SF_vars(FlushOk(p, k))
           /\ SF_vars(Recover(p, k, Len(DDL)))

LiveSpec == Spec /\ Fairness

--------------------------------------------------------------------------------
(* Correctness.                                                             *)

RowsOf(p) == {r \in Rows : r.kind \in KindsOf(p)}

(* The shape of the state, with the two facts the channel and the writer's  *)
(* position depend on: a channel never exceeds its capacity, and a writer   *)
(* has kinds left to flush exactly while it flushes or recovers.            *)
TypeOK ==
    /\ connected \in [Pipelines -> BOOLEAN]
    /\ held \in [Pipelines -> Seq(Rows)]
    /\ \A p \in Pipelines : Len(held[p]) <= 1 /\ Range(held[p]) \subseteq RowsOf(p)
    /\ chan \in [Pipelines -> Seq(Rows)]
    /\ \A p \in Pipelines : /\ Len(chan[p]) <= ChanCap[p]
                            /\ Range(chan[p]) \subseteq RowsOf(p)
    /\ writer \in [Pipelines -> {"ping", "schema", "select", "flush", "recover"}]
    /\ todo \in [Pipelines -> SUBSET Kinds]
    /\ \A p \in Pipelines : /\ todo[p] \subseteq KindsOf(p)
                            /\ todo[p] # {} <=> writer[p] \in {"flush", "recover"}
    /\ buffer \in [Kinds -> Seq(Rows)]
    /\ created \in 0..Len(DDL)
    /\ store \in [Kinds -> Seq(Rows)]
    /\ alive \in BOOLEAN
    /\ nextId \in 1..(MaxRows + 1)
    /\ taken \subseteq Rows
    /\ lost \subseteq Rows
    /\ retried \subseteq Rows

(* No silent loss: the rows taken from the bus are those in the process, in *)
(* ClickHouse, or gone with a process that ended; whatever the order of     *)
(* failed inserts, partial landings and restarts.                           *)
NoSilentLoss ==
    /\ taken = InFlight \union Stored \union lost
    /\ lost \intersect (InFlight \union Stored) = {}

(* The numbers of the rows taken are behind the bus: the next row is new. *)
IdsFresh == \A r \in taken : r.id < nextId

(* The inductive invariant behind NoSilentLoss and the refinement below. *)
DeliveryInv == TypeOK /\ NoSilentLoss /\ IdsFresh

(* Copies of r in ClickHouse. *)
Copies(r) == Cardinality({i \in DOMAIN store[r.kind] : store[r.kind][i] = r})

(* A row is stored twice only if an insert that had it in its batch failed: *)
(* without errors the pipeline is exactly-once.                             *)
DuplicatesOnlyByRetry ==
    \A r \in taken : Copies(r) > 1 => r \in retried

(* No overtaking: a row reaches ClickHouse only after every earlier row of  *)
(* its kind that the process did not lose: a retained batch is retried      *)
(* whole and in front of what came after it.                                *)
NoOvertaking ==
    \A r \in Stored : \A q \in taken :
        q.kind = r.kind /\ q.id < r.id => q \in Stored \union lost

(* Every row taken from the bus is eventually in ClickHouse, unless the     *)
(* process ends first: a failed startup ensure_schema, a missing table and  *)
(* retained buffers are all recovered from.                                 *)
EventuallyStored ==
    \A r \in Rows : r \in taken ~> r \in Stored \union lost

Sink == INSTANCE AtLeastOnceSink WITH stored <- Stored

(* The persister implements the at-least-once sink. *)
SinkSpec == Sink!Spec

(* ch.rs:42 and :61: the unique ids in the sort key make inserts idempotent.*)
(* The tables are plain MergeTree and a retained batch is sent again, so a  *)
(* row whose first insert landed is stored twice.                           *)
IdempotentInserts ==
    \A r \in taken : Copies(r) <= 1

(* A batch outgrows the flush threshold (docs/ALGORITHM_ANALYSIS.md:102 and *)
(* :112 bound it by 10 000 rows) only while ClickHouse refuses it: a full   *)
(* batch of its oldest rows was sent and failed before.                     *)
BatchBound ==
    \A k \in Kinds : Len(buffer[k]) > Batch[k] =>
        \A i \in 1..Batch[k] : buffer[k][i] \in retried
================================================================================
