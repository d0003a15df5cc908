------------------------------ MODULE MCPersister ------------------------------
(* Instances of Persister for TLC. *)
EXTENDS Persister

(* Small flush thresholds and channels: every kind flushes at two rows, a   *)
(* channel holds one, so a full buffer, a full channel and a blocked ingest *)
(* task are all within a few rows.                                          *)
Threshold == [k \in Kinds |-> 2]
Capacity == [p \in Pipelines |-> 1]
================================================================================
