----------------------------- MODULE MCNatsPublisher -----------------------------
(* Instances of NatsPublisher for TLC. *)
EXTENDS NatsPublisher

CONSTANTS trade, depth, ping
================================================================================
