------------------------------- MODULE MCTcnWindows ------------------------------
(* Instances of TcnWindows for TLC. *)
EXTENDS TcnWindows
================================================================================
