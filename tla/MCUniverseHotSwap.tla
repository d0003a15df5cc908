--------------------------- MODULE MCUniverseHotSwap ---------------------------
(* Instances of UniverseHotSwap for TLC. *)
EXTENDS UniverseHotSwap, TLC

CONSTANTS btc, eth, sol, spot, futures

Symmetry == Permutations({btc, eth, sol}) \union Permutations({spot, futures})
================================================================================
