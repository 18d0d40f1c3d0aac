----------------------------- MODULE MCBleMesh -----------------------------
(* Small instances of BleMesh for TLC: one neighbour below this device's    *)
(* address and one above it, so that each prefers another direction.        *)
EXTENDS BleMesh

=============================================================================
