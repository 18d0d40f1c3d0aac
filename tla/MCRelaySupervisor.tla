------------------------- MODULE MCRelaySupervisor -------------------------
(* Small instances of RelaySupervisor for TLC: three releases, the first    *)
(* one installed.                                                           *)
EXTENDS RelaySupervisor

=============================================================================
