-------------------------- MODULE MCRelayLongPoll --------------------------
(* Small instances of RelayLongPoll for TLC.                                *)
EXTENDS RelayLongPoll, TLC

Symmetry ==
    Permutations(Fetchers) \cup Permutations(Storers)
       \cup Permutations(Messages) \cup Permutations(Notifiers)

=============================================================================
