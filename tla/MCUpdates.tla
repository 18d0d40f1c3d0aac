----------------------------- MODULE MCUpdates -----------------------------
(* What must survive a crash on the disk: the relay's supervisor, the       *)
(* desktop helper, and a file received in parts.  They share no state, so a *)
(* behaviour of this instance is one of the part chosen at its start, and   *)
(* the run explores the sum of the three.  The file has two blocks, the     *)
(* second a short one; the two together are enough for a checkpoint by      *)
(* size, and a block may come twice before it.                              *)
EXTENDS RelaySupervisor, DesktopUpdater, PartialTransfer, TLC

VARIABLE part

\* The old and the new bundle: a directory becomes a file, a file a
\* directory, and another directory keeps one of its files.
MCInstalled == (<<"lib">> :> "dir") @@ (<<"lib", "a">> :> "file")
               @@ (<<"lib", "b">> :> "file") @@ (<<"data">> :> "file")
               @@ (<<"plug">> :> "dir") @@ (<<"plug", "x">> :> "file")
MCStaged == (<<"lib">> :> "dir") @@ (<<"lib", "a">> :> "file")
            @@ (<<"data">> :> "dir") @@ (<<"data", "d">> :> "file")
            @@ (<<"plug">> :> "file")

mcVars == <<part, vars, updaterVars, transferVars>>

\* A part that is not the one chosen stays in its first state.
MCInit ==
    /\ part \in {"supervisor", "desktop", "transfer"}
    /\ Init /\ UpdaterInit /\ TransferInit
    /\ part # "desktop" => \A p \in Paths : temp[p] = "none"
    /\ part # "transfer" => destination = "absent" /\ \A b \in Blocks : sent[b] = "good"

Supervisor == part = "supervisor" /\ Next /\ UNCHANGED <<part, updaterVars, transferVars>>
Desktop == part = "desktop" /\ UpdaterNext /\ UNCHANGED <<part, vars, transferVars>>
Transfer == part = "transfer" /\ TransferNext /\ UNCHANGED <<part, vars, updaterVars>>

MCSpec == MCInit /\ [][Supervisor \/ Desktop \/ Transfer]_mcVars

=============================================================================
