------------------------------ MODULE MCRelay ------------------------------
(* The relay's mailboxes, and the limits its requests pass before they      *)
(* reach them.  They share no state, so a behaviour of this instance is one *)
(* of the part chosen at its start, and the run explores the sum of both.   *)
EXTENDS MCRelayMailbox, RelayLimits

VARIABLE part

mcVars == <<part, vars, limitVars>>

MCInit == part \in {"mailbox", "limits"} /\ Init /\ LimitsInit

Stores == part = "mailbox" /\ Next /\ UNCHANGED <<part, limitVars>>
Requests == part = "limits" /\ LimitsNext /\ UNCHANGED <<part, vars>>

MCSpec == MCInit /\ [][Stores \/ Requests]_mcVars

MCSymmetry == MCLeaseSymmetry \cup Permutations(Workers)

=============================================================================
