------------------------------- MODULE MCTor -------------------------------
(* The commands of the Tor carrier, or what comes in to its onion service:  *)
(* the two share no state here, so a behaviour of this instance is one of   *)
(* the part chosen at its start, and the run explores the sum of both.      *)
EXTENDS TorCarrier, TorIncoming, TLC

CONSTANTS m1, m2, x

VARIABLE part

MCOnion == (m1 :> x) @@ (m2 :> x)

mcVars == <<part, torVars, inVars>>

MCInit == part \in {"commands", "incoming"} /\ TorInit /\ InInit

Command == part = "commands" /\ TorNext /\ UNCHANGED <<part, inVars>>
Incoming == part = "incoming" /\ InNext /\ UNCHANGED <<part, torVars>>

MCSpec ==
    /\ MCInit /\ [][Command \/ Incoming]_mcVars
    /\ part = "commands" => TorFairness

=============================================================================
