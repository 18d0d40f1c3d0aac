-------------------------- MODULE MCIrohTransport --------------------------
(* Two installations: one sends an envelope, which may not go over a relay, *)
(* and the media of a call to the other.                                    *)
EXTENDS IrohTransport, TLC

CONSTANTS a, b, e1

MCFrom == e1 :> a
MCTo == e1 :> b
MCDatagramPairs == {<<a, b>>}

=============================================================================
