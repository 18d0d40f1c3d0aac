--------------------------- MODULE MCRelayMailbox ---------------------------
(* Small instances of RelayMailbox for TLC.                                 *)
EXTENDS RelayMailbox, TLC

CONSTANTS m1, m2, p1, p2, n1, bob, carol, alice, s1, s2, k1, k2,
          l1, l2, l3

\* Two messages of one address, two announcements, and an envelope without
\* kind, key or source, to two mailboxes.
MCEnvelopes == {m1, m2, p1, p2, n1}
MCMailboxOf ==
    (m1 :> bob) @@ (m2 :> bob) @@ (p1 :> bob) @@ (p2 :> bob) @@ (n1 :> carol)
MCKindOf ==
    (m1 :> "message") @@ (m2 :> "message") @@ (p1 :> "pairing")
       @@ (p2 :> "pairing") @@ (n1 :> "none")
MCSenderOf ==
    (m1 :> alice) @@ (m2 :> alice) @@ (p1 :> alice) @@ (p2 :> NoSender)
       @@ (n1 :> NoSender)
MCKeyOf ==
    (m1 :> k1) @@ (m2 :> k2) @@ (p1 :> NoKey) @@ (p2 :> NoKey) @@ (n1 :> NoKey)
MCSourceOf ==
    (m1 :> s1) @@ (m2 :> s1) @@ (p1 :> s2) @@ (p2 :> s1) @@ (n1 :> NoSource)
\* m1 with p1 overflows a mailbox of 4 bytes; n1 needs a relay of 4 bytes to
\* itself, so that several holders have to make room for it.
MCBytesOf == (m1 :> 3) @@ (m2 :> 1) @@ (p1 :> 2) @@ (p2 :> 1) @@ (n1 :> 4)

\* One mailbox, for the run about liveness.
BobEnvelopes == {m1, m2, p1}
BobMailboxOf == [e \in BobEnvelopes |-> MCMailboxOf[e]]
BobKindOf == [e \in BobEnvelopes |-> MCKindOf[e]]
BobSenderOf == [e \in BobEnvelopes |-> MCSenderOf[e]]
BobKeyOf == [e \in BobEnvelopes |-> MCKeyOf[e]]
BobSourceOf == [e \in BobEnvelopes |-> MCSourceOf[e]]
BobBytesOf == [e \in BobEnvelopes |-> 1]

MCLeaseIds == {l1, l2}
LivenessLeaseIds == {l1, l2, l3}
MCLeaseSymmetry == Permutations(MCLeaseIds)

=============================================================================
