---------------------------- MODULE AtLeastOnce ----------------------------
(***************************************************************************)
(* What a Conest relay promises the two ends of a mailbox.  Accepted        *)
(* messages are numbered in the order the relay accepted them; a message is *)
(* the relay's responsibility (pending) until the recipient has durably     *)
(* processed it, unless the relay gives it up openly: quota eviction,       *)
(* time-to-live, a newer announcement, or a legacy fetch whose answer got   *)
(* lost.  Nothing is ever forgotten in any other way, and nothing that was  *)
(* never accepted is delivered.                                             *)
(***************************************************************************)
EXTENDS Naturals

VARIABLES
    next,       \* the number the next accepted message gets
    pending,    \* accepted messages the relay still answers for
    delivered,  \* messages the recipient has durably processed
    dropped     \* messages the relay gave up

vars == <<next, pending, delivered, dropped>>

Accepted == 1 .. (next - 1)

Init ==
    /\ next = 1
    /\ pending = {}
    /\ delivered = {}
    /\ dropped = {}

(* The relay takes on a new message, giving up the messages in D for it.   *)
Accept(D) ==
    /\ D \subseteq pending
    /\ next' = next + 1
    /\ pending' = (pending \ D) \cup {next}
    /\ dropped' = dropped \cup D
    /\ UNCHANGED delivered

(* The relay gives up the messages in D (nothing new arrives).             *)
Drop(D) ==
    /\ D \subseteq pending
    /\ pending' = pending \ D
    /\ dropped' = dropped \cup D
    /\ UNCHANGED <<next, delivered>>

(* The recipient processes the messages in S; those the relay handed over  *)
(* without keeping a copy (R) stop being its responsibility.               *)
Deliver(S, R) ==
    /\ S \subseteq Accepted
    /\ R \subseteq S
    /\ delivered' = delivered \cup S
    /\ pending' = pending \ R
    /\ UNCHANGED <<next, dropped>>

(* The relay forgets messages, all of them already processed.              *)
Retire(R) ==
    /\ R \subseteq delivered
    /\ pending' = pending \ R
    /\ UNCHANGED <<next, delivered, dropped>>

Next ==
    \/ \E D \in SUBSET pending : Accept(D) \/ Drop(D)
    \/ \E S \in SUBSET Accepted : \E R \in SUBSET S : Deliver(S, R)
    \/ \E R \in SUBSET (pending \cap delivered) : Retire(R)

Spec == Init /\ [][Next]_vars

=============================================================================
