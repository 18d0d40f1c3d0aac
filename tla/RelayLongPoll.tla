--------------------------- MODULE RelayLongPoll ---------------------------
(***************************************************************************)
(* The long poll of one mailbox: fetch / fetch_leased wait on a condition   *)
(* variable that store_from signals (native/conest_relay/src/main.rs).      *)
(*                                                                          *)
(* The map RelayState.notifiers holds at most one notifier for a mailbox;   *)
(* a notifier is an Arc of a generation counter, a waiter count and a       *)
(* condition variable, cloned by every thread that uses it and removed from *)
(* the map by the last one.  Each step below is one critical section: the   *)
(* map lock, the lock of one notifier, or the database mutex.               *)
(***************************************************************************)
EXTENDS Naturals, FiniteSets

CONSTANTS
    Fetchers,       \* threads serving a long poll of the mailbox
    Storers,        \* threads serving a store to it
    Messages,       \* the messages stored
    Notifiers,      \* the notifier objects ever allocated
    None,           \* no notifier
    MaxStores       \* bound: the stores of a behaviour

ASSUME ThreadsAssumption ==
    /\ Fetchers \cap Storers = {}
    /\ IsFiniteSet(Fetchers) /\ IsFiniteSet(Storers)
    /\ None \notin Notifiers
    /\ MaxStores \in Nat

Threads == Fetchers \cup Storers

VARIABLES
    map,        \* the mailbox's entry in RelayState.notifiers, or None
    gen,        \* MailboxSignal.generation of every notifier
    waiters,    \* MailboxSignal.waiters of every notifier
    pc,         \* where every thread is
    ref,        \* the notifier a thread has a clone of, or None
    seen,       \* observed_generation of every fetcher
    ready,      \* messages in the mailbox no fetch has taken yet
    requeued,   \* messages whose lease ran out: in the mailbox again
    taken,      \* messages a fetch has leased
    stores      \* stores so far

vars == <<map, gen, waiters, pc, ref, seen, ready, requeued, taken, stores>>

FetcherPCs == {"idle", "observe", "drain", "lock", "wait", "drainAgain", "prune", "return"}
StorerPCs == {"idle", "lookup", "signal", "done"}

Goto(t, from, to) ==
    /\ pc[t] = from
    /\ pc' = [pc EXCEPT ![t] = to]

Holders(n) == {t \in Threads : ref[t] = n}

\* Arc::strong_count: the clones of the threads, and the one in the map.
StrongCount(n) == Cardinality(Holders(n)) + (IF map = n THEN 1 ELSE 0)

\* Memory of a notifier nobody refers to is free again.
Fresh == {n \in Notifiers : map # n /\ Holders(n) = {}}

-----------------------------------------------------------------------------
(* A fetch with wait_ms > 0.                                                *)

\* notifier_for, under the map lock.
NotifierFor(f) ==
    /\ Goto(f, "idle", "observe")
    /\ IF map # None
       THEN /\ ref' = [ref EXCEPT ![f] = map]
            /\ UNCHANGED <<map, gen, waiters>>
       ELSE \E n \in Fresh :
               /\ map' = n
               /\ ref' = [ref EXCEPT ![f] = n]
               /\ gen' = [gen EXCEPT ![n] = 0]
               /\ waiters' = [waiters EXCEPT ![n] = 0]
    /\ UNCHANGED <<seen, ready, requeued, taken, stores>>

Observe(f) ==
    /\ Goto(f, "observe", "drain")
    /\ seen' = [seen EXCEPT ![f] = gen[ref[f]]]
    /\ UNCHANGED <<map, gen, waiters, ref, ready, requeued, taken, stores>>

InMailbox == ready \cup requeued

\* take_queue, up to the limit asked for: one message at least if there is any.
Take(S) ==
    /\ S \subseteq InMailbox
    /\ S = {} <=> InMailbox = {}
    /\ ready' = ready \ S
    /\ requeued' = requeued \ S
    /\ taken' = taken \cup S

\* The first drain: an answer at once, or on to waiting.
Drain(f) ==
    /\ \E S \in SUBSET InMailbox :
          Take(S) /\ Goto(f, "drain", IF S = {} THEN "lock" ELSE "prune")
    /\ UNCHANGED <<map, gen, waiters, ref, seen, stores>>

\* Mutant: the generation is observed only now, after the drain.
LockObserves(f) ==
    /\ Goto(f, "lock", "wait")
    /\ seen' = [seen EXCEPT ![f] = gen[ref[f]]]
    /\ waiters' = [waiters EXCEPT ![ref[f]] = @ + 1]
    /\ UNCHANGED <<map, gen, ref, ready, requeued, taken, stores>>

\* Under the notifier's lock: a generation that moved means no wait.
Lock(f) ==
    /\ pc[f] = "lock"
    /\ IF gen[ref[f]] = seen[f]
       THEN /\ Goto(f, "lock", "wait")
            /\ waiters' = [waiters EXCEPT ![ref[f]] = @ + 1]
       ELSE Goto(f, "lock", "drainAgain") /\ UNCHANGED waiters
    /\ UNCHANGED <<map, gen, ref, seen, ready, requeued, taken, stores>>

Resume(f) ==
    /\ Goto(f, "wait", "drainAgain")
    /\ waiters' = [waiters EXCEPT ![ref[f]] = @ - 1]
    /\ UNCHANGED <<map, gen, ref, seen, ready, requeued, taken, stores>>

\* wait_timeout_while ends once the generation has moved ...
Wake(f) == Resume(f) /\ gen[ref[f]] # seen[f]

\* ... or the wait time is over.
Timeout(f) == Resume(f) /\ gen[ref[f]] = seen[f]

DrainAgain(f) ==
    /\ Goto(f, "drainAgain", "prune")
    /\ \E S \in SUBSET InMailbox : Take(S)
    /\ UNCHANGED <<map, gen, waiters, ref, seen, stores>>

\* Mutant: clones of fetchers that do not wait yet are not looked for.
RemovableUnwaited(f) == map = ref[f] /\ waiters[ref[f]] = 0

\* prune_notifier, under the map lock: the last user removes the entry.
Removable(f) ==
    /\ map = ref[f]
    /\ waiters[ref[f]] = 0
    /\ StrongCount(ref[f]) <= 2

Prune(f) ==
    /\ Goto(f, "prune", "return")
    /\ map' = IF Removable(f) THEN None ELSE map
    /\ UNCHANGED <<gen, waiters, ref, seen, ready, requeued, taken, stores>>

\* The fetch returns; only now is its own clone dropped.
Return(f) ==
    /\ Goto(f, "return", "idle")
    /\ ref' = [ref EXCEPT ![f] = None]
    /\ UNCHANGED <<map, gen, waiters, seen, ready, requeued, taken, stores>>

-----------------------------------------------------------------------------
(* The end of store_from.                                                   *)

Commit(s) ==
    /\ Goto(s, "idle", "lookup")
    /\ stores < MaxStores
    /\ \E x \in Messages \ (InMailbox \cup taken) : ready' = ready \cup {x}
    /\ stores' = stores + 1
    /\ UNCHANGED <<map, gen, waiters, ref, seen, requeued, taken>>

\* existing_notifier: a store never creates one.
Lookup(s) ==
    /\ Goto(s, "lookup", IF map = None THEN "done" ELSE "signal")
    /\ ref' = [ref EXCEPT ![s] = map]
    /\ UNCHANGED <<map, gen, waiters, seen, ready, requeued, taken, stores>>

\* Mutant: nothing to do if nobody waits.
SignalIfWaited(s) ==
    /\ Goto(s, "signal", "done")
    /\ gen' = [gen EXCEPT ![ref[s]] = IF waiters[ref[s]] > 0 THEN @ + 1 ELSE @]
    /\ UNCHANGED <<map, waiters, ref, seen, ready, requeued, taken, stores>>

Signal(s) ==
    /\ Goto(s, "signal", "done")
    /\ gen' = [gen EXCEPT ![ref[s]] = @ + 1]
    /\ UNCHANGED <<map, waiters, ref, seen, ready, requeued, taken, stores>>

Done(s) ==
    /\ Goto(s, "done", "idle")
    /\ ref' = [ref EXCEPT ![s] = None]
    /\ UNCHANGED <<map, gen, waiters, seen, ready, requeued, taken, stores>>

-----------------------------------------------------------------------------
\* A lease runs out without an acknowledgement; nobody is told.
LeaseRunsOut(x) ==
    /\ x \in taken
    /\ taken' = taken \ {x}
    /\ requeued' = requeued \cup {x}
    /\ UNCHANGED <<map, gen, waiters, pc, ref, seen, ready, stores>>

Init ==
    /\ map = None
    /\ gen = [n \in Notifiers |-> 0]
    /\ waiters = [n \in Notifiers |-> 0]
    /\ pc = [t \in Threads |-> "idle"]
    /\ ref = [t \in Threads |-> None]
    /\ seen = [f \in Fetchers |-> 0]
    /\ ready = {}
    /\ requeued = {}
    /\ taken = {}
    /\ stores = 0

FetchStep(f) ==
    \/ Observe(f) \/ Drain(f) \/ Lock(f) \/ Wake(f)
    \/ DrainAgain(f) \/ Prune(f) \/ Return(f)

StoreStep(s) == Lookup(s) \/ Signal(s) \/ Done(s)

Next ==
    \/ \E f \in Fetchers : NotifierFor(f) \/ FetchStep(f) \/ Timeout(f)
    \/ \E s \in Storers : Commit(s) \/ StoreStep(s)
    \/ \E x \in Messages : LeaseRunsOut(x)

Spec == Init /\ [][Next]_vars

\* Every thread runs; a waiting fetcher may sleep until its time is over, and
\* nothing obliges a client to poll or to store.
FairSpec ==
    /\ Spec
    /\ \A f \in Fetchers : WF_vars(FetchStep(f))
    /\ \A s \in Storers : WF_vars(StoreStep(s))

-----------------------------------------------------------------------------
(* Properties.                                                              *)

(* Every variable stays in its type, the waiter count the code decrements   *)
(* included; a fetcher in use of a notifier, and a store about to signal    *)
(* one, have a clone of it, and no observed generation is ahead of it.      *)
Using(f) == pc[f] \in {"observe", "drain", "lock", "wait", "drainAgain", "prune"}

TypeOK ==
    /\ map \in Notifiers \cup {None}
    /\ gen \in [Notifiers -> Nat]
    /\ waiters \in [Notifiers -> Nat]
    /\ pc \in [Threads -> FetcherPCs \cup StorerPCs]
    /\ ref \in [Threads -> Notifiers \cup {None}]
    /\ seen \in [Fetchers -> Nat]
    /\ ready \subseteq Messages
    /\ requeued \subseteq Messages
    /\ taken \subseteq Messages
    /\ stores \in 0 .. MaxStores
    /\ \A f \in Fetchers :
          /\ pc[f] \in FetcherPCs
          /\ Using(f) => ref[f] \in Notifiers
          /\ Using(f) /\ pc[f] # "observe" => seen[f] <= gen[ref[f]]
    /\ \A s \in Storers :
          /\ pc[s] \in StorerPCs
          /\ pc[s] = "signal" => ref[s] \in Notifiers

(* All long polls of a mailbox, from notifier_for to the prune, share the   *)
(* notifier that is in the map, and so does every store that holds one: a   *)
(* store reaches them all, and none is left behind with a notifier no store *)
(* can find any more.  It is why prune_notifier counts clones.              *)
SharedNotifier ==
    /\ \A f \in Fetchers : Using(f) => ref[f] = map
    /\ \A s \in Storers : ref[s] \in {map, None}

(* No lost wakeup: while a fetcher waits (or is about to) with the          *)
(* generation it observed, a message that arrived is always accompanied by  *)
(* a store that has yet to look the notifier up, or to raise its            *)
(* generation; the drain-before-wait race the generation is there for.      *)
Asleep(f) == pc[f] \in {"lock", "wait"} /\ gen[ref[f]] = seen[f]

WillSignal(s, n) ==
    \/ pc[s] = "lookup" /\ map = n
    \/ pc[s] = "signal" /\ ref[s] = n

NoLostWakeup ==
    \A f \in Fetchers :
        Asleep(f) /\ ready # {} => \E s \in Storers : WillSignal(s, ref[f])

(* waiters counts the fetchers inside wait_timeout_while, so that prune and *)
(* wait agree on who is still there.                                        *)
WaitersExact ==
    \A n \in Notifiers :
        waiters[n] = Cardinality({f \in Fetchers : pc[f] = "wait" /\ ref[f] = n})

(* A message that arrives while a fetcher waits wakes it, without help of   *)
(* the timeout.                                                             *)
ArrivalWakes ==
    \A f \in Fetchers : Asleep(f) /\ ready # {} ~> ~Asleep(f)

=============================================================================
