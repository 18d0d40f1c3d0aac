------------------------ MODULE RelayServiceProofs -------------------------
(***************************************************************************)
(* Proofs about how the relay serves requests.                              *)
(*                                                                          *)
(* RelayLongPoll, for any number of fetchers, storers and messages: no      *)
(* wakeup is lost.  The invariant needs SharedNotifier (the waiting         *)
(* fetcher's notifier is the one a store finds), which in turn needs the    *)
(* clone count of prune_notifier.                                           *)
(*                                                                          *)
(* RelayLimits, for any budgets and any number of workers: a budget of      *)
(* fixed minutes bounds every minute, and bans last.  The invariant ties    *)
(* each bucket to the ages of the admissions it stands for.                 *)
(***************************************************************************)
EXTENDS RelayLongPoll, RelayLimits, InductionTheorems, TLAPS

IInv == TypeOK /\ SharedNotifier /\ WaitersExact /\ NoLostWakeup

(* When prune_notifier removes the entry, the pruning fetcher is the only   *)
(* thread with a clone of it.                                               *)
LEMMA LastUser ==
    ASSUME TypeOK, NEW f \in Fetchers, ref[f] \in Notifiers, Removable(f)
    PROVE  \A t \in Threads : ref[t] = ref[f] => t = f
<1> DEFINE H == Holders(ref[f])
<1>1. IsFiniteSet(Threads)
  BY ThreadsAssumption, FS_Union DEF Threads
<1>2. H \subseteq Threads /\ f \in H
  BY DEF Holders, Threads
<1>3. IsFiniteSet(H) /\ Cardinality(H) \in Nat
  BY <1>1, <1>2, FS_Subset, FS_CardinalityType
<1>4. Cardinality(H) <= 1
  BY <1>3 DEF Removable, StrongCount
<1>5. Cardinality(H) # 0
  BY <1>2, <1>3, FS_EmptySet
<1>6. Cardinality(H) = 1
  BY <1>3, <1>4, <1>5
<1>7. \E x : H = {x}
  BY <1>3, <1>6, FS_Singleton
<1>8. QED
  BY <1>2, <1>7 DEF Holders

Waiting(n) == {f \in Fetchers : pc[f] = "wait" /\ ref[f] = n}

LEMMA WaitingFinite ==
    ASSUME NEW n
    PROVE  IsFiniteSet(Waiting(n)) /\ Cardinality(Waiting(n)) \in Nat
<1>1. IsFiniteSet(Fetchers) /\ Waiting(n) \subseteq Fetchers
  BY ThreadsAssumption DEF Waiting
<1>2. QED
  BY <1>1, FS_Subset, FS_CardinalityType

(* A step that moves no thread into or out of a wait, and resets no waiter  *)
(* count but a zero one, keeps the counts exact.                            *)
LEMMA WaitersKept ==
    ASSUME WaitersExact, waiters' = waiters,
           \A f \in Fetchers : (pc'[f] = "wait") <=> (pc[f] = "wait"),
           \A f \in Fetchers : pc[f] = "wait" => ref'[f] = ref[f]
    PROVE  WaitersExact'
<1>1. ASSUME NEW n \in Notifiers
      PROVE  waiters'[n] = Cardinality({f \in Fetchers : pc'[f] = "wait" /\ ref'[f] = n})
  <2>1. {f \in Fetchers : pc'[f] = "wait" /\ ref'[f] = n}
           = {f \in Fetchers : pc[f] = "wait" /\ ref[f] = n}
    OBVIOUS
  <2>2. QED
    BY <2>1 DEF WaitersExact
<1>2. QED
  BY <1>1 DEF WaitersExact

LEMMA InitIInv == Init => IInv
<1> SUFFICES ASSUME Init PROVE IInv
  OBVIOUS
<1>1. TypeOK
  BY ThreadsAssumption DEF Init, TypeOK, Threads, FetcherPCs, StorerPCs, Using
<1>2. SharedNotifier
  BY DEF Init, SharedNotifier, Using, Threads
<1>3. WaitersExact
  <2>1. \A n \in Notifiers : {f \in Fetchers : pc[f] = "wait" /\ ref[f] = n} = {}
    BY DEF Init, Threads
  <2>2. QED
    BY <2>1, FS_EmptySet DEF Init, WaitersExact
<1>4. NoLostWakeup
  BY DEF Init, NoLostWakeup
<1>5. QED
  BY <1>1, <1>2, <1>3, <1>4 DEF IInv

LEMMA NotifierForStep ==
    ASSUME IInv, NEW f \in Fetchers, NotifierFor(f)
    PROVE  IInv'
<1> USE DEF IInv
<1>1. CASE map # None
  <2>1. /\ pc' = [pc EXCEPT ![f] = "observe"] /\ pc[f] = "idle"
        /\ ref' = [ref EXCEPT ![f] = map]
        /\ UNCHANGED <<map, gen, waiters, seen, ready, requeued, taken, stores>>
    BY <1>1 DEF NotifierFor, Goto
  <2>2. TypeOK'
    BY <1>1, <2>1, ThreadsAssumption DEF TypeOK, Threads, FetcherPCs, StorerPCs, Using
  <2>3. SharedNotifier'
    BY <2>1, ThreadsAssumption DEF TypeOK, Threads, SharedNotifier, Using
  <2>4. WaitersExact'
    BY <2>1, WaitersKept DEF TypeOK, Threads
  <2>5. NoLostWakeup'
    BY <2>1, ThreadsAssumption DEF TypeOK, Threads, NoLostWakeup, Asleep, WillSignal
  <2>6. QED
    BY <2>2, <2>3, <2>4, <2>5
<1>2. CASE map = None
  <2>1. PICK n \in Fresh :
           /\ map' = n
           /\ ref' = [ref EXCEPT ![f] = n]
           /\ gen' = [gen EXCEPT ![n] = 0]
           /\ waiters' = [waiters EXCEPT ![n] = 0]
    BY <1>2 DEF NotifierFor
  <2>2. /\ pc' = [pc EXCEPT ![f] = "observe"] /\ pc[f] = "idle"
        /\ UNCHANGED <<seen, ready, requeued, taken, stores>>
    BY DEF NotifierFor, Goto
  <2>3. n \in Notifiers /\ n # None /\ \A t \in Threads : ref[t] # n
    BY ThreadsAssumption DEF Fresh, Holders
  \* Nobody else is using a notifier: they all would be using None.
  <2>4. /\ \A g \in Fetchers : ~Using(g)
        /\ \A s \in Storers : ref[s] = None
    BY <1>2, ThreadsAssumption DEF TypeOK, SharedNotifier
  <2>5. TypeOK'
    BY <2>1, <2>2, <2>3, <2>4, ThreadsAssumption
       DEF TypeOK, Threads, FetcherPCs, StorerPCs, Using
  <2>6. SharedNotifier'
    BY <2>1, <2>2, <2>4, ThreadsAssumption DEF TypeOK, Threads, SharedNotifier, Using
  <2>7. WaitersExact'
    <3>1. ASSUME NEW k \in Notifiers
          PROVE  waiters'[k] = Cardinality({g \in Fetchers : pc'[g] = "wait" /\ ref'[g] = k})
      <4>1. \A g \in Fetchers : pc[g] # "wait" /\ pc'[g] # "wait"
        BY <2>2, <2>4 DEF Using, TypeOK, Threads
      <4>2. /\ {g \in Fetchers : pc'[g] = "wait" /\ ref'[g] = k} = {}
            /\ {g \in Fetchers : pc[g] = "wait" /\ ref[g] = k} = {}
        BY <4>1
      <4>3. waiters[k] = 0
        BY <4>2, FS_EmptySet DEF WaitersExact
      <4>4. waiters'[k] = 0
        BY <2>1, <4>3 DEF TypeOK
      <4>5. QED
        BY <4>2, <4>4, FS_EmptySet
    <3>2. QED
      BY <3>1 DEF WaitersExact
  <2>8. NoLostWakeup'
    BY <2>2, <2>4, ThreadsAssumption DEF TypeOK, Threads, NoLostWakeup, Asleep, Using
  <2>9. QED
    BY <2>5, <2>6, <2>7, <2>8
<1>3. QED
  BY <1>1, <1>2

(* The remaining steps of a fetch.                                          *)
LEMMA ObserveStep ==
    ASSUME IInv, NEW f \in Fetchers, Observe(f)
    PROVE  IInv'
<1> USE DEF IInv
<1>1. /\ pc[f] = "observe" /\ pc' = [pc EXCEPT ![f] = "drain"]
      /\ seen' = [seen EXCEPT ![f] = gen[ref[f]]]
      /\ UNCHANGED <<map, gen, waiters, ref, ready, requeued, taken, stores>>
  BY DEF Observe, Goto
<1>2. TypeOK'
  BY <1>1, ThreadsAssumption DEF TypeOK, Threads, FetcherPCs, StorerPCs, Using
<1>3. SharedNotifier'
  BY <1>1, ThreadsAssumption DEF TypeOK, Threads, SharedNotifier, Using, FetcherPCs
<1>4. WaitersExact'
  BY <1>1, WaitersKept, ThreadsAssumption DEF TypeOK, Threads
<1>5. NoLostWakeup'
  BY <1>1, ThreadsAssumption
     DEF TypeOK, Threads, SharedNotifier, NoLostWakeup, Asleep, WillSignal, Using
<1>6. QED
  BY <1>2, <1>3, <1>4, <1>5

LEMMA DrainStep ==
    ASSUME IInv, NEW f \in Fetchers, Drain(f)
    PROVE  IInv'
<1> USE DEF IInv
<1>1. PICK S \in SUBSET InMailbox :
         Take(S) /\ Goto(f, "drain", IF S = {} THEN "lock" ELSE "prune")
  BY DEF Drain
<1>2. /\ pc[f] = "drain"
      /\ pc' = [pc EXCEPT ![f] = IF S = {} THEN "lock" ELSE "prune"]
      /\ UNCHANGED <<map, gen, waiters, ref, seen, stores>>
  BY <1>1 DEF Drain, Goto
<1>3. /\ ready' \subseteq ready /\ requeued' \subseteq requeued
      /\ taken' \subseteq Messages
      /\ S = {} => ready' = {}
  BY <1>1 DEF Take, InMailbox, TypeOK
<1>4. TypeOK'
  BY <1>2, <1>3, ThreadsAssumption DEF TypeOK, Threads, FetcherPCs, StorerPCs, Using
<1>5. SharedNotifier'
  BY <1>2, ThreadsAssumption DEF TypeOK, Threads, SharedNotifier, Using
<1>6. WaitersExact'
  BY <1>2, WaitersKept, ThreadsAssumption DEF TypeOK, Threads
\* A fetcher goes to wait only after it found the mailbox empty.
<1>7. NoLostWakeup'
  BY <1>2, <1>3, ThreadsAssumption
     DEF TypeOK, Threads, SharedNotifier, NoLostWakeup, Asleep, WillSignal
<1>8. QED
  BY <1>4, <1>5, <1>6, <1>7

LEMMA LockStep ==
    ASSUME IInv, NEW f \in Fetchers, Lock(f)
    PROVE  IInv'
<1> USE DEF IInv
<1>1. CASE gen[ref[f]] # seen[f]
  <2>1. /\ pc[f] = "lock" /\ pc' = [pc EXCEPT ![f] = "drainAgain"]
        /\ UNCHANGED <<map, gen, waiters, ref, seen, ready, requeued, taken, stores>>
    BY <1>1 DEF Lock, Goto
  <2>2. TypeOK'
    BY <2>1, ThreadsAssumption DEF TypeOK, Threads, FetcherPCs, StorerPCs, Using
  <2>3. SharedNotifier'
    BY <2>1, ThreadsAssumption DEF TypeOK, Threads, SharedNotifier, Using
  <2>4. WaitersExact'
    BY <2>1, WaitersKept, ThreadsAssumption DEF TypeOK, Threads
  <2>5. NoLostWakeup'
    BY <2>1, ThreadsAssumption DEF TypeOK, Threads, NoLostWakeup, Asleep, WillSignal
  <2>6. QED
    BY <2>2, <2>3, <2>4, <2>5
<1>2. CASE gen[ref[f]] = seen[f]
  <2>1. /\ pc[f] = "lock" /\ pc' = [pc EXCEPT ![f] = "wait"]
        /\ waiters' = [waiters EXCEPT ![ref[f]] = @ + 1]
        /\ UNCHANGED <<map, gen, ref, seen, ready, requeued, taken, stores>>
    BY <1>2 DEF Lock, Goto
  <2>2. ref[f] \in Notifiers
    BY <2>1 DEF TypeOK, Using
  <2>3. TypeOK'
    <3>1. waiters' \in [Notifiers -> Nat]
      BY <2>1, <2>2 DEF TypeOK
    <3>2. QED
      BY <2>1, <3>1, ThreadsAssumption DEF TypeOK, Threads, FetcherPCs, StorerPCs, Using
  <2>4. SharedNotifier'
    BY <2>1, ThreadsAssumption DEF TypeOK, Threads, SharedNotifier, Using
  <2>5. WaitersExact'
    <3>1. ASSUME NEW n \in Notifiers
          PROVE  waiters'[n] = Cardinality(Waiting(n)')
      <4>1. CASE n = ref[f]
        <5>1. Waiting(n)' = Waiting(n) \cup {f} /\ f \notin Waiting(n)
          BY <2>1, <4>1 DEF Waiting, TypeOK, Threads
        <5>2. Cardinality(Waiting(n)') = Cardinality(Waiting(n)) + 1
          BY <5>1, WaitingFinite, FS_AddElement
        <5>3. QED
          BY <2>1, <4>1, <5>2 DEF TypeOK, WaitersExact, Waiting
      <4>2. CASE n # ref[f]
        <5>1. Waiting(n)' = Waiting(n)
          BY <2>1, <4>2 DEF Waiting, TypeOK, Threads
        <5>2. QED
          BY <2>1, <4>2, <5>1 DEF TypeOK, WaitersExact, Waiting
      <4>3. QED
        BY <4>1, <4>2
    <3>2. QED
      BY <3>1 DEF WaitersExact, Waiting
  <2>6. NoLostWakeup'
    BY <2>1, ThreadsAssumption DEF TypeOK, Threads, NoLostWakeup, Asleep, WillSignal
  <2>7. QED
    BY <2>3, <2>4, <2>5, <2>6
<1>3. QED
  BY <1>1, <1>2

LEMMA ResumeStep ==
    ASSUME IInv, NEW f \in Fetchers, Resume(f)
    PROVE  IInv'
<1> USE DEF IInv
<1>1. /\ pc[f] = "wait" /\ pc' = [pc EXCEPT ![f] = "drainAgain"]
      /\ waiters' = [waiters EXCEPT ![ref[f]] = @ - 1]
      /\ UNCHANGED <<map, gen, ref, seen, ready, requeued, taken, stores>>
  BY DEF Resume, Goto
<1>2. ref[f] \in Notifiers
  BY <1>1 DEF TypeOK, Using
\* The fetcher is among those counted: the count is not zero.
<1>3. /\ f \in Waiting(ref[f])
      /\ waiters[ref[f]] = Cardinality(Waiting(ref[f]))
      /\ Cardinality(Waiting(ref[f])) # 0
  <2>1. f \in Waiting(ref[f]) /\ waiters[ref[f]] = Cardinality(Waiting(ref[f]))
    BY <1>1, <1>2 DEF Waiting, WaitersExact
  <2>2. QED
    BY <2>1, WaitingFinite, FS_EmptySet
<1>4. TypeOK'
  <2>1. waiters' \in [Notifiers -> Nat]
    BY <1>1, <1>2, <1>3 DEF TypeOK
  <2>2. QED
    BY <1>1, <2>1, ThreadsAssumption DEF TypeOK, Threads, FetcherPCs, StorerPCs, Using
<1>5. SharedNotifier'
  BY <1>1, ThreadsAssumption DEF TypeOK, Threads, SharedNotifier, Using
<1>6. WaitersExact'
  <2>1. ASSUME NEW n \in Notifiers
        PROVE  waiters'[n] = Cardinality(Waiting(n)')
    <3>1. CASE n = ref[f]
      <4>1. Waiting(n)' = Waiting(n) \ {f}
        BY <1>1, <3>1 DEF Waiting, TypeOK, Threads
      <4>2. Cardinality(Waiting(n)') = Cardinality(Waiting(n)) - 1
        <5>1. IsFiniteSet(Waiting(n)) /\ f \in Waiting(n)
          BY <1>3, <3>1, WaitingFinite
        <5>2. Cardinality(Waiting(n) \ {f}) = Cardinality(Waiting(n)) - 1
          BY <5>1, FS_RemoveElement
        <5>3. QED
          BY <4>1, <5>2
      <4>3. QED
        BY <1>1, <1>3, <3>1, <4>2 DEF TypeOK
    <3>2. CASE n # ref[f]
      <4>1. Waiting(n)' = Waiting(n)
        BY <1>1, <3>2 DEF Waiting, TypeOK, Threads
      <4>2. QED
        BY <1>1, <3>2, <4>1 DEF TypeOK, WaitersExact, Waiting
    <3>3. QED
      BY <3>1, <3>2
  <2>2. QED
    BY <2>1 DEF WaitersExact, Waiting
<1>7. NoLostWakeup'
  BY <1>1, ThreadsAssumption DEF TypeOK, Threads, NoLostWakeup, Asleep, WillSignal
<1>8. QED
  BY <1>4, <1>5, <1>6, <1>7

LEMMA DrainAgainStep ==
    ASSUME IInv, NEW f \in Fetchers, DrainAgain(f)
    PROVE  IInv'
<1> USE DEF IInv
<1>1. /\ pc[f] = "drainAgain" /\ pc' = [pc EXCEPT ![f] = "prune"]
      /\ UNCHANGED <<map, gen, waiters, ref, seen, stores>>
      /\ ready' \subseteq ready /\ requeued' \subseteq requeued
      /\ taken' \subseteq Messages
  BY DEF DrainAgain, Goto, Take, InMailbox, TypeOK
<1>2. TypeOK'
  BY <1>1, ThreadsAssumption DEF TypeOK, Threads, FetcherPCs, StorerPCs, Using
<1>3. SharedNotifier'
  BY <1>1, ThreadsAssumption DEF TypeOK, Threads, SharedNotifier, Using
<1>4. WaitersExact'
  BY <1>1, WaitersKept, ThreadsAssumption DEF TypeOK, Threads
<1>5. NoLostWakeup'
  BY <1>1, ThreadsAssumption
     DEF TypeOK, Threads, SharedNotifier, NoLostWakeup, Asleep, WillSignal
<1>6. QED
  BY <1>2, <1>3, <1>4, <1>5

LEMMA PruneStep ==
    ASSUME IInv, NEW f \in Fetchers, Prune(f)
    PROVE  IInv'
<1> USE DEF IInv
<1>1. /\ pc[f] = "prune" /\ pc' = [pc EXCEPT ![f] = "return"]
      /\ map' = IF Removable(f) THEN None ELSE map
      /\ UNCHANGED <<gen, waiters, ref, seen, ready, requeued, taken, stores>>
  BY DEF Prune, Goto
\* If the entry goes, every other fetcher is done with it and no store has it.
<1>2. Removable(f) => /\ \A g \in Fetchers \ {f} : ~Using(g)
                      /\ \A s \in Storers : ref[s] = None
  <2>1. ref[f] = map /\ ref[f] \in Notifiers
    BY <1>1 DEF TypeOK, SharedNotifier, Using
  <2>2. QED
    BY <2>1, LastUser, ThreadsAssumption DEF SharedNotifier, Threads
<1>3. TypeOK'
  BY <1>1, ThreadsAssumption DEF TypeOK, Threads, FetcherPCs, StorerPCs, Using
<1>4. SharedNotifier'
  BY <1>1, <1>2, ThreadsAssumption DEF TypeOK, Threads, SharedNotifier, Using
<1>5. WaitersExact'
  BY <1>1, WaitersKept, ThreadsAssumption DEF TypeOK, Threads
<1>6. NoLostWakeup'
  BY <1>1, <1>2, ThreadsAssumption
     DEF TypeOK, Threads, NoLostWakeup, Asleep, WillSignal, Using
<1>7. QED
  BY <1>3, <1>4, <1>5, <1>6

LEMMA ReturnStep ==
    ASSUME IInv, NEW f \in Fetchers, Return(f)
    PROVE  IInv'
<1> USE DEF IInv
<1>1. /\ pc[f] = "return" /\ pc' = [pc EXCEPT ![f] = "idle"]
      /\ ref' = [ref EXCEPT ![f] = None]
      /\ UNCHANGED <<map, gen, waiters, seen, ready, requeued, taken, stores>>
  BY DEF Return, Goto
<1>2. TypeOK'
  BY <1>1, ThreadsAssumption DEF TypeOK, Threads, FetcherPCs, StorerPCs, Using
<1>3. SharedNotifier'
  BY <1>1, ThreadsAssumption DEF TypeOK, Threads, SharedNotifier, Using, FetcherPCs
<1>4. WaitersExact'
  BY <1>1, WaitersKept, ThreadsAssumption DEF TypeOK, Threads
<1>5. NoLostWakeup'
  BY <1>1, ThreadsAssumption
     DEF TypeOK, Threads, SharedNotifier, NoLostWakeup, Asleep, WillSignal, Using
<1>6. QED
  BY <1>2, <1>3, <1>4, <1>5

(* The steps of a store.                                                    *)
LEMMA CommitStep ==
    ASSUME IInv, NEW s \in Storers, Commit(s)
    PROVE  IInv'
<1> USE DEF IInv
<1>1. /\ pc[s] = "idle" /\ pc' = [pc EXCEPT ![s] = "lookup"]
      /\ ready' \subseteq Messages /\ stores' = stores + 1 /\ stores < MaxStores
      /\ UNCHANGED <<map, gen, waiters, ref, seen, requeued, taken>>
  BY DEF Commit, Goto, TypeOK
<1>2. TypeOK'
  <2>1. stores' \in 0 .. MaxStores
    BY <1>1, ThreadsAssumption DEF TypeOK
  <2>2. QED
    BY <1>1, <2>1, ThreadsAssumption DEF TypeOK, Threads, FetcherPCs, StorerPCs, Using
<1>3. SharedNotifier'
  BY <1>1, ThreadsAssumption DEF TypeOK, Threads, SharedNotifier, Using
<1>4. WaitersExact'
  BY <1>1, WaitersKept, ThreadsAssumption DEF TypeOK, Threads
\* The store that made the mailbox non-empty has yet to look the notifier up.
<1>5. NoLostWakeup'
  BY <1>1, ThreadsAssumption
     DEF TypeOK, Threads, SharedNotifier, NoLostWakeup, Asleep, WillSignal, Using
<1>6. QED
  BY <1>2, <1>3, <1>4, <1>5

LEMMA LookupStep ==
    ASSUME IInv, NEW s \in Storers, Lookup(s)
    PROVE  IInv'
<1> USE DEF IInv
<1>1. /\ pc[s] = "lookup" /\ pc' = [pc EXCEPT ![s] = IF map = None THEN "done" ELSE "signal"]
      /\ ref' = [ref EXCEPT ![s] = map]
      /\ UNCHANGED <<map, gen, waiters, seen, ready, requeued, taken, stores>>
  BY DEF Lookup, Goto
<1>2. TypeOK'
  BY <1>1, ThreadsAssumption DEF TypeOK, Threads, FetcherPCs, StorerPCs, Using
<1>3. SharedNotifier'
  BY <1>1, ThreadsAssumption DEF TypeOK, Threads, SharedNotifier, Using, FetcherPCs
<1>4. WaitersExact'
  BY <1>1, WaitersKept, ThreadsAssumption DEF TypeOK, Threads
<1>5. NoLostWakeup'
  BY <1>1, ThreadsAssumption
     DEF TypeOK, Threads, SharedNotifier, NoLostWakeup, Asleep, WillSignal, Using
<1>6. QED
  BY <1>2, <1>3, <1>4, <1>5

LEMMA SignalStep ==
    ASSUME IInv, NEW s \in Storers, Signal(s)
    PROVE  IInv'
<1> USE DEF IInv
<1>1. /\ pc[s] = "signal" /\ pc' = [pc EXCEPT ![s] = "done"]
      /\ gen' = [gen EXCEPT ![ref[s]] = @ + 1]
      /\ UNCHANGED <<map, waiters, ref, seen, ready, requeued, taken, stores>>
  BY DEF Signal, Goto
<1>2. TypeOK'
  BY <1>1, ThreadsAssumption DEF TypeOK, Threads, FetcherPCs, StorerPCs, Using
<1>3. SharedNotifier'
  BY <1>1, ThreadsAssumption DEF TypeOK, Threads, SharedNotifier, Using, FetcherPCs
<1>4. WaitersExact'
  BY <1>1, WaitersKept, ThreadsAssumption DEF TypeOK, Threads
<1>5. NoLostWakeup'
  BY <1>1, ThreadsAssumption
     DEF TypeOK, Threads, SharedNotifier, NoLostWakeup, Asleep, WillSignal, Using
<1>6. QED
  BY <1>2, <1>3, <1>4, <1>5

LEMMA DoneStep ==
    ASSUME IInv, NEW s \in Storers, Done(s)
    PROVE  IInv'
<1> USE DEF IInv
<1>1. /\ pc[s] = "done" /\ pc' = [pc EXCEPT ![s] = "idle"]
      /\ ref' = [ref EXCEPT ![s] = None]
      /\ UNCHANGED <<map, gen, waiters, seen, ready, requeued, taken, stores>>
  BY DEF Done, Goto
<1>2. TypeOK'
  BY <1>1, ThreadsAssumption DEF TypeOK, Threads, FetcherPCs, StorerPCs, Using
<1>3. SharedNotifier'
  BY <1>1, ThreadsAssumption DEF TypeOK, Threads, SharedNotifier, Using, FetcherPCs
<1>4. WaitersExact'
  BY <1>1, WaitersKept, ThreadsAssumption DEF TypeOK, Threads
<1>5. NoLostWakeup'
  BY <1>1, ThreadsAssumption
     DEF TypeOK, Threads, SharedNotifier, NoLostWakeup, Asleep, WillSignal, Using
<1>6. QED
  BY <1>2, <1>3, <1>4, <1>5

LEMMA LeaseStep ==
    ASSUME IInv, NEW x \in Messages, LeaseRunsOut(x)
    PROVE  IInv'
<1> USE DEF IInv
<1>1. /\ UNCHANGED <<map, gen, waiters, pc, ref, seen, ready, stores>>
      /\ taken' \subseteq Messages /\ requeued' \subseteq Messages
  BY DEF LeaseRunsOut, TypeOK
<1>2. TypeOK'
  BY <1>1 DEF TypeOK, Using
<1>3. SharedNotifier' /\ WaitersExact' /\ NoLostWakeup'
  BY <1>1 DEF SharedNotifier, WaitersExact, NoLostWakeup, Asleep, WillSignal, Using
<1>4. QED
  BY <1>2, <1>3

LEMMA NextIInv == IInv /\ [Next]_vars => IInv'
<1> SUFFICES ASSUME IInv, [Next]_vars PROVE IInv'
  OBVIOUS
<1>1. CASE UNCHANGED vars
  BY <1>1 DEF vars, IInv, TypeOK, SharedNotifier, WaitersExact, NoLostWakeup,
              Asleep, WillSignal, Using
<1>2. ASSUME NEW f \in Fetchers, NotifierFor(f) \/ FetchStep(f) \/ Timeout(f)
      PROVE  IInv'
  BY <1>2, NotifierForStep, ObserveStep, DrainStep, LockStep, ResumeStep,
     DrainAgainStep, PruneStep, ReturnStep DEF FetchStep, Wake, Timeout
<1>3. ASSUME NEW s \in Storers, Commit(s) \/ StoreStep(s)
      PROVE  IInv'
  BY <1>3, CommitStep, LookupStep, SignalStep, DoneStep DEF StoreStep
<1>4. QED
  BY <1>1, <1>2, <1>3, LeaseStep DEF Next

(* The inductive invariant of the long poll.                                *)
THEOREM Invariance == Spec => []IInv
  BY InitIInv, NextIInv, PTL DEF Spec

(* Type correctness: the waiter count never underflows.                     *)
THEOREM TypeCorrect == Spec => []TypeOK
<1>1. IInv => TypeOK
  BY DEF IInv
<1>2. QED
  BY <1>1, Invariance, PTL

(* Every long poll in progress is reachable through the map.                *)
THEOREM NotifierIsShared == Spec => []SharedNotifier
<1>1. IInv => SharedNotifier
  BY DEF IInv
<1>2. QED
  BY <1>1, Invariance, PTL

(* The waiter counts are exact.                                             *)
THEOREM WaitersAreExact == Spec => []WaitersExact
<1>1. IInv => WaitersExact
  BY DEF IInv
<1>2. QED
  BY <1>1, Invariance, PTL

(* No arrival between the drain and the wait is slept through.              *)
THEOREM WakeupsAreNotLost == Spec => []NoLostWakeup
<1>1. IInv => NoLostWakeup
  BY DEF IInv
<1>2. QED
  BY <1>1, Invariance, PTL

-----------------------------------------------------------------------------
(***************************************************************************)
(* Request limits.                                                          *)
(***************************************************************************)

LEMMA LimitTypes ==
    /\ Window \in Nat /\ ClockLag \in Nat /\ ClockLag < Window
    /\ MaxRequests \in Nat /\ MaxRateKeys \in Nat /\ MaxTime \in Nat /\ MaxTime > 0
    /\ BanThreshold \in Nat /\ BanDuration \in Nat /\ PruneInterval \in Nat
    /\ MaxMailboxRate \in Nat /\ MaxStoresPerMinute \in Nat /\ MaxStoreBytes \in Nat
    /\ Span = Window - ClockLag /\ Span \in Nat /\ Span > 0
  BY LimitsAssumption DEF Span

Ages == 0 .. Span

LEMMA AgesFinite == \A k \in Ages : IsFiniteSet(0 .. k) /\ IsFiniteSet(1 .. k) /\ 0 .. k \in SUBSET Ages
<1>1. \A k \in Ages : k \in Int /\ k <= Span /\ k >= 0
  BY LimitTypes DEF Ages
<1>2. \A k \in Ages : IsFiniteSet(0 .. k) /\ IsFiniteSet(1 .. k)
  BY <1>1, FS_Interval
<1>3. \A k \in Ages : 0 .. k \in SUBSET Ages
  BY LimitTypes DEF Ages
<1>4. QED
  BY <1>2, <1>3

(* How the bucket b of a peer and the ages a of its admissions go together  *)
(* at time n.  A request is admitted at most ClockLag after its clock value *)
(* was read, so the admissions of earlier minutes lie before                *)
(* b.started + ClockLag, and none before or in this one lies after its end  *)
(* plus ClockLag.  When a minute is over, its own are all Span can hold.    *)
Budget(n, b, a) ==
    IF b = NoEntry THEN \A i \in Ages : a[i] = 0
    ELSE /\ b.count <= MaxRequests
         /\ b.started <= n
         /\ Total(a, Ages) <= MaxRequests + b.count
         /\ \A k \in Ages :
               k + b.started + ClockLag <= n => Total(a, 0 .. k) <= b.count
         /\ \A i \in Ages :
               a[i] > 0 => n < b.started + Window + ClockLag + i

LEMMA NoEntryApart ==
    NoEntry \notin BanEntry /\ NoEntry \notin RateBucket /\ NoEntry \notin StoreWindow
    /\ NoEntry \notin [started : Times, used : Nat]
  BY DEF NoEntry, BanEntry, RateBucket, StoreWindow

(* One more admission now adds one to each total that reaches back from now.*)
LEMMA TotalAdmit ==
    ASSUME NEW a \in [Ages -> Nat], NEW k \in Ages
    PROVE  Total([a EXCEPT ![0] = @ + 1], 0 .. k) <= Total(a, 0 .. k) + 1
<1> DEFINE c == [a EXCEPT ![0] = @ + 1]
           S == 1 .. k
<1>1. 0 .. k = S \cup {0} /\ 0 \notin S /\ IsFiniteSet(S) /\ S \in SUBSET Ages /\ 0 \in Ages
  BY AgesFinite, LimitTypes DEF Ages
<1>2. /\ \A x \in Ages : a[x] \in Nat /\ c[x] \in Nat
      /\ c[0] = a[0] + 1 /\ \A x \in S : c[x] = a[x]
  BY <1>1
<1> HIDE DEF c, S
<1>3. Total(c, S \cup {0}) = Total(c, S) + c[0]
  BY <1>1, <1>2, TotalAdd
<1>4. Total(a, S \cup {0}) = Total(a, S) + a[0]
  BY <1>1, <1>2, TotalAdd
<1>5. Total(c, S) <= Total(a, S)
  <2>1. \A x \in S : c[x] \in Nat /\ c[x] <= a[x]
    BY <1>1, <1>2
  <2>2. \A x \in S : a[x] \in Nat
    BY <1>1, <1>2
  <2>3. S \in SUBSET S
    OBVIOUS
  <2>4. QED
    BY <1>1, <2>1, <2>2, <2>3, TotalSubset
<1>6. Total(c, S) \in Nat /\ Total(a, S) \in Nat
  <2>1. (\A x \in S : a[x] \in Nat) /\ (\A x \in S : c[x] \in Nat)
    BY <1>1, <1>2
  <2>2. QED
    BY <1>1, <2>1, TotalType
<1>7. a[0] \in Nat
  BY <1>1, <1>2
<1>8. Total(c, S \cup {0}) <= Total(a, S \cup {0}) + 1
  BY <1>2, <1>3, <1>4, <1>5, <1>6, <1>7
<1>9. QED
  BY <1>1, <1>8 DEF c

(* A tick makes every admission one older and forgets the oldest.           *)
Aged(a) == [age \in Ages |-> IF age = 0 THEN 0 ELSE a[age - 1]]

LEMMA TotalAged ==
    ASSUME NEW a \in [Ages -> Nat], NEW k \in Ages
    PROVE  /\ Aged(a) \in [Ages -> Nat]
           /\ k = 0 => Total(Aged(a), 0 .. k) = 0
           /\ k > 0 => Total(Aged(a), 0 .. k) <= Total(a, 0 .. (k - 1))
<1> DEFINE c == Aged(a)
           S == 1 .. k
<1>1. 0 .. k = S \cup {0} /\ 0 \notin S /\ IsFiniteSet(S) /\ S \in SUBSET Ages /\ 0 \in Ages
  BY AgesFinite, LimitTypes DEF Ages
<1>2. /\ c \in [Ages -> Nat]
      /\ c[0] = 0 /\ \A x \in S : c[x] = a[x - 1] /\ x - 1 \in Ages
  <2>1. \A x \in Ages : x # 0 => x - 1 \in Ages
    BY LimitTypes DEF Ages
  <2>2. c \in [Ages -> Nat] /\ c[0] = 0
    BY <1>1, <2>1 DEF Aged
  <2>3. ASSUME NEW x \in S
        PROVE  c[x] = a[x - 1] /\ x - 1 \in Ages
    <3>1. x \in Ages /\ x # 0
      BY <1>1
    <3>2. QED
      BY <2>1, <3>1 DEF Aged
  <2> HIDE DEF c
  <2>4. QED
    BY <2>2, <2>3
<1> HIDE DEF c
<1>3. CASE k = 0
  <2>1. \A x \in 0 .. k : x = 0
    BY <1>3
  <2>2. \A x \in 0 .. k : c[x] = 0
    BY <1>2, <2>1
  <2>3. Total(c, 0 .. k) = 0
    BY <2>2, AgesFinite, TotalZero
  <2>4. QED
    BY <1>2, <1>3, <2>3 DEF c
<1>4. CASE k > 0
  <2> DEFINE T == 0 .. (k - 1)
             h == [x \in S |-> x - 1]
  <2>1. IsFiniteSet(T) /\ T \in SUBSET Ages
    <3>1. k - 1 \in Ages
      BY <1>4, LimitTypes DEF Ages
    <3>2. QED
      BY <3>1, AgesFinite
  <2>2. /\ h \in [S -> T]
        /\ \A x, y \in S : h[x] = h[y] => x = y
    BY DEF Ages
  <2>3. \A x \in S : c[x] <= a[h[x]]
    <3>1. ASSUME NEW x \in S
          PROVE  c[x] = a[h[x]] /\ a[h[x]] \in Nat
      BY <1>2
    <3>2. QED
      BY <3>1
  <2>4. (\A x \in S : c[x] \in Nat) /\ (\A y \in T : a[y] \in Nat)
    BY <1>1, <1>2, <2>1
  <2> HIDE DEF h, T, S
  <2>5. Total(c, S) <= Total(a, T)
    BY <1>1, <2>1, <2>2, <2>3, <2>4, TotalMap
  <2>6. Total(c, S \cup {0}) = Total(c, S) + c[0]
    BY <1>1, <1>2, <2>4, TotalAdd
  <2>7. Total(c, S) \in Nat
    BY <1>1, <2>4, TotalType
  <2>8. Total(c, S \cup {0}) = Total(c, S)
    BY <1>2, <2>6, <2>7
  <2>9. Total(c, 0 .. k) <= Total(a, T)
    BY <1>1, <2>5, <2>8
  <2>10. QED
    BY <1>2, <1>4, <2>9 DEF c, T
<1>5. QED
  BY <1>3, <1>4, LimitTypes DEF Ages

LEMMA TotalAges ==
    ASSUME NEW a \in [Ages -> Nat], NEW k \in Ages
    PROVE  /\ Total(a, 0 .. k) \in Nat
           /\ Total(a, 0 .. k) <= Total(a, Ages)
           /\ Span \in Ages /\ Ages = 0 .. Span /\ IsFiniteSet(Ages)
<1>1. Span \in Ages /\ Ages = 0 .. Span
  BY LimitTypes DEF Ages
<1>2. IsFiniteSet(Ages) /\ IsFiniteSet(0 .. k) /\ 0 .. k \in SUBSET Ages
  BY <1>1, AgesFinite
<1>3. \A x \in Ages : a[x] \in Nat
  OBVIOUS
<1> DEFINE S == 0 .. k
<1> HIDE DEF S
<1>4. Total(a, S) \in Nat
  BY <1>2, <1>3, TotalType DEF S
<1>5. Total(a, S) <= Total(a, Ages)
  <2>1. \A x \in S : a[x] \in Nat /\ a[x] <= a[x]
    BY <1>2, <1>3 DEF S
  <2>2. S \in SUBSET Ages
    BY <1>2 DEF S
  <2>3. QED
    BY <1>2, <1>3, <2>1, <2>2, TotalSubset
<1>6. QED
  BY <1>1, <1>2, <1>4, <1>5 DEF S

(* A minute that has run out, or none, gives way to a new one.              *)
LEMMA BudgetRenew ==
    ASSUME NEW n \in Nat, NEW t \in Nat, t <= n, n <= t + ClockLag,
           NEW b \in RateBucket \cup {NoEntry}, NEW a \in [Ages -> Nat],
           Budget(n, b, a), b # NoEntry => Since(t, b.started) >= Window
    PROVE  Budget(n, [started |-> t, count |-> 0], a)
<1> DEFINE new == [started |-> t, count |-> 0]
<1>1. new # NoEntry /\ new.started = t /\ new.count = 0
  BY DEF NoEntry
<1>2. \A k \in Ages : Total(a, 0 .. k) \in Nat /\ Total(a, Ages) \in Nat
  BY TotalAges, LimitTypes DEF Ages
<1>3. 0 \in Ages /\ Span \in Ages /\ Ages = 0 .. Span /\ \A i \in Ages : i \in Nat /\ a[i] \in Nat
  BY LimitTypes DEF Ages
<1> HIDE DEF new
<1>4. CASE b = NoEntry
  <2>1. \A i \in Ages : a[i] = 0
    BY <1>4 DEF Budget
  <2>2. \A k \in Ages : Total(a, 0 .. k) = 0
    <3>1. ASSUME NEW k \in Ages
          PROVE  Total(a, 0 .. k) = 0
      <4>1. IsFiniteSet(0 .. k) /\ \A x \in 0 .. k : a[x] = 0
        BY <2>1, AgesFinite
      <4>2. QED
        BY <4>1, TotalZero
    <3>2. QED
      BY <3>1
  <2>3. Total(a, Ages) = 0
    BY <1>3, <2>2
  <2>4. QED
    BY <1>1, <2>1, <2>2, <2>3, LimitTypes DEF Budget, new
<1>5. CASE b # NoEntry
  <2>1. b.started \in Nat /\ b.count \in Nat
    BY <1>5 DEF RateBucket, Times
  <2>2. t >= b.started + Window
    BY <1>5, <2>1, LimitTypes DEF Since
  <2>3. Total(a, Ages) <= b.count
    <3>1. Span + b.started + ClockLag <= n
      BY <2>1, <2>2, LimitTypes
    <3>2. QED
      BY <1>3, <1>5, <3>1 DEF Budget
  <2>4. \A i \in Ages : a[i] > 0 => n < b.started + Window + ClockLag + i
    BY <1>5 DEF Budget
  <2>5. ASSUME NEW k \in Ages, k + t + ClockLag <= n
        PROVE  Total(a, 0 .. k) <= 0
    <3>1. k = 0 /\ n = t + ClockLag
      BY <1>3, <2>5, LimitTypes
    <3>2. a[0] = 0
      <4>1. a[0] \in Nat /\ (a[0] > 0 => n < b.started + Window + ClockLag + 0)
        BY <1>3, <2>4
      <4>2. ~(n < b.started + Window + ClockLag + 0)
        BY <2>1, <2>2, <3>1, LimitTypes
      <4>3. QED
        BY <4>1, <4>2
    <3>3. \A x \in 0 .. k : a[x] = 0
      <4>1. \A x \in 0 .. k : x = 0
        BY <3>1
      <4>2. QED
        BY <3>2, <4>1
    <3>4. Total(a, 0 .. k) = 0
      BY <3>3, AgesFinite, TotalZero
    <3>5. QED
      BY <3>4
  <2>6. \A i \in Ages : a[i] > 0 => n < t + Window + ClockLag + i
    BY <1>3, <2>1, <2>2, <2>4, LimitTypes
  <2>7. b.count <= MaxRequests
    BY <1>5 DEF Budget
  <2>8. Total(a, Ages) <= MaxRequests + 0
    BY <1>2, <1>3, <2>1, <2>3, <2>7, LimitTypes
  <2>9. QED
    BY <1>1, <2>5, <2>6, <2>8, LimitTypes DEF Budget, new
<1>6. QED
  BY <1>4, <1>5

(* A minute that is not over and not full takes one more.                   *)
LEMMA BudgetAdmit ==
    ASSUME NEW n \in Nat, NEW t \in Nat, t <= n, n <= t + ClockLag,
           NEW s \in Nat, NEW c \in Nat, NEW a \in [Ages -> Nat],
           Budget(n, [started |-> s, count |-> c], a),
           Since(t, s) < Window, c < MaxRequests
    PROVE  Budget(n, [started |-> s, count |-> c + 1], [a EXCEPT ![0] = @ + 1])
<1> DEFINE b == [started |-> s, count |-> c]
           d == [started |-> s, count |-> c + 1]
           z == [a EXCEPT ![0] = @ + 1]
<1>1. /\ b # NoEntry /\ b.started = s /\ b.count = c
      /\ d # NoEntry /\ d.started = s /\ d.count = c + 1
  BY DEF NoEntry
<1>2. 0 \in Ages /\ Span \in Ages /\ Ages = 0 .. Span /\ \A i \in Ages : i \in Nat /\ a[i] \in Nat
  BY LimitTypes DEF Ages
<1>3. z \in [Ages -> Nat] /\ \A i \in Ages : i # 0 => z[i] = a[i]
  BY <1>2
<1> HIDE DEF b, d
<1>4. /\ s <= n
      /\ Total(a, Ages) <= MaxRequests + c
      /\ \A k \in Ages : k + s + ClockLag <= n => Total(a, 0 .. k) <= c
      /\ \A i \in Ages : a[i] > 0 => n < s + Window + ClockLag + i
  BY <1>1 DEF Budget, b
<1>5. \A k \in Ages : Total(z, 0 .. k) <= Total(a, 0 .. k) + 1
  BY TotalAdmit
<1>6. \A k \in Ages : Total(a, 0 .. k) \in Nat /\ Total(z, 0 .. k) \in Nat
  BY <1>3, TotalAges
<1> HIDE DEF z
<1>7. Total(z, Ages) <= MaxRequests + (c + 1)
  <2>1. Total(z, Ages) <= Total(a, Ages) + 1 /\ Total(a, Ages) \in Nat /\ Total(z, Ages) \in Nat
    BY <1>2, <1>5, <1>6
  <2>2. QED
    BY <1>4, <2>1, LimitTypes
<1>8. ASSUME NEW k \in Ages, k + s + ClockLag <= n
      PROVE  Total(z, 0 .. k) <= c + 1
  BY <1>4, <1>5, <1>6, <1>8
<1>9. ASSUME NEW i \in Ages, z[i] > 0
      PROVE  n < s + Window + ClockLag + i
  <2>1. CASE i = 0
    <3>1. t < s + Window
      BY LimitTypes DEF Since
    <3>2. QED
      BY <2>1, <3>1, LimitTypes
  <2>2. CASE i # 0
    BY <1>3, <1>4, <1>9, <2>2
  <2>3. QED
    BY <2>1, <2>2
<1>10. c + 1 <= MaxRequests
  BY LimitTypes
<1>11. Budget(n, d, z)
  BY <1>1, <1>4, <1>7, <1>8, <1>9, <1>10 DEF Budget
<1>12. QED
  BY <1>11 DEF d, z

(* What the prune drops has nothing left in Span.                           *)
LEMMA BudgetPrune ==
    ASSUME NEW n \in Nat, NEW t \in Nat, t <= n,
           NEW b \in RateBucket, NEW a \in [Ages -> Nat],
           Budget(n, b, a), Since(t, b.started) >= Keep
    PROVE  Budget(n, NoEntry, a)
<1>1. b # NoEntry /\ b.started \in Nat
  BY NoEntryApart DEF RateBucket, Times
<1>2. n >= b.started + 2 * Window
  BY <1>1, LimitTypes DEF Since, Keep
<1>3. ASSUME NEW i \in Ages
      PROVE  a[i] = 0
  <2>1. a[i] \in Nat /\ i \in Nat /\ i <= Window - ClockLag
    BY LimitTypes DEF Ages
  <2>2. a[i] > 0 => n < b.started + Window + ClockLag + i
    BY <1>1 DEF Budget
  <2>3. QED
    BY <1>1, <1>2, <2>1, <2>2, LimitTypes
<1>4. QED
  BY <1>3 DEF Budget

(* A tick ages the admissions and brings the end of the minute nearer.      *)
LEMMA BudgetTick ==
    ASSUME NEW n \in Nat, NEW b \in RateBucket \cup {NoEntry}, NEW a \in [Ages -> Nat],
           Budget(n, b, a)
    PROVE  Budget(n + 1, b, Aged(a))
<1>0. 0 \in Ages /\ Span \in Ages /\ Ages = 0 .. Span
      /\ \A i \in Ages : i \in Nat /\ a[i] \in Nat /\ (i # 0 => i - 1 \in Ages)
  BY LimitTypes DEF Ages
<1>1. \A i \in Ages : Aged(a)[i] = IF i = 0 THEN 0 ELSE a[i - 1]
  BY DEF Aged
<1>2. CASE b = NoEntry
  BY <1>0, <1>1, <1>2 DEF Budget
<1>3. CASE b # NoEntry
  <2>1. b.started \in Nat /\ b.count \in Nat
    BY <1>3 DEF RateBucket, Times
  <2>2. \A k \in Ages : Total(a, 0 .. k) \in Nat /\ Total(a, 0 .. k) <= Total(a, Ages)
    BY TotalAges
  <2>3. \A k \in Ages : /\ k = 0 => Total(Aged(a), 0 .. k) = 0
                        /\ k > 0 => Total(Aged(a), 0 .. k) <= Total(a, 0 .. (k - 1))
                        /\ Total(Aged(a), 0 .. k) \in Nat
    BY TotalAged, TotalAges
  <2>4. /\ b.count <= MaxRequests /\ b.started <= n
        /\ Total(a, Ages) <= MaxRequests + b.count
        /\ \A k \in Ages : k + b.started + ClockLag <= n => Total(a, 0 .. k) <= b.count
        /\ \A i \in Ages : a[i] > 0 => n < b.started + Window + ClockLag + i
    BY <1>3 DEF Budget
  <2>5. Total(Aged(a), Ages) <= MaxRequests + b.count
    <3>1. Span - 1 \in Ages /\ Span > 0
      BY LimitTypes DEF Ages
    <3>2. /\ Total(Aged(a), Ages) <= Total(a, 0 .. (Span - 1))
          /\ Total(Aged(a), Ages) \in Nat
      BY <1>0, <2>3, <3>1
    <3>3. /\ Total(a, 0 .. (Span - 1)) <= Total(a, Ages)
          /\ Total(a, 0 .. (Span - 1)) \in Nat /\ Total(a, Ages) \in Nat
      BY <1>0, <2>2, <3>1
    <3>4. QED
      BY <2>1, <2>4, <3>2, <3>3, LimitTypes
  <2>6. ASSUME NEW k \in Ages, k + b.started + ClockLag <= n + 1
        PROVE  Total(Aged(a), 0 .. k) <= b.count
    <3>1. CASE k = 0
      <4>1. Total(Aged(a), 0 .. k) = 0
        BY <2>3, <3>1
      <4>2. QED
        BY <2>1, <4>1
    <3>2. CASE k # 0
      <4>1. k - 1 \in Ages /\ k > 0 /\ (k - 1) + b.started + ClockLag <= n
        <5>1. k \in Nat /\ k - 1 \in Ages
          BY <1>0, <3>2
        <5>2. QED
          BY <2>1, <2>6, <3>2, <5>1, LimitTypes
      <4>2. Total(a, 0 .. (k - 1)) <= b.count /\ Total(a, 0 .. (k - 1)) \in Nat
        BY <2>2, <2>4, <4>1
      <4>3. Total(Aged(a), 0 .. k) <= Total(a, 0 .. (k - 1)) /\ Total(Aged(a), 0 .. k) \in Nat
        BY <2>3, <4>1
      <4>4. QED
        BY <2>1, <4>2, <4>3
    <3>3. QED
      BY <3>1, <3>2
  <2>7. ASSUME NEW i \in Ages, Aged(a)[i] > 0
        PROVE  n + 1 < b.started + Window + ClockLag + i
    <3>1. i # 0 /\ a[i - 1] > 0 /\ i - 1 \in Ages
      BY <1>0, <1>1, <2>7
    <3>2. n < b.started + Window + ClockLag + (i - 1)
      BY <2>4, <3>1
    <3>3. i \in Nat /\ b.started + Window + ClockLag \in Nat
      BY <1>0, <2>1, LimitTypes
    <3>4. QED
      BY <3>2, <3>3
  <2>8. b.started <= n + 1
    BY <2>1, <2>4
  <2>9. QED
    BY <1>3, <2>4, <2>5, <2>6, <2>7, <2>8 DEF Budget
<1>4. QED
  BY <1>2, <1>3

Stages == {"idle", "bans", "bucket", "violation", "compliance", "store", "mailbox"}
Request == [peer : Peers \cup {NoPeer}, time : Times, bytes : StoreSizes \cup {Light}]

(* The requests being served: a clock value in use is at most ClockLag old. *)
Serving ==
    /\ now \in Times
    /\ stage \in [Workers -> Stages]
    /\ request \in [Workers -> Request]
    /\ \A w \in Workers :
          /\ stage[w] # "idle" => request[w].peer \in Peers
          /\ stage[w] # "idle" => now <= request[w].time + ClockLag
          /\ stage[w] = "mailbox" => request[w].bytes # Light
          /\ request[w].time <= now

(* The ban map: no ban ends later than one that begins now.                 *)
Bans ==
    /\ banned_peers \in [Peers -> BanEntry \cup {NoEntry}]
    /\ \A p \in Peers :
          banned_peers[p] # NoEntry => banned_peers[p].banned_until <= now + BanDuration

(* The other maps.                                                          *)
Windows ==
    /\ store_windows \in [Peers -> StoreWindow \cup {NoEntry}]
    /\ mailbox_bytes \in [RateMailboxes -> [started : Times, used : Nat] \cup {NoEntry}]
    /\ rates_pruned_at \in Times
    /\ IsFiniteSet(Keys(store_windows)) /\ Cardinality(Keys(store_windows)) <= MaxRateKeys

(* The request budgets, each with the history of its admissions.            *)
Buckets ==
    /\ rate_buckets \in [Peers -> RateBucket \cup {NoEntry}]
    /\ admitted \in [Peers -> [Ages -> Nat]]
    /\ IsFiniteSet(Keys(rate_buckets)) /\ Cardinality(Keys(rate_buckets)) <= MaxRateKeys
    /\ \A p \in Peers : Budget(now, rate_buckets[p], admitted[p])

LimitsInv == Serving /\ Bans /\ Windows /\ Buckets

(* A map of entries: what Retain, Pruned and Current make of it.            *)
LEMMA RetainMap ==
    ASSUME NEW D, NEW E, NEW f \in [D -> E \cup {NoEntry}], NEW g \in [D -> E \cup {NoEntry}],
           \A k \in D : g[k] = f[k] \/ g[k] = NoEntry
    PROVE  Keys(g) \subseteq Keys(f)
  BY DEF Keys

LEMMA PrunedMap ==
    ASSUME NEW D, NEW E, NEW f \in [D -> E \cup {NoEntry}], NEW t
    PROVE  /\ Pruned(f, t) \in [D -> E \cup {NoEntry}]
           /\ \A k \in D : \/ Pruned(f, t)[k] = f[k]
                           \/ /\ Pruned(f, t)[k] = NoEntry
                              /\ f[k] # NoEntry => ~(Since(t, f[k].started) < Keep)
           /\ Keys(Pruned(f, t)) \subseteq Keys(f)
  BY DEF Pruned, Retain, Keys

(* A key more only where there is room.                                     *)
LEMMA KeysBound ==
    ASSUME NEW D, NEW E, NEW f \in [D -> E \cup {NoEntry}], NEW g \in [D -> E \cup {NoEntry}],
           NEW p \in D, NEW e,
           IsFiniteSet(Keys(f)), Cardinality(Keys(f)) <= MaxRateKeys,
           Keys(g) \subseteq Keys(f), HasKey(g, p)
    PROVE  /\ IsFiniteSet(Keys([g EXCEPT ![p] = e]))
           /\ Cardinality(Keys([g EXCEPT ![p] = e])) <= MaxRateKeys
<1> DEFINE h == [g EXCEPT ![p] = e]
<1>1. Keys(h) \subseteq Keys(g) \cup {p}
  BY DEF Keys
<1>2. /\ IsFiniteSet(Keys(g)) /\ Cardinality(Keys(g)) \in Nat
      /\ Cardinality(Keys(g)) <= Cardinality(Keys(f)) /\ Cardinality(Keys(f)) \in Nat
  BY FS_Subset, FS_CardinalityType
<1>3. /\ IsFiniteSet(Keys(g) \cup {p}) /\ Cardinality(Keys(g) \cup {p}) \in Nat
      /\ Cardinality(Keys(g) \cup {p}) =
            IF p \in Keys(g) THEN Cardinality(Keys(g)) ELSE Cardinality(Keys(g)) + 1
  BY <1>2, FS_AddElement, FS_CardinalityType
<1>4. Cardinality(Keys(g) \cup {p}) <= MaxRateKeys
  BY <1>2, <1>3, LimitTypes DEF HasKey
<1> HIDE DEF h
<1>5. /\ IsFiniteSet(Keys(h)) /\ Cardinality(Keys(h)) \in Nat
      /\ Cardinality(Keys(h)) <= Cardinality(Keys(g) \cup {p})
  BY <1>1, <1>3, FS_Subset, FS_CardinalityType
<1>6. QED
  BY <1>3, <1>4, <1>5, LimitTypes DEF h

LEMMA KeysFewer ==
    ASSUME NEW D, NEW E, NEW f \in [D -> E \cup {NoEntry}], NEW g,
           IsFiniteSet(Keys(f)), Cardinality(Keys(f)) <= MaxRateKeys, Keys(g) \subseteq Keys(f)
    PROVE  IsFiniteSet(Keys(g)) /\ Cardinality(Keys(g)) <= MaxRateKeys
<1>1. /\ IsFiniteSet(Keys(g)) /\ Cardinality(Keys(g)) \in Nat
      /\ Cardinality(Keys(g)) <= Cardinality(Keys(f)) /\ Cardinality(Keys(f)) \in Nat
  BY FS_Subset, FS_CardinalityType
<1>2. QED
  BY <1>1, LimitTypes

(* What the two ends of a step leave of the requests being served.          *)
LEMMA FinishServing ==
    ASSUME Serving, NEW w \in Workers, Finish(w), now' = now
    PROVE  Serving'
<1>1. Idle \in Request /\ Idle.time = 0
  BY LimitTypes DEF Idle, Request, Times
<1>2. stage' = [stage EXCEPT ![w] = "idle"] /\ request' = [request EXCEPT ![w] = Idle]
  BY DEF Finish
<1>3. stage' \in [Workers -> Stages] /\ request' \in [Workers -> Request]
  BY <1>1, <1>2 DEF Serving, Stages
<1>4. now \in Nat
  BY DEF Serving, Times
<1>5. ASSUME NEW v \in Workers
      PROVE  /\ stage'[v] # "idle" => request'[v].peer \in Peers
             /\ stage'[v] # "idle" => now <= request'[v].time + ClockLag
             /\ stage'[v] = "mailbox" => request'[v].bytes # Light
             /\ request'[v].time <= now
  <2>1. CASE v = w
    <3>1. stage'[v] = "idle" /\ request'[v].time = 0
      BY <1>1, <1>2, <2>1 DEF Serving
    <3>2. QED
      BY <1>4, <3>1
  <2>2. CASE v # w
    BY <1>2, <2>2 DEF Serving
  <2>3. QED
    BY <2>1, <2>2
<1>6. QED
  BY <1>3, <1>5 DEF Serving

LEMMA ProceedServing ==
    ASSUME Serving, NEW w \in Workers, NEW from \in Stages \ {"idle"},
           NEW to \in Stages \ {"idle", "mailbox"}, Proceed(w, from, to),
           UNCHANGED <<now, request>>
    PROVE  Serving'
  BY DEF Serving, Proceed, Stages

(* The next budget reads the clock again.                                   *)
LEMMA ClockServing ==
    ASSUME Serving, NEW w \in Workers, NEW from \in Stages \ {"idle"},
           NEW to \in Stages \ {"idle"}, Proceed(w, from, to), now' = now,
           request' = [request EXCEPT ![w].time = now],
           to = "mailbox" => request[w].bytes # Light
    PROVE  Serving'
<1>1. stage[w] = from /\ stage' = [stage EXCEPT ![w] = to]
  BY DEF Proceed
<1>2. /\ request'[w] \in Request /\ request'[w].time = now
      /\ request'[w].peer = request[w].peer /\ request'[w].bytes = request[w].bytes
  BY DEF Serving, Request
<1>3. request' \in [Workers -> Request] /\ stage' \in [Workers -> Stages]
  BY <1>1, <1>2 DEF Serving
<1>4. now \in Nat /\ now <= now + ClockLag
  BY LimitTypes DEF Serving, Times
<1>5. ASSUME NEW v \in Workers
      PROVE  /\ stage'[v] # "idle" => request'[v].peer \in Peers
             /\ stage'[v] # "idle" => now <= request'[v].time + ClockLag
             /\ stage'[v] = "mailbox" => request'[v].bytes # Light
             /\ request'[v].time <= now
  <2>1. CASE v = w
    BY <1>1, <1>2, <1>4, <2>1 DEF Serving
  <2>2. CASE v # w
    BY <1>1, <2>2 DEF Serving
  <2>3. QED
    BY <2>1, <2>2
<1>6. QED
  BY <1>3, <1>5 DEF Serving

LEMMA BucketsFrame ==
    ASSUME Buckets, UNCHANGED <<now, rate_buckets, admitted>>
    PROVE  Buckets'
  BY DEF Buckets

LEMMA BansFrame ==
    ASSUME Bans, UNCHANGED <<now, banned_peers>>
    PROVE  Bans'
  BY DEF Bans

LEMMA WindowsFrame ==
    ASSUME Windows, UNCHANGED <<store_windows, mailbox_bytes, rates_pruned_at>>
    PROVE  Windows'
  BY DEF Windows

LEMMA ArriveStep ==
    ASSUME LimitsInv, NEW w \in Workers, NEW p \in Peers,
           NEW b \in StoreSizes \cup {Light}, Arrive(w, p, b)
    PROVE  LimitsInv'
<1> USE DEF LimitsInv
<1> DEFINE q == [peer |-> p, time |-> now, bytes |-> b]
<1>1. /\ stage' = [stage EXCEPT ![w] = "bans"] /\ request' = [request EXCEPT ![w] = q]
      /\ UNCHANGED <<now, banned_peers, rate_buckets, store_windows, mailbox_bytes,
                     rates_pruned_at, admitted>>
  BY DEF Arrive, Proceed
<1>2. q \in Request /\ q.time = now /\ q.peer = p
  BY DEF Request, Serving
<1>3. now \in Nat /\ now <= now + ClockLag
  BY LimitTypes DEF Serving, Times
<1> HIDE DEF q
<1>4. Serving'
  <2>1. request' \in [Workers -> Request] /\ stage' \in [Workers -> Stages]
    BY <1>1, <1>2 DEF Serving, Stages
  <2>2. ASSUME NEW v \in Workers
        PROVE  /\ stage'[v] # "idle" => request'[v].peer \in Peers
               /\ stage'[v] # "idle" => now <= request'[v].time + ClockLag
               /\ stage'[v] = "mailbox" => request'[v].bytes # Light
               /\ request'[v].time <= now
    <3>1. CASE v = w
      BY <1>1, <1>2, <1>3, <3>1 DEF Serving
    <3>2. CASE v # w
      BY <1>1, <3>2 DEF Serving
    <3>3. QED
      BY <3>1, <3>2
  <2>3. QED
    BY <1>1, <2>1, <2>2 DEF Serving
<1>5. QED
  BY <1>1, <1>4, BucketsFrame, BansFrame, WindowsFrame

LEMMA CheckBanStep ==
    ASSUME LimitsInv, NEW w \in Workers, CheckBan(w)
    PROVE  LimitsInv'
<1> USE DEF LimitsInv
<1>1. UNCHANGED <<now, rate_buckets, store_windows, mailbox_bytes, rates_pruned_at, admitted>>
  BY DEF CheckBan
<1>2. Finish(w) \/ (Proceed(w, "bans", "bucket") /\ UNCHANGED request)
  BY DEF CheckBan
<1>3. Serving'
  BY <1>1, <1>2, FinishServing, ProceedServing DEF Stages
<1>4. \A p \in Peers : banned_peers'[p] = banned_peers[p] \/ banned_peers'[p] = NoEntry
  BY DEF CheckBan, Retain, Bans
<1>5. banned_peers' \in [Peers -> BanEntry \cup {NoEntry}]
  <2>1. DOMAIN banned_peers' = Peers /\ banned_peers' = [p \in Peers |-> banned_peers'[p]]
    BY DEF CheckBan, Retain, Bans
  <2>2. QED
    BY <1>4, <2>1 DEF Bans
<1>6. Bans'
  BY <1>1, <1>4, <1>5 DEF Bans
<1>7. QED
  BY <1>1, <1>3, <1>6, BucketsFrame, WindowsFrame

LEMMA ViolationStep ==
    ASSUME LimitsInv, NEW w \in Workers, note_rate_violation(w)
    PROVE  LimitsInv'
<1> USE DEF LimitsInv
<1> DEFINE p == request[w].peer
           old == banned_peers[p]
           tally == 1 + IF old = NoEntry THEN 0 ELSE old.violations
           until == IF old = NoEntry THEN 0 ELSE old.banned_until
           new == [violations |-> tally,
                   banned_until |-> IF tally >= BanThreshold
                                    THEN request[w].time + BanDuration ELSE until]
<1>1. /\ stage[w] = "violation" /\ banned_peers' = [banned_peers EXCEPT ![p] = new]
      /\ Finish(w)
      /\ UNCHANGED <<now, rate_buckets, store_windows, mailbox_bytes, rates_pruned_at, admitted>>
  BY DEF note_rate_violation
<1>2. Serving'
  BY <1>1, FinishServing
<1>3. p \in Peers /\ request[w].time \in Nat /\ request[w].time <= now /\ now \in Nat
  BY <1>1 DEF Serving, Request, Times
<1>4. tally \in Nat /\ until \in Nat /\ until <= now + BanDuration
  <2>1. CASE old = NoEntry
    BY <1>3, <2>1, LimitTypes
  <2>2. CASE old # NoEntry
    <3>1. old \in BanEntry /\ old.banned_until <= now + BanDuration
      BY <1>3, <2>2 DEF Bans
    <3>2. QED
      BY <2>2, <3>1 DEF BanEntry
  <2>3. QED
    BY <2>1, <2>2
<1> HIDE DEF tally, until
<1>5. new \in BanEntry /\ new.banned_until <= now + BanDuration
  BY <1>3, <1>4, LimitTypes DEF BanEntry
<1> HIDE DEF new
<1>6. Bans'
  BY <1>1, <1>3, <1>5 DEF Bans
<1>7. QED
  BY <1>1, <1>2, <1>6, BucketsFrame, WindowsFrame

LEMMA ComplianceStep ==
    ASSUME LimitsInv, NEW w \in Workers, note_rate_compliance(w)
    PROVE  LimitsInv'
<1> USE DEF LimitsInv
<1> DEFINE p == request[w].peer
<1>1. /\ stage[w] = "compliance"
      /\ UNCHANGED <<now, rate_buckets, store_windows, mailbox_bytes, rates_pruned_at, admitted>>
      /\ \/ banned_peers[p] # NoEntry /\ banned_peers' = [banned_peers EXCEPT ![p].violations = 0]
         \/ banned_peers' = banned_peers
  BY DEF note_rate_compliance
<1>2. \/ Finish(w)
      \/ Proceed(w, "compliance", "store") /\ request' = [request EXCEPT ![w].time = now]
  BY DEF note_rate_compliance
<1>3. Serving'
  BY <1>1, <1>2, FinishServing, ClockServing DEF Stages
<1>4. p \in Peers
  BY <1>1 DEF Serving
<1>5. Bans'
  <2>1. CASE banned_peers' = banned_peers
    BY <1>1, <2>1 DEF Bans
  <2>2. CASE banned_peers[p] # NoEntry /\ banned_peers' = [banned_peers EXCEPT ![p].violations = 0]
    <3> DEFINE new == [banned_peers[p] EXCEPT !.violations = 0]
    <3>1. banned_peers[p] \in BanEntry /\ banned_peers[p].banned_until <= now + BanDuration
      BY <1>4, <2>2 DEF Bans
    <3>2. new \in BanEntry /\ new.banned_until = banned_peers[p].banned_until
      BY <3>1 DEF BanEntry
    <3>3. banned_peers' = [banned_peers EXCEPT ![p] = new]
      BY <2>2 DEF Bans
    <3> HIDE DEF new
    <3>4. QED
      BY <1>1, <1>4, <3>1, <3>2, <3>3 DEF Bans
  <2>3. QED
    BY <1>1, <2>1, <2>2
<1>6. QED
  BY <1>1, <1>3, <1>5, BucketsFrame, WindowsFrame

(* CountRequest: the prune, then the entry of this minute, then the count.  *)
LEMMA CountRequestStep ==
    ASSUME LimitsInv, NEW w \in Workers, CountRequest(w)
    PROVE  LimitsInv'
<1> USE DEF LimitsInv
<1> DEFINE p == request[w].peer
           t == request[w].time
           kept == Pruned(rate_buckets, t)
           fresh == [started |-> t, count |-> 0]
           bucket == Current(kept, p, t, fresh)
           counted == [bucket EXCEPT !.count = @ + 1]
<1>1. /\ stage[w] = "bucket" /\ UNCHANGED <<now, banned_peers, store_windows, mailbox_bytes>>
      /\ rates_pruned_at' = t \/ rates_pruned_at' = rates_pruned_at
      /\ \/ rate_buckets' = kept /\ Finish(w) /\ UNCHANGED admitted
         \/ /\ HasKey(kept, p) /\ rate_buckets' = [kept EXCEPT ![p] = bucket]
            /\ UNCHANGED admitted
            /\ Finish(w) \/ (Proceed(w, "bucket", "violation") /\ UNCHANGED request)
         \/ /\ HasKey(kept, p) /\ ~(bucket.count >= MaxRequests)
            /\ rate_buckets' = [kept EXCEPT ![p] = counted]
            /\ admitted' = [admitted EXCEPT ![p][0] = @ + 1]
            /\ Proceed(w, "bucket", "compliance") /\ UNCHANGED request
  BY DEF CountRequest, NotePrune
<1>2. /\ p \in Peers /\ t \in Times /\ t \in Nat /\ now \in Nat
      /\ t <= now /\ now <= t + ClockLag
  BY <1>1 DEF Serving, Request, Times
<1>3. /\ kept \in [Peers -> RateBucket \cup {NoEntry}]
      /\ \A k \in Peers : \/ kept[k] = rate_buckets[k]
                          \/ /\ kept[k] = NoEntry
                             /\ rate_buckets[k] # NoEntry
                                   => ~(Since(t, rate_buckets[k].started) < Keep)
      /\ Keys(kept) \subseteq Keys(rate_buckets)
  <2>1. \A f \in [Peers -> RateBucket \cup {NoEntry}] : \A u \in Times :
           /\ Pruned(f, u) \in [Peers -> RateBucket \cup {NoEntry}]
           /\ \A k \in Peers : \/ Pruned(f, u)[k] = f[k]
                               \/ /\ Pruned(f, u)[k] = NoEntry
                                  /\ f[k] # NoEntry => ~(Since(u, f[k].started) < Keep)
           /\ Keys(Pruned(f, u)) \subseteq Keys(f)
    BY PrunedMap
  <2>2. rate_buckets \in [Peers -> RateBucket \cup {NoEntry}]
    BY DEF Buckets
  <2>3. QED
    BY <1>2, <2>1, <2>2
<1>4. Serving'
  BY <1>1, FinishServing, ProceedServing DEF Stages
<1>5. Windows'
  BY <1>1, <1>2 DEF Windows
<1> HIDE DEF kept
<1>6. ASSUME NEW q \in Peers
      PROVE  Budget(now, kept[q], admitted[q])
  <2>1. CASE kept[q] = rate_buckets[q]
    BY <2>1 DEF Buckets
  <2>2. CASE kept[q] # rate_buckets[q]
    <3>1. /\ rate_buckets[q] \in RateBucket /\ admitted[q] \in [Ages -> Nat]
          /\ Budget(now, rate_buckets[q], admitted[q])
      BY <1>3, <2>2 DEF Buckets
    <3>2. kept[q] = NoEntry /\ ~(Since(t, rate_buckets[q].started) < Keep)
      BY <1>3, <2>2
    <3>3. Since(t, rate_buckets[q].started) >= Keep
      <4>1. rate_buckets[q].started \in Nat
        BY <3>1 DEF RateBucket, Times
      <4>2. QED
        BY <1>2, <3>2, <4>1, LimitTypes DEF Since, Keep
    <3>4. \A n \in Nat : \A u \in Nat : \A b \in RateBucket : \A a \in [Ages -> Nat] :
             u <= n /\ Budget(n, b, a) /\ Since(u, b.started) >= Keep => Budget(n, NoEntry, a)
      BY BudgetPrune
    <3>5. Budget(now, NoEntry, admitted[q])
      BY <1>2, <3>1, <3>3, <3>4
    <3>6. QED
      BY <3>2, <3>5
  <2>3. QED
    BY <2>1, <2>2
<1>7. admitted[p] \in [Ages -> Nat] /\ kept[p] \in RateBucket \cup {NoEntry}
  BY <1>2, <1>3 DEF Buckets
<1>8. /\ bucket \in RateBucket /\ Budget(now, bucket, admitted[p])
      /\ Since(t, bucket.started) < Window
  <2>1. CASE kept[p] = NoEntry \/ (kept[p] # NoEntry /\ Since(t, kept[p].started) >= Window)
    <3>1. bucket = fresh
      BY <2>1 DEF Current
    <3>2. fresh \in RateBucket /\ Since(t, fresh.started) < Window
      BY <1>2, LimitTypes DEF RateBucket, Since
    <3>3. \A n \in Nat : \A u \in Nat : \A b \in RateBucket \cup {NoEntry} :
             \A a \in [Ages -> Nat] :
                u <= n /\ n <= u + ClockLag /\ Budget(n, b, a)
                   /\ (b # NoEntry => Since(u, b.started) >= Window)
                => Budget(n, [started |-> u, count |-> 0], a)
      BY BudgetRenew
    <3>4. Budget(now, kept[p], admitted[p])
      BY <1>2, <1>6
    <3>5. Budget(now, fresh, admitted[p])
      BY <1>2, <1>7, <2>1, <3>3, <3>4
    <3>6. QED
      BY <3>1, <3>2, <3>5
  <2>2. CASE kept[p] # NoEntry /\ ~(Since(t, kept[p].started) >= Window)
    <3>1. bucket = kept[p] /\ kept[p] \in RateBucket
      BY <1>7, <2>2 DEF Current
    <3>2. Since(t, kept[p].started) < Window
      <4>1. kept[p].started \in Nat
        BY <3>1 DEF RateBucket, Times
      <4>2. QED
        BY <1>2, <2>2, <4>1, LimitTypes DEF Since
    <3>3. QED
      BY <1>2, <1>6, <3>1, <3>2
  <2>3. QED
    BY <2>1, <2>2
<1> HIDE DEF bucket, fresh
<1>9. \A f, g \in [Peers -> RateBucket \cup {NoEntry}] :
         /\ IsFiniteSet(Keys(f)) /\ Cardinality(Keys(f)) <= MaxRateKeys
         /\ Keys(g) \subseteq Keys(f)
         => /\ IsFiniteSet(Keys(g)) /\ Cardinality(Keys(g)) <= MaxRateKeys
            /\ \A r \in Peers : \A e \in RateBucket :
                  HasKey(g, r) => /\ IsFiniteSet(Keys([g EXCEPT ![r] = e]))
                                  /\ Cardinality(Keys([g EXCEPT ![r] = e])) <= MaxRateKeys
  BY KeysBound, KeysFewer
<1>10. /\ IsFiniteSet(Keys(kept)) /\ Cardinality(Keys(kept)) <= MaxRateKeys
       /\ \A e \in RateBucket :
             HasKey(kept, p) => /\ IsFiniteSet(Keys([kept EXCEPT ![p] = e]))
                                /\ Cardinality(Keys([kept EXCEPT ![p] = e])) <= MaxRateKeys
  <2>1. /\ rate_buckets \in [Peers -> RateBucket \cup {NoEntry}]
        /\ IsFiniteSet(Keys(rate_buckets)) /\ Cardinality(Keys(rate_buckets)) <= MaxRateKeys
    BY DEF Buckets
  <2>2. QED
    BY <1>2, <1>3, <1>9, <2>1
<1>11. Buckets'
  <2>1. CASE rate_buckets' = kept /\ UNCHANGED admitted
    BY <1>1, <1>3, <1>6, <1>10, <2>1 DEF Buckets
  <2>2. CASE HasKey(kept, p) /\ rate_buckets' = [kept EXCEPT ![p] = bucket] /\ UNCHANGED admitted
    <3>1. rate_buckets' \in [Peers -> RateBucket \cup {NoEntry}]
      BY <1>3, <1>8, <2>2
    <3>2. IsFiniteSet(Keys(rate_buckets')) /\ Cardinality(Keys(rate_buckets')) <= MaxRateKeys
      BY <1>8, <1>10, <2>2
    <3>3. ASSUME NEW q \in Peers
          PROVE  Budget(now, rate_buckets'[q], admitted'[q])
      <4>1. CASE q = p
        BY <1>2, <1>3, <1>8, <2>2, <4>1
      <4>2. CASE q # p
        BY <1>2, <1>3, <1>6, <2>2, <4>2
      <4>3. QED
        BY <4>1, <4>2
    <3>4. admitted' \in [Peers -> [Ages -> Nat]]
      BY <2>2 DEF Buckets
    <3>5. QED
      BY <1>1, <3>1, <3>2, <3>3, <3>4 DEF Buckets
  <2>3. CASE /\ HasKey(kept, p) /\ ~(bucket.count >= MaxRequests)
             /\ rate_buckets' = [kept EXCEPT ![p] = counted]
             /\ admitted' = [admitted EXCEPT ![p][0] = @ + 1]
    <3> DEFINE more == [admitted[p] EXCEPT ![0] = @ + 1]
    <3>1. /\ bucket = [started |-> bucket.started, count |-> bucket.count]
          /\ bucket.started \in Nat /\ bucket.started \in Times /\ bucket.count \in Nat
          /\ counted = [started |-> bucket.started, count |-> bucket.count + 1]
          /\ counted \in RateBucket
      BY <1>8 DEF RateBucket, Times
    <3>2. \A n, u, s, c \in Nat : \A a \in [Ages -> Nat] :
             /\ u <= n /\ n <= u + ClockLag
             /\ Budget(n, [started |-> s, count |-> c], a)
             /\ Since(u, s) < Window /\ c < MaxRequests
             => Budget(n, [started |-> s, count |-> c + 1], [a EXCEPT ![0] = @ + 1])
      BY BudgetAdmit
    <3>3. bucket.count < MaxRequests
      BY <2>3, <3>1, LimitTypes
    <3>4. Budget(now, counted, more)
      <4>1. Budget(now, [started |-> bucket.started, count |-> bucket.count], admitted[p])
        BY <1>8, <3>1
      <4>2. Budget(now, [started |-> bucket.started, count |-> bucket.count + 1], more)
        BY <1>2, <1>7, <1>8, <3>1, <3>2, <3>3, <4>1
      <4>3. QED
        BY <3>1, <4>2
    <3>5. more \in [Ages -> Nat] /\ admitted' = [admitted EXCEPT ![p] = more]
      <4>1. 0 \in Ages
        BY LimitTypes DEF Ages
      <4>2. admitted[p][0] + 1 \in Nat
        BY <1>7, <4>1
      <4>3. more \in [Ages -> Nat]
        BY <1>7, <4>2
      <4>4. admitted' = [admitted EXCEPT ![p] = more]
        BY <2>3
      <4>5. QED
        BY <4>3, <4>4
    <3> HIDE DEF more, counted
    <3>6. rate_buckets' \in [Peers -> RateBucket \cup {NoEntry}]
      BY <1>3, <2>3, <3>1
    <3>7. IsFiniteSet(Keys(rate_buckets')) /\ Cardinality(Keys(rate_buckets')) <= MaxRateKeys
      BY <1>10, <2>3, <3>1
    <3>8. admitted' \in [Peers -> [Ages -> Nat]]
      BY <3>5 DEF Buckets
    <3>9. ASSUME NEW q \in Peers
          PROVE  Budget(now, rate_buckets'[q], admitted'[q])
      <4>1. CASE q = p
        <5>1. rate_buckets'[q] = counted /\ admitted'[q] = more
          BY <1>2, <1>3, <2>3, <3>5, <4>1 DEF Buckets
        <5>2. QED
          BY <3>4, <5>1
      <4>2. CASE q # p
        <5>1. rate_buckets'[q] = kept[q] /\ admitted'[q] = admitted[q]
          BY <1>2, <1>3, <2>3, <3>5, <4>2 DEF Buckets
        <5>2. QED
          BY <1>6, <5>1
      <4>3. QED
        BY <4>1, <4>2
    <3>10. QED
      BY <1>1, <3>6, <3>7, <3>8, <3>9 DEF Buckets
  <2>4. QED
    BY <1>1, <2>1, <2>2, <2>3
<1>12. QED
  BY <1>1, <1>4, <1>5, <1>11, BansFrame

LEMMA AllowStoreStep ==
    ASSUME LimitsInv, NEW w \in Workers, allow_store(w)
    PROVE  LimitsInv'
<1> USE DEF LimitsInv
<1> DEFINE p == request[w].peer
           t == request[w].time
           bytes == IF request[w].bytes = Light THEN 0 ELSE request[w].bytes
           kept == Pruned(store_windows, t)
           fresh == [started |-> t, count |-> 0, bytes |-> 0]
           window == Current(kept, p, t, fresh)
           counted == [window EXCEPT !.count = @ + 1, !.bytes = @ + bytes]
<1>1. /\ stage[w] = "store"
      /\ UNCHANGED <<now, banned_peers, rate_buckets, mailbox_bytes, admitted>>
      /\ rates_pruned_at' = t \/ rates_pruned_at' = rates_pruned_at
      /\ \/ store_windows' = kept
         \/ HasKey(kept, p) /\ store_windows' = [kept EXCEPT ![p] = window]
         \/ HasKey(kept, p) /\ store_windows' = [kept EXCEPT ![p] = counted]
      /\ \/ Finish(w)
         \/ /\ request[w].bytes # Light /\ Proceed(w, "store", "mailbox")
            /\ request' = [request EXCEPT ![w].time = now]
  BY DEF allow_store, NotePrune
<1>2. /\ p \in Peers /\ t \in Times /\ t \in Nat
      /\ request[w].bytes \in StoreSizes \cup {Light}
  BY <1>1 DEF Serving, Request, Times
<1>3. bytes \in Nat
  BY <1>2, LimitsAssumption
<1>4. Serving'
  BY <1>1, FinishServing, ClockServing DEF Stages
<1>5. /\ kept \in [Peers -> StoreWindow \cup {NoEntry}]
      /\ Keys(kept) \subseteq Keys(store_windows)
  <2>1. \A f \in [Peers -> StoreWindow \cup {NoEntry}] : \A u \in Times :
           /\ Pruned(f, u) \in [Peers -> StoreWindow \cup {NoEntry}]
           /\ Keys(Pruned(f, u)) \subseteq Keys(f)
    BY PrunedMap
  <2>2. store_windows \in [Peers -> StoreWindow \cup {NoEntry}]
    BY DEF Windows
  <2>3. QED
    BY <1>2, <2>1, <2>2
<1> HIDE DEF kept, bytes
<1>6. window \in StoreWindow
  <2>1. fresh \in StoreWindow
    BY <1>2 DEF StoreWindow
  <2>2. kept[p] \in StoreWindow \cup {NoEntry}
    BY <1>2, <1>5
  <2> HIDE DEF fresh
  <2>3. QED
    BY <2>1, <2>2 DEF Current
<1> HIDE DEF window, fresh
<1>7. counted \in StoreWindow
  <2>1. window.count + 1 \in Nat /\ window.bytes + bytes \in Nat
    BY <1>3, <1>6 DEF StoreWindow
  <2> DEFINE c == window.count + 1
             b == window.bytes + bytes
  <2> HIDE DEF c, b
  <2>2. [window EXCEPT !.count = c, !.bytes = b] \in StoreWindow
    BY <1>6, <2>1 DEF StoreWindow, c, b
  <2>3. QED
    BY <2>2 DEF c, b
<1> HIDE DEF counted
<1>8. \A f, g \in [Peers -> StoreWindow \cup {NoEntry}] :
         /\ IsFiniteSet(Keys(f)) /\ Cardinality(Keys(f)) <= MaxRateKeys
         /\ Keys(g) \subseteq Keys(f)
         => /\ IsFiniteSet(Keys(g)) /\ Cardinality(Keys(g)) <= MaxRateKeys
            /\ \A r \in Peers : \A e \in StoreWindow :
                  HasKey(g, r) => /\ IsFiniteSet(Keys([g EXCEPT ![r] = e]))
                                  /\ Cardinality(Keys([g EXCEPT ![r] = e])) <= MaxRateKeys
  BY KeysBound, KeysFewer
<1>9. /\ IsFiniteSet(Keys(kept)) /\ Cardinality(Keys(kept)) <= MaxRateKeys
      /\ \A e \in StoreWindow :
            HasKey(kept, p) => /\ IsFiniteSet(Keys([kept EXCEPT ![p] = e]))
                               /\ Cardinality(Keys([kept EXCEPT ![p] = e])) <= MaxRateKeys
  <2>1. /\ store_windows \in [Peers -> StoreWindow \cup {NoEntry}]
        /\ IsFiniteSet(Keys(store_windows)) /\ Cardinality(Keys(store_windows)) <= MaxRateKeys
    BY DEF Windows
  <2>2. QED
    BY <1>2, <1>5, <1>8, <2>1
<1>10. /\ store_windows' \in [Peers -> StoreWindow \cup {NoEntry}]
       /\ IsFiniteSet(Keys(store_windows')) /\ Cardinality(Keys(store_windows')) <= MaxRateKeys
  BY <1>1, <1>5, <1>6, <1>7, <1>9
<1>11. Windows'
  BY <1>1, <1>2, <1>10 DEF Windows
<1>12. QED
  BY <1>1, <1>4, <1>11, BansFrame, BucketsFrame

LEMMA MailboxBytesStep ==
    ASSUME LimitsInv, NEW w \in Workers, NEW m \in RateMailboxes, allow_mailbox_bytes(w, m)
    PROVE  LimitsInv'
<1> USE DEF LimitsInv
<1> DEFINE t == request[w].time
           Entry == [started : Times, used : Nat]
           kept == Retain(mailbox_bytes,
                          LAMBDA k : /\ mailbox_bytes[k] # NoEntry
                                     /\ Since(t, mailbox_bytes[k].started) < Keep)
           window == Current(kept, m, t, [started |-> t, used |-> 0])
           counted == [window EXCEPT !.used = @ + request[w].bytes]
<1>1. /\ stage[w] = "mailbox" /\ Finish(w)
      /\ UNCHANGED <<now, banned_peers, rate_buckets, store_windows, rates_pruned_at, admitted>>
      /\ \/ UNCHANGED mailbox_bytes
         \/ mailbox_bytes' = [kept EXCEPT ![m] = counted]
         \/ mailbox_bytes' = [kept EXCEPT ![m] = window]
  BY DEF allow_mailbox_bytes
<1>2. t \in Times /\ request[w].bytes \in Nat
  BY <1>1, LimitsAssumption DEF Serving, Request
<1>3. Serving'
  BY <1>1, FinishServing
<1>4. kept \in [RateMailboxes -> Entry \cup {NoEntry}]
  BY DEF Retain, Windows
<1> HIDE DEF kept
<1>5. window \in Entry
  <2>1. [started |-> t, used |-> 0] \in Entry
    BY <1>2
  <2>2. kept[m] \in Entry \cup {NoEntry}
    BY <1>4
  <2> HIDE DEF Entry
  <2>3. QED
    BY <2>1, <2>2 DEF Current
<1> HIDE DEF window
<1>6. counted \in Entry
  BY <1>2, <1>5
<1> HIDE DEF counted
<1>7. mailbox_bytes' \in [RateMailboxes -> Entry \cup {NoEntry}]
  BY <1>1, <1>4, <1>5, <1>6 DEF Windows
<1>8. Windows'
  BY <1>1, <1>7 DEF Windows
<1>9. QED
  BY <1>1, <1>3, <1>8, BansFrame, BucketsFrame

LEMMA TickStep ==
    ASSUME LimitsInv, LimitsTick
    PROVE  LimitsInv'
<1> USE DEF LimitsInv
<1>1. /\ now' = now + 1 /\ now < MaxTime
      /\ \A w \in Workers : stage[w] = "idle" \/ now - request[w].time < ClockLag
      /\ admitted' = [p \in Peers |-> Aged(admitted[p])]
      /\ UNCHANGED <<banned_peers, rate_buckets, store_windows, mailbox_bytes,
                     rates_pruned_at, stage, request>>
  BY DEF LimitsTick, Aged, Ages
<1>2. now \in Nat /\ now' \in Times
  BY <1>1, LimitTypes DEF Serving, Times
<1>3. Serving'
  <2>1. ASSUME NEW v \in Workers
        PROVE  /\ stage[v] # "idle" => now + 1 <= request[v].time + ClockLag
               /\ request[v].time <= now + 1
    <3>1. request[v].time \in Nat /\ request[v].time <= now
      BY DEF Serving, Request, Times
    <3>2. QED
      BY <1>1, <1>2, <3>1, LimitTypes
  <2>2. QED
    BY <1>1, <1>2, <2>1 DEF Serving
<1>4. Bans'
  <2>1. ASSUME NEW p \in Peers, banned_peers[p] # NoEntry
        PROVE  banned_peers[p].banned_until <= (now + 1) + BanDuration
    <3>1. /\ banned_peers[p].banned_until \in Nat
          /\ banned_peers[p].banned_until <= now + BanDuration
      BY <2>1 DEF Bans, BanEntry
    <3>2. QED
      BY <1>2, <3>1, LimitTypes
  <2>2. QED
    BY <1>1, <2>1 DEF Bans
<1>5. Buckets'
  <2>1. \A a \in [Ages -> Nat] : Aged(a) \in [Ages -> Nat]
    BY TotalAged, LimitTypes DEF Ages
  <2>2. \A n \in Nat : \A b \in RateBucket \cup {NoEntry} : \A a \in [Ages -> Nat] :
           Budget(n, b, a) => Budget(n + 1, b, Aged(a))
    BY BudgetTick
  <2>3. ASSUME NEW p \in Peers
        PROVE  admitted'[p] \in [Ages -> Nat] /\ Budget(now', rate_buckets'[p], admitted'[p])
    <3>1. /\ admitted[p] \in [Ages -> Nat] /\ rate_buckets[p] \in RateBucket \cup {NoEntry}
          /\ Budget(now, rate_buckets[p], admitted[p])
      BY DEF Buckets
    <3>2. admitted'[p] = Aged(admitted[p])
      BY <1>1
    <3>3. Budget(now + 1, rate_buckets[p], Aged(admitted[p]))
      BY <1>2, <2>2, <3>1
    <3>4. QED
      BY <1>1, <2>1, <3>1, <3>2, <3>3
  <2>4. admitted' \in [Peers -> [Ages -> Nat]]
    <3>1. \A p \in Peers : Aged(admitted[p]) \in [Ages -> Nat]
      BY <2>1 DEF Buckets
    <3>2. QED
      BY <1>1, <3>1
  <2>5. QED
    BY <1>1, <2>3, <2>4 DEF Buckets
<1>6. QED
  BY <1>1, <1>3, <1>4, <1>5, WindowsFrame

LEMMA LimitsStart == LimitsInit => LimitsInv
<1> SUFFICES ASSUME LimitsInit PROVE LimitsInv
  OBVIOUS
<1> USE DEF LimitsInit
<1>1. Serving
  BY LimitTypes DEF Serving, Stages, Request, Idle, Times
<1>2. Bans
  BY DEF Bans
<1>3. Keys(rate_buckets) = {} /\ Keys(store_windows) = {}
  BY DEF Keys
<1>4. /\ IsFiniteSet(Keys(rate_buckets)) /\ Cardinality(Keys(rate_buckets)) <= MaxRateKeys
      /\ IsFiniteSet(Keys(store_windows)) /\ Cardinality(Keys(store_windows)) <= MaxRateKeys
  <2>1. IsFiniteSet({}) /\ Cardinality({}) = 0
    BY FS_EmptySet
  <2>2. Cardinality(Keys(rate_buckets)) = 0 /\ Cardinality(Keys(store_windows)) = 0
    BY <1>3, <2>1
  <2>3. IsFiniteSet(Keys(rate_buckets)) /\ IsFiniteSet(Keys(store_windows))
    BY <1>3, <2>1
  <2>4. QED
    BY <2>2, <2>3, LimitTypes
<1>5. Windows
  BY <1>4, LimitTypes DEF Windows, Times
<1>6. Buckets
  <2>1. admitted = [p \in Peers |-> [age \in Ages |-> 0]]
    BY DEF Ages
  <2>2. ASSUME NEW p \in Peers PROVE Budget(now, rate_buckets[p], admitted[p])
    <3>1. rate_buckets[p] = NoEntry
      OBVIOUS
    <3> HIDE DEF LimitsInit
    <3>2. admitted[p] = [age \in Ages |-> 0]
      BY <2>1
    <3>3. \A i \in Ages : admitted[p][i] = 0
      BY <3>2
    <3>4. QED
      BY <3>1, <3>3 DEF Budget
  <2>3. QED
    <3>1. admitted \in [Peers -> [Ages -> Nat]]
      BY <2>1
    <3>2. rate_buckets \in [Peers -> RateBucket \cup {NoEntry}]
      OBVIOUS
    <3>3. QED
      BY <1>4, <2>2, <3>1, <3>2 DEF Buckets
<1>7. QED
  BY <1>1, <1>2, <1>5, <1>6 DEF LimitsInv

LEMMA LimitsStep == LimitsInv /\ [LimitsNext]_limitVars => LimitsInv'
<1> SUFFICES ASSUME LimitsInv, [LimitsNext]_limitVars PROVE LimitsInv'
  OBVIOUS
<1>1. CASE UNCHANGED limitVars
  BY <1>1 DEF limitVars, LimitsInv, Serving, Bans, Windows, Buckets
<1>2. CASE LimitsNext
  BY <1>2, ArriveStep, CheckBanStep, CountRequestStep, ViolationStep, ComplianceStep,
     AllowStoreStep, MailboxBytesStep, TickStep DEF LimitsNext
<1>3. QED
  BY <1>1, <1>2

(* The buckets and the history of admissions stay as Budget says, bans end  *)
(* in time and no clock value is later than ClockLag.                       *)
THEOREM LimitsInvariant == LimitsSpec => []LimitsInv
  BY LimitsStart, LimitsStep, PTL DEF LimitsSpec

(* Every map of the limiter keeps its type, and the two rate maps never     *)
(* have more than max_rate_keys entries.                                    *)
THEOREM LimitsTypeCorrect == LimitsSpec => []LimitsTypeOK
<1>1. LimitsInv => LimitsTypeOK
  BY DEF LimitsInv, Serving, Bans, Windows, Buckets, LimitsTypeOK, Stages, Request, Ages
<1>2. QED
  BY <1>1, LimitsInvariant, PTL

(* For every budget, lag and number of workers: fixed minutes that start    *)
(* with a request (allow_request_banning) admit at most two budgets in any  *)
(* span of a minute less the lag.                                           *)
THEOREM TwoBudgetsAtMost == LimitsSpec => []NoMoreThanTwoBudgets
<1>1. LimitsInv => NoMoreThanTwoBudgets
  <2> SUFFICES ASSUME LimitsInv, NEW p \in Peers
               PROVE  MapThenSumSet(LAMBDA age : admitted[p][age], Ages) <= 2 * MaxRequests
    BY DEF NoMoreThanTwoBudgets, Ages
  <2>1. MapThenSumSet(LAMBDA age : admitted[p][age], Ages) = Total(admitted[p], Ages)
    BY DEF MapThenSumSet, MapThenFoldSet, Total, IsSum
  <2>2. /\ admitted[p] \in [Ages -> Nat] /\ rate_buckets[p] \in RateBucket \cup {NoEntry}
        /\ Budget(now, rate_buckets[p], admitted[p])
    BY DEF LimitsInv, Buckets
  <2>3. CASE rate_buckets[p] = NoEntry
    <3>1. \A i \in Ages : admitted[p][i] = 0
      BY <2>2, <2>3 DEF Budget
    <3>2. \A a \in [Ages -> Nat] : (\A i \in Ages : a[i] = 0) => Total(a, Ages) = 0
      BY TotalZero, TotalAges, LimitTypes DEF Ages
    <3>3. Total(admitted[p], Ages) = 0
      BY <2>2, <3>1, <3>2
    <3>4. QED
      BY <2>1, <3>3, LimitTypes
  <2>4. CASE rate_buckets[p] # NoEntry
    <3>1. /\ Total(admitted[p], Ages) <= MaxRequests + rate_buckets[p].count
          /\ rate_buckets[p].count <= MaxRequests /\ rate_buckets[p].count \in Nat
      BY <2>2, <2>4 DEF Budget, RateBucket
    <3>2. Total(admitted[p], Ages) \in Nat
      <4>1. Span \in Ages /\ Ages = 0 .. Span
        BY LimitTypes DEF Ages
      <4>2. Total(admitted[p], 0 .. Span) \in Nat
        BY <2>2, <4>1, TotalAges
      <4>3. QED
        BY <4>1, <4>2
    <3>3. QED
      BY <2>1, <3>1, <3>2, LimitTypes
  <2>5. QED
    BY <2>3, <2>4
<1>2. QED
  BY <1>1, LimitsInvariant, PTL

(* No step of any worker lifts a ban before its time (note_rate_violation   *)
(* and the retain of allow_request_banning), but for the lag of the clock   *)
(* value that renews it.                                                    *)
THEOREM BansStand == LimitsSpec => BansLast
<1> DEFINE Stand == \A p \in Peers :
          IsBanned(banned_peers[p], now) =>
             /\ banned_peers'[p] # NoEntry
             /\ banned_peers'[p].banned_until + ClockLag >= banned_peers[p].banned_until
<1>1. ASSUME LimitsInv, [LimitsNext]_limitVars
      PROVE  [Stand]_limitVars
  <2> SUFFICES ASSUME LimitsNext, NEW p \in Peers, IsBanned(banned_peers[p], now)
               PROVE  /\ banned_peers'[p] # NoEntry
                      /\ banned_peers'[p].banned_until + ClockLag
                            >= banned_peers[p].banned_until
    BY <1>1
  <2> DEFINE old == banned_peers[p]
             Same(entry) == entry # NoEntry /\ entry.banned_until = old.banned_until
  <2>1. /\ old # NoEntry /\ old \in BanEntry /\ old.banned_until \in Nat
        /\ old.banned_until > now /\ old.banned_until <= now + BanDuration
        /\ now \in Nat /\ p \in DOMAIN banned_peers
    BY <1>1 DEF LimitsInv, Serving, Bans, BanEntry, IsBanned, Times
  <2>2. Same(banned_peers'[p])
           => /\ banned_peers'[p] # NoEntry
              /\ banned_peers'[p].banned_until + ClockLag >= banned_peers[p].banned_until
    BY <2>1, LimitTypes
  <2>3. CASE UNCHANGED banned_peers
    BY <2>1, <2>2, <2>3
  <2>4. ASSUME NEW w \in Workers, CheckBan(w)
        PROVE  Same(banned_peers'[p])
    <3>1. request[w].time \in Nat /\ request[w].time <= now
      BY <1>1 DEF LimitsInv, Serving, Request, Times
    <3>2. KeepBan(old, request[w].time)
      BY <2>1, <3>1 DEF KeepBan
    <3>3. banned_peers'[p] = old
      BY <2>1, <2>4, <3>2 DEF CheckBan, Retain
    <3>4. QED
      BY <2>1, <3>3
  <2>5. ASSUME NEW w \in Workers, note_rate_compliance(w)
        PROVE  Same(banned_peers'[p])
    <3>1. \/ banned_peers' = banned_peers
          \/ banned_peers' = [banned_peers EXCEPT ![request[w].peer].violations = 0]
      BY <2>5 DEF note_rate_compliance
    <3>2. CASE banned_peers' = banned_peers
      BY <2>1, <3>2
    <3>3. CASE banned_peers' = [banned_peers EXCEPT ![request[w].peer].violations = 0]
      <4>1. banned_peers'[p] = old \/ banned_peers'[p] = [old EXCEPT !.violations = 0]
        BY <2>1, <3>3
      <4>2. [old EXCEPT !.violations = 0] \in BanEntry
        BY <2>1 DEF BanEntry
      <4>3. [old EXCEPT !.violations = 0].banned_until = old.banned_until
        BY <2>1 DEF BanEntry
      <4>4. QED
        BY <2>1, <4>1, <4>2, <4>3, NoEntryApart
    <3>4. QED
      BY <3>1, <3>2, <3>3
  <2>6. ASSUME NEW w \in Workers, note_rate_violation(w)
        PROVE  /\ banned_peers'[p] # NoEntry
               /\ banned_peers'[p].banned_until + ClockLag >= old.banned_until
    <3>1. /\ stage[w] = "violation" /\ request[w].time \in Nat /\ request[w].time <= now
          /\ now <= request[w].time + ClockLag
      BY <1>1, <2>6 DEF LimitsInv, Serving, Request, Times, note_rate_violation
    <3>2. CASE request[w].peer # p
      <4>1. banned_peers'[p] = old
        BY <2>1, <2>6, <3>2 DEF note_rate_violation
      <4>2. QED
        BY <2>1, <4>1, LimitTypes
    <3>3. CASE request[w].peer = p
      <4>1. /\ banned_peers'[p] # NoEntry
            /\ \/ banned_peers'[p].banned_until = request[w].time + BanDuration
               \/ banned_peers'[p].banned_until = old.banned_until
        <5> DEFINE tally == 1 + old.violations
                   until == IF tally >= BanThreshold THEN request[w].time + BanDuration
                            ELSE old.banned_until
        <5>1. banned_peers' = [banned_peers EXCEPT ![p] =
                 [violations |-> tally, banned_until |-> until]]
          BY <2>1, <2>6, <3>3 DEF note_rate_violation
        <5>2. until = request[w].time + BanDuration \/ until = old.banned_until
          OBVIOUS
        <5> HIDE DEF tally, until
        <5>3. banned_peers'[p] = [violations |-> tally, banned_until |-> until]
          BY <2>1, <5>1
        <5>4. QED
          BY <5>2, <5>3 DEF NoEntry
      <4>2. QED
        BY <2>1, <3>1, <4>1, LimitTypes
    <3>4. QED
      BY <3>2, <3>3
  <2>7. \/ UNCHANGED banned_peers
        \/ \E w \in Workers :
              CheckBan(w) \/ note_rate_compliance(w) \/ note_rate_violation(w)
    BY Zenon DEF LimitsNext, Arrive, CountRequest, allow_store, allow_mailbox_bytes, LimitsTick
  <2> HIDE DEF Same, old
  <2>8. CASE \E w \in Workers : note_rate_violation(w)
    BY <2>6, <2>8 DEF old
  <2>9. CASE \E w \in Workers : CheckBan(w) \/ note_rate_compliance(w)
    BY <2>2, <2>4, <2>5, <2>9
  <2>10. QED
    BY <2>3, <2>7, <2>8, <2>9
<1>2. QED
  BY <1>1, LimitsInvariant, PTL DEF LimitsSpec, BansLast

=============================================================================
