--------------------------- MODULE BleMeshProofs ---------------------------
(* Proofs about BleMesh: the table has one link per peer and keeps its      *)
(* bound, dialled links are served by their own tasks, and crossed links    *)
(* converge, for any addresses, limits and times.                           *)
(*                                                                          *)
(* None of this depends on the backoff or on the record of failures.  The   *)
(* inductive invariant is the two properties with the types of links, next  *)
(* and tasks.  All actions but the reservations only take links away or     *)
(* change what OneLinkPerPeer does not look at; one lemma covers them.      *)
(*                                                                          *)
(* Apart from the table: the worker does not restart a mesh that keeps      *)
(* failing, what a stop has to close it knows of, and the tasks have a      *)
(* bound of their own, though a task may outlive its link.  The backoff     *)
(* keeps its bound too.                                                     *)
EXTENDS BleMesh, InductionTheorems, SequenceTheorems, TLAPS

TableTypes ==
    /\ links \in [Ids -> Link \cup {NoLink}]
    /\ next \in 0 .. MaxId
    /\ tasks \in [Ids -> Task]

IInv == TableTypes /\ OneLinkPerPeer /\ DialledLinksServed

\* The new table has no link the old one did not have, to the same peer.
Fewer == \A i \in Live(links') : i \in Live(links) /\ links'[i].peer = links[i].peer

-----------------------------------------------------------------------------
(* The table is finite.                                                     *)
LEMMA LiveFinite ==
    ASSUME NEW ls PROVE IsFiniteSet(Live(ls))
  <1>1. IsFiniteSet(Ids)
    BY FS_Interval, LimitsAssumption DEF Ids
  <1> QED
    BY <1>1, FS_Subset DEF Live

(* A step that adds no link keeps one link per peer.                        *)
LEMMA FewerLinks ==
    ASSUME OneLinkPerPeer, Fewer PROVE OneLinkPerPeer'
  <1>1. Live(links') \subseteq Live(links)
    BY DEF Fewer
  <1>2. Cardinality(Live(links')) <= Cardinality(Live(links))
    BY <1>1, LiveFinite, FS_Subset
  <1>3. Cardinality(Live(links')) \in Nat /\ Cardinality(Live(links)) \in Nat
    BY LiveFinite, FS_CardinalityType
  <1>4. Cardinality(Live(links')) <= MAX_LINKS
    BY <1>2, <1>3, LimitsAssumption DEF OneLinkPerPeer
  <1> QED
    BY <1>1, <1>4 DEF Fewer, OneLinkPerPeer

(* Taking links away leaves a table with the types of the old one.          *)
LEMMA WithoutFacts ==
    ASSUME NEW ls \in [Ids -> Link \cup {NoLink}], NEW gone
    PROVE  /\ Without(ls, gone) \in [Ids -> Link \cup {NoLink}]
           /\ \A i \in Live(Without(ls, gone)) :
                 i \in Live(ls) /\ i \notin gone /\ Without(ls, gone)[i] = ls[i]
  BY DEF Without, Live

(* What reserve keeps of the table: none of it a link to p.                 *)
LEMMA SweptFacts ==
    ASSUME TableTypes, NEW p
    PROVE  /\ Swept(p) \in [Ids -> Link \cup {NoLink}]
           /\ \A i \in Live(Swept(p)) :
                 i \in Live(links) /\ Swept(p)[i] = links[i] /\ links[i].peer # p
  <1> USE DEF TableTypes
  <1>1. /\ Replaced(p) \in [Ids -> Link \cup {NoLink}]
        /\ \A i \in Live(Replaced(p)) :
              i \in Live(links) /\ i \notin LinksTo(links, p) /\ Replaced(p)[i] = links[i]
    BY WithoutFacts DEF Replaced
  <1>2. /\ Swept(p) \in [Ids -> Link \cup {NoLink}]
        /\ \A i \in Live(Swept(p)) : i \in Live(Replaced(p)) /\ Swept(p)[i] = Replaced(p)[i]
    BY <1>1, WithoutFacts DEF Swept
  <1> QED
    BY <1>1, <1>2 DEF LinksTo

(* A reservation adds one link, to a peer that has no other.                *)
LEMMA ReserveKeeps ==
    ASSUME TableTypes, OneLinkPerPeer, NEW p \in Addresses \ {Local, 0},
           NEW role \in Role, NEW ready \in BOOLEAN, Room(p), Reserve(p, role, ready)
    PROVE  /\ links' \in [Ids -> Link \cup {NoLink}]
           /\ next' \in 0 .. MaxId /\ next + 1 \in Ids
           /\ links'[next + 1] = NewLink(p, role, ready)
           /\ \A i \in Live(links') \ {next + 1} :
                 i \in Live(links) /\ links'[i] = links[i]
           /\ OneLinkPerPeer'
  <1>1. next + 1 \in Ids /\ next' \in 0 .. MaxId
    BY LimitsAssumption DEF Room, Reserve, TableTypes, Ids
  <1>2. NewLink(p, role, ready) \in Link
    BY LimitsAssumption DEF NewLink, Link
  <1>3. Swept(p) \in [Ids -> Link \cup {NoLink}]
    BY SweptFacts
  <1>4. links' = [Swept(p) EXCEPT ![next + 1] = NewLink(p, role, ready)]
    BY DEF Reserve
  <1>5. links' \in [Ids -> Link \cup {NoLink}] /\ links'[next + 1] = NewLink(p, role, ready)
    BY <1>1, <1>2, <1>3, <1>4
  <1>6. \A i \in Live(links') \ {next + 1} :
           i \in Live(Swept(p)) /\ links'[i] = Swept(p)[i]
    BY <1>1, <1>3, <1>4 DEF Live
  <1>7. \A i \in Live(links') \ {next + 1} :
           i \in Live(links) /\ links'[i] = links[i] /\ links[i].peer # p
    BY <1>6, SweptFacts
  <1>8. links'[next + 1].peer = p
    BY <1>5 DEF NewLink
  <1>9. Cardinality(Live(links')) <= MAX_LINKS
    <2>1. Live(links') \subseteq Live(Swept(p)) \cup {next + 1}
      BY <1>6
    <2>2. IsFiniteSet(Live(Swept(p))) /\ IsFiniteSet(Live(Swept(p)) \cup {next + 1})
      BY LiveFinite, FS_AddElement
    <2>3. Cardinality(Live(Swept(p)) \cup {next + 1}) <= Cardinality(Live(Swept(p))) + 1
      <3>1. Cardinality(Live(Swept(p)) \cup {next + 1})
               = IF next + 1 \in Live(Swept(p)) THEN Cardinality(Live(Swept(p)))
                 ELSE Cardinality(Live(Swept(p))) + 1
        BY <2>2, FS_AddElement
      <3>2. Cardinality(Live(Swept(p))) \in Nat
        BY <2>2, FS_CardinalityType
      <3> QED
        BY <3>1, <3>2
    <2>4. Cardinality(Live(links')) <= Cardinality(Live(Swept(p)) \cup {next + 1})
      BY <2>1, <2>2, FS_Subset
    <2>5. /\ Cardinality(Live(links')) \in Nat
          /\ Cardinality(Live(Swept(p))) \in Nat
          /\ Cardinality(Live(Swept(p)) \cup {next + 1}) \in Nat
      BY <2>2, LiveFinite, FS_CardinalityType
    <2>6. Cardinality(Live(Swept(p))) < MAX_LINKS
      BY DEF Room
    <2> QED
      BY <2>3, <2>4, <2>5, <2>6, LimitsAssumption
  <1>10. OneLinkPerPeer'
    <2>1. ASSUME NEW i \in Live(links'), NEW j \in Live(links'),
                 links'[i].peer = links'[j].peer
          PROVE  i = j
      BY <2>1, <1>7, <1>8 DEF OneLinkPerPeer
    <2>2. ASSUME NEW i \in Live(links') PROVE links'[i].peer \notin {Local, 0}
      BY <2>2, <1>7, <1>8 DEF OneLinkPerPeer
    <2> QED
      BY <2>1, <2>2, <1>9 DEF OneLinkPerPeer
  <1> QED
    BY <1>1, <1>5, <1>7, <1>10

-----------------------------------------------------------------------------
(* The part of the invariant about dialled links, for a step that leaves    *)
(* the dialled links it keeps, and their tasks, as they were.               *)
LEMMA ServedKept ==
    ASSUME DialledLinksServed,
           \A i \in Live(links') :
              links'[i].role = "central" =>
                 /\ i \in Live(links) /\ tasks'[i] = tasks[i]
                 /\ links'[i].peer = links[i].peer
                 /\ links'[i].role = links[i].role
                 /\ links'[i].ready = links[i].ready
    PROVE  DialledLinksServed'
  BY DEF DialledLinksServed, role_links, Live

(* A step that takes links away, with the tasks of some of them.            *)
LEMMA TakingAway ==
    ASSUME IInv, next' \in 0 .. MaxId, tasks' \in [Ids -> Task], NEW gone,
           links' = Without(links, gone),
           \A i \in Ids \ gone : tasks'[i] = tasks[i]
    PROVE  IInv'
  <1>1. /\ links' \in [Ids -> Link \cup {NoLink}]
        /\ \A i \in Live(links') :
              i \in Live(links) /\ i \notin gone /\ links'[i] = links[i]
    BY WithoutFacts DEF IInv, TableTypes
  <1>2. Fewer
    BY <1>1 DEF Fewer
  <1>3. OneLinkPerPeer'
    BY <1>2, FewerLinks DEF IInv
  <1>4. DialledLinksServed'
    BY <1>1, ServedKept DEF IInv, Live
  <1> QED
    BY <1>1, <1>3, <1>4 DEF IInv, TableTypes

(* A step that makes one link ready, heard or older: it keeps its peer and  *)
(* direction.                                                               *)
LEMMA Changing ==
    ASSUME IInv, next' = next, tasks' = tasks,
           links' \in [Ids -> Link \cup {NoLink}],
           \A i \in Live(links') :
              /\ i \in Live(links)
              /\ links'[i].peer = links[i].peer
              /\ links'[i].role = links[i].role
              /\ links'[i].ready = links[i].ready
    PROVE  IInv'
  <1>1. OneLinkPerPeer'
    BY FewerLinks DEF IInv, Fewer
  <1>2. DialledLinksServed'
    BY ServedKept DEF IInv
  <1> QED
    BY <1>1, <1>2 DEF IInv, TableTypes

(* The sweep of a reservation that finds no room, or whose link is refused. *)
LEMMA SweepOnly ==
    ASSUME IInv, NEW p, next' \in 0 .. MaxId, tasks' = tasks, links' = Swept(p)
    PROVE  IInv'
  <1>1. /\ links' \in [Ids -> Link \cup {NoLink}]
        /\ \A i \in Live(links') : i \in Live(links) /\ links'[i] = links[i]
    BY SweptFacts DEF IInv
  <1>2. OneLinkPerPeer'
    BY <1>1, FewerLinks DEF IInv, Fewer
  <1>3. DialledLinksServed'
    BY <1>1, ServedKept DEF IInv
  <1> QED
    BY <1>1, <1>2, <1>3 DEF IInv, TableTypes

-----------------------------------------------------------------------------
(* Dialling: the new link and its task come in together.                    *)
LEMMA DialKeeps ==
    ASSUME IInv, NEW p \in Addresses, Dial(p) PROVE IInv'
  <1>1. CASE ~Room(p)
    <2>1. links' = Swept(p) /\ next' = next /\ tasks' = tasks
      BY <1>1 DEF Dial
    <2> QED
      BY <2>1, SweepOnly DEF IInv, TableTypes
  <1>2. CASE Room(p)
    <2>1. /\ p \in Addresses \ {Local, 0}
          /\ Reserve(p, "central", FALSE)
          /\ tasks' = [tasks EXCEPT ![next + 1] = [phase |-> "setup", peer |-> p]]
      BY <1>2 DEF Dial, MayReserve
    <2>2. /\ links' \in [Ids -> Link \cup {NoLink}]
          /\ next' \in 0 .. MaxId /\ next + 1 \in Ids
          /\ links'[next + 1] = NewLink(p, "central", FALSE)
          /\ \A i \in Live(links') \ {next + 1} :
                i \in Live(links) /\ links'[i] = links[i]
          /\ OneLinkPerPeer'
      BY <1>2, <2>1, ReserveKeeps DEF IInv, Role
    <2>3. tasks' \in [Ids -> Task] /\ tasks'[next + 1] = [phase |-> "setup", peer |-> p]
      BY <2>1, <2>2 DEF IInv, TableTypes, Task, Phase
    <2>4. DialledLinksServed'
      <3> SUFFICES ASSUME NEW i \in Live(links'), links'[i].role = "central"
                   PROVE  /\ tasks'[i].peer = links'[i].peer
                          /\ tasks'[i].phase = IF links'[i].ready THEN "serving" ELSE "setup"
        BY DEF DialledLinksServed, role_links, Live
      <3>1. CASE i = next + 1
        BY <3>1, <2>2, <2>3 DEF NewLink
      <3>2. CASE i # next + 1
        <4>1. i \in role_links("central") /\ links'[i] = links[i] /\ tasks'[i] = tasks[i]
          BY <3>2, <2>1, <2>2 DEF role_links, IInv, TableTypes, Live
        <4> QED
          BY <4>1 DEF IInv, DialledLinksServed
      <3> QED
        BY <3>1, <3>2
    <2> QED
      BY <2>2, <2>3, <2>4 DEF IInv, TableTypes
  <1> QED
    BY <1>1, <1>2

(* The end of a task takes its own link away, and no other.                 *)
LEMMA FinishKeeps ==
    ASSUME IInv, NEW id \in Ids, NEW fail \in BOOLEAN, Finish(id, fail) PROVE IInv'
  <1>1. links' = Without(links, {id}) /\ next' = next
    BY DEF Finish
  <1>2. tasks' \in [Ids -> Task] /\ \A i \in Ids \ {id} : tasks'[i] = tasks[i]
    BY DEF Finish, IInv, TableTypes, Task, Phase, NoTask
  <1> QED
    BY <1>1, <1>2, TakingAway DEF IInv, TableTypes

(* Setting up makes link and task ready together, or ends the task.         *)
LEMMA SetupDoneKeeps ==
    ASSUME IInv, NEW id \in Ids, NEW usable \in BOOLEAN, SetupDone(id, usable)
    PROVE  IInv'
  <1>1. CASE ~(links[id] # NoLink /\ usable)
    BY <1>1, FinishKeeps DEF SetupDone
  <1>2. CASE links[id] # NoLink /\ usable
    <2>1. /\ links' = [links EXCEPT ![id] = [links[id] EXCEPT !.ready = TRUE]]
          /\ tasks' = [tasks EXCEPT ![id] = [tasks[id] EXCEPT !.phase = "serving"]]
          /\ next' = next
      BY <1>2 DEF SetupDone
    <2>2. links[id] \in Link /\ tasks[id] \in Task
      BY <1>2 DEF IInv, TableTypes
    <2>3. /\ [links[id] EXCEPT !.ready = TRUE] \in Link
          /\ [links[id] EXCEPT !.ready = TRUE].peer = links[id].peer
          /\ [links[id] EXCEPT !.ready = TRUE].role = links[id].role
          /\ [links[id] EXCEPT !.ready = TRUE].ready = TRUE
      BY <2>2 DEF Link
    <2>4. /\ [tasks[id] EXCEPT !.phase = "serving"] \in Task
          /\ [tasks[id] EXCEPT !.phase = "serving"].peer = tasks[id].peer
          /\ [tasks[id] EXCEPT !.phase = "serving"].phase = "serving"
      BY <2>2 DEF Task, Phase
    <2>5. links' \in [Ids -> Link \cup {NoLink}] /\ tasks' \in [Ids -> Task]
      BY <2>1, <2>3, <2>4 DEF IInv, TableTypes
    <2>6. /\ links'[id] = [links[id] EXCEPT !.ready = TRUE]
          /\ tasks'[id] = [tasks[id] EXCEPT !.phase = "serving"]
          /\ \A i \in Ids \ {id} : links'[i] = links[i] /\ tasks'[i] = tasks[i]
      BY <2>1 DEF IInv, TableTypes
    <2>7. OneLinkPerPeer'
      <3>1. Fewer
        BY <1>2, <2>3, <2>6 DEF Fewer, Live
      <3> QED
        BY <3>1, FewerLinks DEF IInv
    <2>8. DialledLinksServed'
      <3> SUFFICES ASSUME NEW i \in Live(links'), links'[i].role = "central"
                   PROVE  /\ tasks'[i].peer = links'[i].peer
                          /\ tasks'[i].phase = IF links'[i].ready THEN "serving" ELSE "setup"
        BY DEF DialledLinksServed, role_links, Live
      <3>1. CASE i = id
        <4>1. tasks[id].peer = links[id].peer
          BY <3>1, <1>2, <2>3, <2>6 DEF IInv, DialledLinksServed, role_links, Live
        <4> QED
          BY <3>1, <4>1, <2>3, <2>4, <2>6
      <3>2. CASE i # id
        BY <3>2, <2>6 DEF IInv, DialledLinksServed, role_links, Live
      <3> QED
        BY <3>1, <3>2
    <2> QED
      BY <2>1, <2>5, <2>7, <2>8 DEF IInv, TableTypes
  <1> QED
    BY <1>1, <1>2

(* A packet heard on a link changes how long it has been silent.            *)
LEMMA HearKeeps ==
    ASSUME IInv, NEW id \in Live(links), next' = next, tasks' = tasks,
           links' = [links EXCEPT ![id] = [links[id] EXCEPT !.silent = 0]]
    PROVE  IInv'
  <1>1. id \in Ids /\ links[id] \in Link
    BY DEF IInv, TableTypes, Live
  <1>2. /\ [links[id] EXCEPT !.silent = 0] \in Link
        /\ [links[id] EXCEPT !.silent = 0].peer = links[id].peer
        /\ [links[id] EXCEPT !.silent = 0].role = links[id].role
        /\ [links[id] EXCEPT !.silent = 0].ready = links[id].ready
    BY <1>1, LimitsAssumption DEF Link
  <1>3. /\ links' \in [Ids -> Link \cup {NoLink}]
        /\ links'[id] = [links[id] EXCEPT !.silent = 0]
        /\ \A i \in Ids \ {id} : links'[i] = links[i]
    BY <1>1, <1>2 DEF IInv, TableTypes
  <1> QED
    BY <1>2, <1>3, Changing DEF Live

-----------------------------------------------------------------------------
(* An incoming link comes in without a task.                                *)
LEMMA AdmitKeeps ==
    ASSUME IInv, NEW p \in Addresses, NEW usable \in BOOLEAN, Admit(p, usable),
           tasks' = tasks
    PROVE  IInv'
  <1>1. CASE ~Room(p)
    <2>1. links' = Swept(p) /\ next' = next
      BY <1>1 DEF Admit
    <2> QED
      BY <2>1, SweepOnly DEF IInv, TableTypes
  <1>2. CASE Room(p) /\ ~usable
    <2>1. links' = Swept(p) /\ next' = next + 1
      BY <1>2 DEF Admit
    <2>2. next' \in 0 .. MaxId
      BY <1>2, <2>1, LimitsAssumption DEF Room, IInv, TableTypes
    <2> QED
      BY <2>1, <2>2, SweepOnly
  <1>3. CASE Room(p) /\ usable
    <2>1. p \in Addresses \ {Local, 0} /\ Reserve(p, "peripheral", TRUE)
      BY <1>3 DEF Admit, MayReserve
    <2>2. /\ links' \in [Ids -> Link \cup {NoLink}]
          /\ next' \in 0 .. MaxId /\ next + 1 \in Ids
          /\ links'[next + 1] = NewLink(p, "peripheral", TRUE)
          /\ \A i \in Live(links') \ {next + 1} :
                i \in Live(links) /\ links'[i] = links[i]
          /\ OneLinkPerPeer'
      BY <1>3, <2>1, ReserveKeeps DEF IInv, Role
    <2>3. links'[next + 1].role # "central"
      BY <2>2 DEF NewLink
    <2>4. DialledLinksServed'
      BY <2>2, <2>3, ServedKept DEF IInv
    <2> QED
      BY <2>2, <2>4 DEF IInv, TableTypes
  <1> QED
    BY <1>1, <1>2, <1>3

(* Time changes no peer, direction or readiness.                            *)
LEMMA TickLinks ==
    ASSUME IInv, Tick
    PROVE  /\ \A i \in Ids : links[i] # NoLink =>
                 /\ links'[i] \in Link
                 /\ links'[i].peer = links[i].peer
                 /\ links'[i].role = links[i].role
                 /\ links'[i].ready = links[i].ready
           /\ \A i \in Ids : links[i] = NoLink => links'[i] = NoLink
           /\ next' = next /\ tasks' = tasks /\ connected' = connected
  <1>1. ASSUME NEW i \in Ids, links[i] # NoLink
        PROVE  /\ links'[i] \in Link
               /\ links'[i].peer = links[i].peer
               /\ links'[i].role = links[i].role
               /\ links'[i].ready = links[i].ready
    <2>1. links[i] \in Link
      BY <1>1 DEF IInv, TableTypes
    <2>2. links'[i] = [[links[i] EXCEPT !.age = Older(links[i].age, SetupTime)]
                          EXCEPT !.silent = Older(links[i].silent, SilentTime)]
      BY <1>1, <2>1 DEF Tick, Link
    <2>3. /\ Older(links[i].age, SetupTime) \in 0 .. SetupTime + 1
          /\ Older(links[i].silent, SilentTime) \in 0 .. SilentTime + 1
      BY <2>1, LimitsAssumption DEF Link, Older
    <2> QED
      BY <2>1, <2>2, <2>3 DEF Link
  <1>2. \A i \in Ids : links[i] = NoLink => links'[i] = NoLink
    BY DEF Tick
  <1>3. next' = next /\ tasks' = tasks /\ connected' = connected
    BY DEF Tick
  <1> QED
    BY <1>1, <1>2, <1>3

LEMMA TickKeeps ==
    ASSUME IInv, Tick PROVE IInv'
  <1>1. links' \in [Ids -> Link \cup {NoLink}]
    <2>1. DOMAIN links' = Ids /\ links' = [i \in Ids |-> links'[i]]
      BY DEF Tick
    <2> QED
      BY <2>1, TickLinks
  <1> QED
    BY <1>1, TickLinks, Changing DEF Live

-----------------------------------------------------------------------------
(* The empty table at the start satisfies the invariant.                    *)
LEMMA InitIInv == Init => IInv
  <1> SUFFICES ASSUME Init PROVE IInv
    OBVIOUS
  <1>1. Live(links) = {}
    BY DEF Init, Live
  <1>2. Cardinality(Live(links)) = 0
    BY <1>1, FS_EmptySet
  <1>3. TableTypes
    BY LimitsAssumption DEF Init, TableTypes, Task, Phase, NoTask
  <1> QED
    BY <1>1, <1>2, <1>3, LimitsAssumption
    DEF IInv, OneLinkPerPeer, DialledLinksServed, role_links

(* Every step of the tasks, the neighbours, the clock and the worker keeps  *)
(* the invariant.                                                           *)
LEMMA NextIInv == IInv /\ [Next]_vars => IInv'
  <1> SUFFICES ASSUME IInv, [Next]_vars PROVE IInv'
    OBVIOUS
  <1>0. next \in 0 .. MaxId /\ tasks \in [Ids -> Task]
    BY DEF IInv, TableTypes
  <1>1. CASE \E p \in Addresses : Dial(p)
    BY <1>1, DialKeeps
  <1>2. ASSUME NEW p \in Addresses, NEW usable \in BOOLEAN, NEW whole \in BOOLEAN,
               Write(p, usable, whole)
        PROVE  IInv'
    <2>1. tasks' = tasks
      BY <1>2 DEF Write
    <2>2. CASE Admit(p, usable)
      BY <2>1, <2>2, AdmitKeeps
    <2>3. CASE ~Admit(p, usable)
      <3>1. next' = next
        BY <1>2, <2>3 DEF Write
      <3>2. PICK id \in peer_link(p, "peripheral") :
               links' = [links EXCEPT ![id] = [links[id] EXCEPT !.silent = 0]]
        BY <1>2, <2>3 DEF Write
      <3>3. id \in Live(links)
        BY DEF peer_link, LinksTo
      <3> QED
        BY <2>1, <3>1, <3>2, <3>3, HearKeeps
    <2> QED
      BY <2>2, <2>3
  <1>3. ASSUME NEW p \in Addresses, NEW usable \in BOOLEAN, Subscribe(p, usable)
        PROVE  IInv'
    <2>1. tasks' = tasks
      BY <1>3 DEF Subscribe
    <2>2. CASE Admit(p, usable)
      BY <2>1, <2>2, AdmitKeeps
    <2>3. CASE ~Admit(p, usable)
      <3>1. links' = links /\ next' = next
        BY <1>3, <2>3 DEF Subscribe
      <3> QED
        BY <2>1, <3>1 DEF IInv, TableTypes, OneLinkPerPeer, DialledLinksServed, role_links, Live
    <2> QED
      BY <2>2, <2>3
  <1>4. ASSUME NEW id \in Ids, TaskEnds(id) PROVE IInv'
    <2>1. CASE SetupFails(id) \/ Notice(id)
      BY <2>1, FinishKeeps DEF SetupFails, Notice
    <2>2. CASE Closed(id)
      <3>1. links' = links /\ next' = next /\ tasks[id].phase = "closing"
        BY <2>2 DEF Closed
      <3>2. tasks' \in [Ids -> Task] /\ \A i \in Ids \ {id} : tasks'[i] = tasks[i]
        BY <2>2, <1>0 DEF Closed, Task, Phase, NoTask
      <3>3. id \notin role_links("central")
        BY <3>1 DEF IInv, DialledLinksServed
      <3>4. DialledLinksServed'
        BY <3>1, <3>2, <3>3 DEF IInv, DialledLinksServed, role_links, Live
      <3> QED
        BY <3>1, <3>2, <3>4 DEF IInv, TableTypes, OneLinkPerPeer, Live
    <2> QED
      BY <1>4, <2>1, <2>2 DEF TaskEnds
  <1>5. ASSUME NEW id \in Ids, Hear(id) PROVE IInv'
    <2>1. /\ id \in Live(links) /\ next' = next /\ tasks' = tasks
          /\ links' = [links EXCEPT ![id] = [links[id] EXCEPT !.silent = 0]]
      BY <1>5 DEF Hear, Live
    <2> QED
      BY <2>1, HearKeeps
  <1>6. ASSUME NEW id \in Ids, NEW usable \in BOOLEAN, SetupDone(id, usable) PROVE IInv'
    BY <1>6, SetupDoneKeeps
  <1>7. ASSUME NEW id \in Ids, NEW fail \in BOOLEAN, LoseConnection(id, fail) PROVE IInv'
    BY <1>7, FinishKeeps DEF LoseConnection
  <1>8. CASE HubEnds
    BY <1>0, <1>8, TakingAway DEF HubEnds
  <1>9. CASE Expire
    BY <1>0, <1>9, TakingAway DEF Expire
  <1>10. CASE Fail
    <2>1. /\ links' = Without(links, Ids) /\ next' = next
          /\ tasks' \in [Ids -> Task]
      BY <1>10 DEF Fail, Without, Task, Phase, NoTask
    <2> QED
      BY <1>0, <2>1, TakingAway
  <1>11. CASE Start \/ UNCHANGED vars
    <2>1. UNCHANGED <<links, next, tasks>>
      BY <1>11 DEF Start, vars
    <2>2. TableTypes' /\ OneLinkPerPeer'
      BY <2>1 DEF IInv, TableTypes, OneLinkPerPeer, Live
    <2>3. DialledLinksServed'
      BY <2>1 DEF IInv, DialledLinksServed, role_links, Live
    <2> QED
      BY <2>2, <2>3 DEF IInv
  <1>12. CASE Tick
    BY <1>12, TickKeeps
  <1> QED
    BY <1>1, <1>2, <1>3, <1>4, <1>5, <1>6, <1>7, <1>8, <1>9, <1>10, <1>11, <1>12 DEF Next

(* The invariant always holds.                                              *)
THEOREM TableInvariant == Spec => []IInv
  BY InitIInv, NextIInv, PTL DEF Spec

(* However discoveries, writes, subscriptions, expiries and ends of tasks   *)
(* interleave: one link per peer, and never more than MAX_LINKS (reserve,   *)
(* core.rs).                                                                *)
THEOREM OneLink == Spec => []OneLinkPerPeer
  <1>1. IInv => OneLinkPerPeer
    BY DEF IInv
  <1> QED
    BY <1>1, TableInvariant, PTL

(* Every dialled link has its own running task, ready when the link is, so  *)
(* that a retired task never touches the link that replaced its own         *)
(* (central, linux.rs).                                                     *)
THEOREM LinksServed == Spec => []DialledLinksServed
  <1>1. IInv => DialledLinksServed
    BY DEF IInv
  <1> QED
    BY <1>1, TableInvariant, PTL

-----------------------------------------------------------------------------
\* A reservation that reserve's rule allows.
Reserving ==
    \E p \in Addresses, role \in Role, ready \in BOOLEAN :
        MayReserve(p, role) /\ Room(p) /\ Reserve(p, role, ready)

(* Taking links away adds none.                                             *)
LEMMA FewerByTaking ==
    ASSUME TableTypes, NEW gone, links' = Without(links, gone) PROVE Fewer
  BY WithoutFacts DEF TableTypes, Fewer

(* The sweep of a reservation adds none.                                    *)
LEMMA FewerBySweep ==
    ASSUME TableTypes, NEW p, links' = Swept(p) PROVE Fewer
  BY SweptFacts DEF Fewer

(* A packet that arrives adds none.                                         *)
LEMMA FewerByHearing ==
    ASSUME TableTypes, NEW id \in Live(links),
           links' = [links EXCEPT ![id] = [links[id] EXCEPT !.silent = 0]]
    PROVE  Fewer
  <1>1. id \in Ids /\ links[id] \in Link
    BY DEF TableTypes, Live
  <1>2. [links[id] EXCEPT !.silent = 0].peer = links[id].peer
    BY <1>1 DEF Link
  <1> QED
    BY <1>1, <1>2 DEF TableTypes, Fewer, Live

(* admit_peripheral adds a link only by reserving it.                       *)
LEMMA AdmitAdds ==
    ASSUME TableTypes, NEW p \in Addresses, NEW usable \in BOOLEAN, Admit(p, usable)
    PROVE  Fewer \/ Reserving
  <1>1. CASE Room(p) /\ usable
    <2>1. MayReserve(p, "peripheral") /\ Reserve(p, "peripheral", TRUE)
      BY <1>1 DEF Admit
    <2> QED
      BY <1>1, <2>1 DEF Reserving, Role
  <1>2. CASE ~(Room(p) /\ usable)
    <2>1. links' = Swept(p)
      BY <1>2 DEF Admit
    <2> QED
      BY <2>1, FewerBySweep
  <1> QED
    BY <1>1, <1>2

(* Every step adds no link, or is a reservation that the rule allows.       *)
LEMMA StepKinds == IInv /\ [Next]_vars => Fewer \/ Reserving
  <1> SUFFICES ASSUME IInv, [Next]_vars PROVE Fewer \/ Reserving
    OBVIOUS
  <1>0. TableTypes
    BY DEF IInv
  <1>1. ASSUME NEW p \in Addresses, Dial(p) PROVE Fewer \/ Reserving
    <2>1. CASE Room(p)
      <3>1. MayReserve(p, "central") /\ Reserve(p, "central", FALSE)
        BY <1>1, <2>1 DEF Dial
      <3> QED
        BY <2>1, <3>1 DEF Reserving, Role
    <2>2. CASE ~Room(p)
      <3>1. links' = Swept(p)
        BY <1>1, <2>2 DEF Dial
      <3> QED
        BY <1>0, <3>1, FewerBySweep
    <2> QED
      BY <2>1, <2>2
  <1>2. ASSUME NEW p \in Addresses, NEW usable \in BOOLEAN, NEW whole \in BOOLEAN,
               Write(p, usable, whole)
        PROVE  Fewer \/ Reserving
    <2>1. CASE Admit(p, usable)
      BY <1>0, <2>1, AdmitAdds
    <2>2. CASE ~Admit(p, usable)
      <3>1. PICK id \in peer_link(p, "peripheral") :
               links' = [links EXCEPT ![id] = [links[id] EXCEPT !.silent = 0]]
        BY <1>2, <2>2 DEF Write
      <3>2. id \in Live(links)
        BY DEF peer_link, LinksTo
      <3> QED
        BY <1>0, <3>1, <3>2, FewerByHearing
    <2> QED
      BY <2>1, <2>2
  <1>3. ASSUME NEW p \in Addresses, NEW usable \in BOOLEAN, Subscribe(p, usable)
        PROVE  Fewer \/ Reserving
    <2>1. CASE Admit(p, usable)
      BY <1>0, <2>1, AdmitAdds
    <2>2. CASE ~Admit(p, usable)
      <3>1. links' = links
        BY <1>3, <2>2 DEF Subscribe
      <3> QED
        BY <3>1 DEF Fewer
    <2> QED
      BY <2>1, <2>2
  <1>4. ASSUME NEW id \in Ids, NEW fail \in BOOLEAN, Finish(id, fail) PROVE Fewer
    BY <1>0, <1>4, FewerByTaking DEF Finish
  <1>5. ASSUME NEW id \in Ids, TaskEnds(id) PROVE Fewer
    <2>1. CASE SetupFails(id) \/ Notice(id)
      BY <1>4, <2>1 DEF SetupFails, Notice
    <2>2. CASE Closed(id)
      BY <2>2 DEF Closed, Fewer
    <2> QED
      BY <1>5, <2>1, <2>2 DEF TaskEnds
  <1>6. ASSUME NEW id \in Ids, Hear(id) PROVE Fewer
    BY <1>0, <1>6, FewerByHearing DEF Hear, Live
  <1>7. ASSUME NEW id \in Ids, NEW usable \in BOOLEAN, SetupDone(id, usable) PROVE Fewer
    <2>1. CASE ~(links[id] # NoLink /\ usable)
      BY <1>4, <1>7, <2>1 DEF SetupDone
    <2>2. CASE links[id] # NoLink /\ usable
      <3>1. links' = [links EXCEPT ![id] = [links[id] EXCEPT !.ready = TRUE]]
        BY <1>7, <2>2 DEF SetupDone
      <3>2. links[id] \in Link
        BY <1>0, <2>2 DEF TableTypes
      <3>3. [links[id] EXCEPT !.ready = TRUE].peer = links[id].peer
        BY <3>2 DEF Link
      <3> QED
        BY <1>0, <2>2, <3>1, <3>3 DEF TableTypes, Fewer, Live
    <2> QED
      BY <2>1, <2>2
  <1>8. ASSUME NEW id \in Ids, NEW fail \in BOOLEAN, LoseConnection(id, fail) PROVE Fewer
    BY <1>4, <1>8 DEF LoseConnection
  <1>9. CASE HubEnds \/ Expire
    BY <1>0, <1>9, FewerByTaking DEF HubEnds, Expire
  <1>10. CASE Fail
    BY <1>10 DEF Fail, Fewer, Live
  <1>11. CASE Start \/ UNCHANGED vars
    BY <1>11 DEF Start, vars, Fewer
  <1>12. CASE Tick
    <2>1. ASSUME NEW i \in Live(links)
          PROVE  links'[i].peer = links[i].peer
      <3>1. links[i] \in Link /\ i \in Ids
        BY <1>0 DEF TableTypes, Live
      <3>2. links'[i] = [[links[i] EXCEPT !.age = Older(links[i].age, SetupTime)]
                            EXCEPT !.silent = Older(links[i].silent, SilentTime)]
        BY <1>12, <3>1 DEF Tick, Link, Live
      <3> QED
        BY <3>1, <3>2 DEF Link
    <2>2. \A i \in Live(links') : i \in Live(links)
      BY <1>12 DEF Tick, Live
    <2> QED
      BY <2>1, <2>2 DEF Fewer
  <1> QED
    BY <1>1, <1>2, <1>3, <1>5, <1>6, <1>7, <1>8, <1>9, <1>10, <1>11, <1>12 DEF Next

(* The direction both sides prefer stands against every other step: the     *)
(* rule of reserve (core.rs) makes crossed links converge.                  *)
THEOREM Converge == Spec => CrossedLinksConverge
  <1>1. ASSUME IInv, [Next]_vars, NEW p \in Addresses,
               NEW id \in peer_link(p, Preferred(p))
        PROVE  LinksTo(links', p) \subseteq {id}
    <2>1. id \in Live(links) /\ links[id].peer = p
      BY DEF peer_link, LinksTo
    <2>2. ASSUME NEW i \in Live(links), links[i].peer = p PROVE i = id
      BY <1>1, <2>1, <2>2 DEF IInv, OneLinkPerPeer
    <2>3. CASE Fewer
      BY <2>2, <2>3 DEF Fewer, LinksTo
    <2>4. CASE Reserving
      <3>1. PICK q \in Addresses, role \in Role, ready \in BOOLEAN :
               MayReserve(q, role) /\ Room(q) /\ Reserve(q, role, ready)
        BY <2>4 DEF Reserving
      <3>2. q \in Addresses \ {Local, 0}
        BY <3>1 DEF MayReserve
      <3>3. /\ links'[next + 1] = NewLink(q, role, ready)
            /\ \A i \in Live(links') \ {next + 1} :
                  i \in Live(links) /\ links'[i] = links[i]
        BY <1>1, <3>1, <3>2, ReserveKeeps DEF IInv
      <3>4. q # p
        <4> SUFFICES ASSUME q = p PROVE FALSE
          OBVIOUS
        <4>1. has_peer(links, p)
          BY <2>1 DEF has_peer, LinksTo
        <4>2. role = Preferred(p) /\ peer_link(p, role) = {}
          BY <3>1, <4>1 DEF MayReserve
        <4> QED
          BY <4>2
      <3>5. links'[next + 1].peer = q
        BY <3>3 DEF NewLink
      <3> QED
        BY <2>2, <3>3, <3>4, <3>5 DEF LinksTo
    <2> QED
      BY <1>1, <2>3, <2>4, StepKinds
  <1>2. IInv /\ [Next]_vars
           => [\A p \in Addresses : \A id \in peer_link(p, Preferred(p)) :
                  LinksTo(links', p) \subseteq {id}]_vars
    BY <1>1
  <1> QED
    BY <1>2, TableInvariant, PTL DEF Spec, CrossedLinksConverge

-----------------------------------------------------------------------------
(* The DropGuard.  Recent failures are at the end of drops, in their order; *)
(* what Recent takes off at the front is not one of them.                   *)
Ages == 0 .. DROP_WINDOW + 1

Recorded ==
    \A i \in LastFailures :
        failed[i] <= DROP_WINDOW
           => i <= Len(drops) /\ drops[(Len(drops) + 1) - i] = failed[i]

GuardInv ==
    /\ drops \in Seq(Ages)
    /\ failed \in [LastFailures -> Ages]
    /\ Recorded
    /\ NoRestartStorm

(* Counted from the end, Recent leaves every recent failure in its place.   *)
LEMMA RecentFacts ==
    ASSUME NEW ages \in Seq(Ages)
    PROVE  /\ Recent(ages) \in Seq(Ages)
           /\ \A i \in 1 .. Len(ages) :
                 ages[(Len(ages) + 1) - i] <= DROP_WINDOW
                    => /\ i <= Len(Recent(ages))
                       /\ Recent(ages)[(Len(Recent(ages)) + 1) - i] = ages[(Len(ages) + 1) - i]
  <1> DEFINE fresh == {i \in DOMAIN ages : ages[i] <= DROP_WINDOW}
             n == Len(ages)
  <1>1. n \in Nat /\ DOMAIN ages = 1 .. n /\ \A i \in 1 .. n : ages[i] \in Ages
    OBVIOUS
  <1>2. CASE fresh = {}
    <2>1. Recent(ages) = <<>>
      BY <1>2 DEF Recent
    <2>2. ASSUME NEW i \in 1 .. n
          PROVE  ~(ages[(n + 1) - i] <= DROP_WINDOW)
      <3>1. (n + 1) - i \in DOMAIN ages
        BY <1>1
      <3> QED
        BY <1>2, <3>1
    <2>3. <<>> \in Seq(Ages)
      OBVIOUS
    <2> QED
      BY <2>1, <2>2, <2>3
  <1>3. CASE fresh # {}
    <2> DEFINE k == Min(fresh)
    <2>1. k \in fresh /\ \A i \in fresh : k <= i
      <3>1. fresh \in SUBSET Nat
        BY <1>1
      <3>2. \E x \in fresh : \A y \in fresh : x <= y
        BY <1>3, <3>1, LeastNatural
      <3> QED
        BY <3>2 DEF Min
    <2> DEFINE new == Recent(ages)
    <2>2. new = SubSeq(ages, k, n)
      BY <1>3 DEF Recent
    <2> HIDE DEF new, k, fresh
    <2>3. k \in 1 .. n
      BY <1>1, <2>1 DEF fresh
    <2>4. \A i \in k .. n : ages[i] \in Ages
      BY <1>1, <2>3
    <2>5. /\ SubSeq(ages, k, n) \in Seq(Ages)
          /\ Len(SubSeq(ages, k, n)) = IF k <= n THEN n - k + 1 ELSE 0
          /\ \A i \in 1 .. n - k + 1 : SubSeq(ages, k, n)[i] = ages[k + i - 1]
      <3>1. k \in Int /\ n \in Int
        BY <1>1, <2>3
      <3> HIDE DEF n
      <3> QED
        BY <2>4, <3>1, SubSeqProperties
    <2>6. /\ new \in Seq(Ages) /\ Len(new) = (n - k) + 1
          /\ \A i \in 1 .. (n - k) + 1 : new[i] = ages[(k + i) - 1]
      BY <1>1, <2>2, <2>3, <2>5
    <2>7. ASSUME NEW i \in 1 .. n, ages[(n + 1) - i] <= DROP_WINDOW
          PROVE  i <= Len(new) /\ new[(Len(new) + 1) - i] = ages[(n + 1) - i]
      <3> DEFINE j == (n + 1) - i
      <3>1. j \in 1 .. n /\ j \in Nat
        BY <1>1
      <3>2. k <= j
        BY <1>1, <2>1, <2>7, <3>1 DEF fresh
      <3>3. i <= Len(new) /\ (Len(new) + 1) - i = (j - k) + 1
        BY <1>1, <2>3, <2>6, <3>2
      <3>4. (j - k) + 1 \in 1 .. (n - k) + 1 /\ (k + ((j - k) + 1)) - 1 = j
        BY <1>1, <2>3, <3>1, <3>2
      <3> HIDE DEF j
      <3>5. new[(j - k) + 1] = ages[j]
        BY <2>6, <3>4
      <3> QED
        BY <3>3, <3>5 DEF j
    <2> QED
      BY <2>6, <2>7 DEF new
  <1> QED
    BY <1>2, <1>3

(* A failure is recorded with the recent ones before it, and if there are   *)
(* DROPS_TO_PAUSE of them the mesh is paused.                               *)
LEMMA FailGuard ==
    ASSUME GuardInv, Fail PROVE GuardInv'
  <1> DEFINE old == Recent(drops)
             n == Len(old)
  <1>0. DROPS_TO_PAUSE \in Nat \ {0} /\ DROP_WINDOW \in Nat /\ 0 \in Ages
    BY LimitsAssumption DEF Ages
  <1>1. /\ drops' = Append(old, 0)
        /\ failed' = [i \in LastFailures |-> IF i = 1 THEN 0 ELSE failed[i - 1]]
        /\ mesh' = IF Len(drops') >= DROPS_TO_PAUSE THEN "paused" ELSE "waiting"
    BY DEF Fail, Dropped
  <1>2. \A ages \in Seq(Ages) :
           /\ Recent(ages) \in Seq(Ages)
           /\ \A i \in 1 .. Len(ages) :
                 ages[(Len(ages) + 1) - i] <= DROP_WINDOW
                    => /\ i <= Len(Recent(ages))
                       /\ Recent(ages)[(Len(Recent(ages)) + 1) - i] = ages[(Len(ages) + 1) - i]
    BY RecentFacts
  <1>3. /\ old \in Seq(Ages)
        /\ \A i \in 1 .. Len(drops) :
              drops[(Len(drops) + 1) - i] <= DROP_WINDOW
                 => i <= n /\ old[(n + 1) - i] = drops[(Len(drops) + 1) - i]
    BY <1>2 DEF GuardInv
  <1> HIDE DEF old
  <1>4. n \in Nat /\ Len(drops) \in Nat
    BY <1>3 DEF GuardInv
  <1>5. /\ drops' \in Seq(Ages) /\ Len(drops') = n + 1
        /\ \A i \in 1 .. n : drops'[i] = old[i]
        /\ drops'[n + 1] = 0
    BY <1>0, <1>1, <1>3, AppendProperties
  <1> HIDE DEF n
  <1>6. failed' \in [LastFailures -> Ages]
    <2>1. \A i \in LastFailures : i # 1 => i - 1 \in LastFailures
      BY <1>0 DEF LastFailures
    <2> QED
      BY <1>0, <1>1, <2>1 DEF GuardInv
  <1>7. ASSUME NEW i \in LastFailures, failed'[i] <= DROP_WINDOW
        PROVE  i <= Len(drops') /\ drops'[(Len(drops') + 1) - i] = failed'[i]
    <2>1. CASE i = 1
      <3>1. failed'[i] = 0 /\ (Len(drops') + 1) - i = n + 1
        BY <1>1, <1>4, <1>5, <2>1
      <3> QED
        BY <1>4, <1>5, <2>1, <3>1
    <2>2. CASE i # 1
      <3> DEFINE j == i - 1
      <3>1. j \in LastFailures /\ j \in Nat /\ j >= 1 /\ failed'[i] = failed[j]
        BY <1>0, <1>1, <2>2 DEF LastFailures
      <3>2. j <= Len(drops) /\ drops[(Len(drops) + 1) - j] = failed[j]
        BY <1>7, <3>1 DEF GuardInv, Recorded
      <3>3. j <= n /\ old[(n + 1) - j] = failed[j]
        <4>1. j \in 1 .. Len(drops)
          BY <1>4, <3>1, <3>2
        <4>2. drops[(Len(drops) + 1) - j] <= DROP_WINDOW
          BY <1>7, <3>1, <3>2
        <4> QED
          BY <1>3, <3>2, <4>1, <4>2
      <3>4. (Len(drops') + 1) - i = (n + 1) - j /\ (n + 1) - j \in 1 .. n /\ i <= Len(drops')
        BY <1>0, <1>4, <1>5, <3>1, <3>3 DEF LastFailures
      <3> HIDE DEF j
      <3>5. drops'[(n + 1) - j] = old[(n + 1) - j]
        BY <1>5, <3>4
      <3> QED
        BY <3>1, <3>3, <3>4, <3>5
    <2> QED
      BY <2>1, <2>2
  <1>8. NoRestartStorm'
    <2> SUFFICES ASSUME mesh' # "paused" PROVE failed'[DROPS_TO_PAUSE] > DROP_WINDOW
      BY DEF NoRestartStorm
    <2>1. Len(drops') < DROPS_TO_PAUSE
      BY <1>0, <1>1, <1>4, <1>5
    <2>2. DROPS_TO_PAUSE \in LastFailures
      BY <1>0 DEF LastFailures
    <2>3. ~(failed'[DROPS_TO_PAUSE] <= DROP_WINDOW)
      BY <1>0, <1>4, <1>5, <1>7, <2>1, <2>2
    <2>4. failed'[DROPS_TO_PAUSE] \in Nat
      BY <1>6, <2>2 DEF Ages
    <2> QED
      BY <1>0, <2>3, <2>4
  <1> QED
    BY <1>5, <1>6, <1>7, <1>8 DEF GuardInv, Recorded

(* Time only takes failures out of the window.                              *)
LEMMA TickGuard ==
    ASSUME GuardInv, Tick PROVE GuardInv'
  <1>0. DROPS_TO_PAUSE \in Nat \ {0} /\ DROP_WINDOW \in Nat
    BY LimitsAssumption
  <1>1. /\ drops' = [i \in DOMAIN drops |-> Older(drops[i], DROP_WINDOW)]
        /\ failed' = [i \in LastFailures |-> Older(failed[i], DROP_WINDOW)]
        /\ mesh' = mesh
    BY DEF Tick
  <1>2. \A a \in Ages : /\ Older(a, DROP_WINDOW) \in Ages
                        /\ a > DROP_WINDOW => Older(a, DROP_WINDOW) > DROP_WINDOW
                        /\ Older(a, DROP_WINDOW) <= DROP_WINDOW => a <= DROP_WINDOW
    BY <1>0 DEF Older, Ages
  <1>3. /\ drops \in Seq(Ages) /\ Len(drops) \in Nat /\ DOMAIN drops = 1 .. Len(drops)
        /\ failed \in [LastFailures -> Ages]
    BY DEF GuardInv
  <1>4. /\ drops' \in Seq(Ages) /\ Len(drops') = Len(drops)
        /\ \A i \in 1 .. Len(drops) : drops'[i] = Older(drops[i], DROP_WINDOW)
    <2>1. \A i \in 1 .. Len(drops) : Older(drops[i], DROP_WINDOW) \in Ages
      BY <1>2, <1>3
    <2> QED
      BY <1>1, <1>3, <2>1
  <1>5. failed' \in [LastFailures -> Ages]
    BY <1>1, <1>2, <1>3
  <1>6. ASSUME NEW i \in LastFailures, failed'[i] <= DROP_WINDOW
        PROVE  i <= Len(drops') /\ drops'[(Len(drops') + 1) - i] = failed'[i]
    <2>1. failed[i] \in Ages /\ failed'[i] = Older(failed[i], DROP_WINDOW)
      BY <1>1, <1>3
    <2>2. failed[i] <= DROP_WINDOW
      BY <1>2, <1>6, <2>1
    <2>3. i <= Len(drops) /\ drops[(Len(drops) + 1) - i] = failed[i]
      BY <2>2 DEF GuardInv, Recorded
    <2>4. (Len(drops) + 1) - i \in 1 .. Len(drops)
      BY <1>0, <1>3, <2>3 DEF LastFailures
    <2>5. drops'[(Len(drops) + 1) - i] = Older(drops[(Len(drops) + 1) - i], DROP_WINDOW)
      BY <1>4, <2>4
    <2> QED
      BY <1>4, <2>1, <2>3, <2>5
  <1>7. NoRestartStorm'
    <2>1. DROPS_TO_PAUSE \in LastFailures
      BY <1>0 DEF LastFailures
    <2>2. failed[DROPS_TO_PAUSE] \in Ages /\ failed'[DROPS_TO_PAUSE] = Older(failed[DROPS_TO_PAUSE], DROP_WINDOW)
      BY <1>1, <1>3, <2>1
    <2> QED
      BY <1>1, <1>2, <2>2 DEF GuardInv, NoRestartStorm
  <1> QED
    BY <1>4, <1>5, <1>6, <1>7 DEF GuardInv, Recorded

LEMMA InitGuard == Init => GuardInv
  <1> SUFFICES ASSUME Init PROVE GuardInv
    OBVIOUS
  <1>1. DROPS_TO_PAUSE \in LastFailures /\ DROP_WINDOW \in Nat /\ DROP_WINDOW + 1 \in Ages
    BY LimitsAssumption DEF LastFailures, Ages
  <1>2. failed = [i \in LastFailures |-> DROP_WINDOW + 1] /\ drops = <<>>
    BY DEF Init
  <1>3. failed \in [LastFailures -> Ages] /\ drops \in Seq(Ages)
    BY <1>1, <1>2
  <1>4. \A i \in LastFailures : failed[i] = DROP_WINDOW + 1
    BY <1>2
  <1> QED
    BY <1>1, <1>3, <1>4 DEF GuardInv, Recorded, NoRestartStorm

(* Nothing but a failure, a start and time concerns the DropGuard.          *)
LEMMA NextGuard == GuardInv /\ [Next]_vars => GuardInv'
  <1> SUFFICES ASSUME GuardInv, [Next]_vars PROVE GuardInv'
    OBVIOUS
  <1>1. CASE Fail
    BY <1>1, FailGuard
  <1>2. CASE Tick
    BY <1>2, TickGuard
  <1>3. CASE UNCHANGED <<drops, failed>> /\ (mesh' = mesh \/ mesh = "waiting")
    <2>1. Recorded'
      BY <1>3 DEF GuardInv, Recorded
    <2>2. NoRestartStorm'
      <3>1. mesh' # "paused" => mesh # "paused"
        BY <1>3
      <3>2. mesh # "paused" => failed[DROPS_TO_PAUSE] > DROP_WINDOW
        BY Zenon DEF GuardInv, NoRestartStorm
      <3> QED
        BY Zenon, <1>3, <3>1, <3>2 DEF NoRestartStorm
    <2> QED
      BY <1>3, <2>1, <2>2 DEF GuardInv
  <1>4. Next => Fail \/ Tick \/ (UNCHANGED <<drops, failed>> /\ (mesh' = mesh \/ mesh = "waiting"))
    BY DEF Next, Dial, Write, Subscribe, TaskEnds, SetupFails, Notice, Closed, Hear,
           SetupDone, LoseConnection, Finish, HubEnds, Expire, Start
  <1> QED
    BY <1>1, <1>2, <1>3, <1>4 DEF vars

(* However often and however fast the mesh fails, the worker (mod.rs) has   *)
(* paused it before the DROPS_TO_PAUSE-th failure within DROP_WINDOW is     *)
(* followed by another start.                                               *)
THEOREM NoStorm == Spec => []NoRestartStorm
  <1>1. GuardInv => NoRestartStorm
    BY DEF GuardInv
  <1> QED
    BY <1>1, InitGuard, NextGuard, PTL DEF Spec

-----------------------------------------------------------------------------
(* Stopping.  A dialled link in the table is one whose device run would     *)
(* disconnect; and the tasks that dial, serve and close, those of links     *)
(* that have gone included, stay within twice the links.                    *)
StopCloses == \A id \in role_links("central") : links[id].peer \in connected

AtWork == {id \in Ids : tasks[id].phase # "none"}

TasksBounded == Cardinality(AtWork) <= 2 * MAX_LINKS

\* The new table has no dialled link the old one did not have.
NoneDialled ==
    \A i \in Live(links') : links'[i].role = "central" =>
        i \in role_links("central") /\ links'[i].peer = links[i].peer

LEMMA NoneDialledCloses ==
    ASSUME StopCloses, NoneDialled, connected \subseteq connected' PROVE StopCloses'
  BY DEF StopCloses, NoneDialled, role_links, Live

LEMMA NoneByTaking ==
    ASSUME TableTypes, NEW gone, links' = Without(links, gone) PROVE NoneDialled
  BY WithoutFacts DEF TableTypes, NoneDialled, role_links

LEMMA NoneBySweep == ASSUME TableTypes, NEW p, links' = Swept(p) PROVE NoneDialled
  BY SweptFacts DEF NoneDialled, role_links

(* A link that is heard or becomes ready keeps its peer and its direction.  *)
LEMMA NoneByChange ==
    ASSUME TableTypes, NEW id \in Live(links), NEW l \in Link,
           l.peer = links[id].peer, l.role = links[id].role,
           links' = [links EXCEPT ![id] = l]
    PROVE  NoneDialled
  BY DEF TableTypes, NoneDialled, role_links, Live

LEMMA NoneByHearing ==
    ASSUME TableTypes, NEW id \in Live(links),
           links' = [links EXCEPT ![id] = [links[id] EXCEPT !.silent = 0]]
    PROVE  NoneDialled
  <1>1. links[id] \in Link
    BY DEF TableTypes, Live
  <1>2. /\ [links[id] EXCEPT !.silent = 0] \in Link
        /\ [links[id] EXCEPT !.silent = 0].peer = links[id].peer
        /\ [links[id] EXCEPT !.silent = 0].role = links[id].role
    BY <1>1, LimitsAssumption DEF Link
  <1> QED
    BY <1>2, NoneByChange

LEMMA NoneByTick == ASSUME IInv, Tick PROVE NoneDialled
  BY TickLinks DEF NoneDialled, role_links, Live

LEMMA NoneByAdmit ==
    ASSUME IInv, NEW p \in Addresses, NEW usable \in BOOLEAN, Admit(p, usable)
    PROVE  NoneDialled
  <1>1. CASE Room(p) /\ usable
    <2>1. p \in Addresses \ {Local, 0} /\ Reserve(p, "peripheral", TRUE)
      BY <1>1 DEF Admit, MayReserve
    <2>2. /\ links'[next + 1] = NewLink(p, "peripheral", TRUE)
          /\ \A i \in Live(links') \ {next + 1} : i \in Live(links) /\ links'[i] = links[i]
      BY <1>1, <2>1, ReserveKeeps DEF IInv, Role
    <2>3. links'[next + 1].role # "central"
      BY <2>2 DEF NewLink
    <2> QED
      BY <2>2, <2>3 DEF NoneDialled, role_links
  <1>2. CASE ~(Room(p) /\ usable)
    <2>1. links' = Swept(p)
      BY <1>2 DEF Admit
    <2> QED
      BY <2>1, NoneBySweep DEF IInv
  <1> QED
    BY <1>1, <1>2

(* A dialled link comes in together with its device.                        *)
LEMMA DialCloses ==
    ASSUME IInv, StopCloses, NEW p \in Addresses, Dial(p) PROVE StopCloses'
  <1>1. CASE ~Room(p)
    <2>1. links' = Swept(p) /\ connected' = connected
      BY <1>1 DEF Dial
    <2> QED
      BY <2>1, NoneBySweep, NoneDialledCloses DEF IInv
  <1>2. CASE Room(p)
    <2>1. /\ p \in Addresses \ {Local, 0} /\ Reserve(p, "central", FALSE)
          /\ connected' = connected \cup {p}
      BY <1>2 DEF Dial, MayReserve
    <2>2. /\ links'[next + 1] = NewLink(p, "central", FALSE)
          /\ \A i \in Live(links') \ {next + 1} : i \in Live(links) /\ links'[i] = links[i]
      BY <1>2, <2>1, ReserveKeeps DEF IInv, Role
    <2>3. links'[next + 1].peer = p
      BY <2>2 DEF NewLink
    <2> QED
      BY <2>1, <2>2, <2>3 DEF StopCloses, role_links, Live
  <1> QED
    BY <1>1, <1>2

(* A device is dropped only when no link to it is left.                     *)
LEMMA FinishCloses ==
    ASSUME IInv, StopCloses, NEW id \in Ids, NEW fail \in BOOLEAN, Finish(id, fail)
    PROVE  StopCloses'
  <1>1. links' = Without(links, {id}) /\ NoneDialled
    BY NoneByTaking DEF Finish, IInv
  <1>2. CASE connected' = connected
    BY <1>1, <1>2, NoneDialledCloses
  <1>3. CASE ~has_peer(links', tasks[id].peer) /\ connected' = connected \ {tasks[id].peer}
    <2>1. \A i \in Live(links') : links'[i].peer # tasks[id].peer
      BY <1>3 DEF has_peer, LinksTo
    <2> QED
      BY <1>1, <1>3, <2>1 DEF StopCloses, NoneDialled, role_links, Live
  <1> QED
    BY <1>1, <1>2, <1>3 DEF Finish

LEMMA SetupDoneCloses ==
    ASSUME IInv, StopCloses, NEW id \in Ids, NEW usable \in BOOLEAN, SetupDone(id, usable)
    PROVE  StopCloses'
  <1>1. CASE ~(links[id] # NoLink /\ usable)
    BY <1>1, FinishCloses DEF SetupDone
  <1>2. CASE links[id] # NoLink /\ usable
    <2>1. /\ links' = [links EXCEPT ![id] = [links[id] EXCEPT !.ready = TRUE]]
          /\ connected' = connected /\ id \in Live(links) /\ links[id] \in Link
      BY <1>2 DEF SetupDone, Live, IInv, TableTypes
    <2>2. /\ [links[id] EXCEPT !.ready = TRUE] \in Link
          /\ [links[id] EXCEPT !.ready = TRUE].peer = links[id].peer
          /\ [links[id] EXCEPT !.ready = TRUE].role = links[id].role
      BY <2>1 DEF Link
    <2>3. NoneDialled
      BY <2>1, <2>2, NoneByChange DEF IInv
    <2> QED
      BY <2>1, <2>3, NoneDialledCloses
  <1> QED
    BY <1>1, <1>2

LEMMA StepCloses == ASSUME IInv, StopCloses, [Next]_vars PROVE StopCloses'
  <1>t. TableTypes
    BY DEF IInv
  <1>1. CASE \E p \in Addresses : Dial(p)
    BY <1>1, DialCloses
  <1>2. ASSUME NEW p \in Addresses, NEW usable \in BOOLEAN, NEW whole \in BOOLEAN,
               Write(p, usable, whole)
        PROVE  StopCloses'
    <2>1. CASE Admit(p, usable)
      BY <1>2, <2>1, NoneByAdmit, NoneDialledCloses DEF Write
    <2>2. CASE ~Admit(p, usable)
      <3>1. PICK id \in peer_link(p, "peripheral") :
               links' = [links EXCEPT ![id] = [links[id] EXCEPT !.silent = 0]]
        BY <1>2, <2>2 DEF Write
      <3>2. id \in Live(links) /\ connected' = connected
        BY <1>2 DEF peer_link, LinksTo, Write
      <3> QED
        BY <1>t, <3>1, <3>2, NoneByHearing, NoneDialledCloses
    <2> QED
      BY <2>1, <2>2
  <1>3. ASSUME NEW p \in Addresses, NEW usable \in BOOLEAN, Subscribe(p, usable)
        PROVE  StopCloses'
    <2>1. connected' = connected
      BY <1>3 DEF Subscribe
    <2>2. CASE Admit(p, usable)
      BY <2>1, <2>2, NoneByAdmit, NoneDialledCloses
    <2>3. CASE links' = links
      BY <2>1, <2>3 DEF StopCloses, role_links, Live
    <2> QED
      BY <1>3, <2>2, <2>3 DEF Subscribe
  <1>4. ASSUME NEW id \in Ids, TaskEnds(id) PROVE StopCloses'
    <2>1. CASE SetupFails(id) \/ Notice(id)
      BY <2>1, FinishCloses DEF SetupFails, Notice
    <2>2. CASE Closed(id)
      BY <2>2 DEF Closed, StopCloses, role_links, Live
    <2> QED
      BY <1>4, <2>1, <2>2 DEF TaskEnds
  <1>5. ASSUME NEW id \in Ids, Hear(id) PROVE StopCloses'
    <2>1. /\ id \in Live(links) /\ connected' = connected
          /\ links' = [links EXCEPT ![id] = [links[id] EXCEPT !.silent = 0]]
      BY <1>5 DEF Hear, Live
    <2> QED
      BY <1>t, <2>1, NoneByHearing, NoneDialledCloses
  <1>6. ASSUME NEW id \in Ids, NEW usable \in BOOLEAN, SetupDone(id, usable) PROVE StopCloses'
    BY <1>6, SetupDoneCloses
  <1>7. ASSUME NEW id \in Ids, NEW fail \in BOOLEAN, LoseConnection(id, fail) PROVE StopCloses'
    BY <1>7, FinishCloses DEF LoseConnection
  <1>8. CASE HubEnds \/ Expire
    BY <1>t, <1>8, NoneByTaking, NoneDialledCloses DEF HubEnds, Expire
  <1>9. CASE Fail
    BY <1>9 DEF Fail, StopCloses, role_links, Live
  <1>10. CASE Start \/ UNCHANGED vars
    BY <1>10 DEF Start, vars, StopCloses, role_links, Live
  <1>11. CASE Tick
    BY <1>11, TickLinks, NoneByTick, NoneDialledCloses
  <1> QED
    BY <1>1, <1>2, <1>3, <1>4, <1>5, <1>6, <1>7, <1>8, <1>9, <1>10, <1>11 DEF Next

(* run, linux.rs, "so that stopping (or failing) closes their connections": *)
(* whichever tasks end, retire or are replaced meanwhile, the device of a   *)
(* dialled link in the table is among those that are disconnected then.     *)
THEOREM StoppingCloses == Spec => []StopCloses
  <1>1. Init => StopCloses
    BY DEF Init, StopCloses, role_links, Live
  <1>2. IInv /\ StopCloses /\ [Next]_vars => StopCloses'
    BY StepCloses
  <1> QED
    BY <1>1, <1>2, TableInvariant, PTL DEF Spec

(* The tasks at work are finitely many.                                     *)
LEMMA WorkFinite ==
    /\ IsFiniteSet(AtWork) /\ Cardinality(AtWork) \in Nat
    /\ IsFiniteSet(AtWork)' /\ Cardinality(AtWork)' \in Nat
  <1>1. IsFiniteSet(Ids)
    BY FS_Interval, LimitsAssumption DEF Ids
  <1>2. AtWork \subseteq Ids /\ AtWork' \subseteq Ids
    BY DEF AtWork
  <1> QED
    BY <1>1, <1>2, FS_Subset, FS_CardinalityType

(* A step that starts no task keeps the bound.                              *)
LEMMA NoneStarted == ASSUME TasksBounded, AtWork' \subseteq AtWork PROVE TasksBounded'
  <1>1. Cardinality(AtWork)' <= Cardinality(AtWork)
    BY WorkFinite, FS_Subset
  <1> QED
    BY <1>1, WorkFinite, LimitsAssumption DEF TasksBounded

LEMMA FinishWork ==
    ASSUME tasks \in [Ids -> Task], NEW id \in Ids, NEW fail \in BOOLEAN, Finish(id, fail),
           tasks[id].phase # "none"
    PROVE  AtWork' \subseteq AtWork
  BY DEF Finish, AtWork

(* Only a dial starts a task, and only below the bound.                     *)
LEMMA DialBounded ==
    ASSUME IInv, TasksBounded, NEW p \in Addresses, Dial(p) PROVE TasksBounded'
  <1>1. CASE tasks' = tasks
    BY <1>1, NoneStarted DEF AtWork
  <1>2. CASE tasks' = [tasks EXCEPT ![next + 1] = [phase |-> "setup", peer |-> p]]
    <2>1. AtWork' \subseteq AtWork \cup {next + 1}
      BY <1>2 DEF AtWork, IInv, TableTypes
    <2>2. TaskCount = Cardinality(AtWork) + (IF hub THEN 1 ELSE 0)
      BY DEF TaskCount, AtWork
    <2>3. Cardinality(AtWork) < 2 * MAX_LINKS
      BY <2>2, WorkFinite, LimitsAssumption DEF Dial
    <2>4. /\ IsFiniteSet(AtWork \cup {next + 1})
          /\ Cardinality(AtWork \cup {next + 1}) <= Cardinality(AtWork) + 1
      <3>1. /\ IsFiniteSet(AtWork \cup {next + 1})
            /\ Cardinality(AtWork \cup {next + 1})
                  = IF next + 1 \in AtWork THEN Cardinality(AtWork) ELSE Cardinality(AtWork) + 1
        BY WorkFinite, FS_AddElement
      <3> QED
        BY <3>1, WorkFinite
    <2>5. /\ Cardinality(AtWork)' <= Cardinality(AtWork \cup {next + 1})
          /\ Cardinality(AtWork \cup {next + 1}) \in Nat
      BY <2>1, <2>4, FS_Subset, FS_CardinalityType
    <2> QED
      BY <2>3, <2>4, <2>5, WorkFinite, LimitsAssumption DEF TasksBounded
  <1> QED
    BY <1>1, <1>2 DEF Dial

LEMMA StepBounded == ASSUME IInv, TasksBounded, [Next]_vars PROVE TasksBounded'
  <1>t. tasks \in [Ids -> Task]
    BY DEF IInv, TableTypes
  <1>1. CASE \E p \in Addresses : Dial(p)
    BY <1>1, DialBounded
  <1>2. ASSUME NEW id \in Ids, TaskEnds(id) PROVE TasksBounded'
    <2>1. CASE SetupFails(id) \/ Notice(id)
      BY <1>t, <2>1, FinishWork, NoneStarted DEF SetupFails, Notice
    <2>2. CASE Closed(id)
      <3>1. AtWork' \subseteq AtWork
        BY <1>t, <2>2 DEF Closed, AtWork, NoTask
      <3> QED
        BY <3>1, NoneStarted
    <2> QED
      BY <1>2, <2>1, <2>2 DEF TaskEnds
  <1>3. ASSUME NEW id \in Ids, NEW usable \in BOOLEAN, SetupDone(id, usable)
        PROVE  TasksBounded'
    <2>1. CASE ~(links[id] # NoLink /\ usable)
      BY <1>t, <1>3, <2>1, FinishWork, NoneStarted DEF SetupDone
    <2>2. CASE links[id] # NoLink /\ usable
      <3>1. /\ tasks' = [tasks EXCEPT ![id] = [tasks[id] EXCEPT !.phase = "serving"]]
            /\ tasks[id].phase = "setup"
        BY <1>3, <2>2 DEF SetupDone
      <3>2. AtWork' \subseteq AtWork
        BY <1>t, <3>1 DEF AtWork
      <3> QED
        BY <3>2, NoneStarted
    <2> QED
      BY <2>1, <2>2
  <1>4. ASSUME NEW id \in Ids, NEW fail \in BOOLEAN, LoseConnection(id, fail)
        PROVE  TasksBounded'
    BY <1>t, <1>4, FinishWork, NoneStarted DEF LoseConnection
  <1>5. CASE Fail
    <2>1. AtWork' = {}
      BY <1>5 DEF Fail, AtWork, NoTask
    <2> QED
      BY <2>1, NoneStarted
  <1>6. CASE tasks' = tasks
    BY <1>6, NoneStarted DEF AtWork
  <1>7. CASE \/ \E p \in Addresses, usable, whole \in BOOLEAN : Write(p, usable, whole)
             \/ \E p \in Addresses, usable \in BOOLEAN : Subscribe(p, usable)
             \/ \E id \in Ids : Hear(id)
             \/ HubEnds \/ Expire \/ Start \/ UNCHANGED vars
    BY <1>6, <1>7 DEF Write, Subscribe, Hear, HubEnds, Expire, Start, vars
  <1>8. CASE Tick
    BY <1>6, <1>8, TickLinks
  <1> QED
    BY <1>1, <1>2, <1>3, <1>4, <1>5, <1>7, <1>8 DEF Next

(* run, linux.rs, "JoinSet also counts retiring duplicate tasks until they  *)
(* finish, so crossed connections cannot grow OS workers": whatever is      *)
(* replaced, expires and is dialled again, the tasks of links keep twice    *)
(* MAX_LINKS.                                                               *)
THEOREM TasksStayBounded == Spec => []TasksBounded
  <1>1. Init => TasksBounded
    <2> SUFFICES ASSUME Init PROVE TasksBounded
      OBVIOUS
    <2>1. AtWork = {}
      BY DEF Init, AtWork, NoTask
    <2> QED
      BY <2>1, FS_EmptySet, LimitsAssumption DEF TasksBounded
  <1>2. IInv /\ TasksBounded /\ [Next]_vars => TasksBounded'
    BY StepBounded
  <1> QED
    BY <1>1, <1>2, TableInvariant, PTL DEF Spec

-----------------------------------------------------------------------------
(* The backoff.  What expire and remove make of it is a fold over the links *)
(* that have gone; a step of the fold keeps the types and the bound, since  *)
(* a full record forgets a peer before it takes another.                    *)
Known(b) == {p \in Addresses : b[p] # NoBackoff}

Kept == {b \in [Addresses -> Backoff \cup {NoBackoff}] :
            IsFiniteSet(Known(b)) /\ Cardinality(Known(b)) <= MAX_BACKOFF}

BackoffBounded == backoff \in Kept

LEMMA KeptFacts ==
    ASSUME NEW b \in Kept
    PROVE  /\ b \in [Addresses -> Backoff \cup {NoBackoff}]
           /\ IsFiniteSet(Known(b)) /\ Cardinality(Known(b)) \in Nat
           /\ Cardinality(Known(b)) <= MAX_BACKOFF
  BY FS_CardinalityType DEF Kept

(* A peer is forgotten.                                                     *)
LEMMA ForgetKept ==
    ASSUME NEW b \in Kept, NEW p
    PROVE  /\ [b EXCEPT ![p] = NoBackoff] \in Kept
           /\ p \in Known(b) =>
                 Cardinality(Known([b EXCEPT ![p] = NoBackoff])) = Cardinality(Known(b)) - 1
  <1> DEFINE c == [b EXCEPT ![p] = NoBackoff]
  <1>1. c \in [Addresses -> Backoff \cup {NoBackoff}] /\ Known(c) = Known(b) \ {p}
    BY KeptFacts DEF Known
  <1>2. /\ IsFiniteSet(Known(b) \ {p})
        /\ Cardinality(Known(b) \ {p})
              = IF p \in Known(b) THEN Cardinality(Known(b)) - 1 ELSE Cardinality(Known(b))
    BY KeptFacts, FS_RemoveElement
  <1> HIDE DEF c
  <1>3. IsFiniteSet(Known(c)) /\ Cardinality(Known(c)) <= MAX_BACKOFF
    BY <1>1, <1>2, KeptFacts, LimitsAssumption
  <1> QED
    BY <1>1, <1>2, <1>3 DEF Kept, c

(* A peer is entered, or entered anew, if there is room.                    *)
LEMMA EnterKept ==
    ASSUME NEW b \in Kept, NEW p, NEW delay \in 1 .. LastDelay,
           p \in Known(b) \/ Cardinality(Known(b)) < MAX_BACKOFF
    PROVE  [b EXCEPT ![p] = [left |-> delay, delay |-> delay]] \in Kept
  <1> DEFINE c == [b EXCEPT ![p] = [left |-> delay, delay |-> delay]]
  <1>1. [left |-> delay, delay |-> delay] \in Backoff
    BY LimitsAssumption DEF Backoff
  <1>2. c \in [Addresses -> Backoff \cup {NoBackoff}] /\ Known(c) \subseteq Known(b) \cup {p}
    BY <1>1, KeptFacts DEF Known
  <1>3. /\ IsFiniteSet(Known(b) \cup {p})
        /\ Cardinality(Known(b) \cup {p})
              = IF p \in Known(b) THEN Cardinality(Known(b)) ELSE Cardinality(Known(b)) + 1
    BY KeptFacts, FS_AddElement
  <1>4. /\ Cardinality(Known(b) \cup {p}) \in Nat
        /\ Cardinality(Known(b) \cup {p}) <= MAX_BACKOFF
    BY <1>3, KeptFacts, LimitsAssumption
  <1> HIDE DEF c
  <1>5. /\ IsFiniteSet(Known(c)) /\ Cardinality(Known(c)) \in Nat
        /\ Cardinality(Known(c)) <= Cardinality(Known(b) \cup {p})
    BY <1>2, <1>3, FS_Subset, FS_CardinalityType
  <1>6. Cardinality(Known(c)) <= MAX_BACKOFF
    BY <1>4, <1>5, LimitsAssumption
  <1> QED
    BY <1>2, <1>5, <1>6 DEF Kept, c

(* Core::remove, after a failure.                                           *)
LEMMA FailuresKept ==
    ASSUME NEW b \in Kept, NEW p
    PROVE  Failures(b, p) \subseteq Kept
  <1> DEFINE delay == IF p \in Known(b) THEN Min({2 * b[p].delay, LastDelay}) ELSE FirstDelay
             full == Cardinality(Known(b)) >= MAX_BACKOFF /\ p \notin Known(b)
  <1>1. Failures(b, p) = {[c EXCEPT ![p] = [left |-> delay, delay |-> delay]] :
                             c \in IF full THEN Forget(b) ELSE {b}}
    BY DEF Failures, Known
  <1>2. delay \in 1 .. LastDelay
    <2>1. CASE p \in Known(b)
      <3>1. b[p] \in Backoff
        BY <2>1, KeptFacts DEF Known
      <3>2. b[p].delay \in 1 .. LastDelay
        BY <3>1 DEF Backoff
      <3>3. \E x \in {2 * b[p].delay, LastDelay} : \A y \in {2 * b[p].delay, LastDelay} : x <= y
        BY <3>2, LimitsAssumption
      <3>4. /\ Min({2 * b[p].delay, LastDelay}) \in {2 * b[p].delay, LastDelay}
            /\ Min({2 * b[p].delay, LastDelay}) <= LastDelay
        BY <3>3 DEF Min
      <3>5. Min({2 * b[p].delay, LastDelay}) \in 1 .. LastDelay
        BY <3>2, <3>4, LimitsAssumption
      <3> QED
        BY <2>1, <3>5
    <2> QED
      BY <2>1, LimitsAssumption
  <1> HIDE DEF delay
  <1>3. CASE full
    <2>1. ASSUME NEW c \in Forget(b)
          PROVE  c \in Kept /\ Cardinality(Known(c)) < MAX_BACKOFF
      <3>1. PICK q \in Known(b) : c = [b EXCEPT ![q] = NoBackoff]
        BY DEF Forget, Known
      <3>2. c \in Kept /\ Cardinality(Known(c)) = Cardinality(Known(b)) - 1
        BY <3>1, ForgetKept
      <3> QED
        BY <3>2, KeptFacts, LimitsAssumption
    <2>2. ASSUME NEW c \in Forget(b)
          PROVE  [c EXCEPT ![p] = [left |-> delay, delay |-> delay]] \in Kept
      BY <1>2, <2>1, EnterKept
    <2> HIDE DEF full
    <2> QED
      BY <1>1, <1>3, <2>2
  <1>4. CASE ~full
    <2>1. p \in Known(b) \/ Cardinality(Known(b)) < MAX_BACKOFF
      BY <1>4, KeptFacts, LimitsAssumption
    <2> HIDE DEF full
    <2> QED
      BY <1>1, <1>2, <1>4, <2>1, EnterKept
  <1> QED
    BY <1>3, <1>4

(* The largest of some ids is one of them.                                  *)
LEMMA MaxFacts == ASSUME NEW s \in SUBSET Ids, s # {} PROVE Max(s) \in s
  <1> DEFINE T == {MaxId - i : i \in s}
  <1>1. T \in SUBSET Nat /\ T # {}
    <2>1. \A i \in s : MaxId - i \in Nat
      BY LimitsAssumption DEF Ids
    <2> QED
      BY <2>1
  <1>2. PICK x \in T : \A y \in T : x <= y
    BY <1>1, LeastNatural
  <1>3. PICK i \in s : x = MaxId - i
    BY <1>2
  <1>4. \A j \in s : i >= j
    BY <1>2, <1>3, LimitsAssumption DEF Ids
  <1> QED
    BY <1>4 DEF Max

(* Core::expire, and the part of reserve that does the same.                *)
LEMMA AfterFailuresKept ==
    ASSUME NEW b \in Kept, NEW ls, NEW gone \in SUBSET Ids
    PROVE  AfterFailures(b, ls, gone) \subseteq Kept
  <1> DEFINE S == {id \in gone : ls[id].role = "central"}
             After(id, bs) == UNION {Failures(c, ls[id].peer) : c \in bs}
             V == SUBSET Kept
             c == [s \in SUBSET S |-> Max(s)]
             h == [x \in S \X V |-> After(x[1], x[2])]
             Eq(f) == f = [s \in SUBSET S |->
                              IF s = {} THEN {b} ELSE After(Max(s), f[s \ {Max(s)}])]
             I == CHOOSE f : Eq(f)
             G == {s \in SUBSET S : I[s] \in V}
  <1>1. AfterFailures(b, ls, gone) = I[S]
    BY DEF AfterFailures, MapThenFoldSet
  <1>2. IsFiniteSet(S)
    <2>1. IsFiniteSet(Ids)
      BY FS_Interval, LimitsAssumption DEF Ids
    <2>2. S \subseteq Ids
      OBVIOUS
    <2> HIDE DEF S
    <2> QED
      BY <2>1, <2>2, FS_Subset
  <1>3. ASSUME NEW id, NEW bs \in V PROVE After(id, bs) \in V
    <2>1. \A d \in bs : Failures(d, ls[id].peer) \subseteq Kept
      BY FailuresKept
    <2> QED
      BY <2>1
  <1>4. \A s \in SUBSET S : s # {} => Max(s) \in s
    BY MaxFacts
  <1> HIDE DEF After, V, S
  <1>5. {b} \in V
    BY DEF V
  <1>6. h \in [S \X V -> V]
    BY <1>3
  <1>7. \A s \in SUBSET S : s # {} => c[s] = Max(s) /\ c[s] \in s
    BY <1>4
  <1>8. \E f : Eq(f)
    <2>1. PICK f \in [SUBSET S -> V] : IsFold(f, {b}, c, h, S)
      <3> HIDE DEF c, h
      <3> QED
        BY <1>2, <1>5, <1>6, <1>7, FoldExists
    <2>2. ASSUME NEW s \in SUBSET S, s # {}
          PROVE  h[c[s], f[s \ {c[s]}]] = After(Max(s), f[s \ {Max(s)}])
      <3>1. c[s] = Max(s) /\ Max(s) \in S /\ f[s \ {Max(s)}] \in V
        BY <1>7, <2>2
      <3> HIDE DEF c
      <3> QED
        BY <3>1
    <2>3. f = [s \in SUBSET S |-> IF s = {} THEN {b} ELSE h[c[s], f[s \ {c[s]}]]]
      BY <2>1 DEF IsFold
    <2> HIDE DEF c, h
    <2>4. Eq(f)
      BY <2>2, <2>3
    <2> QED
      BY <2>4
  <1>9. Eq(I)
    BY <1>8
  <1> HIDE DEF I
  <1>10. \A s \in SUBSET S : I[s] = IF s = {} THEN {b} ELSE After(Max(s), I[s \ {Max(s)}])
    BY <1>9
  <1>11. ASSUME NEW T \in SUBSET S, \A x \in T : T \ {x} \in G
         PROVE  T \in G
    <2>1. CASE T = {}
      BY <1>5, <1>10, <2>1
    <2>2. CASE T # {}
      <3>1. Max(T) \in T /\ I[T] = After(Max(T), I[T \ {Max(T)}])
        BY <1>4, <1>10, <2>2
      <3>2. I[T \ {Max(T)}] \in V
        BY <1>11, <3>1
      <3> QED
        BY <1>3, <3>1, <3>2
    <2> QED
      BY <2>1, <2>2
  <1>12. SUBSET S \subseteq G
    <2> HIDE DEF G
    <2> QED
      BY <1>2, <1>11, FiniteInduction
  <1> QED
    BY <1>1, <1>12 DEF V

LEMMA SweptKept ==
    ASSUME BackoffBounded, NEW ls
    PROVE  AfterFailures(backoff, ls, Expired(ls)) \subseteq Kept
  <1>1. Expired(ls) \in SUBSET Ids
    BY DEF Expired, Live
  <1> QED
    BY <1>1, AfterFailuresKept DEF BackoffBounded

LEMMA AdmitBackoff ==
    ASSUME BackoffBounded, NEW p \in Addresses, NEW usable \in BOOLEAN, Admit(p, usable)
    PROVE  BackoffBounded'
  <1>1. PICK b \in SweptBackoff(p) : backoff' = b \/ backoff' = [b EXCEPT ![p] = NoBackoff]
    BY DEF Admit
  <1>2. b \in Kept
    BY <1>1, SweptKept DEF SweptBackoff
  <1> QED
    BY <1>1, <1>2, ForgetKept DEF BackoffBounded

LEMMA FinishBackoff ==
    ASSUME BackoffBounded, NEW id \in Ids, NEW fail \in BOOLEAN, Finish(id, fail)
    PROVE  BackoffBounded'
  <1>1. backoff' \in Failures(backoff, tasks[id].peer) \/ backoff' = backoff
    BY DEF Finish
  <1> QED
    BY <1>1, FailuresKept DEF BackoffBounded

(* Time shortens what is left, and forgets nobody.                          *)
LEMMA TickBackoff == ASSUME BackoffBounded, Tick PROVE BackoffBounded'
  <1>1. backoff \in [Addresses -> Backoff \cup {NoBackoff}]
    BY KeptFacts DEF BackoffBounded
  <1>2. backoff' = [p \in Addresses |->
                       IF backoff[p] = NoBackoff THEN NoBackoff
                       ELSE [backoff[p] EXCEPT !.left = IF @ = 0 THEN 0 ELSE @ - 1]]
    BY DEF Tick
  <1>3. ASSUME NEW p \in Addresses, backoff[p] # NoBackoff
        PROVE  backoff'[p] \in Backoff
    <2>1. /\ backoff[p] \in Backoff
          /\ backoff[p].left \in 0 .. LastDelay /\ backoff[p].delay \in 1 .. LastDelay
      BY <1>1, <1>3 DEF Backoff
    <2>2. (IF backoff[p].left = 0 THEN 0 ELSE backoff[p].left - 1) \in 0 .. LastDelay
      BY <2>1, LimitsAssumption
    <2>3. backoff'[p] = [backoff[p] EXCEPT !.left = IF @ = 0 THEN 0 ELSE @ - 1]
      BY <1>2, <1>3
    <2> QED
      BY <2>1, <2>2, <2>3 DEF Backoff
  <1>4. /\ backoff' \in [Addresses -> Backoff \cup {NoBackoff}]
        /\ Known(backoff') \subseteq Known(backoff)
    BY <1>1, <1>2, <1>3 DEF Known
  <1>5. /\ IsFiniteSet(Known(backoff')) /\ Cardinality(Known(backoff')) \in Nat
        /\ Cardinality(Known(backoff')) <= Cardinality(Known(backoff))
        /\ Cardinality(Known(backoff)) \in Nat /\ Cardinality(Known(backoff)) <= MAX_BACKOFF
    BY <1>4, KeptFacts, FS_Subset, FS_CardinalityType DEF BackoffBounded
  <1>6. Cardinality(Known(backoff')) <= MAX_BACKOFF
    BY <1>5, LimitsAssumption
  <1> QED
    BY <1>4, <1>5, <1>6 DEF BackoffBounded, Kept

LEMMA StepBackoff == ASSUME BackoffBounded, [Next]_vars PROVE BackoffBounded'
  <1>0. CASE backoff' = backoff
    BY <1>0 DEF BackoffBounded
  <1>1. ASSUME NEW p \in Addresses, Dial(p) PROVE BackoffBounded'
    BY <1>1, SweptKept DEF Dial, SweptBackoff, BackoffBounded
  <1>2. ASSUME NEW p \in Addresses, NEW usable \in BOOLEAN, NEW whole \in BOOLEAN,
               Write(p, usable, whole)
        PROVE  BackoffBounded'
    BY <1>0, <1>2, AdmitBackoff DEF Write
  <1>3. ASSUME NEW p \in Addresses, NEW usable \in BOOLEAN, Subscribe(p, usable)
        PROVE  BackoffBounded'
    BY <1>0, <1>3, AdmitBackoff DEF Subscribe
  <1>4. ASSUME NEW id \in Ids, TaskEnds(id) PROVE BackoffBounded'
    BY <1>0, <1>4, FinishBackoff DEF TaskEnds, SetupFails, Notice, Closed
  <1>5. ASSUME NEW id \in Ids, NEW usable \in BOOLEAN, SetupDone(id, usable)
        PROVE  BackoffBounded'
    <2>1. CASE Finish(id, FALSE)
      BY <2>1, FinishBackoff
    <2>2. CASE backoff' = [backoff EXCEPT ![links[id].peer] = NoBackoff]
      BY <2>2, ForgetKept DEF BackoffBounded
    <2> QED
      BY <1>5, <2>1, <2>2 DEF SetupDone
  <1>6. ASSUME NEW id \in Ids, NEW fail \in BOOLEAN, LoseConnection(id, fail)
        PROVE  BackoffBounded'
    BY <1>6, FinishBackoff DEF LoseConnection
  <1>7. CASE Expire
    BY <1>7, SweptKept DEF Expire, BackoffBounded
  <1>8. CASE (\E id \in Ids : Hear(id)) \/ HubEnds \/ Fail \/ Start \/ UNCHANGED vars
    BY <1>0, <1>8 DEF Hear, HubEnds, Fail, Start, vars
  <1>9. CASE Tick
    BY <1>9, TickBackoff
  <1> QED
    BY <1>1, <1>2, <1>3, <1>4, <1>5, <1>6, <1>7, <1>8, <1>9 DEF Next

(* Core::remove: however many links, to however many peers, fail or expire  *)
(* together, no more than MAX_BACKOFF peers are remembered, and no delay,   *)
(* doubled after each failure, is longer than the last one.                 *)
THEOREM BackoffStaysBounded == Spec => []BackoffBounded
  <1>1. Init => BackoffBounded
    <2> SUFFICES ASSUME Init PROVE BackoffBounded
      OBVIOUS
    <2>1. backoff \in [Addresses -> Backoff \cup {NoBackoff}] /\ Known(backoff) = {}
      BY DEF Init, Known
    <2> QED
      BY <2>1, FS_EmptySet, LimitsAssumption DEF BackoffBounded, Kept
  <1>2. BackoffBounded /\ [Next]_vars => BackoffBounded'
    BY StepBackoff
  <1> QED
    BY <1>1, <1>2, PTL DEF Spec

(* What no invariant above has said.                                        *)
RestTypes ==
    /\ connected \subseteq Addresses
    /\ hub \in BOOLEAN
    /\ mesh \in {"up", "waiting", "paused"}

(* core.rs, linux.rs, mod.rs: table, tasks, backoff and the record of       *)
(* failures keep their types and bounds.                                    *)
THEOREM BleTypeCorrect == Spec => []TypeOK
  <1>1. Init => RestTypes
    BY DEF Init, RestTypes
  <1>2. ASSUME RestTypes, [Next]_vars PROVE RestTypes'
    BY <1>2 DEF RestTypes, vars, Next, Dial, Write, Subscribe, TaskEnds, SetupFails, Notice,
                Closed, Hear, SetupDone, LoseConnection, Finish, HubEnds, Expire, Fail, Start,
                Tick
  <1>3. IInv /\ GuardInv /\ BackoffBounded /\ RestTypes => TypeOK
    BY KeptFacts DEF IInv, TableTypes, GuardInv, Ages, BackoffBounded, RestTypes, TypeOK
  <1> QED
    BY <1>1, <1>2, <1>3, TableInvariant, InitGuard, NextGuard, BackoffStaysBounded, PTL DEF Spec

=============================================================================
