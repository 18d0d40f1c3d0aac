------------------------------ MODULE BleMesh ------------------------------
(* The links of the desktop Bluetooth mesh: the link table of               *)
(* native/conest_native/src/ble/core.rs, the tasks of ble/linux.rs that     *)
(* work on it and the worker of ble/mod.rs that restarts them.              *)
(*                                                                          *)
(* A device dials the neighbours it discovers (it is their central) and is  *)
(* dialled by them (their peripheral).  Each dialled link has a task; the   *)
(* table is shared, and a link can be replaced, expired or cleared while    *)
(* its task still sets it up.  The tasks share one thread: what a task does *)
(* between two awaits is one step here.  Times are ages and remaining       *)
(* times, in units of the instance, each kept only as far as it is compared.*)
EXTENDS Naturals, FiniteSets, FiniteSetsExt, Folds, Sequences

CONSTANTS
    Addresses,     \* the device addresses in range
    Local,         \* this device's address
    MAX_LINKS,     \* links at a time
    MaxId,         \* the last link id (the largest u64 in the code)
    MAX_BACKOFF,   \* peers remembered as failing
    SetupTime,     \* a link not ready after this long has failed
    SilentTime,    \* a link not heard for this long has failed
    FirstDelay,    \* no dialling for this long after a failure,
    LastDelay,     \* twice as long after each further one, up to this
    DROPS_TO_PAUSE, DROP_WINDOW    \* failures of the mesh that pause it

ASSUME AddressesAssumption == Addresses \subseteq Nat /\ Local \in Nat
ASSUME LimitsAssumption ==
    /\ MAX_LINKS \in Nat \ {0} /\ MaxId \in Nat /\ MAX_BACKOFF \in Nat \ {0}
    /\ SetupTime \in Nat /\ SilentTime \in Nat /\ DROP_WINDOW \in Nat
    /\ FirstDelay \in Nat \ {0} /\ LastDelay \in Nat /\ FirstDelay <= LastDelay
    /\ DROPS_TO_PAUSE \in Nat \ {0}

VARIABLES
    links,      \* id -> Link, or NoLink
    next,       \* the last id given out
    backoff,    \* address -> how long not to dial it, and the delay last imposed
    tasks,      \* id -> the central task that dialled it
    connected,  \* the addresses stopping would disconnect
    hub,        \* whether a notification channel is open
    mesh,       \* "up", "waiting" to be started again, or "paused"
    drops,      \* the DropGuard's record of failures, as ages, the oldest first
    failed      \* history: how long ago the mesh last failed, the time before that, ...

vars == <<links, next, backoff, tasks, connected, hub, mesh, drops, failed>>

Ids == 1 .. MaxId
LastFailures == 1 .. DROPS_TO_PAUSE
Role == {"central", "peripheral"}
Link == [peer : Addresses, role : Role, ready : BOOLEAN,
         age : 0 .. SetupTime + 1, silent : 0 .. SilentTime + 1]
NoLink == [none |-> TRUE]
Backoff == [left : 0 .. LastDelay, delay : 1 .. LastDelay]
NoBackoff == [none |-> TRUE]
Phase == {"none", "setup", "serving", "closing"}
Task == [phase : Phase, peer : Addresses \cup {0}]
NoTask == [phase |-> "none", peer |-> 0]

Older(age, limit) == IF age > limit THEN age ELSE age + 1

-----------------------------------------------------------------------------
(* The link table.                                                          *)

NewLink(p, role, ready) ==
    [peer |-> p, role |-> role, ready |-> ready, age |-> 0, silent |-> 0]

Live(ls) == {id \in Ids : ls[id] # NoLink}
LinksTo(ls, p) == {id \in Live(ls) : ls[id].peer = p}
has_peer(ls, p) == LinksTo(ls, p) # {}
peer_link(p, role) == {id \in LinksTo(links, p) : links[id].role = role}
role_links(role) == {id \in Live(links) : links[id].role = role}
Without(ls, gone) == [id \in Ids |-> IF id \in gone THEN NoLink ELSE ls[id]]

\* Mutant of Expired: links that became ready are kept for ever.
ExpiredUnready(ls) ==
    {id \in Live(ls) : ~ls[id].ready /\ ls[id].age > SetupTime}

Expired(ls) ==
    {id \in Live(ls) : \/ ~ls[id].ready /\ ls[id].age > SetupTime
                       \/ ls[id].silent > SilentTime}

\* The failure of a dialled link.  A full record forgets the peer that may be
\* dialled first; ages cannot tell apart the ones that may be dialled now.
Forget(b) ==
    LET known == {p \in Addresses : b[p] # NoBackoff}
    IN  {[b EXCEPT ![p] = NoBackoff] :
            p \in {p \in known : \A q \in known : b[p].left <= b[q].left}}

Failures(b, p) ==
    LET known == {q \in Addresses : b[q] # NoBackoff}
        delay == IF p \in known THEN Min({2 * b[p].delay, LastDelay}) ELSE FirstDelay
        full == Cardinality(known) >= MAX_BACKOFF /\ p \notin known
    IN  {[c EXCEPT ![p] = [left |-> delay, delay |-> delay]] :
            c \in IF full THEN Forget(b) ELSE {b}}

\* What the backoff may be once the links gone have failed, in order of id.
AfterFailures(b, ls, gone) ==
    MapThenFoldSet(LAMBDA id, bs : UNION {Failures(c, ls[id].peer) : c \in bs}, {b},
                   LAMBDA id : id, LAMBDA ids : Max(ids),
                   {id \in gone : ls[id].role = "central"})

(* expire, as the main loop calls it ten times a second.                    *)
Expire ==
    /\ mesh = "up"
    /\ Expired(links) # {}
    /\ links' = Without(links, Expired(links))
    /\ backoff' \in AfterFailures(backoff, links, Expired(links))
    /\ UNCHANGED <<next, tasks, connected, hub, mesh, drops, failed>>

-----------------------------------------------------------------------------
(* reserve: a new link to p, unless there is one to keep.                   *)

Preferred(p) == IF Local < p THEN "central" ELSE "peripheral"

\* Mutant of MayReserve: looks for a link in the same direction only.
MayReserveBoth(p, role) ==
    /\ p \notin {Local, 0}
    /\ peer_link(p, role) = {}

MayReserve(p, role) ==
    /\ p \notin {Local, 0}
    /\ \/ /\ has_peer(links, p)
          /\ role = Preferred(p)
          /\ peer_link(p, role) = {}
       \/ /\ ~has_peer(links, p)
          /\ role = "central" /\ backoff[p] # NoBackoff => backoff[p].left = 0

\* Mutant of Replaced: a crossed link stays beside the new one.
ReplacedNone(p) == links

Replaced(p) == Without(links, LinksTo(links, p))
Swept(p) == Without(Replaced(p), Expired(Replaced(p)))

Room(p) == Cardinality(Live(Swept(p))) < MAX_LINKS /\ next < MaxId

\* What reserve leaves in the table, with the new link ready at once or not.
Reserve(p, role, ready) ==
    /\ next' = next + 1
    /\ links' = [Swept(p) EXCEPT ![next + 1] = NewLink(p, role, ready)]

SweptBackoff(p) == AfterFailures(backoff, Replaced(p), Expired(Replaced(p)))

-----------------------------------------------------------------------------
(* A central task: reserve, connect, subscribe, serve, close.               *)

Running == {id \in Ids : tasks[id].phase \in {"setup", "serving"}}
TaskCount == Cardinality({id \in Ids : tasks[id].phase # "none"})
             + (IF hub THEN 1 ELSE 0)

(* A discovered neighbour that offers the mesh service is dialled.          *)
Dial(p) ==
    /\ mesh = "up"
    /\ TaskCount < 2 * MAX_LINKS
    /\ MayReserve(p, "central")
    /\ backoff' \in SweptBackoff(p)
    /\ \/ /\ Room(p)
          /\ Reserve(p, "central", FALSE)
          /\ tasks' = [tasks EXCEPT ![next + 1] = [phase |-> "setup", peer |-> p]]
          /\ connected' = connected \cup {p}
       \/ /\ ~Room(p)
          /\ links' = Swept(p)
          /\ UNCHANGED <<next, tasks, connected>>
    /\ UNCHANGED <<hub, mesh, drops, failed>>

\* Mutant of Finish: leaves the link to be expired unless the task failed.
FinishKeepsLink(id, fail) ==
    /\ tasks' = [tasks EXCEPT ![id] = NoTask]
    /\ links' = IF fail THEN Without(links, {id}) ELSE links
    /\ UNCHANGED <<next, backoff, connected, hub, mesh, drops, failed>>

\* The end of a task: its link goes, and the connection too if no link to
\* the peer is left; the task lasts until the peer is disconnected.
Finish(id, fail) ==
    LET p == tasks[id].peer
        left == Without(links, {id})
    IN  /\ links' = left
        /\ backoff' \in IF fail /\ links[id] # NoLink THEN Failures(backoff, p)
                                                      ELSE {backoff}
        /\ \/ /\ has_peer(left, p)
              /\ tasks' = [tasks EXCEPT ![id] = NoTask]
              /\ UNCHANGED connected
           \/ /\ ~has_peer(left, p)
              /\ tasks' = [tasks EXCEPT ![id] = [phase |-> "closing", peer |-> p]]
              /\ connected' = connected \ {p}
        /\ UNCHANGED <<next, hub, mesh, drops, failed>>

\* Connecting, finding the characteristic or subscribing failed or took 15 s.
SetupFails(id) ==
    /\ tasks[id].phase = "setup"
    /\ Finish(id, TRUE)

\* ready: the link may have gone meanwhile, and the MTU may be too small.
SetupDone(id, usable) ==
    /\ tasks[id].phase = "setup"
    /\ \/ /\ links[id] # NoLink /\ usable
          /\ links' = [links EXCEPT ![id] = [@ EXCEPT !.ready = TRUE]]
          /\ backoff' = [backoff EXCEPT ![links[id].peer] = NoBackoff]
          /\ tasks' = [tasks EXCEPT ![id] = [@ EXCEPT !.phase = "serving"]]
          /\ UNCHANGED <<next, connected, hub, mesh, drops, failed>>
       \/ /\ ~(links[id] # NoLink /\ usable)
          /\ Finish(id, FALSE)

\* A notification that completes a packet: receive.
Hear(id) ==
    /\ tasks[id].phase = "serving"
    /\ links[id] # NoLink
    /\ links' = [links EXCEPT ![id] = [@ EXCEPT !.silent = 0]]
    /\ UNCHANGED <<next, backoff, tasks, connected, hub, mesh, drops, failed>>

\* Mutant of Notice: does not look.
NoticeNothing(id) == FALSE

\* The task's tick finds that its link has gone.
Notice(id) ==
    /\ tasks[id].phase = "serving"
    /\ links[id] = NoLink
    /\ Finish(id, FALSE)

\* The reader ends, or reading or writing fails.
LoseConnection(id, fail) ==
    /\ tasks[id].phase = "serving"
    /\ Finish(id, fail)

Closed(id) ==
    /\ tasks[id].phase = "closing"
    /\ tasks' = [tasks EXCEPT ![id] = NoTask]
    /\ UNCHANGED <<links, next, backoff, connected, hub, mesh, drops, failed>>

-----------------------------------------------------------------------------
(* The peripheral side: neighbours that dialled this device.                *)

\* admit_peripheral for a peer without an incoming link.
Admit(p, usable) ==
    /\ MayReserve(p, "peripheral")
    /\ \E b \in SweptBackoff(p) :
          \/ /\ Room(p) /\ usable
             /\ Reserve(p, "peripheral", TRUE)
             /\ backoff' = [b EXCEPT ![p] = NoBackoff]
          \/ /\ Room(p) /\ ~usable
             /\ next' = next + 1
             /\ links' = Swept(p)
             /\ backoff' = b
          \/ /\ ~Room(p)
             /\ links' = Swept(p)
             /\ backoff' = b
             /\ UNCHANGED next

\* A write of a neighbour is received, and admits it if it must.
Write(p, usable, whole) ==
    /\ mesh = "up"
    /\ \/ /\ peer_link(p, "peripheral") = {}
          /\ Admit(p, usable)
       \/ /\ whole
          /\ \E id \in peer_link(p, "peripheral") :
                links' = [links EXCEPT ![id] = [@ EXCEPT !.silent = 0]]
          /\ UNCHANGED <<next, backoff>>
    /\ UNCHANGED <<tasks, connected, hub, mesh, drops, failed>>

\* The first subscriber opens the one notification channel.
Subscribe(p, usable) ==
    /\ mesh = "up"
    /\ hub' = TRUE
    /\ \/ /\ peer_link(p, "peripheral") = {}
          /\ Admit(p, usable)
       \/ /\ peer_link(p, "peripheral") # {} \/ ~MayReserve(p, "peripheral")
          /\ UNCHANGED <<links, next, backoff>>
    /\ UNCHANGED <<tasks, connected, mesh, drops, failed>>

\* The channel closes, or sending on it fails: the incoming links go.
HubEnds ==
    /\ hub
    /\ hub' = FALSE
    /\ links' = Without(links, role_links("peripheral"))
    /\ UNCHANGED <<next, backoff, tasks, connected, mesh, drops, failed>>

-----------------------------------------------------------------------------
(* The worker: the mesh fails and is started again, but not for ever.       *)

\* The while loop of DropGuard::dropped: failures too long ago leave at the
\* front, up to the first that is not.
Recent(ages) ==
    LET fresh == {i \in DOMAIN ages : ages[i] <= DROP_WINDOW}
    IN  IF fresh = {} THEN <<>> ELSE SubSeq(ages, Min(fresh), Len(ages))

\* Mutant of Dropped: only the last failure is kept.
DroppedLast == <<0>>

\* DropGuard::dropped.
Dropped == Append(Recent(drops), 0)

\* run returns an error: its tasks are aborted, its peers disconnected and the
\* links cleared, all before the worker goes on, in one step.  While it waits
\* for the disconnects (2.5 s at most) the table still has the links, and a
\* neighbour's write may add one: all go when the links are cleared, as those
\* of a write before the failure do.
Fail ==
    /\ mesh = "up"
    /\ drops' = Dropped
    /\ failed' = [i \in LastFailures |-> IF i = 1 THEN 0 ELSE failed[i - 1]]
    /\ mesh' = IF Len(Dropped) >= DROPS_TO_PAUSE THEN "paused" ELSE "waiting"
    /\ links' = [id \in Ids |-> NoLink]
    /\ tasks' = [id \in Ids |-> NoTask]
    /\ connected' = {}
    /\ hub' = FALSE
    /\ UNCHANGED <<next, backoff>>

\* run is called again after five seconds and finds a powered adapter.
Start ==
    /\ mesh = "waiting"
    /\ mesh' = "up"
    /\ UNCHANGED <<links, next, backoff, tasks, connected, hub, drops, failed>>

Tick ==
    /\ links' = [id \in Ids |->
                    IF links[id] = NoLink THEN NoLink
                    ELSE [links[id] EXCEPT !.age = Older(@, SetupTime),
                                           !.silent = Older(@, SilentTime)]]
    /\ backoff' = [p \in Addresses |->
                      IF backoff[p] = NoBackoff THEN NoBackoff
                      ELSE [backoff[p] EXCEPT !.left = IF @ = 0 THEN 0 ELSE @ - 1]]
    /\ drops' = [i \in DOMAIN drops |-> Older(drops[i], DROP_WINDOW)]
    /\ failed' = [i \in LastFailures |-> Older(failed[i], DROP_WINDOW)]
    /\ UNCHANGED <<next, tasks, connected, hub, mesh>>

-----------------------------------------------------------------------------
Init ==
    /\ links = [id \in Ids |-> NoLink]
    /\ next = 0
    /\ backoff = [p \in Addresses |-> NoBackoff]
    /\ tasks = [id \in Ids |-> NoTask]
    /\ connected = {}
    /\ hub = FALSE
    /\ mesh = "waiting"
    /\ drops = <<>>
    /\ failed = [i \in LastFailures |-> DROP_WINDOW + 1]

TaskEnds(id) == SetupFails(id) \/ Notice(id) \/ Closed(id)

Next ==
    \/ \E p \in Addresses : Dial(p)
    \/ \E p \in Addresses, usable, whole \in BOOLEAN : Write(p, usable, whole)
    \/ \E p \in Addresses, usable \in BOOLEAN : Subscribe(p, usable)
    \/ \E id \in Ids : TaskEnds(id) \/ Hear(id)
    \/ \E id \in Ids, usable \in BOOLEAN : SetupDone(id, usable)
    \/ \E id \in Ids, fail \in BOOLEAN : LoseConnection(id, fail)
    \/ HubEnds \/ Expire \/ Fail \/ Start \/ Tick

Spec == Init /\ [][Next]_vars

\* Time passes, the main loop expires links, and a task's timeouts and ticks
\* run; no neighbour has to do anything.
FairSpec ==
    /\ Spec
    /\ WF_vars(Tick) /\ WF_vars(Expire)
    /\ \A id \in Ids : WF_vars(TaskEnds(id))

-----------------------------------------------------------------------------
(* Properties.                                                              *)

(* Every variable stays in its type, and the table within MAX_LINKS.        *)
TypeOK ==
    /\ links \in [Ids -> Link \cup {NoLink}]
    /\ next \in 0 .. MaxId
    /\ backoff \in [Addresses -> Backoff \cup {NoBackoff}]
    /\ tasks \in [Ids -> Task]
    /\ connected \subseteq Addresses
    /\ hub \in BOOLEAN
    /\ mesh \in {"up", "waiting", "paused"}
    /\ drops \in Seq(0 .. DROP_WINDOW + 1)
    /\ failed \in [LastFailures -> 0 .. DROP_WINDOW + 1]

(* Whatever order discoveries, incoming writes, subscriptions, expiries and *)
(* ends of tasks come in, crossed links included, a peer has one link, this *)
(* device has none to itself, and the table keeps its bound.                *)
OneLinkPerPeer ==
    /\ \A i, j \in Live(links) : links[i].peer = links[j].peer => i = j
    /\ \A i \in Live(links) : links[i].peer \notin {Local, 0}
    /\ Cardinality(Live(links)) <= MAX_LINKS

(* A dialled link in the table has its own running task, one that knows it  *)
(* to be ready exactly when it is: packets queued on it are sent, and a     *)
(* task that outlives its link (replaced or expired) never works on, or     *)
(* removes, the link that took its place.                                   *)
DialledLinksServed ==
    \A id \in role_links("central") :
        /\ tasks[id].peer = links[id].peer
        /\ tasks[id].phase = IF links[id].ready THEN "serving" ELSE "setup"

(* Crossed links converge: while the link to a peer has the direction both  *)
(* sides prefer, nothing puts another in its place, neither the peer's      *)
(* writes and subscriptions nor a new discovery.                            *)
CrossedLinksConverge ==
    [][\A p \in Addresses : \A id \in peer_link(p, Preferred(p)) :
          LinksTo(links', p) \subseteq {id}]_vars

(* A mesh that keeps failing is not restarted: while it is not paused,      *)
(* fewer than DROPS_TO_PAUSE of its failures lie within DROP_WINDOW, for    *)
(* the DROPS_TO_PAUSE-th last is further back.                              *)
NoRestartStorm == mesh # "paused" => failed[DROPS_TO_PAUSE] > DROP_WINDOW

(* A slot of the table is not held for ever by a peer that is gone or never *)
(* answered: again and again each slot is free or has just been heard.      *)
DeadSlotsFreed ==
    \A id \in Ids : []<>(links[id] = NoLink \/ links[id].silent = 0)

(* A task whose link was replaced or expired ends, so that it does not hold *)
(* one of the places for tasks, without which nobody is dialled.            *)
OrphansEnd ==
    \A id \in Ids : (id \in Running /\ links[id] = NoLink) ~> tasks[id].phase = "none"

=============================================================================
