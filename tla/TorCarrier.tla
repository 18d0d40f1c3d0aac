----------------------------- MODULE TorCarrier -----------------------------
(***************************************************************************)
(* The commands of the Tor carrier (native/conest_native/src/tor.rs): start *)
(* bootstraps a client and installs it, stop takes it away and ends what is *)
(* in progress, send delivers one frame over a stream kept per contact,     *)
(* proxy opens a local entrance to Tor, and every command answers with one  *)
(* result.                                                                  *)
(*                                                                          *)
(* Each command is a task of its own.  A step ends at an await or a lock.   *)
(* Arti (bootstrapping, onion service, streams) is external.                *)
(***************************************************************************)
EXTENDS Naturals, FiniteSets

CONSTANTS
    Starts, Stops, Sends, Proxies,  \* the commands, disjoint sets
    Onion,          \* [Sends -> the contacts' onion hosts]
    LaunchAttempts, \* attempts at launching the onion service
    None

Commands == Starts \cup Stops \cup Sends \cup Proxies
Hosts == {Onion[c] : c \in Sends}

ASSUME CarrierAssumption ==
    /\ IsFiniteSet(Commands)
    /\ Starts \cap Stops = {} /\ Starts \cap Sends = {} /\ Stops \cap Sends = {}
    /\ Proxies \cap (Starts \cup Stops \cup Sends) = {}
    /\ LaunchAttempts \in Nat \ {0}
    /\ None \notin Commands /\ None \notin Nat

Generations == 0 .. Cardinality(Stops)

VARIABLES
    pc, gen,        \* of each command: where it is, the generation it belongs to
    tries,          \* of each command: its attempts so far
    generation,     \* GENERATION
    state,          \* STATE: the generation of the installed client, or None
    startLock,      \* START
    waiting,        \* the tasks registered with CANCEL
    woken,          \* those of them that were notified
    epoch,          \* how often OUTGOING was cleared: the slots of a host in one
                    \* epoch are one object
    slotEpoch,      \* of each send: the epoch of its slot
    slotLock,       \* who holds a slot
    slot,           \* the slots with a stream
    web             \* WEB_PROXY: the generation of the client it uses, or None

torVars == <<pc, gen, tries, generation, state, startLock, waiting, woken,
             epoch, slotEpoch, slotLock, slot, web>>
tasks == <<waiting, woken>>
streams == <<epoch, slotEpoch, slotLock, slot, web>>
held == <<gen, tries, waiting, woken, startLock, slotLock>>  \* what Answer gives back

Slots == Hosts \X Generations
Pcs == {"idle", "lock", "create", "register", "check", "boot", "launch", "install",
        "notify", "clear", "web", "shutdown", "client", "bind",
        "get", "slot", "connect", "write", "ok", "error"}

TorTypeOK ==
    /\ pc \in [Commands -> Pcs]
    /\ gen \in [Commands -> Generations]
    /\ tries \in [Commands -> Nat]
    /\ generation \in Generations
    /\ state \in Generations \cup {None}
    /\ startLock \in Starts \cup {None}
    /\ waiting \subseteq Commands /\ woken \subseteq Commands
    /\ epoch \in Generations /\ slotEpoch \in [Sends -> Generations]
    /\ slotLock \in [Slots -> Sends \cup {None}]
    /\ slot \subseteq Slots
    /\ web \in Generations \cup {None}

TorInit ==
    /\ pc = [c \in Commands |-> "idle"]
    /\ gen = [c \in Commands |-> 0]
    /\ tries = [c \in Commands |-> 0]
    /\ generation = 0 /\ state = None /\ startLock = None
    /\ waiting = {} /\ woken = {}
    /\ epoch = 0 /\ slotEpoch = [c \in Sends |-> 0]
    /\ slotLock = [s \in Slots |-> None] /\ slot = {} /\ web = None

Goto(c, place) == pc' = [pc EXCEPT ![c] = place]
Stale(c) == gen[c] # generation
Place(c) == <<Onion[c], slotEpoch[c]>>

\* Mutant: the START lock stays with a start that gave up.
ReleaseNoStart(c) ==
    /\ waiting' = waiting \ {c} /\ woken' = woken \ {c}
    /\ slotLock' = [s \in Slots |-> IF slotLock[s] = c THEN None ELSE slotLock[s]]
    /\ UNCHANGED startLock

\* What is given back when a command ends: its registration, the START lock,
\* the slot it holds.
Release(c) ==
    /\ waiting' = waiting \ {c} /\ woken' = woken \ {c}
    /\ startLock' = IF startLock = c THEN None ELSE startLock
    /\ slotLock' = [s \in Slots |-> IF slotLock[s] = c THEN None ELSE slotLock[s]]

\* A command answers: its one result event.
Answer(c, result) ==
    /\ Goto(c, result) /\ Release(c)
    /\ gen' = [gen EXCEPT ![c] = 0] /\ tries' = [tries EXCEPT ![c] = 0]

-----------------------------------------------------------------------------
(* unless_stopped, around the bootstrap and around a delivery.              *)

\* Where the work begins that a stop may end.
Work(c) == IF c \in Starts THEN "boot" ELSE "get"

\* "Registered before the check, so a stop in between still wakes it."
Register(c) ==
    /\ pc[c] = "register"
    /\ waiting' = waiting \cup {c}
    /\ woken' = woken \ {c}
    /\ Goto(c, "check")
    /\ UNCHANGED <<gen, tries, generation, state, startLock, streams>>

\* Mutant: registered, but the generation is not checked any more.
CheckForgotten(c) ==
    /\ pc[c] = "check"
    /\ Goto(c, Work(c))
    /\ UNCHANGED <<held, generation, state, epoch, slotEpoch, slot, web>>

Check(c) ==
    /\ pc[c] = "check"
    /\ IF Stale(c)
       THEN Answer(c, "error")
       ELSE Goto(c, Work(c)) /\ UNCHANGED held
    /\ UNCHANGED <<generation, state, epoch, slotEpoch, slot, web>>

Cancellable == {"boot", "get", "slot", "connect", "write"}

\* select takes the notification: the work is dropped where it stands.
Stopped(c) ==
    /\ pc[c] \in Cancellable /\ c \in woken
    /\ Answer(c, "error")
    /\ UNCHANGED <<generation, state, epoch, slotEpoch, slot, web>>

-----------------------------------------------------------------------------
(* start.                                                                   *)

BeginStart(c) ==
    /\ pc[c] = "idle" /\ c \in Starts
    /\ gen' = [gen EXCEPT ![c] = generation]
    /\ Goto(c, "lock")
    /\ UNCHANGED <<tries, generation, state, startLock, tasks, streams>>

\* One start at a time.  running_address: with a client installed its
\* address is the answer.
LockStart(c) ==
    /\ pc[c] = "lock" /\ startLock = None
    /\ IF Stale(c) \/ state # None
       THEN Answer(c, IF Stale(c) THEN "error" ELSE "ok")
       ELSE /\ startLock' = c
            /\ Goto(c, "create")
            /\ UNCHANGED <<gen, tries, tasks, slotLock>>
    /\ UNCHANGED <<generation, state, epoch, slotEpoch, slot, web>>

\* A client with the configuration asked for is created, without a look at
\* the generation; or the directories, a bridge line or the configuration
\* are refused, or Arti creates none.
CreateClient(c, ok) ==
    /\ pc[c] = "create"
    /\ IF ok THEN Goto(c, "register") /\ UNCHANGED held ELSE Answer(c, "error")
    /\ UNCHANGED <<generation, state, epoch, slotEpoch, slot, web>>

\* The bootstrap succeeds, or fails or takes longer than BOOTSTRAP.
Bootstrap(c, ok) ==
    /\ pc[c] = "boot" /\ c \in Starts
    /\ IF ok /\ ~Stale(c)
       THEN /\ Goto(c, "launch")
            /\ waiting' = waiting \ {c} /\ woken' = woken \ {c}
            /\ UNCHANGED <<gen, tries, startLock, slotLock>>
       ELSE Answer(c, "error")
    /\ UNCHANGED <<generation, state, epoch, slotEpoch, slot, web>>

\* The onion service launches, or not: a just stopped one may still hold its
\* keys, so it is tried again.  A bad nickname, onion services that are
\* disabled and a service without an address end the start at once.
Launch(c, result) ==
    /\ pc[c] = "launch"
    /\ IF result = "refused" \/ (result = "failed" /\ tries[c] = LaunchAttempts - 1)
       THEN Answer(c, "error")
       ELSE /\ Goto(c, IF result = "launched" THEN "install" ELSE "launch")
            /\ tries' = [tries EXCEPT ![c] = @ + 1]
            /\ UNCHANGED <<gen, tasks, startLock, slotLock>>
    /\ UNCHANGED <<generation, state, epoch, slotEpoch, slot, web>>

\* Mutant: the client is installed without another look at the generation.
InstallAnyway(c) ==
    /\ pc[c] = "install"
    /\ state' = gen[c]
    /\ Answer(c, "ok")
    /\ UNCHANGED <<generation, epoch, slotEpoch, slot, web>>

\* "Checked and installed under the lock stop changes the generation under."
Install(c) ==
    /\ pc[c] = "install"
    /\ state' = IF Stale(c) THEN state ELSE gen[c]
    /\ Answer(c, IF Stale(c) THEN "error" ELSE "ok")
    /\ UNCHANGED <<generation, epoch, slotEpoch, slot, web>>

-----------------------------------------------------------------------------
(* stop.                                                                    *)

TakeState(c) ==
    /\ pc[c] = "idle" /\ c \in Stops
    /\ generation' = generation + 1
    /\ state' = None
    /\ Goto(c, "notify")
    /\ UNCHANGED <<gen, tries, startLock, tasks, streams>>

NotifyWaiters(c) ==
    /\ pc[c] = "notify"
    /\ woken' = woken \cup waiting
    /\ Goto(c, "clear")
    /\ UNCHANGED <<gen, tries, generation, state, startLock, waiting, streams>>

\* A send may still hold a slot that is in no map any more.
ClearOutgoing(c) ==
    /\ pc[c] = "clear"
    /\ epoch' = epoch + 1
    /\ Goto(c, "web")
    /\ UNCHANGED <<gen, tries, generation, state, startLock, tasks, slotEpoch, slotLock, slot, web>>

\* The web entrance that is open now ends.
EndProxy(c) ==
    /\ pc[c] = "web"
    /\ web' = None
    /\ Goto(c, "shutdown")
    /\ UNCHANGED <<gen, tries, generation, state, startLock, tasks, epoch, slotEpoch, slotLock, slot>>

\* The tasks of the client end; the wait for the service to shut down is
\* bounded.
Shutdown(c) ==
    /\ pc[c] = "shutdown"
    /\ Goto(c, "ok")
    /\ UNCHANGED <<gen, tries, generation, state, startLock, tasks, streams>>

-----------------------------------------------------------------------------
(* send and deliver.                                                        *)

BeginSend(c) ==
    /\ pc[c] = "idle" /\ c \in Sends
    /\ gen' = [gen EXCEPT ![c] = generation]
    /\ Goto(c, IF state = None THEN "error" ELSE "register")
    /\ UNCHANGED <<tries, generation, state, startLock, tasks, streams>>

\* The contact's slot, new if need be.  (A slot of another contact that
\* idled too long is forgotten here, unless a send holds it or is about to
\* lock it; for the next send that is the same as finding its stream idle.)
GetSlot(c) ==
    /\ pc[c] = "get"
    /\ slotEpoch' = [slotEpoch EXCEPT ![c] = epoch]
    /\ Goto(c, "slot")
    /\ UNCHANGED <<gen, tries, generation, state, startLock, tasks, epoch, slotLock, slot, web>>

\* One send to a contact at a time; a stream that idled too long is dropped.
LockSlot(c, idle) ==
    /\ pc[c] = "slot" /\ slotLock[Place(c)] = None
    /\ slotLock' = [slotLock EXCEPT ![Place(c)] = c]
    /\ LET usable == Place(c) \in slot /\ ~idle IN
       /\ slot' = IF usable THEN slot ELSE slot \ {Place(c)}
       /\ Goto(c, IF usable THEN "write" ELSE "connect")
    /\ UNCHANGED <<gen, tries, generation, state, startLock, tasks, epoch, slotEpoch, web>>

\* A new stream; an onion service that does not answer fails the send.
Connect(c, ok) ==
    /\ pc[c] = "connect"
    /\ IF ok
       THEN slot' = slot \cup {Place(c)} /\ Goto(c, "write") /\ UNCHANGED held
       ELSE Answer(c, "error") /\ UNCHANGED slot
    /\ UNCHANGED <<generation, state, epoch, slotEpoch, web>>

\* The frame is written, which is the answer unless a stop came first.  A
\* stream that fails or takes longer than WRITE is dropped, and a new one
\* tried once.
Write(c, ok) ==
    /\ pc[c] = "write"
    /\ slot' = IF ok THEN slot ELSE slot \ {Place(c)}
    /\ IF ~ok /\ tries[c] = 0
       THEN /\ tries' = [tries EXCEPT ![c] = 1]
            /\ Goto(c, "connect")
            /\ UNCHANGED <<gen, tasks, startLock, slotLock>>
       ELSE Answer(c, IF ok /\ ~Stale(c) THEN "ok" ELSE "error")
    /\ UNCHANGED <<generation, state, epoch, slotEpoch, web>>

\* SEND passes: the delivery is dropped where it stands.
SendTimeout(c) ==
    /\ c \in Sends /\ pc[c] \in Cancellable
    /\ Answer(c, "error")
    /\ UNCHANGED <<generation, state, epoch, slotEpoch, slot, web>>

-----------------------------------------------------------------------------
(* web_proxy.  No step of it looks at the generation: a proxy that is being *)
(* opened while Tor stops is left open, with the client that was stopped.   *)

\* With an entrance open its port is the answer.
BeginProxy(c) ==
    /\ pc[c] = "idle" /\ c \in Proxies
    /\ Goto(c, IF web = None THEN "client" ELSE "ok")
    /\ UNCHANGED <<gen, tries, generation, state, startLock, tasks, streams>>

ProxyClient(c) ==
    /\ pc[c] = "client"
    /\ IF state = None THEN Goto(c, "error") /\ UNCHANGED gen
       ELSE Goto(c, "bind") /\ gen' = [gen EXCEPT ![c] = state]
    /\ UNCHANGED <<tries, generation, state, startLock, tasks, streams>>

\* The port is bound and the proxy takes the place of another; or the
\* credentials are too short or there is no port.
OpenProxy(c, ok) ==
    /\ pc[c] = "bind"
    /\ web' = IF ok THEN gen[c] ELSE web
    /\ Answer(c, IF ok THEN "ok" ELSE "error")
    /\ UNCHANGED <<generation, state, epoch, slotEpoch, slot>>

-----------------------------------------------------------------------------
StartStep(c) ==
    \/ BeginStart(c) \/ LockStart(c) \/ Install(c)
    \/ \E ok \in BOOLEAN : CreateClient(c, ok) \/ Bootstrap(c, ok)
    \/ \E result \in {"launched", "failed", "refused"} : Launch(c, result)

StopStep(c) == TakeState(c) \/ NotifyWaiters(c) \/ ClearOutgoing(c) \/ EndProxy(c) \/ Shutdown(c)

SendStep(c) ==
    \/ BeginSend(c) \/ GetSlot(c) \/ SendTimeout(c)
    \/ \E idle \in BOOLEAN : LockSlot(c, idle)
    \/ \E ok \in BOOLEAN : Connect(c, ok) \/ Write(c, ok)

ProxyStep(c) == BeginProxy(c) \/ ProxyClient(c) \/ \E ok \in BOOLEAN : OpenProxy(c, ok)

CommandStep(c) ==
    \/ Register(c) \/ Check(c) \/ Stopped(c)
    \/ c \in Starts /\ StartStep(c)
    \/ c \in Stops /\ StopStep(c)
    \/ c \in Sends /\ SendStep(c)
    \/ c \in Proxies /\ ProxyStep(c)

TorNext == \E c \in Commands : CommandStep(c)

TorSpec == TorInit /\ [][TorNext]_torVars

\* A task that can go on does: every wait for Tor has a timeout, and a lock
\* goes to those who wait for it in turn.
TorFairness ==
    /\ \A c \in Commands : WF_torVars(pc[c] # "idle" /\ CommandStep(c))
    /\ \A c \in Starts : SF_torVars(LockStart(c))
    /\ \A c \in Sends : SF_torVars(\E idle \in BOOLEAN : LockSlot(c, idle))

Answered(c) == pc[c] \in {"ok", "error"}

-----------------------------------------------------------------------------
(* A stop wakes everything it must end: a start or a send of a generation   *)
(* that was stopped has been notified, or a stop is about to notify it, so  *)
(* none of them waits for its own timeout and none is missed that comes     *)
(* between the stop's steps.                                                *)
StopWakesAll ==
    \A c \in Starts \cup Sends :
        pc[c] \in Cancellable /\ Stale(c) => c \in woken \/ \E d \in Stops : pc[d] = "notify"

(* No client is left after a stop: one that is installed was started in the *)
(* present generation, however starts and stops interleave.                 *)
NoClientAfterStop == state # None => state = generation

(* "The local web entrance, while Tor runs": once every stop has ended,     *)
(* there is an entrance only with a client installed.  The code leaves one  *)
(* open that was being opened while Tor stopped.                            *)
EntranceWhileRunning ==
    (\A c \in Stops : pc[c] = "idle" \/ Answered(c)) /\ web # None => state # None

(* Every command that was given is answered in the end, whatever fails,     *)
(* times out or is stopped: no start waits for the lock of a start that     *)
(* gave up, no send for ever for a slot or a stream.                        *)
CommandsAnswered == <>[](\A c \in Commands : pc[c] = "idle" \/ Answered(c))

=============================================================================
