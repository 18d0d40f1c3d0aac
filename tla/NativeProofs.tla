---------------------------- MODULE NativeProofs ----------------------------
(***************************************************************************)
(* Proofs about two parts of the native library that share no state, the    *)
(* Tor carrier and the audio.                                               *)
(*                                                                          *)
(* TorCarrier, for any number of starts, stops, sends and proxies: no       *)
(* client outlives a stop, and a stop wakes everything it must end.  The    *)
(* invariant counts the stops that have begun (the generation) and those    *)
(* that have cleared the slots (the epoch), keeps every command at the      *)
(* places of its own kind, and keeps a command that can be stopped          *)
(* registered from before its check of the generation until it answers.     *)
(*                                                                          *)
(* TorIncoming, for any number of streams: what strangers can cause is      *)
(* bounded.                                                                 *)
(*                                                                          *)
(* CallSend, CallReceive and VoiceRecording, for any sizes of their queues: *)
(* a muted call is silent, the jitter buffer loses count of no packet and   *)
(* never waits too long, and a recording is whole or gone.                  *)
(***************************************************************************)
EXTENDS TorCarrier, TorIncoming, CallReceive, CallSend, VoiceRecording,
        InductionTheorems, SequenceTheorems, TLAPS

Results == {"ok", "error"}

(* A command is only ever at the places of the functions it runs.           *)
PlacesOK ==
    /\ \A c \in Starts : pc[c] \in
          {"idle", "lock", "create", "register", "check", "boot", "launch", "install"}
             \cup Results
    /\ \A c \in Stops : pc[c] \in {"idle", "notify", "clear", "web", "shutdown", "ok"}
    /\ \A c \in Sends : pc[c] \in
          {"idle", "register", "check", "get", "slot", "connect", "write"} \cup Results
    /\ \A c \in Proxies : pc[c] \in {"idle", "client", "bind"} \cup Results

Begun == {d \in Stops : pc[d] # "idle"}
Cleared == {d \in Stops : pc[d] \in {"web", "shutdown", "ok"}}

(* GENERATION counts the stops that have begun, and the epoch those that    *)
(* have cleared OUTGOING.                                                   *)
StopsCounted == generation = Cardinality(Begun) /\ epoch = Cardinality(Cleared)

(* From its registration until its work ends a command is with CANCEL.      *)
Registered ==
    \A c \in Starts \cup Sends : pc[c] \in Cancellable \cup {"check"} => c \in waiting

(* The START lock is that of the one start between LockStart and its        *)
(* answer.                                                                  *)
StartHeld ==
    \A c \in Starts :
        pc[c] \in {"create", "register", "check", "boot", "launch", "install"} => startLock = c

(* A send that connects or writes holds the slot of its contact.            *)
SlotHeld ==
    \A c \in Sends : pc[c] \in {"connect", "write"} => slotLock[Place(c)] = c

TorInv ==
    /\ TorTypeOK /\ PlacesOK /\ StopsCounted /\ Registered /\ StopWakesAll
    /\ NoClientAfterStop /\ StartHeld /\ SlotHeld

(* Two starts never bootstrap at once, and two sends never use the stream   *)
(* of one slot at once.                                                     *)
OneAtATime ==
    /\ \A c, d \in Starts :
          /\ pc[c] \in {"boot", "launch", "install"}
          /\ pc[d] \in {"boot", "launch", "install"}
          => c = d
    /\ \A c, d \in Sends :
          /\ pc[c] \in {"connect", "write"} /\ pc[d] \in {"connect", "write"}
          /\ Place(c) = Place(d)
          => c = d

-----------------------------------------------------------------------------
(* A number of stops is a generation.                                       *)
LEMMA CountIsGeneration ==
    ASSUME NEW S \in SUBSET Stops
    PROVE  IsFiniteSet(S) /\ Cardinality(S) \in Generations /\ 0 \in Generations
<1>1. IsFiniteSet(Stops)
  BY CarrierAssumption, FS_Subset DEF Commands
<1>2. IsFiniteSet(S) /\ Cardinality(S) <= Cardinality(Stops)
  BY <1>1, FS_Subset
<1>3. Cardinality(S) \in Nat /\ Cardinality(Stops) \in Nat
  BY <1>1, <1>2, FS_CardinalityType
<1>4. QED
  BY <1>2, <1>3 DEF Generations

(* A step that leaves the stops where they are keeps their counts.          *)
LEMMA StopsStay ==
    ASSUME StopsCounted, generation' = generation, epoch' = epoch,
           \A d \in Stops : pc'[d] = pc[d]
    PROVE  StopsCounted'
<1>1. Begun' = Begun /\ Cleared' = Cleared
  BY DEF Begun, Cleared
<1>2. QED
  BY <1>1 DEF StopsCounted

LEMMA TorInitInv == TorInit => TorInv
<1> SUFFICES ASSUME TorInit PROVE TorInv
  OBVIOUS
<1>1. 0 \in Generations
  BY CountIsGeneration
<1>2. TorTypeOK
  BY <1>1 DEF TorInit, TorTypeOK, Pcs
<1>3. StopsCounted
  <2>1. Begun = {} /\ Cleared = {}
    BY DEF TorInit, Begun, Cleared, Commands
  <2>2. QED
    BY <2>1, FS_EmptySet DEF TorInit, StopsCounted
<1>4. PlacesOK /\ Registered /\ StopWakesAll /\ StartHeld /\ SlotHeld
  BY DEF TorInit, PlacesOK, Registered, StopWakesAll, StartHeld, SlotHeld, Commands, Cancellable
<1>5. NoClientAfterStop
  BY DEF TorInit, NoClientAfterStop
<1>6. QED
  BY <1>2, <1>3, <1>4, <1>5 DEF TorInv

(* A command that is not a stop answers.                                    *)
LEMMA AnswerKeeps ==
    ASSUME TorInv, NEW c \in Commands \ Stops, NEW result \in Results, Answer(c, result),
           slot' \subseteq Slots, web' \in Generations \cup {None},
           state' \in {None, generation} \cup {state},
           UNCHANGED <<generation, epoch, slotEpoch>>
    PROVE  TorInv'
<1> USE DEF Answer, Goto, Release
<1>1. \A d \in Commands : pc'[d] = IF d = c THEN result ELSE pc[d]
  BY DEF TorInv, TorTypeOK
<1>2. TorTypeOK'
  BY CountIsGeneration DEF TorInv, TorTypeOK, Results, Pcs
<1>3. PlacesOK'
  BY <1>1, CarrierAssumption DEF TorInv, PlacesOK, Results, Commands
<1>4. StopsCounted'
  BY <1>1, StopsStay DEF TorInv, Commands
<1>5. Registered'
  BY <1>1 DEF TorInv, Registered, Results, Cancellable, Commands
<1>6. StopWakesAll'
  <2> SUFFICES ASSUME NEW d \in Starts \cup Sends, pc'[d] \in Cancellable, Stale(d)'
               PROVE  d \in woken' \/ \E e \in Stops : pc'[e] = "notify"
    BY DEF StopWakesAll
  <2>1. d # c /\ pc[d] \in Cancellable /\ Stale(d)
    BY <1>1 DEF Results, Cancellable, Commands, Stale, TorInv, TorTypeOK
  <2>2. d \in woken \/ \E e \in Stops : pc[e] = "notify"
    BY <2>1 DEF TorInv, StopWakesAll
  <2>3. QED
    BY <1>1, <2>1, <2>2 DEF Commands
<1>7. NoClientAfterStop'
  BY DEF TorInv, NoClientAfterStop
<1>8. StartHeld'
  BY <1>1, CarrierAssumption DEF TorInv, StartHeld, Results, Commands
<1>9. SlotHeld'
  <2> SUFFICES ASSUME NEW d \in Sends, pc'[d] \in {"connect", "write"}
               PROVE  slotLock'[Place(d)'] = d
    BY DEF SlotHeld
  <2>1. d # c /\ slotLock[Place(d)] = d /\ Place(d)' = Place(d)
    BY <1>1 DEF TorInv, SlotHeld, Results, Commands, Place
  <2>2. Place(d) \in Slots
    BY DEF Place, Slots, Hosts, TorInv, TorTypeOK
  <2>3. QED
    BY <2>1, <2>2
<1>10. QED
  BY <1>2, <1>3, <1>4, <1>5, <1>6, <1>7, <1>8, <1>9 DEF TorInv

(* A command that is not a stop goes on to another place, without a change  *)
(* of the shared state but for its own registration, lock or slot.  What    *)
(* the step must show is what is true of a command at that place.           *)
LEMMA MoveKeeps ==
    ASSUME TorInv, NEW c \in Commands \ Stops, NEW place \in Pcs, Goto(c, place),
           TorTypeOK', PlacesOK',
           UNCHANGED <<generation, state, epoch>>,
           \A d \in (Starts \cup Sends) \ {c} :
               /\ gen'[d] = gen[d]
               /\ d \in waiting => d \in waiting'
               /\ d \in woken => d \in woken',
           c \in Starts \cup Sends /\ place \in Cancellable \cup {"check"} => c \in waiting',
           c \in Starts \cup Sends /\ place \in Cancellable /\ gen'[c] # generation
               => \/ pc[c] \in Cancellable /\ Stale(c) /\ (c \in woken => c \in woken')
                  \/ c \in woken',
           \A d \in Starts \ {c} : startLock = d => startLock' = d,
           c \in Starts /\ place \in {"create", "register", "check", "boot", "launch", "install"}
               => startLock' = c,
           \A d \in Sends \ {c} :
               /\ slotEpoch'[d] = slotEpoch[d]
               /\ slotLock[Place(d)] = d => slotLock'[Place(d)] = d,
           c \in Sends /\ place \in {"connect", "write"} => slotLock'[Place(c)'] = c
    PROVE  TorInv'
<1>1. \A d \in Commands : pc'[d] = IF d = c THEN place ELSE pc[d]
  BY DEF TorInv, TorTypeOK, Goto
<1>2. StopsCounted'
  BY <1>1, StopsStay DEF TorInv, Commands
<1>3. Registered'
  BY <1>1 DEF TorInv, Registered, Commands
<1>4. StopWakesAll'
  <2> SUFFICES ASSUME NEW d \in Starts \cup Sends, pc'[d] \in Cancellable, Stale(d)'
               PROVE  d \in woken' \/ \E e \in Stops : pc'[e] = "notify"
    BY DEF StopWakesAll
  <2>1. CASE d = c
    <3>1. c \in woken' \/ (pc[c] \in Cancellable /\ Stale(c) /\ (c \in woken => c \in woken'))
      BY <1>1, <2>1 DEF Stale, Commands
    <3>2. QED
      BY <1>1, <2>1, <3>1 DEF TorInv, StopWakesAll, Commands
  <2>2. CASE d # c
    <3>1. pc[d] \in Cancellable /\ Stale(d)
      BY <1>1, <2>2 DEF Stale, Commands
    <3>2. d \in woken \/ \E e \in Stops : pc[e] = "notify"
      BY <3>1 DEF TorInv, StopWakesAll
    <3>3. QED
      BY <1>1, <2>2, <3>2 DEF Commands
  <2>3. QED
    BY <2>1, <2>2
<1>5. NoClientAfterStop'
  BY DEF TorInv, NoClientAfterStop
<1>6. StartHeld'
  BY <1>1 DEF TorInv, StartHeld, Commands
<1>7. SlotHeld'
  <2> SUFFICES ASSUME NEW d \in Sends, pc'[d] \in {"connect", "write"}
               PROVE  slotLock'[Place(d)'] = d
    BY DEF SlotHeld
  <2>1. CASE d = c
    BY <1>1, <2>1 DEF Commands
  <2>2. CASE d # c
    BY <1>1, <2>2 DEF Commands, TorInv, SlotHeld, Place
  <2>3. QED
    BY <2>1, <2>2
<1>8. QED
  BY <1>2, <1>3, <1>4, <1>5, <1>6, <1>7 DEF TorInv

-----------------------------------------------------------------------------
(* unless_stopped.                                                          *)

LEMMA RegisterKeeps ==
    ASSUME TorInv, NEW c \in Commands, Register(c)
    PROVE  TorInv'
<1> USE DEF Register, streams
<1>1. c \in Starts \cup Sends /\ c \notin Stops
  BY CarrierAssumption DEF TorInv, PlacesOK, Commands, Results
<1>2. TorTypeOK'
  BY DEF TorInv, TorTypeOK, Goto, Pcs
<1>3. PlacesOK'
  BY <1>1, CarrierAssumption DEF TorInv, TorTypeOK, PlacesOK, Goto, Commands
<1>4. c \in Starts => startLock = c
  BY DEF TorInv, StartHeld
<1>5. QED
  BY <1>1, <1>2, <1>3, <1>4, MoveKeeps DEF Cancellable, Pcs, Place

LEMMA CheckKeeps ==
    ASSUME TorInv, NEW c \in Commands, Check(c)
    PROVE  TorInv'
<1> USE DEF Check
<1>1. c \in Starts \cup Sends /\ c \notin Stops
  BY CarrierAssumption DEF TorInv, PlacesOK, Commands, Results
<1>2. CASE Stale(c)
  BY <1>1, <1>2, AnswerKeeps DEF Results, TorInv, TorTypeOK
<1>3. CASE ~Stale(c)
  <2> USE DEF held
  <2>1. Goto(c, Work(c)) /\ UNCHANGED held
    BY <1>3
  <2>2. Work(c) \in {"boot", "get"} /\ (Work(c) = "boot" <=> c \in Starts)
    BY DEF Work
  <2>3. TorTypeOK'
    BY <2>1, <2>2 DEF TorInv, TorTypeOK, Goto, Pcs
  <2>4. PlacesOK'
    BY <1>1, <2>1, <2>2, CarrierAssumption DEF TorInv, TorTypeOK, PlacesOK, Goto, Commands
  <2>5. (c \in Starts => startLock = c) /\ c \in waiting
    BY <1>1 DEF TorInv, StartHeld, Registered
  <2>6. QED
    BY <1>1, <1>3, <2>1, <2>2, <2>3, <2>4, <2>5, MoveKeeps DEF Pcs, Place, Stale
<1>4. QED
  BY <1>2, <1>3

LEMMA StoppedKeeps ==
    ASSUME TorInv, NEW c \in Commands, Stopped(c)
    PROVE  TorInv'
<1>1. c \notin Stops
  BY CarrierAssumption DEF TorInv, PlacesOK, Stopped, Cancellable
<1>2. QED
  BY <1>1, AnswerKeeps DEF Stopped, Results, TorInv, TorTypeOK

-----------------------------------------------------------------------------
(* start.                                                                   *)

LEMMA StartKeeps ==
    ASSUME TorInv, NEW c \in Starts, StartStep(c)
    PROVE  TorInv'
<1> c \in Commands \ Stops
  <2>1. Starts \cap Stops = {}
    BY CarrierAssumption
  <2>2. QED
    BY <2>1 DEF Commands
<1>1. CASE BeginStart(c)
  <2> USE <1>1 DEF BeginStart, streams, tasks
  <2>1. TorTypeOK'
    BY DEF TorInv, TorTypeOK, Goto, Pcs
  <2>2. PlacesOK'
    BY CarrierAssumption DEF TorInv, TorTypeOK, PlacesOK, Goto, Commands
  <2>3. QED
    BY <2>1, <2>2, MoveKeeps DEF Cancellable, Pcs, Place, Commands, TorInv, TorTypeOK
<1>2. CASE LockStart(c)
  <2> USE <1>2 DEF LockStart
  <2>1. CASE Stale(c) \/ state # None
    BY <2>1, AnswerKeeps DEF Results, TorInv, TorTypeOK
  <2>2. CASE ~(Stale(c) \/ state # None)
    <3> USE <2>2 DEF tasks
    <3>1. TorTypeOK'
      BY DEF TorInv, TorTypeOK, Goto, Pcs
    <3>2. PlacesOK'
      BY CarrierAssumption DEF TorInv, TorTypeOK, PlacesOK, Goto, Commands
    <3>3. \A d \in Starts : startLock # d
      BY CarrierAssumption DEF Commands
    <3>4. QED
      BY <3>1, <3>2, <3>3, CarrierAssumption, MoveKeeps DEF Cancellable, Pcs, Place
  <2>3. QED
    BY <2>1, <2>2
<1>3. CASE Install(c)
  <2>1. state' \in {None, generation} \cup {state}
    BY <1>3 DEF Install, Stale
  <2>2. QED
    BY <1>3, <2>1, AnswerKeeps DEF Install, Results, TorInv, TorTypeOK
<1>4. ASSUME NEW ok \in BOOLEAN, Bootstrap(c, ok)
      PROVE  TorInv'
  <2> USE <1>4 DEF Bootstrap
  <2>1. CASE ~(ok /\ ~Stale(c))
    BY <2>1, AnswerKeeps DEF Results, TorInv, TorTypeOK
  <2>2. CASE ok /\ ~Stale(c)
    <3> USE <2>2
    <3>1. TorTypeOK'
      BY DEF TorInv, TorTypeOK, Goto, Pcs
    <3>2. PlacesOK'
      BY CarrierAssumption DEF TorInv, TorTypeOK, PlacesOK, Goto, Commands
    <3>3. startLock = c
      BY DEF TorInv, StartHeld
    <3>4. QED
      BY <3>1, <3>2, <3>3, CarrierAssumption, MoveKeeps DEF Cancellable, Pcs, Place
  <2>3. QED
    BY <2>1, <2>2
<1>5. ASSUME NEW result, Launch(c, result)
      PROVE  TorInv'
  <2> USE <1>5 DEF Launch
  <2> DEFINE over == result = "refused" \/ (result = "failed" /\ tries[c] = LaunchAttempts - 1)
  <2>1. CASE over
    BY <2>1, AnswerKeeps DEF Results, TorInv, TorTypeOK
  <2>2. CASE ~over
    <3> USE <2>2 DEF tasks
    <3> DEFINE place == IF result = "launched" THEN "install" ELSE "launch"
    <3>1. TorTypeOK'
      BY DEF TorInv, TorTypeOK, Goto, Pcs
    <3>2. PlacesOK'
      BY CarrierAssumption DEF TorInv, TorTypeOK, PlacesOK, Goto, Commands
    <3>3. startLock = c
      BY DEF TorInv, StartHeld
    <3>4. place \in Pcs /\ place \notin Cancellable \cup {"check"} /\ Goto(c, place)
      BY DEF Pcs, Cancellable
    <3> HIDE DEF place
    <3>5. QED
      BY <3>1, <3>2, <3>3, <3>4, CarrierAssumption, MoveKeeps DEF Place
  <2>3. QED
    BY <2>1, <2>2
<1>6. ASSUME NEW ok \in BOOLEAN, CreateClient(c, ok)
      PROVE  TorInv'
  <2> USE <1>6 DEF CreateClient
  <2>1. CASE ~ok
    BY <2>1, AnswerKeeps DEF Results, TorInv, TorTypeOK
  <2>2. CASE ok
    <3> USE <2>2 DEF held
    <3>1. TorTypeOK'
      BY DEF TorInv, TorTypeOK, Goto, Pcs
    <3>2. PlacesOK'
      BY CarrierAssumption DEF TorInv, TorTypeOK, PlacesOK, Goto, Commands
    <3>3. startLock = c
      BY DEF TorInv, StartHeld
    <3>4. QED
      BY <3>1, <3>2, <3>3, CarrierAssumption, MoveKeeps DEF Cancellable, Pcs, Place
  <2>3. QED
    BY <2>1, <2>2
<1>7. QED
  BY <1>1, <1>2, <1>3, <1>4, <1>5, <1>6 DEF StartStep

-----------------------------------------------------------------------------
(* stop.                                                                    *)

(* What a stop leaves alone: everything of the other commands but their     *)
(* notification.                                                            *)
LEMMA StopLeaves ==
    ASSUME TorInv, NEW c \in Stops, NEW place \in {"notify", "clear", "web", "shutdown", "ok"},
           Goto(c, place), UNCHANGED <<gen, tries, startLock, waiting, slotEpoch, slotLock, slot>>
    PROVE  /\ PlacesOK' /\ Registered' /\ StartHeld' /\ SlotHeld'
           /\ pc' \in [Commands -> Pcs]
           /\ \A d \in Commands : pc'[d] = IF d = c THEN place ELSE pc[d]
<1>1. c \in Commands /\ c \notin Starts \cup Sends \cup Proxies
  BY CarrierAssumption DEF Commands
<1>2. /\ \A d \in Commands : pc'[d] = IF d = c THEN place ELSE pc[d]
      /\ pc' \in [Commands -> Pcs]
  BY <1>1 DEF TorInv, TorTypeOK, Goto, Pcs
<1>3. PlacesOK'
  BY <1>1, <1>2 DEF TorInv, PlacesOK, Commands
<1>4. Registered' /\ StartHeld'
  BY <1>1, <1>2 DEF TorInv, Registered, StartHeld, Commands
<1>5. SlotHeld'
  BY <1>1, <1>2 DEF TorInv, SlotHeld, Place, Commands
<1>6. QED
  BY <1>2, <1>3, <1>4, <1>5

LEMMA StopKeeps ==
    ASSUME TorInv, NEW c \in Stops, StopStep(c)
    PROVE  TorInv'
<1> USE DEF tasks, streams
<1>0. c \in Commands /\ c \notin Starts \cup Sends
  BY CarrierAssumption DEF Commands
<1>1. CASE TakeState(c)
  <2> USE <1>1 DEF TakeState
  <2>1. /\ PlacesOK' /\ Registered' /\ StartHeld' /\ SlotHeld' /\ pc' \in [Commands -> Pcs]
        /\ \A d \in Commands : pc'[d] = IF d = c THEN "notify" ELSE pc[d]
    BY StopLeaves
  <2>2. Begun' = Begun \cup {c} /\ c \notin Begun /\ Cleared' = Cleared
    BY <2>1 DEF Begun, Cleared, Commands
  <2>3. IsFiniteSet(Begun) /\ Cardinality(Begun') \in Generations
    <3>1. Begun \in SUBSET Stops /\ Begun' \in SUBSET Stops
      BY DEF Begun
    <3>2. QED
      BY <3>1, CountIsGeneration
  <2>4. StopsCounted'
    BY <2>2, <2>3, FS_AddElement DEF TorInv, StopsCounted
  <2>5. TorTypeOK'
    BY <2>1, <2>3, <2>4 DEF TorInv, TorTypeOK, StopsCounted
  <2>6. StopWakesAll'
    BY <1>0, <2>1 DEF StopWakesAll
  <2>7. QED
    BY <2>1, <2>4, <2>5, <2>6 DEF TorInv, NoClientAfterStop
<1>2. CASE NotifyWaiters(c)
  <2> USE <1>2 DEF NotifyWaiters
  <2>1. /\ PlacesOK' /\ Registered' /\ StartHeld' /\ SlotHeld' /\ pc' \in [Commands -> Pcs]
        /\ \A d \in Commands : pc'[d] = IF d = c THEN "clear" ELSE pc[d]
    BY StopLeaves
  <2>2. Begun' = Begun /\ Cleared' = Cleared
    BY <2>1 DEF Begun, Cleared, Commands
  <2>3. TorTypeOK' /\ StopsCounted'
    BY <2>1, <2>2 DEF TorInv, TorTypeOK, StopsCounted
  <2>4. StopWakesAll'
    BY <2>1 DEF StopWakesAll, TorInv, Registered
  <2>5. QED
    BY <2>1, <2>3, <2>4 DEF TorInv, NoClientAfterStop
<1>3. CASE ClearOutgoing(c)
  <2> USE <1>3 DEF ClearOutgoing
  <2>1. /\ PlacesOK' /\ Registered' /\ StartHeld' /\ SlotHeld' /\ pc' \in [Commands -> Pcs]
        /\ \A d \in Commands : pc'[d] = IF d = c THEN "web" ELSE pc[d]
    BY StopLeaves
  <2>2. Cleared' = Cleared \cup {c} /\ c \notin Cleared /\ Begun' = Begun
    BY <2>1 DEF Begun, Cleared, Commands
  <2>3. IsFiniteSet(Cleared) /\ Cardinality(Cleared') \in Generations
    <3>1. Cleared \in SUBSET Stops /\ Cleared' \in SUBSET Stops
      BY DEF Cleared
    <3>2. QED
      BY <3>1, CountIsGeneration
  <2>4. StopsCounted'
    BY <2>2, <2>3, FS_AddElement DEF TorInv, StopsCounted
  <2>5. TorTypeOK'
    BY <2>1, <2>3, <2>4 DEF TorInv, TorTypeOK, StopsCounted
  <2>6. StopWakesAll'
    BY <1>0, <2>1 DEF StopWakesAll, TorInv, Stale, Commands
  <2>7. QED
    BY <2>1, <2>4, <2>5, <2>6 DEF TorInv, NoClientAfterStop
<1>4. CASE EndProxy(c) \/ Shutdown(c)
  <2> USE <1>4 DEF EndProxy, Shutdown
  <2>1. PICK place \in {"shutdown", "ok"} :
          /\ PlacesOK' /\ Registered' /\ StartHeld' /\ SlotHeld' /\ pc' \in [Commands -> Pcs]
          /\ \A d \in Commands : pc'[d] = IF d = c THEN place ELSE pc[d]
    BY StopLeaves
  <2>2. pc[c] \in {"web", "shutdown"}
    OBVIOUS
  <2>3. Begun' = Begun /\ Cleared' = Cleared
    BY <2>1, <2>2 DEF Begun, Cleared, Commands
  <2>4. TorTypeOK' /\ StopsCounted'
    BY <2>1, <2>3 DEF TorInv, TorTypeOK, StopsCounted
  <2>5. StopWakesAll'
    BY <1>0, <2>1, <2>2 DEF StopWakesAll, TorInv, Stale, Commands
  <2>6. QED
    BY <2>1, <2>4, <2>5 DEF TorInv, NoClientAfterStop
<1>5. QED
  BY <1>1, <1>2, <1>3, <1>4 DEF StopStep

-----------------------------------------------------------------------------
(* send and deliver.                                                        *)

LEMMA PlaceIsSlot ==
    ASSUME TorInv, NEW c \in Sends
    PROVE  Place(c) \in Slots
BY DEF Place, Slots, Hosts, TorInv, TorTypeOK

LEMMA SendKeeps ==
    ASSUME TorInv, NEW c \in Sends, SendStep(c)
    PROVE  TorInv'
<1> USE DEF tasks, streams, held
<1>0. c \in Commands \ Stops /\ c \notin Starts
  BY CarrierAssumption DEF Commands
<1>1. CASE BeginSend(c)
  <2> USE <1>1 DEF BeginSend
  <2> DEFINE place == IF state = None THEN "error" ELSE "register"
  <2>1. TorTypeOK'
    BY <1>0 DEF TorInv, TorTypeOK, Goto, Pcs
  <2>2. PlacesOK'
    BY <1>0, CarrierAssumption DEF TorInv, TorTypeOK, PlacesOK, Goto, Commands, Results
  <2>3. /\ Goto(c, place) /\ place \in Pcs
        /\ place \notin Cancellable \cup {"check", "connect", "write"}
    BY DEF Pcs, Cancellable
  <2>4. \A d \in (Starts \cup Sends) \ {c} : gen'[d] = gen[d]
    BY DEF TorInv, TorTypeOK, Commands
  <2> HIDE DEF place
  <2>5. QED
    BY <1>0, <2>1, <2>2, <2>3, <2>4, MoveKeeps DEF Place
<1>2. CASE GetSlot(c)
  <2> USE <1>2 DEF GetSlot
  <2>1. TorTypeOK'
    BY <1>0 DEF TorInv, TorTypeOK, Goto, Pcs
  <2>2. PlacesOK'
    BY <1>0, CarrierAssumption DEF TorInv, TorTypeOK, PlacesOK, Goto, Commands, Results
  <2>3. \A d \in Sends \ {c} : slotEpoch'[d] = slotEpoch[d]
    BY DEF TorInv, TorTypeOK
  <2>4. c \in waiting
    BY DEF TorInv, Registered, Cancellable
  <2>5. QED
    BY <1>0, <2>1, <2>2, <2>3, <2>4, MoveKeeps DEF Cancellable, Pcs, Place, Stale
<1>3. ASSUME NEW idle \in BOOLEAN, LockSlot(c, idle)
      PROVE  TorInv'
  <2> USE <1>3 DEF LockSlot
  <2>0. Place(c) \in Slots
    BY PlaceIsSlot
  <2>1. PICK place \in {"write", "connect"} : Goto(c, place)
    OBVIOUS
  <2>2. TorTypeOK'
    BY <1>0, <2>0, <2>1 DEF TorInv, TorTypeOK, Goto, Pcs
  <2>3. PlacesOK'
    BY <1>0, <2>1, CarrierAssumption DEF TorInv, TorTypeOK, PlacesOK, Goto, Commands, Results
  <2>4. c \in waiting
    BY DEF TorInv, Registered, Cancellable
  <2>5. slotLock'[Place(c)] = c /\ Place(c)' = Place(c)
    BY <2>0 DEF TorInv, TorTypeOK, Place
  <2>6. \A d \in Sends \ {c} : slotLock[Place(d)] = d => slotLock'[Place(d)] = d
    BY <2>0, CarrierAssumption DEF TorInv, TorTypeOK, Commands
  <2>7. QED
    BY <1>0, <2>1, <2>2, <2>3, <2>4, <2>5, <2>6, MoveKeeps DEF Cancellable, Pcs, Stale
<1>4. ASSUME NEW ok \in BOOLEAN, Connect(c, ok)
      PROVE  TorInv'
  <2> USE <1>4 DEF Connect
  <2>1. CASE ~ok
    BY <1>0, <2>1, AnswerKeeps DEF Results, TorInv, TorTypeOK
  <2>2. CASE ok
    <3> USE <2>2
    <3>0. Place(c) \in Slots
      BY PlaceIsSlot
    <3>1. TorTypeOK'
      BY <1>0, <3>0 DEF TorInv, TorTypeOK, Goto, Pcs
    <3>2. PlacesOK'
      BY <1>0, CarrierAssumption DEF TorInv, TorTypeOK, PlacesOK, Goto, Commands, Results
    <3>3. c \in waiting /\ slotLock[Place(c)] = c
      BY DEF TorInv, Registered, Cancellable, SlotHeld
    <3>4. QED
      BY <1>0, <3>1, <3>2, <3>3, MoveKeeps DEF Cancellable, Pcs, Place, Stale
  <2>3. QED
    BY <2>1, <2>2
<1>5. ASSUME NEW ok \in BOOLEAN, Write(c, ok)
      PROVE  TorInv'
  <2> USE <1>5 DEF Write
  <2>0. slot' \subseteq Slots
    BY DEF TorInv, TorTypeOK
  <2>1. CASE ~(~ok /\ tries[c] = 0)
    BY <1>0, <2>0, <2>1, AnswerKeeps DEF Results, TorInv, TorTypeOK
  <2>2. CASE ~ok /\ tries[c] = 0
    <3> USE <2>2
    <3>1. TorTypeOK'
      BY <1>0, <2>0 DEF TorInv, TorTypeOK, Goto, Pcs
    <3>2. PlacesOK'
      BY <1>0, CarrierAssumption DEF TorInv, TorTypeOK, PlacesOK, Goto, Commands, Results
    <3>3. c \in waiting /\ slotLock[Place(c)] = c
      BY DEF TorInv, Registered, Cancellable, SlotHeld
    <3>4. QED
      BY <1>0, <3>1, <3>2, <3>3, MoveKeeps DEF Cancellable, Pcs, Place, Stale
  <2>3. QED
    BY <2>1, <2>2
<1>6. CASE SendTimeout(c)
  BY <1>0, <1>6, AnswerKeeps DEF SendTimeout, Results, TorInv, TorTypeOK
<1>7. QED
  BY <1>1, <1>2, <1>3, <1>4, <1>5, <1>6 DEF SendStep

-----------------------------------------------------------------------------
(* web_proxy.                                                               *)

LEMMA ProxyKeeps ==
    ASSUME TorInv, NEW c \in Proxies, ProxyStep(c)
    PROVE  TorInv'
<1> USE DEF tasks, streams
<1>0. c \in Commands \ Stops /\ c \notin Starts \cup Sends
  BY CarrierAssumption DEF Commands
<1>1. CASE BeginProxy(c) \/ ProxyClient(c)
  <2> USE <1>1 DEF BeginProxy, ProxyClient
  <2>1. PICK place \in {"client", "bind", "ok", "error"} : Goto(c, place)
    OBVIOUS
  <2>2. TorTypeOK'
    BY <1>0, <2>1 DEF TorInv, TorTypeOK, Goto, Pcs
  <2>3. PlacesOK'
    BY <1>0, <2>1, CarrierAssumption DEF TorInv, TorTypeOK, PlacesOK, Goto, Commands, Results
  <2>4. \A d \in (Starts \cup Sends) \ {c} : gen'[d] = gen[d]
    BY DEF TorInv, TorTypeOK, Commands
  <2>5. QED
    BY <1>0, <2>1, <2>2, <2>3, <2>4, MoveKeeps DEF Pcs
<1>2. ASSUME NEW ok \in BOOLEAN, OpenProxy(c, ok)
      PROVE  TorInv'
  <2>1. web' \in Generations \cup {None}
    BY <1>0, <1>2 DEF OpenProxy, TorInv, TorTypeOK
  <2>2. QED
    BY <1>0, <1>2, <2>1, AnswerKeeps DEF OpenProxy, Results, TorInv, TorTypeOK
<1>3. QED
  BY <1>1, <1>2 DEF ProxyStep

-----------------------------------------------------------------------------
(* The invariant holds of every behaviour of the Tor carrier.               *)
THEOREM TorInvariant == TorSpec => []TorInv
<1>1. TorInv /\ [TorNext]_torVars => TorInv'
  <2> SUFFICES ASSUME TorInv, [TorNext]_torVars PROVE TorInv'
    OBVIOUS
  <2>1. CASE UNCHANGED torVars
    BY <2>1 DEF torVars, TorInv, TorTypeOK, PlacesOK, StopsCounted, Begun, Cleared,
                Registered, StopWakesAll, NoClientAfterStop, StartHeld, SlotHeld, Stale, Place
  <2>2. ASSUME NEW c \in Commands, CommandStep(c)
        PROVE  TorInv'
    BY <2>2, RegisterKeeps, CheckKeeps, StoppedKeeps, StartKeeps, StopKeeps, SendKeeps,
       ProxyKeeps DEF CommandStep
  <2>3. QED
    BY <2>1, <2>2 DEF TorNext
<1>2. QED
  BY <1>1, TorInitInv, PTL DEF TorSpec

(* tor.rs: the commands and the shared state keep their types, GENERATION   *)
(* and the epoch of OUTGOING included, which never outrun the stops.        *)
THEOREM TorTypeCorrect == TorSpec => []TorTypeOK
<1>1. TorInv => TorTypeOK
  BY DEF TorInv
<1>2. QED
  BY <1>1, TorInvariant, PTL

(* start and stop: a client that is installed was started in the present    *)
(* generation, whatever the interleaving of any number of both.             *)
THEOREM NoClientOutlivesStop == TorSpec => []NoClientAfterStop
<1>1. TorInv => NoClientAfterStop
  BY DEF TorInv
<1>2. QED
  BY <1>1, TorInvariant, PTL

(* unless_stopped and stop: no start or send of a stopped generation is     *)
(* left to wait for its own timeout.                                        *)
THEOREM StopMissesNone == TorSpec => []StopWakesAll
<1>1. TorInv => StopWakesAll
  BY DEF TorInv
<1>2. QED
  BY <1>1, TorInvariant, PTL

(* START and the slots of OUTGOING: one start at a time bootstraps, and one *)
(* send at a time uses the stream of a slot.                                *)
THEOREM LocksExclude == TorSpec => []OneAtATime
<1>1. TorInv => OneAtATime
  BY DEF TorInv, OneAtATime, StartHeld, SlotHeld
<1>2. QED
  BY <1>1, TorInvariant, PTL

(* The other half of StartHeld and SlotHeld: a lock that is held belongs to *)
(* a command that is still at work under it, a slot to a send that goes on  *)
(* to use that very slot.                                                   *)
Starting == {"create", "register", "check", "boot", "launch", "install"}

LocksReturned ==
    /\ startLock # None => pc[startLock] \in Starting
    /\ \A s \in Slots : slotLock[s] # None =>
          pc[slotLock[s]] \in {"connect", "write"} /\ Place(slotLock[s]) = s

(* A command that answers gives back what it holds, and nothing else.       *)
LEMMA AnswerReturns ==
    ASSUME TorInv, LocksReturned, NEW c \in Commands, NEW result \in Results,
           Answer(c, result), slotEpoch' = slotEpoch
    PROVE  LocksReturned'
<1>1. \A d \in Commands \ {c} : pc'[d] = pc[d]
  BY DEF Answer, Goto, TorInv, TorTypeOK
<1>2. startLock' # None => startLock' = startLock /\ startLock \in Commands \ {c}
  BY DEF Answer, Release, TorInv, TorTypeOK, Commands
<1>3. \A s \in Slots : slotLock'[s] # None =>
          slotLock'[s] = slotLock[s] /\ slotLock[s] \in Commands \ {c}
  BY DEF Answer, Release, TorInv, TorTypeOK, Commands
<1>4. startLock' # None => pc'[startLock'] \in Starting
  BY <1>1, <1>2 DEF LocksReturned
<1>5. ASSUME NEW s \in Slots, slotLock'[s] # None
      PROVE  pc'[slotLock'[s]] \in {"connect", "write"} /\ Place(slotLock[s])' = s
  BY <1>1, <1>3, <1>5 DEF LocksReturned, Place
<1>6. QED
  BY <1>4, <1>5 DEF LocksReturned, Place

(* A command that goes on leaves the locks with whoever holds them.         *)
LEMMA MoveReturns ==
    ASSUME TorInv, LocksReturned, NEW c \in Commands, NEW place \in Pcs, Goto(c, place),
           startLock' = startLock, slotLock' = slotLock,
           c \in Starts /\ pc[c] \in Starting => place \in Starting,
           c \in Sends /\ pc[c] \in {"connect", "write"}
               => place \in {"connect", "write"} /\ slotEpoch'[c] = slotEpoch[c],
           \A d \in Sends \ {c} : slotEpoch'[d] = slotEpoch[d]
    PROVE  LocksReturned'
<1>1. \A d \in Commands : pc'[d] = IF d = c THEN place ELSE pc[d]
  BY DEF Goto, TorInv, TorTypeOK
<1>2. ASSUME startLock # None PROVE pc'[startLock] \in Starting
  <2>1. startLock \in Starts /\ startLock \in Commands /\ pc[startLock] \in Starting
    BY <1>2 DEF TorInv, TorTypeOK, LocksReturned, Commands
  <2>2. QED
    BY <1>1, <2>1
<1>3. ASSUME NEW s \in Slots, slotLock[s] # None
      PROVE  pc'[slotLock[s]] \in {"connect", "write"} /\ Place(slotLock[s])' = s
  <2>1. /\ slotLock[s] \in Sends /\ slotLock[s] \in Commands
        /\ pc[slotLock[s]] \in {"connect", "write"} /\ Place(slotLock[s]) = s
    BY <1>3 DEF TorInv, TorTypeOK, LocksReturned, Commands
  <2>2. slotEpoch'[slotLock[s]] = slotEpoch[slotLock[s]]
    BY <2>1
  <2>3. QED
    BY <1>1, <2>1, <2>2 DEF Place
<1>4. QED
  BY <1>2, <1>3 DEF LocksReturned, Place

LEMMA StartReturns ==
    ASSUME TorInv, LocksReturned, NEW c \in Starts, StartStep(c)
    PROVE  LocksReturned'
<1> c \in Commands /\ c \notin Sends
  BY CarrierAssumption DEF Commands
<1>1. CASE BeginStart(c)
  BY <1>1, MoveReturns DEF BeginStart, streams, Pcs, Starting
<1>2. CASE LockStart(c)
  <2>1. CASE Stale(c) \/ state # None
    BY <1>2, <2>1, AnswerReturns DEF LockStart, Results
  <2>2. CASE ~(Stale(c) \/ state # None)
    <3>1. /\ startLock' = c /\ Goto(c, "create")
          /\ UNCHANGED <<slotLock, slotEpoch>>
      BY <1>2, <2>2 DEF LockStart
    <3>2. \A d \in Commands : pc'[d] = IF d = c THEN "create" ELSE pc[d]
      BY <3>1 DEF Goto, TorInv, TorTypeOK
    <3>3. \A s \in Slots : slotLock[s] # None => slotLock[s] \in Commands \ {c}
      BY DEF TorInv, TorTypeOK, Commands
    <3>4. QED
      BY <3>1, <3>2, <3>3 DEF LocksReturned, Place, Starting
  <2>3. QED
    BY <2>1, <2>2
<1>3. CASE Install(c)
  BY <1>3, AnswerReturns DEF Install, Results
<1>4. ASSUME NEW ok \in BOOLEAN, Bootstrap(c, ok)
      PROVE  LocksReturned'
  <2>1. CASE ok /\ ~Stale(c)
    BY <1>4, <2>1, MoveReturns DEF Bootstrap, Pcs, Starting
  <2>2. CASE ~(ok /\ ~Stale(c))
    BY <1>4, <2>2, AnswerReturns DEF Bootstrap, Results
  <2>3. QED
    BY <2>1, <2>2
<1>5. ASSUME NEW result, Launch(c, result)
      PROVE  LocksReturned'
  <2> DEFINE over == result = "refused" \/ (result = "failed" /\ tries[c] = LaunchAttempts - 1)
  <2>1. CASE over
    BY <1>5, <2>1, AnswerReturns DEF Launch, Results
  <2>2. CASE ~over
    <3>1. \E place \in {"install", "launch"} : Goto(c, place)
      BY <1>5, <2>2 DEF Launch
    <3>2. UNCHANGED <<startLock, slotLock, slotEpoch>>
      BY <1>5, <2>2 DEF Launch
    <3>3. QED
      BY <3>1, <3>2, MoveReturns DEF Pcs, Starting
  <2>3. QED
    BY <2>1, <2>2
<1>6. ASSUME NEW ok \in BOOLEAN, CreateClient(c, ok)
      PROVE  LocksReturned'
  <2>1. CASE ok
    BY <1>6, <2>1, MoveReturns DEF CreateClient, held, Pcs, Starting
  <2>2. CASE ~ok
    BY <1>6, <2>2, AnswerReturns DEF CreateClient, Results
  <2>3. QED
    BY <2>1, <2>2
<1>7. QED
  BY <1>1, <1>2, <1>3, <1>4, <1>5, <1>6 DEF StartStep

LEMMA StopReturns ==
    ASSUME TorInv, LocksReturned, NEW c \in Stops, StopStep(c)
    PROVE  LocksReturned'
<1>1. c \in Commands /\ c \notin Starts /\ c \notin Sends
  BY CarrierAssumption DEF Commands
<1>2. /\ UNCHANGED <<startLock, slotLock, slotEpoch>>
      /\ \E place \in {"notify", "clear", "web", "shutdown", "ok"} : Goto(c, place)
  BY DEF StopStep, TakeState, NotifyWaiters, ClearOutgoing, EndProxy, Shutdown, streams
<1>3. QED
  BY <1>1, <1>2, MoveReturns DEF Pcs

LEMMA SendReturns ==
    ASSUME TorInv, LocksReturned, NEW c \in Sends, SendStep(c)
    PROVE  LocksReturned'
<1> c \in Commands /\ c \notin Starts
  BY CarrierAssumption DEF Commands
<1>1. CASE BeginSend(c)
  <2>1. \E place \in {"error", "register"} : Goto(c, place)
    BY <1>1 DEF BeginSend
  <2>2. QED
    BY <1>1, <2>1, MoveReturns DEF BeginSend, streams, Pcs
<1>2. CASE GetSlot(c)
  <2>1. \A d \in Sends \ {c} : slotEpoch'[d] = slotEpoch[d]
    BY <1>2 DEF GetSlot, TorInv, TorTypeOK
  <2>2. QED
    BY <1>2, <2>1, MoveReturns DEF GetSlot, Pcs
<1>3. CASE SendTimeout(c)
  BY <1>3, AnswerReturns DEF SendTimeout, Results
<1>4. ASSUME NEW idle \in BOOLEAN, LockSlot(c, idle)
      PROVE  LocksReturned'
  <2>1. \E place \in {"connect", "write"} : Goto(c, place)
    BY <1>4 DEF LockSlot
  <2>2. pc'[c] \in {"connect", "write"} /\ \A d \in Commands \ {c} : pc'[d] = pc[d]
    BY <2>1 DEF Goto, TorInv, TorTypeOK
  <2>3. /\ slotLock' = [slotLock EXCEPT ![Place(c)] = c] /\ pc[c] = "slot"
        /\ UNCHANGED <<startLock, slotEpoch>>
    BY <1>4 DEF LockSlot
  <2>4. startLock # None => pc'[startLock] \in Starting
    <3>1. startLock # None => startLock \in Commands \ {c}
      BY DEF TorInv, TorTypeOK, Commands
    <3>2. QED
      BY <3>1, <2>2 DEF LocksReturned
  <2>5. ASSUME NEW s \in Slots, slotLock'[s] # None
        PROVE  pc'[slotLock'[s]] \in {"connect", "write"} /\ Place(slotLock[s])' = s
    <3>1. CASE s = Place(c)
      <4>1. slotLock'[s] = c
        BY <2>3, <3>1 DEF TorInv, TorTypeOK
      <4>2. QED
        BY <2>2, <2>3, <3>1, <4>1 DEF Place
    <3>2. CASE s # Place(c)
      <4>1. slotLock'[s] = slotLock[s]
        BY <2>3, <3>2 DEF TorInv, TorTypeOK
      <4>2. slotLock[s] \in Commands \ {c}
        BY <2>3, <2>5, <4>1 DEF TorInv, TorTypeOK, LocksReturned, Commands
      <4>3. pc[slotLock[s]] \in {"connect", "write"} /\ Place(slotLock[s]) = s
        BY <2>5, <4>1 DEF LocksReturned
      <4>4. QED
        BY <2>2, <2>3, <4>1, <4>2, <4>3 DEF Place
    <3>3. QED
      BY <3>1, <3>2
  <2>6. QED
    BY <2>3, <2>4, <2>5 DEF LocksReturned, Place
<1>5. ASSUME NEW ok \in BOOLEAN, Connect(c, ok)
      PROVE  LocksReturned'
  <2>1. CASE ok
    BY <1>5, <2>1, MoveReturns DEF Connect, held, Pcs
  <2>2. CASE ~ok
    BY <1>5, <2>2, AnswerReturns DEF Connect, Results
  <2>3. QED
    BY <2>1, <2>2
<1>6. ASSUME NEW ok \in BOOLEAN, Write(c, ok)
      PROVE  LocksReturned'
  <2>1. CASE ~ok /\ tries[c] = 0
    BY <1>6, <2>1, MoveReturns DEF Write, Pcs
  <2>2. CASE ~(~ok /\ tries[c] = 0)
    BY <1>6, <2>2, AnswerReturns DEF Write, Results
  <2>3. QED
    BY <2>1, <2>2
<1>7. QED
  BY <1>1, <1>2, <1>3, <1>4, <1>5, <1>6 DEF SendStep

LEMMA ProxyReturns ==
    ASSUME TorInv, LocksReturned, NEW c \in Proxies, ProxyStep(c)
    PROVE  LocksReturned'
<1> c \in Commands /\ c \notin Starts /\ c \notin Sends
  BY CarrierAssumption DEF Commands
<1>1. CASE BeginProxy(c) \/ ProxyClient(c)
  <2>1. /\ \E place \in {"client", "ok", "error", "bind"} : Goto(c, place)
        /\ UNCHANGED <<startLock, slotLock, slotEpoch>>
    BY <1>1 DEF BeginProxy, ProxyClient, streams
  <2>2. QED
    BY <2>1, MoveReturns DEF Pcs
<1>2. CASE \E ok \in BOOLEAN : OpenProxy(c, ok)
  BY <1>2, AnswerReturns DEF OpenProxy, Results
<1>3. QED
  BY <1>1, <1>2 DEF ProxyStep

(* unless_stopped, which starts and sends share.                            *)
LEMMA CancelReturns ==
    ASSUME TorInv, LocksReturned, NEW c \in Commands, Register(c) \/ Check(c) \/ Stopped(c)
    PROVE  LocksReturned'
<1>1. CASE Register(c)
  BY <1>1, MoveReturns DEF Register, streams, Pcs, Starting
<1>2. CASE Check(c) /\ Stale(c)
  BY <1>2, AnswerReturns DEF Check, Results
<1>3. CASE Check(c) /\ ~Stale(c)
  <2>1. /\ Goto(c, Work(c)) /\ Work(c) \in {"boot", "get"} /\ pc[c] = "check"
        /\ UNCHANGED <<startLock, slotLock, slotEpoch>>
    BY <1>3 DEF Check, Work, held
  <2>2. c \in Starts => Work(c) \in Starting
    BY DEF Work, Starting
  <2>3. QED
    BY <2>1, <2>2, MoveReturns DEF Pcs
<1>4. CASE Stopped(c)
  BY <1>4, AnswerReturns DEF Stopped, Results
<1>5. QED
  BY <1>1, <1>2, <1>3, <1>4

(* START and OUTGOING: however a start or a send ends, by its result, an    *)
(* error, a timeout or a stop, no lock is left behind, so that the next     *)
(* start and the next send to that contact are not shut out for good.       *)
THEOREM LocksAreReturned == TorSpec => []LocksReturned
<1>1. TorInit => LocksReturned
  BY DEF TorInit, LocksReturned
<1>2. TorInv /\ LocksReturned /\ [TorNext]_torVars => LocksReturned'
  <2> SUFFICES ASSUME TorInv, LocksReturned, [TorNext]_torVars PROVE LocksReturned'
    OBVIOUS
  <2>1. CASE UNCHANGED torVars
    BY <2>1 DEF torVars, LocksReturned, Place
  <2>2. ASSUME NEW c \in Commands, CommandStep(c)
        PROVE  LocksReturned'
    BY <2>2, CancelReturns, StartReturns, StopReturns, SendReturns, ProxyReturns
       DEF CommandStep
  <2>3. QED
    BY <2>1, <2>2 DEF TorNext
<1>3. QED
  BY <1>1, <1>2, TorInvariant, PTL DEF TorSpec

-----------------------------------------------------------------------------
(* The send side of a call.  What is in the capture queue, and in the       *)
(* encoder's hands, is silent if it was said while muted; what is encoded   *)
(* also if it was encoded while muted.  A packet that is about to replace   *)
(* the oldest finds room.                                                   *)
SaidInv ==
    /\ \A i \in 1 .. Len(capture) : capture[i].audible => ~capture[i].saidMuted
    /\ frame.audible => ~frame.saidMuted
    /\ encoder \in {"full", "replace"} => (frame.audible => ~frame.madeMuted)

RoomInv == encoder = "replace" => Len(encoded) < OPUS_PACKET_QUEUE

TxInv == TxTypeOK /\ SaidInv /\ RoomInv /\ MutedNeverHeard

LEMMA SilenceTyped == Silence \in Frame /\ ~Silence.audible
BY DEF Silence, Frame

LEMMA TxInitOK == TxInit => TxInv
<1> SUFFICES ASSUME TxInit PROVE TxInv
  OBVIOUS
<1> USE SendAssumption, SilenceTyped DEF TxInit
<1>1. running \in BOOLEAN /\ muted \in BOOLEAN /\ failed \in BOOLEAN
  OBVIOUS
<1>2. mic \in BOOLEAN /\ speaker \in BOOLEAN
  OBVIOUS
<1>3. TxTypeOK
  BY <1>1, <1>2 DEF TxTypeOK
<1>4. SaidInv /\ RoomInv /\ MutedNeverHeard
  BY DEF SaidInv, RoomInv, MutedNeverHeard
<1>5. QED
  BY <1>3, <1>4 DEF TxInv

(* A frame joins the capture queue, if there is room.                       *)
LEMMA CaptureKeeps ==
    ASSUME TxInv, capture_samples \/ push_capture_pcm16
    PROVE  TxInv'
<1> DEFINE f == [audible |-> ~muted, saidMuted |-> muted, madeMuted |-> FALSE]
<1>1. f \in Frame /\ (f.audible => ~f.saidMuted)
  BY DEF Frame, TxInv, TxTypeOK
<1>2. /\ frames < MaxFrames /\ frames' = frames + 1
      /\ \/ capture' = capture
         \/ Len(capture) < CAPTURE_QUEUE /\ capture' = Append(capture, f)
      /\ UNCHANGED <<session, running, muted, failed, mic, speaker, encoder, decoder, encoded,
                     frame, sent, send_dropped>>
  BY DEF capture_samples, push_capture_pcm16, flags, devices, counts
<1> HIDE DEF f
<1>3. /\ capture' \in Seq(Frame) /\ Len(capture') <= CAPTURE_QUEUE
      /\ \A i \in 1 .. Len(capture') : capture'[i].audible => ~capture'[i].saidMuted
  <2>1. /\ capture \in Seq(Frame) /\ Len(capture) \in Nat /\ Len(capture) <= CAPTURE_QUEUE
        /\ \A i \in 1 .. Len(capture) : capture[i].audible => ~capture[i].saidMuted
    BY DEF TxInv, TxTypeOK, SaidInv
  <2>2. CASE capture' = capture
    BY <2>1, <2>2
  <2>3. CASE Len(capture) < CAPTURE_QUEUE /\ capture' = Append(capture, f)
    <3>1. /\ capture' \in Seq(Frame) /\ Len(capture') = Len(capture) + 1
          /\ \A i \in 1 .. Len(capture) : capture'[i] = capture[i]
          /\ capture'[Len(capture) + 1] = f
      BY <1>1, <2>1, <2>3
    <3>2. Len(capture') <= CAPTURE_QUEUE
      BY <2>1, <2>3, <3>1, SendAssumption
    <3>3. ASSUME NEW i \in 1 .. Len(capture')
          PROVE  capture'[i].audible => ~capture'[i].saidMuted
      <4>1. i \in 1 .. Len(capture) \/ i = Len(capture) + 1
        BY <2>1, <3>1
      <4>2. QED
        BY <1>1, <2>1, <3>1, <4>1
    <3>4. QED
      BY <3>1, <3>2, <3>3
  <2>4. QED
    BY <1>2, <2>2, <2>3
<1>4. frames' \in 0 .. MaxFrames
  BY <1>2, SendAssumption DEF TxInv, TxTypeOK
<1>5. QED
  BY <1>2, <1>3, <1>4 DEF TxInv, TxTypeOK, SaidInv, RoomInv, MutedNeverHeard

LEMMA CollectKeeps ==
    ASSUME TxInv, Collect
    PROVE  TxInv'
<1> USE DEF Collect, flags, devices, counts
<1>1. /\ capture' \in Seq(Frame) /\ Len(capture') <= CAPTURE_QUEUE
      /\ \A i \in 1 .. Len(capture') : capture'[i] = capture[i + 1] /\ i + 1 \in 1 .. Len(capture)
      /\ frame' = capture[1] /\ 1 \in 1 .. Len(capture) /\ frame' \in Frame
  BY SendAssumption DEF TxInv, TxTypeOK
<1>2. SaidInv'
  BY <1>1 DEF TxInv, SaidInv
<1>3. QED
  BY <1>1, <1>2 DEF TxInv, TxTypeOK, RoomInv, MutedNeverHeard

(* process_frame: what is encoded while muted is silent.                    *)
LEMMA EncodeKeeps ==
    ASSUME TxInv, NEW ok \in BOOLEAN, Encode(ok)
    PROVE  TxInv'
<1> USE DEF Encode, flags, devices
<1>1. CASE ~ok
  BY <1>1 DEF TxInv, TxTypeOK, SaidInv, RoomInv, MutedNeverHeard
<1>2. CASE ok
  <2>1. /\ frame' \in Frame
        /\ frame'.audible => ~frame'.saidMuted /\ ~frame'.madeMuted
    BY <1>2 DEF process_frame, TxInv, TxTypeOK, Frame, SaidInv
  <2>2. sent' \in Nat
    BY <1>2 DEF TxInv, TxTypeOK
  <2>3. CASE Len(encoded) < OPUS_PACKET_QUEUE
    <3>1. encoded' = Append(encoded, frame') /\ encoder' = "collect"
      BY <1>2, <2>3
    <3>2. /\ encoded' \in Seq(Frame) /\ Len(encoded') <= OPUS_PACKET_QUEUE
          /\ MutedNeverHeard'
      BY <3>1, <2>1, <2>3, SendAssumption DEF TxInv, TxTypeOK, MutedNeverHeard
    <3>3. QED
      BY <2>1, <2>2, <3>1, <3>2 DEF TxInv, TxTypeOK, SaidInv, RoomInv
  <2>4. CASE ~(Len(encoded) < OPUS_PACKET_QUEUE)
    BY <1>2, <2>1, <2>2, <2>4 DEF TxInv, TxTypeOK, SaidInv, RoomInv, MutedNeverHeard
  <2>5. QED
    BY <2>3, <2>4
<1>3. QED
  BY <1>1, <1>2

(* The oldest packet goes, to the network or for the newest.                *)
LEMMA OldestGone ==
    ASSUME TxInv, encoded # <<>>, encoded' = Tail(encoded)
    PROVE  /\ encoded' \in Seq(Frame) /\ Len(encoded') = Len(encoded) - 1
           /\ Len(encoded) \in Nat /\ Len(encoded) > 0
           /\ MutedNeverHeard'
<1>1. /\ encoded' \in Seq(Frame) /\ Len(encoded') = Len(encoded) - 1
      /\ Len(encoded) \in Nat /\ Len(encoded) > 0
      /\ \A i \in 1 .. Len(encoded') : encoded'[i] = encoded[i + 1] /\ i + 1 \in 1 .. Len(encoded)
  BY DEF TxInv, TxTypeOK
<1>2. QED
  BY <1>1 DEF TxInv, MutedNeverHeard

LEMMA PopOldestKeeps ==
    ASSUME TxInv, PopOldest
    PROVE  TxInv'
<1> USE DEF PopOldest, flags, devices, counts
<1>1. /\ encoded' \in Seq(Frame) /\ Len(encoded') < OPUS_PACKET_QUEUE
      /\ MutedNeverHeard'
  <2>1. CASE encoded = <<>>
    BY <2>1, SendAssumption DEF TxInv, TxTypeOK, MutedNeverHeard
  <2>2. CASE encoded # <<>>
    BY <2>2, OldestGone, SendAssumption DEF TxInv, TxTypeOK
  <2>3. QED
    BY <2>1, <2>2
<1>2. Len(encoded') <= OPUS_PACKET_QUEUE
  BY <1>1, SendAssumption
<1>3. QED
  BY <1>1, <1>2 DEF TxInv, TxTypeOK, SaidInv, RoomInv

LEMMA PushNewestKeeps ==
    ASSUME TxInv, PushNewest
    PROVE  TxInv'
<1> USE DEF PushNewest, flags, devices
<1>1. /\ encoded' \in Seq(Frame) /\ Len(encoded') <= OPUS_PACKET_QUEUE
      /\ MutedNeverHeard' /\ send_dropped' \in Nat
  BY SendAssumption DEF TxInv, TxTypeOK, MutedNeverHeard, SaidInv, RoomInv
<1>2. QED
  BY <1>1 DEF TxInv, TxTypeOK, SaidInv, RoomInv

LEMMA NextPacketKeeps ==
    ASSUME TxInv, conest_voice_audio_next_packet
    PROVE  TxInv'
<1> USE DEF conest_voice_audio_next_packet, flags, devices, counts
<1>1. /\ encoded' \in Seq(Frame) /\ Len(encoded') = Len(encoded) - 1
      /\ Len(encoded) \in Nat /\ MutedNeverHeard'
  BY OldestGone
<1>2. Len(encoded') <= OPUS_PACKET_QUEUE /\ RoomInv'
  BY <1>1, SendAssumption DEF TxInv, TxTypeOK, RoomInv
<1>3. QED
  BY <1>1, <1>2 DEF TxInv, TxTypeOK, SaidInv

(* A step that leaves the frames alone, wherever they are, may only stop    *)
(* the encoder.                                                             *)
LEMMA FramesAlone ==
    ASSUME TxInv,
           session' \in {"closed", "codec", "devices", "live", "dropping"},
           running' \in BOOLEAN, muted' \in BOOLEAN, failed' \in BOOLEAN,
           mic' \in BOOLEAN, speaker' \in BOOLEAN, decoder' \in {"off", "on"},
           encoder' = encoder \/ encoder' = "off",
           UNCHANGED <<capture, encoded, frame, frames, sent, send_dropped>>
    PROVE  TxInv'
<1>1. encoder' \in {"off", "collect", "encode", "full", "replace"}
  BY DEF TxInv, TxTypeOK
<1>2. TxTypeOK'
  BY <1>1 DEF TxInv, TxTypeOK
<1>3. SaidInv'
  BY DEF TxInv, SaidInv
<1>4. RoomInv' /\ MutedNeverHeard'
  BY DEF TxInv, RoomInv, MutedNeverHeard
<1>5. QED
  BY <1>2, <1>3, <1>4 DEF TxInv

LEMMA TxStep == TxInv /\ [TxNext]_txVars => TxInv'
<1> SUFFICES ASSUME TxInv, [TxNext]_txVars PROVE TxInv'
  OBVIOUS
<1> USE DEF TxInv, TxTypeOK, SaidInv, RoomInv, MutedNeverHeard, flags, devices, queues, counts
<1>1. CASE create_codec
  <2> USE <1>1 DEF create_codec
  <2>1. running' \in BOOLEAN /\ muted' \in BOOLEAN /\ failed' \in BOOLEAN
    OBVIOUS
  <2>2. capture' = <<>> /\ encoded' = <<>> /\ frame' \in Frame /\ ~frame'.audible
    BY SilenceTyped
  <2>3. TxTypeOK'
    BY <2>1, <2>2, SendAssumption
  <2>4. SaidInv' /\ RoomInv' /\ MutedNeverHeard'
    BY <2>2, SendAssumption
  <2>5. QED
    BY <2>3, <2>4
<1>2. CASE \/ SpawnDecoder \/ DecoderFails \/ StartMicrophone \/ OpenDevices
           \/ OpenAndroid \/ DevicesFail
  <2> USE <1>2 DEF SpawnDecoder, DecoderFails, StartMicrophone, OpenDevices, OpenAndroid,
                   DevicesFail
  <2>1. running' \in BOOLEAN /\ mic' \in BOOLEAN /\ speaker' \in BOOLEAN
    OBVIOUS
  <2>2. UNCHANGED <<muted, failed, encoder, capture, encoded, frame, frames, sent, send_dropped>>
    OBVIOUS
  <2>3. session' \in {"devices", "live", "dropping"} /\ decoder' \in {"off", "on"}
    OBVIOUS
  <2> HIDE <1>2
  <2>4. QED
    BY <2>1, <2>2, <2>3
<1>3. CASE (\E value \in BOOLEAN : set_muted(value)) \/ DeviceError \/ mark_failed
  <2>1. muted' \in BOOLEAN /\ failed' \in BOOLEAN
    BY <1>3 DEF set_muted, DeviceError, mark_failed
  <2>2. UNCHANGED <<session, running, mic, speaker, encoder, decoder, capture, encoded, frame,
                    frames, sent, send_dropped>>
    BY <1>3 DEF set_muted, DeviceError, mark_failed
  <2>3. QED
    BY <2>1, <2>2, FramesAlone
<1>4. CASE EncoderEnds \/ conest_voice_audio_close \/ DecoderEnds \/ Joined
  <2> USE <1>4 DEF EncoderEnds, conest_voice_audio_close, DecoderEnds, Joined
  <2>1. running' \in BOOLEAN /\ mic' \in BOOLEAN /\ speaker' \in BOOLEAN
    OBVIOUS
  <2>2. UNCHANGED <<muted, failed, capture, encoded, frame, frames, sent, send_dropped>>
    OBVIOUS
  <2>3. /\ session' = session \/ session' \in {"dropping", "closed"}
        /\ encoder' = encoder \/ encoder' = "off"
        /\ decoder' = decoder \/ decoder' = "off"
    OBVIOUS
  <2> HIDE <1>4
  <2>4. QED
    BY <2>1, <2>2, <2>3, FramesAlone
<1>5. CASE UNCHANGED txVars
  BY <1>5 DEF txVars
<1> HIDE DEF TxInv
<1>6. QED
  BY <1>1, <1>2, <1>3, <1>4, <1>5, CaptureKeeps, CollectKeeps, EncodeKeeps, PopOldestKeeps,
     PushNewestKeeps, NextPacketKeeps DEF TxNext, EncoderStep

THEOREM SendInvariant == TxSpec => []TxInv
BY TxInitOK, TxStep, PTL DEF TxSpec

(* audio.rs: the capture and the packet queue keep their bounds, in the     *)
(* moments too when the encoder, the callback and the application are all   *)
(* at one of them.                                                          *)
THEOREM SendTypeCorrect == TxSpec => []TxTypeOK
<1>1. TxInv => TxTypeOK
  BY DEF TxInv
<1>2. QED
  BY <1>1, SendInvariant, PTL

(* Nothing said or encoded while the call is muted is heard: the packets of *)
(* encode_loop are silent for it, whenever set_muted is called.             *)
THEOREM MuteIsSafe == TxSpec => []MutedNeverHeard
<1>1. TxInv => MutedNeverHeard
  BY DEF TxInv
<1>2. QED
  BY <1>1, SendInvariant, PTL

(* A session owns its workers and its devices: both workers run from their  *)
(* creation until the session is given up, none is left when it is closed,  *)
(* and no device runs before there is a session or after it is given up.    *)
WorkersOwned ==
    /\ running <=> session \in {"codec", "devices", "live"}
    /\ running => encoder # "off" /\ (decoder = "on" <=> session # "codec")
    /\ session = "closed" => encoder = "off" /\ decoder = "off"
    /\ (mic => session \in {"devices", "live"}) /\ (speaker => session = "live")

LEMMA OwnedStep == ASSUME TxTypeOK, WorkersOwned, [TxNext]_txVars PROVE WorkersOwned'
<1> USE DEF WorkersOwned, flags, devices, queues, counts
<1>t. /\ running \in BOOLEAN /\ mic \in BOOLEAN /\ speaker \in BOOLEAN
      /\ decoder \in {"off", "on"}
  BY DEF TxTypeOK
<1>1. CASE create_codec
  BY <1>1, <1>t DEF create_codec
<1>2. CASE SpawnDecoder
  BY <1>2, <1>t DEF SpawnDecoder
<1>3. CASE DecoderFails
  BY <1>3, <1>t DEF DecoderFails
<1>4. CASE StartMicrophone \/ OpenDevices \/ OpenAndroid
  BY <1>4, <1>t DEF StartMicrophone, OpenDevices, OpenAndroid
<1>5. CASE DevicesFail
  BY <1>5, <1>t DEF DevicesFail
<1>6. CASE \/ \E value \in BOOLEAN : set_muted(value)
           \/ DeviceError \/ capture_samples \/ push_capture_pcm16 \/ mark_failed
           \/ conest_voice_audio_next_packet \/ UNCHANGED txVars
  <2>1. UNCHANGED <<session, running, mic, speaker, encoder, decoder>>
    BY <1>6 DEF set_muted, DeviceError, capture_samples, push_capture_pcm16, mark_failed,
                conest_voice_audio_next_packet, txVars
  <2>2. QED
    BY <2>1
<1>7. CASE EncoderStep
  <2>1. UNCHANGED <<session, running, mic, speaker, decoder>>
    BY <1>7 DEF EncoderStep, Collect, EncoderEnds, Encode, PopOldest, PushNewest
  <2>2. running => encoder' # "off"
    BY <1>7 DEF EncoderStep, Collect, EncoderEnds, Encode, PopOldest, PushNewest
  <2>3. session # "closed"
    BY <1>7 DEF EncoderStep, Collect, EncoderEnds, Encode, PopOldest, PushNewest
  <2>4. QED
    BY <2>1, <2>2, <2>3
<1>8. CASE conest_voice_audio_close
  BY <1>8, <1>t DEF conest_voice_audio_close
<1>9. CASE DecoderEnds
  BY <1>9, <1>t DEF DecoderEnds
<1>10. CASE Joined
  BY <1>10, <1>t DEF Joined
<1>11. QED
  BY <1>1, <1>2, <1>3, <1>4, <1>5, <1>6, <1>7, <1>8, <1>9, <1>10 DEF TxNext

(* VoiceAudioSession and its drop: in whatever step a session fails to open *)
(* or is closed, no worker and no device outlives it, and none stops before *)
(* it.                                                                      *)
THEOREM SessionOwnsWorkers == TxSpec => []WorkersOwned
<1>1. TxInit => WorkersOwned
  BY DEF TxInit, WorkersOwned
<1>2. TxInv => TxTypeOK
  BY DEF TxInv
<1>3. TxTypeOK /\ WorkersOwned /\ [TxNext]_txVars => WorkersOwned'
  BY OwnedStep
<1>4. QED
  BY <1>1, <1>2, <1>3, SendInvariant, PTL DEF TxSpec

-----------------------------------------------------------------------------
(* A recording.  There is one per recorder; its worker runs while the       *)
(* recorder is in use, and what it has written by the time it is done is    *)
(* the whole file.                                                          *)
Whole ==
    /\ file = "synced" /\ eos
    /\ granule = PRE_SKIP + valid /\ granule <= encodedSamples

RecorderOK ==
    /\ recorder = "closed" /\ outcome = "none" =>
          worker = "none" /\ file = "none" /\ Fresh
    /\ recorder \in {"headers", "spawn"} => worker = "none" /\ Fresh
    /\ recorder \in {"closed", "measure", "remove"} => worker \notin AtWork
    /\ recorder # "closed" => outcome = "none" /\ file # "none"
    /\ recorder = "measure" => worker = "done" /\ ~micFailed
    /\ recording <=> recorder \in {"play", "open"}
    /\ micOn => recording /\ recorder = "open"
    /\ outcome = "ok" => worker = "done"

(* The samples between the microphone and the file.  The worker leaves a    *)
(* frame early, or the loop, only after the recording; from then on the     *)
(* queue is empty, unless the microphone overtook its last look at it.      *)
QueueOK ==
    /\ overrun => micFailed
    /\ ~overrun => captured = valid + queued
    /\ worker \in {"flush", "done"} => ~recording /\ (raced \/ queued = 0)
    /\ worker = "frame" /\ recFrame < FRAME_SAMPLES => ~recording /\ (raced \/ queued = 0)
    /\ padded => ~recording /\ (raced \/ queued = 0)
    /\ hole => raced

WorkerOK ==
    /\ worker = "done" /\ recorder # "closed" => Whole
    /\ worker \in {"pop", "look", "flush"} => recFrame < FRAME_SAMPLES

RecInv == RecTypeOK /\ RecorderOK /\ QueueOK /\ WorkerOK /\ SavedIsWhole /\ NoFileLeft

RecFlags ==
    /\ recording \in BOOLEAN /\ micFailed \in BOOLEAN /\ micOn \in BOOLEAN
    /\ overrun \in BOOLEAN /\ pendingPacket \in BOOLEAN /\ eos \in BOOLEAN
    /\ padded \in BOOLEAN /\ hole \in BOOLEAN /\ raced \in BOOLEAN /\ refused \in BOOLEAN

LEMMA RecInitOK == RecInit => RecInv
<1> SUFFICES ASSUME RecInit PROVE RecInv
  OBVIOUS
<1> USE RecordAssumption DEF RecInit, Fresh, AtWork
<1>1. RecFlags
  BY DEF RecFlags
<1>2. RecTypeOK
  BY <1>1 DEF RecFlags, RecTypeOK
<1>3. RecorderOK /\ QueueOK /\ WorkerOK /\ SavedIsWhole /\ NoFileLeft
  BY DEF RecorderOK, QueueOK, WorkerOK, SavedIsWhole, NoFileLeft
<1>4. QED
  BY <1>2, <1>3 DEF RecInv

LEMMA RecStep == RecInv /\ [RecNext]_recVars => RecInv'
<1> SUFFICES ASSUME RecInv, [RecNext]_recVars PROVE RecInv'
  OBVIOUS
<1> USE RecordAssumption DEF RecInv, RecTypeOK, sampleVars, raceVars, pageVars, endVars, AtWork
<1>1. CASE open \/ OpenFails \/ write_headers \/ HeadersFail \/ SpawnFails
  <2> USE <1>1 DEF open, OpenFails, write_headers, HeadersFail, SpawnFails, Opening
  <2>1. RecFlags'
    BY DEF RecFlags
  <2>2. RecTypeOK'
    BY <2>1 DEF RecFlags
  <2>3. RecorderOK'
    <3>1. Fresh => Fresh'
      BY DEF Fresh
    <3>2. QED
      BY <3>1 DEF RecorderOK
  <2>4. QueueOK'
    BY DEF RecorderOK, QueueOK, WorkerOK, Fresh
  <2>5. WorkerOK'
    BY DEF RecorderOK, WorkerOK, Whole, Fresh
  <2>6. SavedIsWhole'
    BY DEF RecorderOK, QueueOK, WorkerOK, Whole, SavedIsWhole
  <2>7. NoFileLeft'
    BY DEF RecorderOK, WorkerOK, NoFileLeft
  <2>8. QED
    BY <2>2, <2>3, <2>4, <2>5, <2>6, <2>7
<1>2. CASE SpawnWorker \/ PlayMicrophone \/ PlayFails
  <2> USE <1>2 DEF SpawnWorker, PlayMicrophone, PlayFails, Opening
  <2>1. RecFlags'
    <3>1. UNCHANGED <<micFailed, sampleVars, pageVars, refused>>
      BY Zenon
    <3>2. recording' \in BOOLEAN /\ micOn' \in BOOLEAN
      BY Zenon
    <3>3. QED
      BY <3>1, <3>2, Zenon DEF RecFlags
  <2>2. RecTypeOK'
    BY <2>1 DEF RecFlags
  <2>3. RecorderOK'
    BY DEF RecorderOK, QueueOK, Fresh
  <2>4. QueueOK'
    <3>1. SpawnWorker => ~padded
      BY DEF RecorderOK, Fresh
    <3>2. QED
      BY <3>1 DEF QueueOK
  <2>5. WorkerOK'
    BY DEF RecorderOK, WorkerOK, Whole, Fresh
  <2>6. SavedIsWhole'
    BY DEF RecorderOK, QueueOK, WorkerOK, Whole, SavedIsWhole
  <2>7. NoFileLeft'
    BY DEF RecorderOK, WorkerOK, NoFileLeft
  <2>8. QED
    BY <2>2, <2>3, <2>4, <2>5, <2>6, <2>7
<1>3. CASE CaptureSample
  <2> USE <1>3 DEF CaptureSample
  <2>1. RecFlags'
    BY DEF RecFlags
  <2>2. RecTypeOK'
    BY <2>1 DEF RecFlags
  <2>3. RecorderOK'
    BY DEF RecorderOK, QueueOK, Fresh
  <2>4. QueueOK'
    <3>1. recording /\ ~padded /\ worker \notin {"flush", "done"}
          /\ (worker = "frame" => ~(recFrame < FRAME_SAMPLES)) /\ ~overrun
      BY DEF RecorderOK, QueueOK
    <3>2. (overrun' => micFailed') /\ (~overrun' => queued # RECORD_QUEUE)
      BY <3>1
    <3>3. queued # RECORD_QUEUE => captured' = valid' + queued'
      BY <3>1 DEF QueueOK
    <3>4. UNCHANGED <<recording, raced, padded, hole, worker, recFrame>>
      OBVIOUS
    <3>5. QED
      BY <3>1, <3>2, <3>3, <3>4 DEF QueueOK
  <2>5. WorkerOK'
    BY DEF RecorderOK, WorkerOK, Whole, Fresh
  <2>6. SavedIsWhole'
    BY DEF RecorderOK, QueueOK, WorkerOK, Whole, SavedIsWhole
  <2>7. NoFileLeft'
    BY DEF RecorderOK, WorkerOK, NoFileLeft
  <2>8. QED
    BY <2>2, <2>3, <2>4, <2>5, <2>6, <2>7
<1>4. CASE MicError
  <2> USE <1>4 DEF MicError
  <2>1. RecFlags'
    BY DEF RecFlags
  <2>2. RecTypeOK'
    BY <2>1 DEF RecFlags
  <2>3. RecorderOK'
    BY DEF RecorderOK, QueueOK, Fresh
  <2>4. QueueOK'
    BY DEF RecorderOK, QueueOK, WorkerOK, Fresh
  <2>5. WorkerOK'
    BY DEF RecorderOK, WorkerOK, Whole, Fresh
  <2>6. SavedIsWhole'
    BY DEF RecorderOK, QueueOK, WorkerOK, Whole, SavedIsWhole
  <2>7. NoFileLeft'
    BY DEF RecorderOK, WorkerOK, NoFileLeft
  <2>8. QED
    BY <2>2, <2>3, <2>4, <2>5, <2>6, <2>7
<1>5. CASE PopSample
  <2> USE <1>5 DEF PopSample
  <2>1. RecFlags'
    BY DEF RecFlags
  <2>2. RecTypeOK'
    BY <2>1 DEF RecFlags, WorkerOK
  <2>3. RecorderOK'
    BY DEF RecorderOK, QueueOK, Fresh
  <2>4. QueueOK'
    <3>1. hole' => raced
      <4>1. hole' => hole \/ (padded /\ queued > 0)
        OBVIOUS
      <4>2. QED
        BY <4>1 DEF QueueOK
    <3>2. UNCHANGED <<recording, raced, padded, overrun, micFailed, captured>>
      OBVIOUS
    <3>3. /\ ~overrun => captured = valid' + queued'
          /\ raced \/ queued = 0 => raced \/ queued' = 0
          /\ worker' = "frame" => recFrame' = FRAME_SAMPLES
          /\ worker' \notin {"flush", "done"}
      BY DEF QueueOK, WorkerOK
    <3>4. QED
      BY <3>1, <3>2, <3>3 DEF QueueOK
  <2>5. WorkerOK'
    BY DEF RecorderOK, WorkerOK, Whole, Fresh
  <2>6. SavedIsWhole'
    BY DEF RecorderOK, QueueOK, WorkerOK, Whole, SavedIsWhole
  <2>7. NoFileLeft'
    BY DEF RecorderOK, WorkerOK, NoFileLeft
  <2>8. QED
    BY <2>2, <2>3, <2>4, <2>5, <2>6, <2>7
<1>6. CASE Look
  <2> USE <1>6 DEF Look
  <2>1. RecFlags'
    BY DEF RecFlags
  <2>2. RecTypeOK'
    BY <2>1 DEF RecFlags
  <2>3. RecorderOK'
    BY DEF RecorderOK, QueueOK, Fresh
  <2>4. QueueOK'
    <3>q. queued > 0 \/ queued = 0
      OBVIOUS
    <3>1. (raced => raced') /\ (~recording => raced' \/ queued = 0)
      BY <3>q, Zenon
    <3>2. UNCHANGED <<recording, padded, hole, overrun, micFailed, captured, valid, queued, recFrame>>
      OBVIOUS
    <3>3. worker' \in {"flush", "frame"} => ~recording
      OBVIOUS
    <3>4. worker' # "done"
      OBVIOUS
    <3>5. QED
      BY <3>1, <3>2, <3>3, <3>4 DEF QueueOK
  <2>5. WorkerOK'
    BY DEF RecorderOK, WorkerOK, Whole, Fresh
  <2>6. SavedIsWhole'
    BY DEF RecorderOK, QueueOK, WorkerOK, Whole, SavedIsWhole
  <2>7. NoFileLeft'
    BY DEF RecorderOK, WorkerOK, NoFileLeft
  <2>8. QED
    BY <2>2, <2>3, <2>4, <2>5, <2>6, <2>7
<1>7. CASE WorkerFails
  <2> USE <1>7 DEF WorkerFails
  <2>1. RecFlags'
    BY DEF RecFlags
  <2>2. RecTypeOK'
    BY <2>1 DEF RecFlags
  <2>3. RecorderOK'
    BY DEF RecorderOK, QueueOK, Fresh
  <2>4. QueueOK'
    BY DEF RecorderOK, QueueOK, WorkerOK, Fresh
  <2>5. WorkerOK'
    BY DEF RecorderOK, WorkerOK, Whole, Fresh
  <2>6. SavedIsWhole'
    BY DEF RecorderOK, QueueOK, WorkerOK, Whole, SavedIsWhole
  <2>7. NoFileLeft'
    BY DEF RecorderOK, WorkerOK, NoFileLeft
  <2>8. QED
    BY <2>2, <2>3, <2>4, <2>5, <2>6, <2>7
<1>8. CASE EncodeFrame
  <2> USE <1>8 DEF EncodeFrame, WriteFrame
  <2>1. RecFlags'
    BY DEF RecFlags
  <2>2. RecTypeOK'
    BY <2>1 DEF RecFlags
  <2>3. RecorderOK'
    BY DEF RecorderOK, QueueOK, Fresh
  <2>4. QueueOK'
    BY DEF RecorderOK, QueueOK, WorkerOK, Fresh
  <2>5. WorkerOK'
    BY DEF RecorderOK, WorkerOK, Whole, Fresh
  <2>6. SavedIsWhole'
    BY DEF RecorderOK, QueueOK, WorkerOK, Whole, SavedIsWhole
  <2>7. NoFileLeft'
    BY DEF RecorderOK, WorkerOK, NoFileLeft
  <2>8. QED
    BY <2>2, <2>3, <2>4, <2>5, <2>6, <2>7
<1>9. CASE Flush
  <2> USE <1>9 DEF Flush, WriteFrame
  <2>1. RecFlags'
    BY DEF RecFlags
  <2>2. RecTypeOK'
    BY <2>1 DEF RecFlags
  <2>3. RecorderOK'
    BY DEF RecorderOK, QueueOK, Fresh
  <2>4. QueueOK'
    BY DEF RecorderOK, QueueOK, WorkerOK, Fresh
  <2>5. WorkerOK'
    BY DEF RecorderOK, WorkerOK, Whole, Fresh
  <2>6. SavedIsWhole'
    BY DEF RecorderOK, QueueOK, WorkerOK, Whole, SavedIsWhole
  <2>7. NoFileLeft'
    BY DEF RecorderOK, WorkerOK, NoFileLeft
  <2>8. QED
    BY <2>2, <2>3, <2>4, <2>5, <2>6, <2>7
<1>10. CASE Finish
  <2> USE <1>10 DEF Finish, NeedsSilence
  <2>1. RecFlags'
    BY DEF RecFlags
  <2>2. RecTypeOK'
    BY <2>1 DEF RecFlags
  <2>3. RecorderOK'
    BY DEF RecorderOK, QueueOK, Fresh
  <2>4. QueueOK'
    BY DEF RecorderOK, QueueOK, WorkerOK, Fresh
  <2>5. WorkerOK'
    BY DEF RecorderOK, WorkerOK, Whole, Fresh
  <2>6. SavedIsWhole'
    BY DEF RecorderOK, QueueOK, WorkerOK, Whole, SavedIsWhole
  <2>7. NoFileLeft'
    BY DEF RecorderOK, WorkerOK, NoFileLeft
  <2>8. QED
    BY <2>2, <2>3, <2>4, <2>5, <2>6, <2>7
<1>11. CASE stop \/ cancel
  <2> USE <1>11 DEF stop, cancel, End
  <2>1. RecFlags'
    BY DEF RecFlags
  <2>2. RecTypeOK'
    BY <2>1 DEF RecFlags
  <2>3. RecorderOK'
    BY DEF RecorderOK, QueueOK, Fresh
  <2>4. QueueOK'
    BY DEF RecorderOK, QueueOK, WorkerOK, Fresh
  <2>5. WorkerOK'
    BY DEF RecorderOK, WorkerOK, Whole, Fresh
  <2>6. SavedIsWhole'
    BY DEF RecorderOK, QueueOK, WorkerOK, Whole, SavedIsWhole
  <2>7. NoFileLeft'
    BY DEF RecorderOK, WorkerOK, NoFileLeft
  <2>8. QED
    BY <2>2, <2>3, <2>4, <2>5, <2>6, <2>7
<1>12. CASE StopJoined \/ AbortJoined \/ DropJoined
  <2> USE <1>12 DEF StopJoined, AbortJoined, DropJoined, WorkerJoined
  <2>1. RecFlags'
    BY DEF RecFlags
  <2>2. RecTypeOK'
    BY <2>1 DEF RecFlags
  <2>3. RecorderOK'
    BY DEF RecorderOK, QueueOK, Fresh
  <2>4. QueueOK'
    BY DEF RecorderOK, QueueOK, WorkerOK, Fresh
  <2>5. WorkerOK'
    BY DEF RecorderOK, WorkerOK, Whole, Fresh
  <2>6. SavedIsWhole'
    BY DEF RecorderOK, QueueOK, WorkerOK, Whole, SavedIsWhole
  <2>7. NoFileLeft'
    BY DEF RecorderOK, WorkerOK, NoFileLeft
  <2>8. QED
    BY <2>2, <2>3, <2>4, <2>5, <2>6, <2>7
<1>13. CASE Completed \/ MeasureFails
  <2> USE <1>13 DEF Completed, MeasureFails
  <2>1. RecFlags'
    BY DEF RecFlags
  <2>2. RecTypeOK'
    BY <2>1 DEF RecFlags
  <2>3. RecorderOK'
    BY DEF RecorderOK, QueueOK, Fresh
  <2>4. QueueOK'
    BY DEF RecorderOK, QueueOK, WorkerOK, Fresh
  <2>5. WorkerOK'
    BY DEF RecorderOK, WorkerOK, Whole, Fresh
  <2>6. SavedIsWhole'
    BY DEF RecorderOK, QueueOK, WorkerOK, Whole, SavedIsWhole
  <2>7. NoFileLeft'
    BY DEF RecorderOK, WorkerOK, NoFileLeft
  <2>8. QED
    BY <2>2, <2>3, <2>4, <2>5, <2>6, <2>7
<1>14. CASE \E gone \in BOOLEAN : remove_file(gone)
  <2> USE <1>14 DEF remove_file
  <2>1. RecFlags'
    BY DEF RecFlags
  <2>2. RecTypeOK'
    BY <2>1 DEF RecFlags
  <2>3. RecorderOK'
    BY DEF RecorderOK, QueueOK, Fresh
  <2>4. QueueOK'
    BY DEF RecorderOK, QueueOK, WorkerOK, Fresh
  <2>5. WorkerOK'
    BY DEF RecorderOK, WorkerOK, Whole, Fresh
  <2>6. SavedIsWhole'
    BY DEF RecorderOK, QueueOK, WorkerOK, Whole, SavedIsWhole
  <2>7. NoFileLeft'
    <3>1. file' = "none" \/ refused'
      OBVIOUS
    <3>2. QED
      BY <3>1 DEF RecorderOK, NoFileLeft
  <2>8. QED
    BY <2>2, <2>3, <2>4, <2>5, <2>6, <2>7
<1>15. CASE UNCHANGED recVars
  BY <1>15 DEF recVars, RecorderOK, QueueOK, WorkerOK, SavedIsWhole, NoFileLeft, Whole, Fresh
<1>16. QED
  BY <1>1, <1>2, <1>3, <1>4, <1>5, <1>6, <1>7, <1>8, <1>9, <1>10, <1>11, <1>12, <1>13, <1>14, <1>15 DEF RecNext

THEOREM RecordInvariant == RecSpec => []RecInv
BY RecInitOK, RecStep, PTL DEF RecSpec

(* VoiceRecorder: the recorder, its worker, the encoder's samples and the   *)
(* file keep their types, however a recording ends.                         *)
THEOREM RecordTypeCorrect == RecSpec => []RecTypeOK
<1>1. RecInv => RecTypeOK
  BY DEF RecInv
<1>2. QED
  BY <1>1, RecordInvariant, PTL

(* stop reports a file as saved only if record_loop finished it: the last   *)
(* page synced, an end position within the audio, and every sample of the   *)
(* microphone in it or still queued; with the queue empty and no silence    *)
(* amid the audio, unless the microphone overtook record_loop's last look   *)
(* at the queue.                                                            *)
THEOREM SavedRecordingWhole == RecSpec => []SavedIsWhole
<1>1. RecInv => SavedIsWhole
  BY DEF RecInv
<1>2. QED
  BY <1>1, RecordInvariant, PTL

(* A recording that is cancelled or fails leaves no thread, no microphone   *)
(* and no file whose removal is not refused, whatever step of open,         *)
(* record_loop or stop it fails at, and no file goes while its worker       *)
(* writes it.                                                               *)
THEOREM FailedRecordingGone == RecSpec => []NoFileLeft
<1>1. RecInv => NoFileLeft
  BY DEF RecInv
<1>2. QED
  BY <1>1, RecordInvariant, PTL

-----------------------------------------------------------------------------
(* The receive side of a call.  The packets of a participant are accounted  *)
(* for, and as long as it is silent with packets waiting, either enough     *)
(* wait, or its silent slots fit in the age of the gap and the time until   *)
(* the next slot, but for what the schedule may catch up with.              *)
Counted(s) ==
    /\ s \in RemoteStream
    /\ IsFiniteSet(s.pending) /\ IsFiniteSet(s.played)
    /\ s.expected = Cardinality(s.played) + s.lost + 1
    /\ \A q \in s.pending : q >= s.expected
    /\ \A q \in s.played : q < s.expected

Accounted(s) == Counted(s) /\ Cardinality(s.pending) <= MAX_BUFFERED_PACKETS

Still(s) == SLOT * s.stalled

Patient(s, time, slack) ==
    /\ Still(s) < MAX_JITTER_WAIT + RESET + 2 * SLOT
    /\ s.stalled > 0 =>
          \/ Cardinality(s.pending) >= SKIP_WAIT_BACKLOG
          \/ s.gapped /\ Still(s) + slack <= s.age + time + SLOT + RESET

(* The next slot is scheduled before the participants of this one are       *)
(* rendered: their silence is not longer yet.                               *)
Slack(p) == IF p \in rendering THEN SLOT ELSE 0

RxInv ==
    /\ RxTypeOK
    /\ rendering # {} => due >= -RESET
    /\ \A p \in DOMAIN stream : Accounted(stream[p]) /\ Patient(stream[p], due, Slack(p))

Slacks == {0, SLOT}

LEMMA StillFacts ==
    ASSUME NEW s, s.stalled \in Nat
    PROVE  /\ Still(s) \in Nat /\ (s.stalled = 0 => Still(s) = 0)
           /\ SLOT * (s.stalled + 1) = Still(s) + SLOT
BY ReceiveAssumption DEF Still

LEMMA MinFacts ==
    ASSUME NEW S \in SUBSET Nat, S # {}
    PROVE  Min(S) \in S /\ \A q \in S : Min(S) <= q
BY LeastNatural DEF Min

LEMMA NewStreamOK ==
    Accounted(NewStream) /\ \A time \in Int, slack \in Slacks : Patient(NewStream, time, slack)
<1>1. NewStream \in RemoteStream
  BY ReceiveAssumption DEF NewStream, RemoteStream, Waits
<1>2. Counted(NewStream)
  BY <1>1, FS_EmptySet DEF NewStream, Counted
<1>3. Still(NewStream) = 0 /\ NewStream.stalled = 0
  BY ReceiveAssumption DEF NewStream, Still
<1>4. NewStream.pending = {}
  BY DEF NewStream
<1>5. Accounted(NewStream)
  BY <1>2, <1>4, FS_EmptySet, ReceiveAssumption DEF Accounted
<1>6. \A time \in Int, slack \in Slacks : Patient(NewStream, time, slack)
  BY <1>3, ReceiveAssumption DEF Patient
<1>7. QED
  BY <1>5, <1>6

(* The oldest packet and those missing before it leave the account of the   *)
(* buffer together.                                                         *)
LEMMA DropOldestOK ==
    \A s : Counted(s) /\ s.pending # {} =>
        /\ Counted(DropOldest(s))
        /\ Cardinality(DropOldest(s).pending) = Cardinality(s.pending) - 1
        /\ DropOldest(s).stalled = s.stalled
<1> SUFFICES ASSUME NEW s, Counted(s), s.pending # {}
             PROVE  /\ Counted(DropOldest(s))
                    /\ Cardinality(DropOldest(s).pending) = Cardinality(s.pending) - 1
                    /\ DropOldest(s).stalled = s.stalled
  OBVIOUS
<1> DEFINE m == Min(s.pending)  t == DropOldest(s)
<1>m. /\ m \in s.pending /\ (\A q \in s.pending : m <= q)
      /\ m \in Nat /\ s.expected \in Nat /\ s.lost \in Nat /\ m >= s.expected
  BY MinFacts DEF Counted, RemoteStream
<1> HIDE DEF m
<1>1. /\ t.pending = s.pending \ {m} /\ t.expected = m + 1
      /\ t.lost = s.lost + (m - s.expected) + 1
      /\ t.played = s.played /\ t.stalled = s.stalled
  BY DEF DropOldest, Counted, RemoteStream, m
<1>2. t \in RemoteStream
  <2>1. s.lost + (m - s.expected) + 1 \in Nat /\ m + 1 \in Nat \ {0}
    BY <1>m
  <2>2. QED
    BY <2>1, <1>m DEF DropOldest, Counted, RemoteStream, m
<1>3. /\ IsFiniteSet(t.pending) /\ Cardinality(t.pending) = Cardinality(s.pending) - 1
      /\ Cardinality(s.played) \in Nat
  <2>1. IsFiniteSet(s.pending) /\ IsFiniteSet(s.played)
    BY DEF Counted
  <2>2. IsFiniteSet(s.pending \ {m}) /\ Cardinality(s.pending \ {m}) = Cardinality(s.pending) - 1
    BY <1>m, <2>1, FS_RemoveElement
  <2>3. Cardinality(s.played) \in Nat
    BY <2>1, FS_CardinalityType
  <2>4. QED
    BY <1>1, <2>2, <2>3
<1> HIDE DEF t
<1>4. t.expected = Cardinality(t.played) + t.lost + 1
  BY <1>1, <1>3, <1>m DEF Counted
<1>5. (\A q \in t.pending : q >= t.expected) /\ (\A q \in t.played : q < t.expected)
  BY <1>1, <1>m DEF Counted, RemoteStream
<1>6. QED
  BY <1>1, <1>2, <1>3, <1>4, <1>5 DEF Counted, t

(* A packet joins a buffer that keeps to its bound; a buffer that is full   *)
(* has enough packets not to wait any more.                                 *)
LEMMA InsertOK ==
    \A s : \A sequence \in Nat, wait \in Waits :
        Accounted(s) /\ sequence >= s.expected /\ sequence \notin s.pending =>
            /\ Accounted(insert(s, sequence, wait))
            /\ \A time \in Int, slack \in Slacks :
                  Patient(s, time, slack) => Patient(insert(s, sequence, wait), time, slack)
<1> SUFFICES ASSUME NEW s, NEW sequence \in Nat, NEW wait \in Waits,
                    Accounted(s), sequence >= s.expected, sequence \notin s.pending
             PROVE  /\ Accounted(insert(s, sequence, wait))
                    /\ \A time \in Int, slack \in Slacks :
                          Patient(s, time, slack) => Patient(insert(s, sequence, wait), time, slack)
  OBVIOUS
<1> DEFINE h == [s EXCEPT !.pending = @ \cup {sequence}, !.wait = wait,
                          !.received = @ + 1, !.started = TRUE]
<1>1. /\ h.pending = s.pending \cup {sequence} /\ h.expected = s.expected /\ h.lost = s.lost
      /\ h.played = s.played /\ h.stalled = s.stalled /\ h.gapped = s.gapped /\ h.age = s.age
  BY DEF Accounted, Counted, RemoteStream
<1>2. h \in RemoteStream
  <2>1. s \in RemoteStream
    BY DEF Accounted, Counted
  <2>2. /\ s.pending \cup {sequence} \in SUBSET Nat /\ s.received + 1 \in Nat
        /\ TRUE \in BOOLEAN
    BY <2>1 DEF RemoteStream
  <2>3. QED
    BY <2>1, <2>2 DEF RemoteStream
<1>3. /\ IsFiniteSet(h.pending) /\ Cardinality(h.pending) = Cardinality(s.pending) + 1
      /\ Cardinality(s.pending) \in Nat
  BY <1>1, FS_AddElement, FS_CardinalityType DEF Accounted, Counted
<1>i. insert(s, sequence, wait) =
        IF Cardinality(h.pending) > MAX_BUFFERED_PACKETS THEN DropOldest(h) ELSE h
  BY DEF insert
<1>t. s.stalled \in Nat /\ s.age \in Nat
  BY DEF Accounted, Counted, RemoteStream
<1> HIDE DEF h
<1>4. Counted(h) /\ h.pending # {}
  BY <1>1, <1>2, <1>3 DEF Accounted, Counted
<1>5. CASE Cardinality(h.pending) > MAX_BUFFERED_PACKETS
  <2>1. /\ Counted(DropOldest(h))
        /\ Cardinality(DropOldest(h).pending) = Cardinality(h.pending) - 1
        /\ DropOldest(h).stalled = s.stalled
    BY <1>1, <1>4, DropOldestOK
  <2>2. Cardinality(DropOldest(h).pending) = MAX_BUFFERED_PACKETS
    BY <2>1, <1>3, <1>5, ReceiveAssumption DEF Accounted
  <2>3. QED
    BY <2>1, <2>2, <1>5, <1>i, ReceiveAssumption DEF Accounted, Patient, Still
<1>6. CASE ~(Cardinality(h.pending) > MAX_BUFFERED_PACKETS)
  <2>1. Accounted(h)
    BY <1>3, <1>4, <1>6, ReceiveAssumption DEF Accounted
  <2>s. Still(h) = Still(s)
    BY <1>1 DEF Still
  <2>2. \A time \in Int, slack \in Slacks : Patient(s, time, slack) => Patient(h, time, slack)
    BY <1>1, <1>3, <1>t, <2>s, ReceiveAssumption DEF Patient
  <2>3. QED
    BY <2>1, <2>2, <1>6, <1>i
<1>7. QED
  BY <1>5, <1>6

(* The oldest packet is played, those skipped are lost.                     *)
LEMMA PopReadyOK ==
    \A s : \A frms \in Nat : Accounted(s) /\ s.pending # {} =>
        /\ Accounted(pop_ready(s, frms))
        /\ \A time \in Int, slack \in Slacks : Patient(pop_ready(s, frms), time, slack)
<1> SUFFICES ASSUME NEW s, NEW frms \in Nat, Accounted(s), s.pending # {}
             PROVE  /\ Accounted(pop_ready(s, frms))
                    /\ \A time \in Int, slack \in Slacks : Patient(pop_ready(s, frms), time, slack)
  OBVIOUS
<1> DEFINE m == Min(s.pending)  t == pop_ready(s, frms)
<1>m. /\ m \in s.pending /\ (\A q \in s.pending : m <= q)
      /\ m \in Nat /\ s.expected \in Nat /\ s.lost \in Nat /\ m >= s.expected
      /\ m \notin s.played
  BY MinFacts DEF Accounted, Counted, RemoteStream
<1> HIDE DEF m
<1>1. /\ t.pending = s.pending \ {m} /\ t.expected = m + 1
      /\ t.lost = s.lost + (m - s.expected)
      /\ t.played = s.played \cup {m} /\ t.stalled = 0
  BY DEF pop_ready, Accounted, Counted, RemoteStream, m
<1>2. t \in RemoteStream
  <2>1. s.lost + (m - s.expected) \in Nat /\ m + 1 \in Nat \ {0}
    BY <1>m
  <2>2. QED
    BY <2>1, <1>m DEF pop_ready, Accounted, Counted, RemoteStream, m
<1>3. /\ IsFiniteSet(t.pending) /\ Cardinality(t.pending) = Cardinality(s.pending) - 1
      /\ IsFiniteSet(t.played) /\ Cardinality(t.played) = Cardinality(s.played) + 1
      /\ Cardinality(s.played) \in Nat /\ Cardinality(s.pending) \in Nat
  <2>1. /\ IsFiniteSet(s.pending) /\ IsFiniteSet(s.played)
        /\ Cardinality(s.played) \in Nat /\ Cardinality(s.pending) \in Nat
    BY FS_CardinalityType DEF Accounted, Counted
  <2>2. /\ IsFiniteSet(s.pending \ {m})
        /\ Cardinality(s.pending \ {m}) = Cardinality(s.pending) - 1
    BY <2>1, <1>m, FS_RemoveElement
  <2>3. /\ IsFiniteSet(s.played \cup {m})
        /\ Cardinality(s.played \cup {m}) = Cardinality(s.played) + 1
    BY <2>1, <1>m, FS_AddElement
  <2>4. QED
    BY <2>1, <2>2, <2>3, <1>1
<1> HIDE DEF t
<1>4. t.expected = Cardinality(t.played) + t.lost + 1
  BY <1>1, <1>3, <1>m DEF Accounted, Counted
<1>5. (\A q \in t.pending : q >= t.expected) /\ (\A q \in t.played : q < t.expected)
  <2>1. s.pending \subseteq Nat /\ s.played \subseteq Nat /\ \A q \in s.played : q < s.expected
    BY DEF Accounted, Counted, RemoteStream
  <2>2. \A q \in s.pending \ {m} : q >= m + 1
    BY <2>1, <1>m
  <2>3. \A q \in s.played \cup {m} : q < m + 1
    BY <2>1, <1>m
  <2>4. QED
    BY <2>2, <2>3, <1>1
<1>6. Accounted(t)
  BY <1>2, <1>3, <1>4, <1>5, ReceiveAssumption DEF Accounted, Counted
<1>7. Still(t) = 0
  BY <1>1, ReceiveAssumption DEF Still
<1>8. QED
  BY <1>1, <1>6, <1>7, ReceiveAssumption DEF Patient, t

(* What a look that finds nothing, a break and a played frame leave alone.  *)
Kept(s, t) ==
    /\ t \in RemoteStream
    /\ t.pending = s.pending /\ t.played = s.played
    /\ t.expected = s.expected /\ t.lost = s.lost

LEMMA StartWaitOK ==
    \A s \in RemoteStream :
        /\ Kept(s, StartWait(s)) /\ StartWait(s).pcm = s.pcm
        /\ \/ StartWait(s).stalled = s.stalled /\ StartWait(s).age = s.age
              /\ StartWait(s).gapped = s.gapped
           \/ /\ s.pcm = 0 /\ s.pending # {} /\ StartWait(s).gapped = TRUE
              /\ StartWait(s).stalled = s.stalled + 1 /\ StartWait(s).age = Waited(s)
<1> SUFFICES ASSUME NEW s \in RemoteStream
             PROVE  /\ Kept(s, StartWait(s)) /\ StartWait(s).pcm = s.pcm
                    /\ \/ StartWait(s).stalled = s.stalled /\ StartWait(s).age = s.age
                          /\ StartWait(s).gapped = s.gapped
                       \/ /\ s.pcm = 0 /\ s.pending # {} /\ StartWait(s).gapped = TRUE
                          /\ StartWait(s).stalled = s.stalled + 1
                          /\ StartWait(s).age = Waited(s)
  OBVIOUS
<1>1. CASE s.pcm = 0 /\ s.pending # {}
  <2> DEFINE w == Waited(s)
             t == [s EXCEPT !.gapped = TRUE, !.age = w, !.stalled = @ + 1]
  <2>1. w \in Nat /\ s.stalled + 1 \in Nat /\ TRUE \in BOOLEAN
    BY DEF Waited, RemoteStream
  <2>2. StartWait(s) = t
    BY <1>1 DEF StartWait
  <2> HIDE DEF w
  <2>3. t \in RemoteStream
    BY <2>1 DEF RemoteStream
  <2>4. /\ t.pending = s.pending /\ t.played = s.played /\ t.expected = s.expected
        /\ t.lost = s.lost /\ t.pcm = s.pcm /\ t.gapped = TRUE /\ t.age = w
        /\ t.stalled = s.stalled + 1
    BY DEF RemoteStream
  <2> HIDE DEF t
  <2>5. QED
    BY <1>1, <2>2, <2>3, <2>4 DEF Kept, w
<1>2. CASE ~(s.pcm = 0 /\ s.pending # {})
  <2>1. StartWait(s) = s
    BY <1>2 DEF StartWait
  <2>2. QED
    BY <2>1 DEF Kept
<1>3. QED
  BY <1>1, <1>2

LEMMA CountBreakOK ==
    \A s \in RemoteStream :
        /\ Kept(s, CountBreak(s)) /\ CountBreak(s).stalled = s.stalled
        /\ CountBreak(s).age = s.age /\ CountBreak(s).gapped = s.gapped
<1> SUFFICES ASSUME NEW s \in RemoteStream
             PROVE  /\ Kept(s, CountBreak(s)) /\ CountBreak(s).stalled = s.stalled
                    /\ CountBreak(s).age = s.age /\ CountBreak(s).gapped = s.gapped
  OBVIOUS
<1> DEFINE sh == IF s.started /\ s.pcm = 0
                 THEN IF s.short > GAP_FRAMES THEN s.short ELSE s.short + 1 ELSE 0
           g == IF s.started /\ s.pcm = 0 /\ s.short + 1 = GAP_FRAMES THEN s.gaps + 1 ELSE s.gaps
           t == [s EXCEPT !.short = sh, !.gaps = g]
<1>1. sh \in 0 .. GAP_FRAMES + 1 /\ g \in Nat
  BY ReceiveAssumption DEF RemoteStream
<1>2. CountBreak(s) = t
  <2>1. CASE s.started /\ s.pcm = 0
    <3>1. /\ sh = IF s.short > GAP_FRAMES THEN s.short ELSE s.short + 1
          /\ g = s.gaps + IF s.short + 1 = GAP_FRAMES THEN 1 ELSE 0
      BY <2>1, ReceiveAssumption DEF RemoteStream
    <3>2. CountBreak(s) = [s EXCEPT !.short = IF @ > GAP_FRAMES THEN @ ELSE @ + 1,
                                    !.gaps = @ + IF s.short + 1 = GAP_FRAMES THEN 1 ELSE 0]
      BY <2>1 DEF CountBreak
    <3>3. CountBreak(s) = [s EXCEPT
                !.short = IF s.short > GAP_FRAMES THEN s.short ELSE s.short + 1,
                !.gaps = s.gaps + IF s.short + 1 = GAP_FRAMES THEN 1 ELSE 0]
      BY <3>2 DEF RemoteStream
    <3> HIDE DEF sh, g
    <3>4. QED
      BY <3>1, <3>3
  <2>2. CASE ~(s.started /\ s.pcm = 0)
    <3>1. g = s.gaps /\ sh = 0
      BY <2>2
    <3>2. CountBreak(s) = [s EXCEPT !.short = 0]
      BY <2>2 DEF CountBreak
    <3>3. [s EXCEPT !.short = 0] = [s EXCEPT !.short = 0, !.gaps = s.gaps]
      BY DEF RemoteStream
    <3>4. QED
      BY <3>1, <3>2, <3>3
  <2>3. QED
    BY <2>1, <2>2
<1> HIDE DEF sh, g
<1>3. t \in RemoteStream
  BY <1>1 DEF RemoteStream
<1>4. /\ t.pending = s.pending /\ t.played = s.played /\ t.expected = s.expected
      /\ t.lost = s.lost /\ t.stalled = s.stalled /\ t.age = s.age /\ t.gapped = s.gapped
  BY DEF RemoteStream
<1> HIDE DEF t
<1>5. QED
  BY <1>2, <1>3, <1>4 DEF Kept

LEMMA PlayOutOK ==
    \A s \in RemoteStream :
        /\ Kept(s, PlayOut(s)) /\ PlayOut(s).stalled = s.stalled
        /\ PlayOut(s).age = s.age /\ PlayOut(s).gapped = s.gapped
<1> SUFFICES ASSUME NEW s \in RemoteStream
             PROVE  /\ Kept(s, PlayOut(s)) /\ PlayOut(s).stalled = s.stalled
                    /\ PlayOut(s).age = s.age /\ PlayOut(s).gapped = s.gapped
  OBVIOUS
<1> DEFINE n == IF s.pcm > 0 THEN s.pcm - 1 ELSE 0
           t == [s EXCEPT !.pcm = n]
<1>1. n \in Nat
  BY DEF RemoteStream
<1>2. PlayOut(s) = t
  BY DEF PlayOut, RemoteStream
<1> HIDE DEF n
<1>3. t \in RemoteStream
  BY <1>1 DEF RemoteStream
<1>4. /\ t.pending = s.pending /\ t.played = s.played /\ t.expected = s.expected
      /\ t.lost = s.lost /\ t.stalled = s.stalled /\ t.age = s.age /\ t.gapped = s.gapped
  BY DEF RemoteStream
<1> HIDE DEF t
<1>5. QED
  BY <1>2, <1>3, <1>4 DEF Kept

(* A participant that stays silent with packets waiting has waited less     *)
(* than its jitter wait, and the slot counts once.                          *)
LEMMA PlayOK ==
    \A s : \A time \in -RESET .. SLOT :
        Accounted(s) /\ Patient(s, time, SLOT) /\ (s.pcm > 0 \/ ~HasReady(s)) =>
            LET t == PlayOut(CountBreak(StartWait(s))) IN Accounted(t) /\ Patient(t, time, 0)
<1> SUFFICES ASSUME NEW s, NEW time \in -RESET .. SLOT,
                    Accounted(s), Patient(s, time, SLOT), s.pcm > 0 \/ ~HasReady(s)
             PROVE  LET t == PlayOut(CountBreak(StartWait(s)))
                    IN Accounted(t) /\ Patient(t, time, 0)
  OBVIOUS
<1> DEFINE t == PlayOut(CountBreak(StartWait(s)))
<1>1. s \in RemoteStream
  BY DEF Accounted, Counted
<1>2. /\ Kept(s, t)
      /\ \/ t.stalled = s.stalled /\ t.age = s.age /\ t.gapped = s.gapped
         \/ /\ s.pcm = 0 /\ s.pending # {} /\ t.gapped = TRUE
            /\ t.stalled = s.stalled + 1 /\ t.age = Waited(s)
  <2> DEFINE u == StartWait(s)  v == CountBreak(u)
  <2>1. u \in RemoteStream /\ v \in RemoteStream
    BY <1>1, StartWaitOK, CountBreakOK DEF Kept
  <2>2. /\ Kept(u, v) /\ v.stalled = u.stalled /\ v.age = u.age /\ v.gapped = u.gapped
    BY <2>1, CountBreakOK
  <2>3. /\ Kept(v, t) /\ t.stalled = v.stalled /\ t.age = v.age /\ t.gapped = v.gapped
    BY <2>1, PlayOutOK
  <2>4. /\ Kept(s, u)
        /\ \/ u.stalled = s.stalled /\ u.age = s.age /\ u.gapped = s.gapped
           \/ /\ s.pcm = 0 /\ s.pending # {} /\ u.gapped = TRUE
              /\ u.stalled = s.stalled + 1 /\ u.age = Waited(s)
    BY <1>1, StartWaitOK
  <2> HIDE DEF u, v, t
  <2>5. QED
    BY <2>2, <2>3, <2>4 DEF Kept
<1> HIDE DEF t
<1>3. Accounted(t)
  BY <1>2 DEF Accounted, Counted, Kept
<1>4. /\ s.stalled \in Nat /\ s.age \in Nat /\ s.wait \in Nat /\ s.wait <= MAX_JITTER_WAIT
      /\ s.wait >= 1 /\ Waited(s) \in Nat
  BY <1>1, ReceiveAssumption DEF RemoteStream, Waits, Waited
<1>u. /\ time \in Int /\ time >= -RESET /\ time <= SLOT
      /\ SLOT \in Nat /\ RESET \in Nat /\ MAX_JITTER_WAIT \in Nat
  BY ReceiveAssumption
<1>s. /\ Still(s) \in Nat /\ (s.stalled = 0 => Still(s) = 0)
      /\ SLOT * (s.stalled + 1) = Still(s) + SLOT
  BY <1>4, StillFacts
<1>5. ASSUME t.stalled = s.stalled /\ t.age = s.age /\ t.gapped = s.gapped
      PROVE  Patient(t, time, 0)
  <2>1. Still(t) = Still(s) /\ Still(s) < MAX_JITTER_WAIT + RESET + 2 * SLOT
    BY <1>5 DEF Patient, Still
  <2>2. s.stalled > 0 => \/ Cardinality(s.pending) >= SKIP_WAIT_BACKLOG
                         \/ s.gapped /\ Still(s) + SLOT <= s.age + time + SLOT + RESET
    BY DEF Patient
  <2>3. t.pending = s.pending /\ (s.gapped => t.gapped)
    BY <1>2, <1>5 DEF Kept
  <2>4. t.stalled > 0 => \/ Cardinality(t.pending) >= SKIP_WAIT_BACKLOG
                         \/ t.gapped /\ Still(t) + 0 <= t.age + time + SLOT + RESET
    BY <1>4, <1>5, <1>u, <1>s, <2>1, <2>2, <2>3
  <2>5. QED
    BY <2>1, <2>4 DEF Patient
<1>6. ASSUME /\ s.pcm = 0 /\ s.pending # {} /\ t.gapped = TRUE
             /\ t.stalled = s.stalled + 1 /\ t.age = Waited(s)
      PROVE  Patient(t, time, 0)
  <2>1. /\ ~(Cardinality(s.pending) >= SKIP_WAIT_BACKLOG) /\ ~(Waited(s) >= s.wait)
    BY <1>1, <1>6 DEF HasReady
  <2>2. Still(s) <= Waited(s) + time + RESET
    <3>1. s.stalled > 0 => s.gapped /\ Still(s) + SLOT <= s.age + time + SLOT + RESET
      BY <2>1 DEF Patient
    <3>2. CASE s.stalled > 0
      BY <3>1, <3>2, <1>4, <1>u, <1>s DEF Waited
    <3>3. CASE s.stalled = 0
      BY <3>3, <1>4, <1>u, <1>s
    <3>4. QED
      BY <3>2, <3>3, <1>4
  <2>3. Still(t) = Still(s) + SLOT
    BY <1>6, <1>s DEF Still
  <2>4. Still(t) < MAX_JITTER_WAIT + RESET + 2 * SLOT
    BY <2>1, <2>2, <2>3, <1>4, <1>u, <1>s
  <2>5. Still(t) + 0 <= t.age + time + SLOT + RESET
    BY <2>2, <2>3, <1>4, <1>6, <1>u, <1>s
  <2>6. QED
    BY <1>6, <2>4, <2>5 DEF Patient
<1>7. QED
  BY <1>2, <1>3, <1>5, <1>6 DEF t

(* As the next slot comes nearer, every gap grows older.                    *)
LEMMA ElapseOK ==
    \A s : \A time \in Int : Accounted(s) /\ Patient(s, time, 0) =>
        LET t == IF s.gapped THEN [s EXCEPT !.age = @ + 1] ELSE s
        IN Accounted(t) /\ Patient(t, time - 1, 0)
<1> SUFFICES ASSUME NEW s, NEW time \in Int, Accounted(s), Patient(s, time, 0)
             PROVE  LET t == IF s.gapped THEN [s EXCEPT !.age = @ + 1] ELSE s
                    IN Accounted(t) /\ Patient(t, time - 1, 0)
  OBVIOUS
<1>1. /\ s \in RemoteStream /\ s.age \in Nat /\ s.stalled \in Nat
      /\ SLOT \in Nat /\ RESET \in Nat
  BY ReceiveAssumption DEF Accounted, Counted, RemoteStream
<1>2. CASE s.gapped
  <2> DEFINE t == [s EXCEPT !.age = @ + 1]
  <2>1. t \in RemoteStream
    BY <1>1 DEF RemoteStream
  <2>2. /\ t.pending = s.pending /\ t.played = s.played /\ t.expected = s.expected
        /\ t.lost = s.lost /\ t.stalled = s.stalled /\ t.age = s.age + 1
        /\ t.gapped = s.gapped
    BY <1>1 DEF RemoteStream
  <2> HIDE DEF t
  <2>3. Accounted(t)
    BY <2>1, <2>2 DEF Accounted, Counted
  <2>4. Still(t) = Still(s) /\ Still(s) \in Nat
    BY <1>1, <2>2, StillFacts DEF Still
  <2>5. /\ Still(s) < MAX_JITTER_WAIT + RESET + 2 * SLOT
        /\ s.stalled > 0 => \/ Cardinality(s.pending) >= SKIP_WAIT_BACKLOG
                            \/ Still(s) + 0 <= s.age + time + SLOT + RESET
    BY DEF Patient
  <2>6. Still(s) + 0 <= s.age + time + SLOT + RESET =>
          Still(t) + 0 <= t.age + (time - 1) + SLOT + RESET
    BY <1>1, <2>2, <2>4
  <2>7. Patient(t, time - 1, 0)
    BY <1>2, <2>2, <2>4, <2>5, <2>6 DEF Patient
  <2>8. QED
    BY <1>2, <2>3, <2>7 DEF t
<1>3. CASE ~s.gapped
  <2>1. s.stalled > 0 => Cardinality(s.pending) >= SKIP_WAIT_BACKLOG
    BY <1>3 DEF Patient
  <2>2. Patient(s, time - 1, 0)
    BY <2>1 DEF Patient
  <2>3. QED
    BY <1>3, <2>2
<1>4. QED
  BY <1>2, <1>3

(* The slots follow each other by SLOT at least, and not far behind.        *)
LEMMA SlotOK ==
    ASSUME due \in -MaxLate .. SLOT, due <= 0
    PROVE  /\ next_playout_after \in -MaxLate .. SLOT
           /\ next_playout_after >= due + SLOT /\ next_playout_after >= -RESET
BY ReceiveAssumption DEF next_playout_after

LEMMA LaterOK ==
    \A s : \A time, later \in Int : Accounted(s) /\ Patient(s, time, 0) /\ later >= time + SLOT =>
        Patient(s, later, SLOT)
<1> SUFFICES ASSUME NEW s, NEW time \in Int, NEW later \in Int,
                    Accounted(s), Patient(s, time, 0), later >= time + SLOT
             PROVE  Patient(s, later, SLOT)
  OBVIOUS
<1>1. s.stalled \in Nat /\ s.age \in Nat /\ SLOT \in Nat /\ RESET \in Nat /\ Still(s) \in Nat
  BY ReceiveAssumption, StillFacts DEF Accounted, Counted, RemoteStream
<1>2. Still(s) + 0 <= s.age + time + SLOT + RESET => Still(s) + SLOT <= s.age + later + SLOT + RESET
  BY <1>1
<1>3. QED
  BY <1>2 DEF Patient

LEMMA RxInitOK == RxInit => RxInv
<1> SUFFICES ASSUME RxInit PROVE RxInv
  OBVIOUS
<1>1. DOMAIN stream = {0} /\ stream[0] = NewStream /\ rendering = {}
  BY DEF RxInit
<1>2. NewStream \in RemoteStream
  BY NewStreamOK DEF Accounted, Counted
<1>3. anyReady \in BOOLEAN
  BY DEF RxInit
<1>p. playback \in 0 .. PLAYBACK_QUEUE /\ due = 0 /\ due \in -MaxLate .. SLOT
  BY ReceiveAssumption DEF RxInit
<1>4. RxTypeOK
  BY <1>1, <1>2, <1>3, <1>p, ReceiveAssumption DEF RxTypeOK
<1>5. \A p \in DOMAIN stream : Accounted(stream[p]) /\ Patient(stream[p], due, Slack(p))
  BY <1>1, <1>p, NewStreamOK DEF Slack, Slacks
<1>6. QED
  BY <1>1, <1>4, <1>5 DEF RxInv

LEMMA SetActiveKeeps ==
    ASSUME RxInv, NEW p \in Participants, NEW heard \in BOOLEAN, set_active(p, heard)
    PROVE  RxInv'
<1> USE DEF set_active, Unlocked
<1>1. /\ DOMAIN stream' \subseteq DOMAIN stream \cup {p}
      /\ \A q \in DOMAIN stream' :
            stream'[q] = NewStream \/ (q \in DOMAIN stream /\ stream'[q] = stream[q])
  OBVIOUS
<1>t. due \in Int /\ due' = due
  BY DEF RxInv, RxTypeOK
<1>2. \A q \in DOMAIN stream' : Accounted(stream'[q]) /\ Patient(stream'[q], due', Slack(q)')
  BY <1>1, <1>t, NewStreamOK DEF RxInv, Slack, Slacks
<1>3. RxTypeOK'
  BY <1>1, <1>2 DEF RxInv, RxTypeOK, Accounted, Counted
<1>4. QED
  BY <1>2, <1>3 DEF RxInv

(* One participant's stream changes, outside a slot or in it.               *)
LEMMA OneChanges ==
    ASSUME RxInv, NEW p \in DOMAIN stream, DOMAIN stream' = DOMAIN stream,
           \A q \in DOMAIN stream \ {p} : stream'[q] = stream[q],
           rendering' \subseteq rendering, \A q \in rendering \ {p} : q \in rendering',
           Accounted(stream'[p]), Patient(stream'[p], due, Slack(p)'), due' = due,
           anyReady' \in BOOLEAN, playback' \in 0 .. PLAYBACK_QUEUE
    PROVE  RxInv'
<1>1. \A q \in DOMAIN stream' : Accounted(stream'[q]) /\ Patient(stream'[q], due', Slack(q)')
  <2> SUFFICES ASSUME NEW q \in DOMAIN stream
               PROVE  Accounted(stream'[q]) /\ Patient(stream'[q], due', Slack(q)')
    OBVIOUS
  <2>1. CASE q = p
    BY <2>1
  <2>2. CASE q # p
    <3>1. stream'[q] = stream[q] /\ Slack(q)' = Slack(q)
      BY <2>2 DEF Slack
    <3>2. QED
      BY <3>1 DEF RxInv
  <2>3. QED
    BY <2>1, <2>2
<1>2. RxTypeOK'
  BY <1>1 DEF RxInv, RxTypeOK, Accounted, Counted
<1>3. QED
  BY <1>1, <1>2 DEF RxInv

LEMMA PushKeeps ==
    ASSUME RxInv, NEW p \in Participants, NEW wait \in Waits, NEW sequence \in 1 .. LastSeq[p],
           push(p, sequence, wait)
    PROVE  RxInv'
<1>1. sequence \in Nat /\ p \in DOMAIN stream /\ rendering = {}
  BY ReceiveAssumption DEF push, Unlocked
<1>2. stream'[p] = insert(stream[p], sequence, wait) /\ DOMAIN stream' = DOMAIN stream
      /\ \A q \in DOMAIN stream \ {p} : stream'[q] = stream[q]
  BY <1>1 DEF push
<1>3. Accounted(stream[p]) /\ Patient(stream[p], due, 0) /\ due \in Int
  BY <1>1 DEF RxInv, RxTypeOK, Slack
<1>4. sequence >= stream[p].expected /\ sequence \notin stream[p].pending
  BY DEF push
<1>5. Accounted(stream'[p]) /\ Patient(stream'[p], due, 0)
  BY <1>1, <1>2, <1>3, <1>4, InsertOK DEF Slacks
<1>6. rendering' = rendering /\ anyReady' = anyReady /\ playback' = playback /\ due' = due
  BY DEF push
<1>7. QED
  BY <1>1, <1>2, <1>5, <1>6, OneChanges DEF RxInv, RxTypeOK, Slack

LEMMA ElapseKeeps ==
    ASSUME RxInv, Elapse
    PROVE  RxInv'
<1>1. /\ DOMAIN stream' = DOMAIN stream /\ rendering = {} /\ rendering' = {}
      /\ anyReady' = anyReady /\ playback' = playback
      /\ \A p \in DOMAIN stream :
            stream'[p] = IF stream[p].gapped THEN [stream[p] EXCEPT !.age = @ + 1]
                         ELSE stream[p]
  BY DEF Elapse, Unlocked
<1>2. due \in Int /\ due' = due - 1 /\ due' \in -MaxLate .. SLOT
  BY ReceiveAssumption DEF Elapse, RxInv, RxTypeOK
<1>3. \A p \in DOMAIN stream : Accounted(stream[p]) /\ Patient(stream[p], due, 0)
  BY <1>1 DEF RxInv, Slack
<1>4. \A p \in DOMAIN stream : Accounted(stream'[p]) /\ Patient(stream'[p], due', 0)
  BY <1>1, <1>2, <1>3, ElapseOK
<1>5. RxTypeOK'
  BY <1>1, <1>2, <1>4 DEF RxInv, RxTypeOK, Accounted, Counted
<1>6. QED
  BY <1>1, <1>4, <1>5 DEF RxInv, Slack

LEMMA StartSlotKeeps ==
    ASSUME RxInv, StartSlot
    PROVE  RxInv'
<1>1. /\ stream' = stream /\ rendering = {} /\ rendering' = DOMAIN stream
      /\ anyReady' \in BOOLEAN /\ playback' = playback
      /\ due \in -MaxLate .. SLOT /\ due <= 0
  BY DEF StartSlot, Unlocked, RxInv, RxTypeOK
<1>2. due' \in -MaxLate .. SLOT /\ due' >= due + SLOT /\ due' >= -RESET
  BY <1>1, SlotOK DEF StartSlot
<1>3. \A p \in DOMAIN stream : Accounted(stream[p]) /\ Patient(stream[p], due, 0)
  BY <1>1 DEF RxInv, Slack
<1>4. \A p \in DOMAIN stream : Patient(stream[p], due', SLOT)
  BY <1>1, <1>2, <1>3, LaterOK
<1>5. RxTypeOK'
  BY <1>1, <1>2 DEF RxInv, RxTypeOK
<1>6. QED
  BY <1>1, <1>2, <1>3, <1>4, <1>5 DEF RxInv, Slack

LEMMA DecodeKeeps ==
    ASSUME RxInv, NEW p \in rendering, NEW frms \in PacketFrames, Decode(p, frms)
    PROVE  RxInv'
<1>1. frms \in Nat /\ p \in DOMAIN stream
  BY ReceiveAssumption DEF RxInv, RxTypeOK
<1>2. stream'[p] = pop_ready(stream[p], frms) /\ DOMAIN stream' = DOMAIN stream
      /\ \A q \in DOMAIN stream \ {p} : stream'[q] = stream[q]
  BY <1>1 DEF Decode
<1>3. Accounted(stream[p]) /\ stream[p].pending # {}
  BY <1>1 DEF RxInv, Decode, HasReady
<1>t. due \in Int
  BY DEF RxInv, RxTypeOK
<1>4. Accounted(stream'[p]) /\ Patient(stream'[p], due, SLOT)
  BY <1>1, <1>2, <1>3, <1>t, PopReadyOK DEF Slacks
<1>5. rendering' = rendering /\ anyReady' = anyReady /\ playback' = playback /\ due' = due
  BY DEF Decode
<1>6. QED
  BY <1>1, <1>2, <1>4, <1>5, OneChanges DEF RxInv, RxTypeOK, Slack

LEMMA PlayKeeps ==
    ASSUME RxInv, NEW p \in rendering, Play(p)
    PROVE  RxInv'
<1>1. p \in DOMAIN stream
  BY DEF RxInv, RxTypeOK
<1>2. /\ stream'[p] = PlayOut(CountBreak(StartWait(stream[p])))
      /\ DOMAIN stream' = DOMAIN stream
      /\ \A q \in DOMAIN stream \ {p} : stream'[q] = stream[q]
      /\ rendering' = rendering \ {p}
  BY <1>1 DEF Play
<1>3. /\ Accounted(stream[p]) /\ Patient(stream[p], due, SLOT)
      /\ stream[p].pcm > 0 \/ ~HasReady(stream[p])
  BY <1>1 DEF RxInv, Play, Slack
<1>t. due \in -RESET .. SLOT /\ due' = due
  BY ReceiveAssumption DEF RxInv, RxTypeOK, Play
<1>4. Accounted(stream'[p]) /\ Patient(stream'[p], due, 0)
  BY <1>2, <1>3, <1>t, PlayOK
<1>5. anyReady' \in BOOLEAN
  BY DEF Play, RxInv, RxTypeOK
<1>6. playback' \in 0 .. PLAYBACK_QUEUE
  <2>1. playback' \in {playback, Enqueue(playback)}
    BY DEF Play
  <2>2. playback \in 0 .. PLAYBACK_QUEUE /\ PLAYBACK_QUEUE \in Nat \ {0}
    BY ReceiveAssumption DEF RxInv, RxTypeOK
  <2>3. Enqueue(playback) \in 0 .. PLAYBACK_QUEUE
    BY <2>2 DEF Enqueue
  <2>4. QED
    BY <2>1, <2>2, <2>3
<1>7. QED
  BY <1>1, <1>2, <1>t, <1>4, <1>5, <1>6, OneChanges DEF Slack

LEMMA RxStep == RxInv /\ [RxNext]_rxVars => RxInv'
<1> SUFFICES ASSUME RxInv, [RxNext]_rxVars PROVE RxInv'
  OBVIOUS
<1>1. CASE play_samples \/ \E count \in 1 .. 4 : read_playback_pcm16(count)
  <2>1. UNCHANGED <<stream, rendering, anyReady, due>>
    BY <1>1 DEF play_samples, read_playback_pcm16
  <2>2. playback' \in 0 .. PLAYBACK_QUEUE
    BY <1>1, ReceiveAssumption DEF play_samples, read_playback_pcm16, RxInv, RxTypeOK
  <2>3. QED
    BY <2>1, <2>2 DEF RxInv, RxTypeOK, Slack
<1>2. CASE UNCHANGED rxVars
  BY <1>2 DEF rxVars, RxInv, RxTypeOK, Slack
<1>3. QED
  BY <1>1, <1>2, SetActiveKeeps, PushKeeps, ElapseKeeps, StartSlotKeeps,
     DecodeKeeps, PlayKeeps DEF RxNext

THEOREM ReceiveInvariant == RxSpec => []RxInv
BY RxInitOK, RxStep, PTL DEF RxSpec

(* push_packet and render: the streams of the participants and their jitter *)
(* buffers keep their types while participants come and go.                 *)
THEOREM ReceiveTypeCorrect == RxSpec => []RxTypeOK
<1>1. RxInv => RxTypeOK
  BY DEF RxInv
<1>2. QED
  BY <1>1, ReceiveInvariant, PTL

(* The jitter buffer loses count of no packet: each one below the next      *)
(* expected was played or counted lost by pop_ready or insert, none twice,  *)
(* and the buffer stays within MAX_BUFFERED_PACKETS.                        *)
THEOREM PacketsAreAccounted == RxSpec => []PacketsAccounted
<1>1. RxInv => PacketsAccounted
  BY DEF RxInv, PacketsAccounted, Accounted, Counted
<1>2. QED
  BY <1>1, ReceiveInvariant, PTL

(* With packets waiting, render leaves a participant silent for the slots   *)
(* of MAX_JITTER_WAIT in a row, and those decode_loop catches up with when  *)
(* it is late, whatever is lost, whatever arrives and whenever it runs.     *)
THEOREM HolesNeverStall == RxSpec => []NoStall
<1>1. RxInv => NoStall
  BY DEF RxInv, NoStall, Patient, Still
<1>2. QED
  BY <1>1, ReceiveInvariant, PTL

-----------------------------------------------------------------------------
(* TorIncoming: the map of readers and the bytes that wait.                 *)

Distinct(a) == \A i, j \in 1 .. Len(a) : a[i] = a[j] => i = j

(* Each reader at work has one slot, and no slot is another's.              *)
SlotsOK ==
    /\ active \in Seq(Streams) /\ Distinct(active)
    /\ Len(active) <= MAX_INCOMING_STREAMS
    /\ reader \in [Streams -> {"new", "reading", "read", "ending", "gone"}]
    /\ \A i \in 1 .. Len(active) : reader[active[i]] \in {"reading", "read", "ending"}
    /\ \A s \in Streams : reader[s] \in {"reading", "read"} => Contains(active, s)

(* The count is that of the frames in the queue.                            *)
BytesOK ==
    /\ events \in Seq(FrameSizes \cup {0}) /\ Len(events) <= MaxEvents
    /\ frame_bytes = Total(events, 1 .. Len(events))
    /\ frame_bytes <= MAX_QUEUED_FRAME_BYTES

InInv == SlotsOK /\ BytesOK

(* Without s, each other stream keeps its one place.                        *)
LEMMA RemoveFirstFacts ==
    ASSUME NEW a \in Seq(Streams), Distinct(a), NEW s \in Streams
    PROVE  /\ RemoveFirst(a, s) \in Seq(Streams) /\ Distinct(RemoveFirst(a, s))
           /\ Len(RemoveFirst(a, s)) \in Nat
           /\ Len(RemoveFirst(a, s)) = IF Contains(a, s) THEN Len(a) - 1 ELSE Len(a)
           /\ \A x \in Streams : Contains(RemoveFirst(a, s), x) <=> Contains(a, x) /\ x # s
<1> DEFINE n == Len(a)
<1>1. n \in Nat /\ \A i \in 1 .. n : a[i] \in Streams
  OBVIOUS
<1>2. CASE ~Contains(a, s)
  <2>1. RemoveFirst(a, s) = a
    BY <1>2 DEF Contains, RemoveFirst
  <2>2. QED
    BY <1>1, <1>2, <2>1
<1>3. CASE Contains(a, s)
  <2>1. PICK k \in 1 .. n : a[k] = s
    BY <1>3 DEF Contains
  <2>2. SelectInSeq(a, LAMBDA v : v = s) = k
    <3> DEFINE I == {i \in 1 .. n : a[i] = s}
    <3>1. I = {k}
      BY <2>1 DEF Distinct
    <3>2. k <= k
      BY <1>1
    <3>3. Min({k}) = k
      BY <3>2 DEF Min
    <3>4. I # {}
      BY <3>1
    <3>5. SelectInSeq(a, LAMBDA v : v = s) = IF I # {} THEN Min(I) ELSE 0
      BY DEF SelectInSeq
    <3> HIDE DEF I
    <3>6. QED
      BY <3>1, <3>3, <3>4, <3>5
  <2> DEFINE left == SubSeq(a, 1, k - 1)
             right == SubSeq(a, k + 1, n)
             b == left \o right
  <2>3. RemoveFirst(a, s) = b
    <3>1. RemoveFirst(a, s) = RemoveAt(a, SelectInSeq(a, LAMBDA v : v = s))
      BY <1>3 DEF Contains, RemoveFirst
    <3>2. RemoveAt(a, k) = b
      BY DEF RemoveAt
    <3>3. QED
      BY <2>2, <3>1, <3>2
  <2>4. k \in Nat /\ 1 <= k /\ k <= n /\ k - 1 \in Int /\ k + 1 \in Int
    BY <1>1
  <2>5. /\ left \in Seq(Streams) /\ Len(left) = k - 1
        /\ \A i \in 1 .. k - 1 : left[i] = a[i]
    <3>1. \A i \in 1 .. k - 1 : a[i] \in Streams
      BY <1>1, <2>4
    <3>2. /\ left \in Seq(Streams)
          /\ Len(left) = IF 1 <= k - 1 THEN (k - 1) - 1 + 1 ELSE 0
          /\ \A i \in 1 .. (k - 1) - 1 + 1 : left[i] = a[1 + i - 1]
      BY <2>4, <3>1, SubSeqProperties
    <3>3. Len(left) = k - 1
      BY <2>4, <3>2
    <3>4. ASSUME NEW i \in 1 .. k - 1 PROVE left[i] = a[i]
      <4>1. i \in 1 .. (k - 1) - 1 + 1 /\ 1 + i - 1 = i
        BY <2>4
      <4>2. QED
        BY <3>2, <4>1
    <3>5. QED
      BY <3>2, <3>3, <3>4
  <2>6. /\ right \in Seq(Streams) /\ Len(right) = n - k
        /\ \A i \in 1 .. n - k : right[i] = a[k + i]
    <3>1. \A i \in k + 1 .. n : a[i] \in Streams
      BY <1>1, <2>4
    <3>2. n \in Int
      BY <1>1
    <3> HIDE DEF n
    <3>3. /\ right \in Seq(Streams)
          /\ Len(right) = IF k + 1 <= n THEN n - (k + 1) + 1 ELSE 0
          /\ \A i \in 1 .. n - (k + 1) + 1 : right[i] = a[(k + 1) + i - 1]
      <4>1. k + 1 \in Int
        BY <2>4
      <4>2. QED
        BY <3>1, <3>2, <4>1, SubSeqProperties
    <3>4. Len(right) = n - k
      BY <1>1, <2>4, <3>3
    <3>5. ASSUME NEW i \in 1 .. n - k PROVE right[i] = a[k + i]
      <4>1. i \in 1 .. n - (k + 1) + 1 /\ (k + 1) + i - 1 = k + i
        BY <1>1, <2>4
      <4>2. QED
        BY <3>3, <4>1
    <3>6. QED
      BY <3>3, <3>4, <3>5
  <2> HIDE DEF left, right
  <2>7. /\ b \in Seq(Streams) /\ Len(b) = Len(left) + Len(right)
        /\ \A i \in 1 .. Len(left) + Len(right) :
              b[i] = IF i <= Len(left) THEN left[i] ELSE right[i - Len(left)]
    BY <2>5, <2>6, ConcatProperties
  <2> DEFINE at(i) == IF i < k THEN i ELSE i + 1
  <2>8. Len(b) = n - 1 /\ \A i \in 1 .. n - 1 : at(i) \in 1 .. n /\ at(i) # k /\ b[i] = a[at(i)]
    <3>1. Len(b) = n - 1
      BY <1>1, <2>4, <2>5, <2>6, <2>7
    <3>2. ASSUME NEW i \in 1 .. n - 1
          PROVE  at(i) \in 1 .. n /\ at(i) # k /\ b[i] = a[at(i)]
      <4>1. at(i) \in 1 .. n /\ at(i) # k
        BY <1>1, <2>4
      <4>2. CASE i < k
        <5>1. i \in 1 .. Len(left) + Len(right) /\ i <= Len(left) /\ i \in 1 .. k - 1 /\ at(i) = i
          BY <1>1, <2>4, <2>5, <2>6, <4>2
        <5>2. QED
          BY <2>5, <2>7, <4>1, <5>1
      <4>3. CASE ~(i < k)
        <5>1. /\ i \in 1 .. Len(left) + Len(right) /\ ~(i <= Len(left))
              /\ i - Len(left) \in 1 .. n - k /\ k + (i - Len(left)) = at(i)
          <6>1. Len(left) = k - 1 /\ Len(right) = n - k /\ at(i) = i + 1 /\ n \in Nat
            BY <1>1, <2>5, <2>6, <4>3
          <6> HIDE DEF at, n
          <6>2. QED
            BY <2>4, <4>3, <6>1
        <5>2. b[i] = right[i - Len(left)]
          BY <2>7, <5>1
        <5>3. right[i - Len(left)] = a[k + (i - Len(left))]
          BY <2>6, <5>1
        <5>4. QED
          BY <4>1, <5>1, <5>2, <5>3
      <4>4. QED
        BY <4>2, <4>3
    <3>3. QED
      BY <3>1, <3>2
  <2> HIDE DEF b
  <2>9. \A i, j \in 1 .. n - 1 : at(i) = at(j) => i = j
    BY <2>4
  <2>10. \A m \in 1 .. n : m # k => \E i \in 1 .. n - 1 : at(i) = m
    <3>1. ASSUME NEW m \in 1 .. n, m # k
          PROVE  \E i \in 1 .. n - 1 : at(i) = m
      <4>1. CASE m < k
        <5>1. m \in 1 .. n - 1 /\ at(m) = m
          BY <1>1, <2>4, <4>1
        <5>2. QED
          BY <5>1
      <4>2. CASE ~(m < k)
        <5>1. m - 1 \in 1 .. n - 1 /\ at(m - 1) = m
          BY <1>1, <2>4, <3>1, <4>2
        <5>2. QED
          BY <5>1
      <4>3. QED
        BY <4>1, <4>2
    <3>2. QED
      BY <3>1
  <2> HIDE DEF at
  <2>11. Distinct(b)
    BY <2>8, <2>9 DEF Distinct
  <2>12. ASSUME NEW x \in Streams
         PROVE  Contains(b, x) <=> Contains(a, x) /\ x # s
    <3>1. ASSUME NEW i \in 1 .. n - 1, b[i] = x PROVE Contains(a, x) /\ x # s
      <4>1. at(i) \in 1 .. n /\ at(i) # k /\ a[at(i)] = x
        BY <2>8, <3>1
      <4>2. QED
        BY <2>1, <4>1 DEF Contains, Distinct
    <3>2. ASSUME NEW m \in 1 .. n, a[m] = x, x # s PROVE Contains(b, x)
      <4>1. m # k
        BY <2>1, <3>2
      <4>2. PICK i \in 1 .. n - 1 : at(i) = m
        BY <2>10, <4>1
      <4>3. b[i] = x
        BY <2>8, <3>2, <4>2
      <4>4. QED
        BY <2>8, <4>3 DEF Contains
    <3>3. QED
      BY <2>8, <3>1, <3>2 DEF Contains
  <2>13. Len(b) \in Nat /\ Len(b) = n - 1
    BY <1>1, <2>4, <2>8
  <2>14. QED
    BY <1>3, <2>3, <2>7, <2>11, <2>12, <2>13
<1>4. QED
  BY <1>2, <1>3

(* A stream more, at the end.                                               *)
LEMMA AppendSlot ==
    ASSUME NEW a \in Seq(Streams), Distinct(a), NEW s \in Streams, ~Contains(a, s)
    PROVE  /\ Append(a, s) \in Seq(Streams) /\ Distinct(Append(a, s))
           /\ Len(Append(a, s)) = Len(a) + 1
           /\ \A x \in Streams : Contains(Append(a, s), x) <=> Contains(a, x) \/ x = s
<1> DEFINE b == Append(a, s)
           n == Len(a)
<1>1. /\ b \in Seq(Streams) /\ Len(b) = n + 1 /\ n \in Nat
      /\ \A i \in 1 .. n : b[i] = a[i]
      /\ b[n + 1] = s
  BY AppendProperties
<1> HIDE DEF b
<1>2. \A i \in 1 .. n + 1 : i \in 1 .. n \/ i = n + 1
  BY <1>1
<1>3. Distinct(b)
  BY <1>1, <1>2 DEF Distinct, Contains
<1>4. ASSUME NEW x \in Streams PROVE Contains(b, x) <=> Contains(a, x) \/ x = s
  <2>1. \A i \in 1 .. n : i \in 1 .. n + 1
    BY <1>1
  <2>2. n + 1 \in 1 .. n + 1
    BY <1>1
  <2>3. QED
    BY <1>1, <1>2, <2>1, <2>2 DEF Contains
<1>5. QED
  BY <1>1, <1>3, <1>4 DEF b

(* Without the first.                                                       *)
LEMMA TailSlots ==
    ASSUME NEW a \in Seq(Streams), Distinct(a), Len(a) > 0
    PROVE  /\ Tail(a) \in Seq(Streams) /\ Distinct(Tail(a)) /\ Head(a) \in Streams
           /\ Len(Tail(a)) = Len(a) - 1
           /\ \A x \in Streams : Contains(Tail(a), x) <=> Contains(a, x) /\ x # Head(a)
<1> DEFINE b == Tail(a)
           n == Len(a)
<1>1. a # <<>> /\ n \in Nat /\ n > 0 /\ Head(a) = a[1]
  OBVIOUS
<1>2. /\ b \in Seq(Streams) /\ Len(b) = n - 1 /\ Head(a) \in Streams
      /\ \A i \in 1 .. n - 1 : b[i] = a[i + 1]
  BY <1>1, HeadTailProperties
<1> HIDE DEF b
<1>3. \A i \in 1 .. n - 1 : i + 1 \in 1 .. n /\ i + 1 # 1
  BY <1>1
<1>4. \A i \in 1 .. n : i = 1 \/ (i - 1 \in 1 .. n - 1 /\ i = (i - 1) + 1)
  BY <1>1
<1>5. 1 \in 1 .. n
  BY <1>1
<1>6. Distinct(b)
  <2>1. ASSUME NEW i \in 1 .. n - 1, NEW j \in 1 .. n - 1, b[i] = b[j] PROVE i = j
    <3>1. i + 1 = j + 1
      BY <1>2, <1>3, <2>1 DEF Distinct
    <3>2. QED
      BY <3>1
  <2>2. QED
    BY <1>2, <2>1 DEF Distinct
<1>7. ASSUME NEW x \in Streams PROVE Contains(b, x) <=> Contains(a, x) /\ x # Head(a)
  <2>1. ASSUME NEW i \in 1 .. n - 1, b[i] = x PROVE Contains(a, x) /\ x # Head(a)
    <3>1. a[i + 1] = x /\ i + 1 \in 1 .. n /\ i + 1 # 1
      BY <1>2, <1>3, <2>1
    <3>2. QED
      BY <1>1, <1>5, <3>1 DEF Contains, Distinct
  <2>2. ASSUME NEW i \in 1 .. n, a[i] = x, x # Head(a) PROVE Contains(b, x)
    <3>1. i # 1
      BY <1>1, <2>2
    <3>2. i - 1 \in 1 .. n - 1 /\ b[i - 1] = x
      <4>1. i - 1 \in 1 .. n - 1 /\ (i - 1) + 1 = i
        BY <1>4, <3>1
      <4>2. b[i - 1] = a[(i - 1) + 1]
        BY <1>2, <4>1
      <4>3. QED
        BY <2>2, <4>1, <4>2
    <3>3. QED
      BY <1>2, <3>2 DEF Contains
  <2>3. QED
    BY <1>2, <2>1, <2>2 DEF Contains
<1>8. QED
  BY <1>2, <1>6, <1>7 DEF b

LEMMA TotalSame ==
    ASSUME NEW S, IsFiniteSet(S), NEW w, NEW v, \A x \in S : w[x] = v[x] /\ v[x] \in Nat
    PROVE  Total(w, S) = Total(v, S)
<1>1. (\A x \in S : w[x] \in Nat) /\ (\A x \in S : v[x] \in Nat)
  OBVIOUS
<1>2. Total(w, S) \in Nat /\ Total(v, S) \in Nat
  BY <1>1, TotalType
<1>3. S \in SUBSET S
  OBVIOUS
<1>4. Total(w, S) <= Total(v, S)
  <2>1. \A x \in S : w[x] \in Nat /\ w[x] <= v[x]
    OBVIOUS
  <2>2. QED
    BY <1>1, <1>3, <2>1, TotalSubset
<1>5. Total(v, S) <= Total(w, S)
  <2>1. \A x \in S : v[x] \in Nat /\ v[x] <= w[x]
    OBVIOUS
  <2>2. QED
    BY <1>1, <1>3, <2>1, TotalSubset
<1>6. QED
  BY <1>2, <1>4, <1>5

(* A queue with one more, and without its first.                            *)
LEMMA TotalAppend ==
    ASSUME NEW e \in Seq(Nat), NEW x \in Nat
    PROVE  /\ Total(Append(e, x), 1 .. Len(Append(e, x))) = Total(e, 1 .. Len(e)) + x
           /\ Total(e, 1 .. Len(e)) \in Nat
<1> DEFINE n == Len(e)
           S == 1 .. n
           f == Append(e, x)
<1>1. /\ n \in Nat /\ Len(f) = n + 1 /\ f[n + 1] = x
      /\ \A i \in S : f[i] = e[i] /\ e[i] \in Nat
  BY AppendProperties
<1> HIDE DEF f, n
<1>2. IsFiniteSet(S) /\ n + 1 \notin S /\ 1 .. n + 1 = S \cup {n + 1}
  <2>1. n \in Int /\ 1 \in Int
    BY <1>1
  <2>2. IsFiniteSet(S)
    BY <2>1, FS_Interval
  <2>3. n + 1 \notin S /\ 1 .. n + 1 = S \cup {n + 1}
    BY <1>1
  <2>4. QED
    BY <2>2, <2>3
<1> HIDE DEF S
<1>3. Total(f, S) = Total(e, S)
  BY <1>1, <1>2, TotalSame
<1>4. Total(f, S \cup {n + 1}) = Total(f, S) + f[n + 1]
  <2> DEFINE m == n + 1
  <2>1. (\A y \in S \cup {m} : f[y] \in Nat) /\ m \notin S
    BY <1>1, <1>2
  <2> HIDE DEF m
  <2>2. Total(f, S \cup {m}) = Total(f, S) + f[m]
    BY <1>2, <2>1, TotalAdd
  <2>3. QED
    BY <2>2 DEF m
<1>5. Total(e, S) \in Nat
  BY <1>1, <1>2, TotalType
<1>6. QED
  BY <1>1, <1>2, <1>3, <1>4, <1>5 DEF f, n, S

LEMMA TotalTail ==
    ASSUME NEW e \in Seq(Nat), e # <<>>
    PROVE  /\ Total(e, 1 .. Len(e)) = Total(Tail(e), 1 .. Len(Tail(e))) + Head(e)
           /\ Total(Tail(e), 1 .. Len(Tail(e))) \in Nat /\ Head(e) \in Nat
<1> DEFINE n == Len(e)
           S == 2 .. n
           T == 1 .. n - 1
           f == Tail(e)
<1>1. /\ n \in Nat /\ n > 0 /\ Len(f) = n - 1 /\ Head(e) = e[1] /\ e[1] \in Nat
      /\ \A i \in T : f[i] = e[i + 1]
      /\ \A i \in 1 .. n : e[i] \in Nat
  BY HeadTailProperties
<1> HIDE DEF f, n
<1>2. IsFiniteSet(S) /\ IsFiniteSet(T) /\ 1 \notin S /\ 1 .. n = S \cup {1}
  <2>1. n \in Int /\ 1 \in Int /\ 2 \in Int /\ n - 1 \in Int
    BY <1>1
  <2>2. IsFiniteSet(S) /\ IsFiniteSet(T)
    BY <2>1, FS_Interval
  <2>3. 1 \notin S /\ 1 .. n = S \cup {1}
    BY <1>1
  <2>4. QED
    BY <2>2, <2>3
<1>3. /\ \A i \in T : i + 1 \in S
      /\ \A i \in S : i - 1 \in T /\ (i - 1) + 1 = i /\ e[i] \in Nat
  BY <1>1
<1>4. \A i \in T : f[i] \in Nat
  BY <1>1, <1>3
<1>5. Total(e, S \cup {1}) = Total(e, S) + e[1]
  <2>1. \A y \in S \cup {1} : e[y] \in Nat
    BY <1>1, <1>3
  <2>2. QED
    BY <1>2, <2>1, TotalAdd
<1>6. Total(e, S) \in Nat /\ Total(f, T) \in Nat
  <2> HIDE DEF S, T
  <2>1. QED
    BY <1>2, <1>3, <1>4, TotalType
<1>7. Total(e, S) <= Total(f, T)
  <2> DEFINE h == [i \in S |-> i - 1]
  <2>1. h \in [S -> T] /\ \A i, j \in S : h[i] = h[j] => i = j
    BY <1>1
  <2>2. \A i \in S : e[i] <= f[h[i]]
    <3>1. ASSUME NEW i \in S PROVE e[i] = f[h[i]] /\ e[i] \in Nat
      BY <1>1, <1>3
    <3>2. QED
      BY <3>1
  <2>3. \A i \in S : e[i] \in Nat
    BY <1>3
  <2> HIDE DEF h, S, T
  <2>4. QED
    BY <1>2, <1>4, <2>1, <2>2, <2>3, TotalMap
<1>8. Total(f, T) <= Total(e, S)
  <2> DEFINE h == [i \in T |-> i + 1]
  <2>1. h \in [T -> S] /\ \A i, j \in T : h[i] = h[j] => i = j
    BY <1>1
  <2>2. \A i \in T : f[i] <= e[h[i]]
    <3>1. ASSUME NEW i \in T PROVE f[i] = e[h[i]] /\ f[i] \in Nat
      BY <1>1, <1>4
    <3>2. QED
      BY <3>1
  <2>3. \A i \in S : e[i] \in Nat
    BY <1>3
  <2> HIDE DEF h, S, T
  <2>4. QED
    BY <1>2, <1>4, <2>1, <2>2, <2>3, TotalMap
<1> HIDE DEF S, T
<1>9. Total(e, 1 .. n) = Total(f, T) + Head(e)
  <2>1. Total(e, 1 .. n) = Total(e, S) + e[1]
    BY <1>2, <1>5
  <2>2. Total(e, S) = Total(f, T)
    BY <1>6, <1>7, <1>8
  <2>3. QED
    BY <1>1, <2>1, <2>2
<1>10. QED
  BY <1>1, <1>6, <1>9 DEF f, n, T

(* No more streams than slots.                                              *)
LEMMA SlotsBound ==
    ASSUME NEW a \in Seq(Streams), NEW T \in SUBSET Streams, \A s \in T : Contains(a, s)
    PROVE  Cardinality(T) <= Len(a)
<1> DEFINE n == Len(a)
           R == {a[i] : i \in 1 .. n}
<1>1. n \in Nat /\ IsFiniteSet(1 .. n) /\ Cardinality(1 .. n) = n
  <2>1. n \in Nat /\ n \in Int /\ 1 \in Int
    OBVIOUS
  <2> HIDE DEF n
  <2>2. IsFiniteSet(1 .. n) /\ Cardinality(1 .. n) = IF 1 > n THEN 0 ELSE n - 1 + 1
    BY <2>1, FS_Interval
  <2>3. QED
    BY <2>1, <2>2
<1>2. a \in Surjection(1 .. n, R)
  BY DEF Surjection
<1>3. IsFiniteSet(R) /\ Cardinality(R) <= Cardinality(1 .. n)
  BY <1>1, <1>2, FS_Surjection
<1>4. T \in SUBSET R
  BY DEF Contains
<1>5. /\ Cardinality(T) <= Cardinality(R) /\ IsFiniteSet(T)
      /\ Cardinality(T) \in Nat /\ Cardinality(R) \in Nat
  BY <1>3, <1>4, FS_Subset, FS_CardinalityType
<1>6. QED
  BY <1>1, <1>3, <1>5

LEMMA InTypes ==
    /\ MAX_INCOMING_STREAMS \in Nat \ {0} /\ MAX_QUEUED_FRAME_BYTES \in Nat
    /\ MaxEvents \in Nat /\ FrameSizes \cup {0} \subseteq Nat
  BY IncomingAssumption

LEMMA AcceptStep ==
    ASSUME InInv, NEW s \in Streams, Accept(s)
    PROVE  InInv'
<1> USE DEF InInv
<1> DEFINE room == Len(active) < MAX_INCOMING_STREAMS
           kept == IF room THEN active ELSE Tail(active)
           rest == IF room THEN reader ELSE [reader EXCEPT ![Head(active)] = "gone"]
<1>1. /\ reader[s] = "new" /\ active' = Append(kept, s)
      /\ reader' = [rest EXCEPT ![s] = "reading"]
      /\ UNCHANGED <<events, frame_bytes>>
  BY DEF Accept, MakeRoom
<1>2. Len(active) \in Nat /\ active \in Seq(Streams) /\ Distinct(active)
      /\ Len(active) <= MAX_INCOMING_STREAMS
      /\ reader \in [Streams -> {"new", "reading", "read", "ending", "gone"}]
  BY DEF SlotsOK
<1>3. \A x \in Streams : Contains(active, x) => reader[x] \in {"reading", "read", "ending"}
  BY DEF SlotsOK, Contains
<1>4. \A x \in Streams : reader[x] \in {"reading", "read"} => Contains(active, x)
  BY DEF SlotsOK
<1>5. /\ kept \in Seq(Streams) /\ Distinct(kept) /\ Len(kept) < MAX_INCOMING_STREAMS
      /\ Len(kept) \in Nat
      /\ rest \in [Streams -> {"new", "reading", "read", "ending", "gone"}]
      /\ \A x \in Streams : Contains(kept, x) => rest[x] \in {"reading", "read", "ending"}
      /\ \A x \in Streams : rest[x] \in {"reading", "read"} => Contains(kept, x)
      /\ ~Contains(kept, s)
  <2>1. CASE room
    BY <1>1, <1>2, <1>3, <1>4, <2>1, InTypes
  <2>2. CASE ~room
    <3>1. Len(active) > 0 /\ kept = Tail(active)
          /\ rest = [reader EXCEPT ![Head(active)] = "gone"]
      BY <1>2, <2>2, InTypes
    <3>2. \A a \in Seq(Streams) : Distinct(a) /\ Len(a) > 0
             => /\ Tail(a) \in Seq(Streams) /\ Distinct(Tail(a)) /\ Head(a) \in Streams
                /\ Len(Tail(a)) = Len(a) - 1
                /\ \A x \in Streams : Contains(Tail(a), x) <=> Contains(a, x) /\ x # Head(a)
      BY TailSlots
    <3>3. /\ kept \in Seq(Streams) /\ Distinct(kept) /\ Head(active) \in Streams
          /\ Len(kept) = Len(active) - 1
          /\ \A x \in Streams : Contains(kept, x) <=> Contains(active, x) /\ x # Head(active)
      BY <1>2, <3>1, <3>2
    <3> HIDE DEF kept, rest, room
    <3>4. Len(kept) \in Nat /\ Len(kept) < MAX_INCOMING_STREAMS
      BY <1>2, <3>1, <3>3, InTypes
    <3>5. rest \in [Streams -> {"new", "reading", "read", "ending", "gone"}]
      BY <1>2, <3>1, <3>3
    <3>6. \A x \in Streams : rest[x] = IF x = Head(active) THEN "gone" ELSE reader[x]
      BY <1>2, <3>1, <3>3
    <3>7. QED
      BY <1>1, <1>3, <1>4, <3>3, <3>4, <3>5, <3>6
  <2>3. QED
    BY <2>1, <2>2
<1> HIDE DEF kept, rest, room
<1>6. \A a \in Seq(Streams) : \A x \in Streams : Distinct(a) /\ ~Contains(a, x)
         => /\ Append(a, x) \in Seq(Streams) /\ Distinct(Append(a, x))
            /\ Len(Append(a, x)) = Len(a) + 1
            /\ \A y \in Streams : Contains(Append(a, x), y) <=> Contains(a, y) \/ y = x
  BY AppendSlot
<1>7. /\ active' \in Seq(Streams) /\ Distinct(active')
      /\ Len(active') = Len(kept) + 1
      /\ \A y \in Streams : Contains(active', y) <=> Contains(kept, y) \/ y = s
  BY <1>1, <1>5, <1>6
<1>8. reader' \in [Streams -> {"new", "reading", "read", "ending", "gone"}]
      /\ \A x \in Streams : reader'[x] = IF x = s THEN "reading" ELSE rest[x]
  BY <1>1, <1>5
<1>9. /\ \A x \in Streams : Contains(active', x) => reader'[x] \in {"reading", "read", "ending"}
      /\ \A x \in Streams : reader'[x] \in {"reading", "read"} => Contains(active', x)
  BY <1>5, <1>7, <1>8
<1>10. Len(active') <= MAX_INCOMING_STREAMS
  BY <1>5, <1>7, InTypes
<1>11. \A i \in 1 .. Len(active') : reader'[active'[i]] \in {"reading", "read", "ending"}
  <2>1. ASSUME NEW i \in 1 .. Len(active') PROVE reader'[active'[i]] \in {"reading", "read", "ending"}
    <3>1. active'[i] \in Streams /\ Contains(active', active'[i])
      BY <1>7 DEF Contains
    <3>2. QED
      BY <1>9, <3>1
  <2>2. QED
    BY <2>1
<1>12. SlotsOK'
  BY <1>7, <1>8, <1>9, <1>10, <1>11 DEF SlotsOK
<1>13. BytesOK'
  BY <1>1 DEF BytesOK
<1>14. QED
  BY <1>12, <1>13

(* Steps that leave the slots alone but for one reader that goes on.        *)
LEMMA ReaderStep ==
    ASSUME SlotsOK, NEW s \in Streams, NEW to \in {"reading", "read", "ending"},
           reader[s] \in {"reading", "read"}, reader' = [reader EXCEPT ![s] = to],
           active' = active
    PROVE  SlotsOK'
<1>1. /\ reader' \in [Streams -> {"new", "reading", "read", "ending", "gone"}]
      /\ \A x \in Streams : reader'[x] = IF x = s THEN to ELSE reader[x]
  BY DEF SlotsOK
<1>2. \A i \in 1 .. Len(active) : active[i] \in Streams
  BY DEF SlotsOK
<1>3. QED
  BY <1>1, <1>2 DEF SlotsOK

LEMMA HeardStep ==
    ASSUME InInv, NEW s \in Streams, Heard(s)
    PROVE  InInv'
<1> USE DEF InInv
<1> DEFINE left == RemoveFirst(active, s)
<1>1. /\ reader[s] = "read" /\ reader' = [reader EXCEPT ![s] = "reading"]
      /\ UNCHANGED <<events, frame_bytes>>
      /\ active' = IF Contains(active, s) THEN Append(left, s) ELSE active
  BY DEF Heard
<1>2. /\ active \in Seq(Streams) /\ Distinct(active) /\ Len(active) \in Nat
      /\ Len(active) <= MAX_INCOMING_STREAMS /\ Contains(active, s)
  BY <1>1 DEF SlotsOK
<1>3. \A a \in Seq(Streams) : \A x \in Streams : Distinct(a)
         => /\ RemoveFirst(a, x) \in Seq(Streams) /\ Distinct(RemoveFirst(a, x))
            /\ Len(RemoveFirst(a, x)) = IF Contains(a, x) THEN Len(a) - 1 ELSE Len(a)
            /\ \A y \in Streams : Contains(RemoveFirst(a, x), y) <=> Contains(a, y) /\ y # x
  BY RemoveFirstFacts
<1>4. \A a \in Seq(Streams) : \A x \in Streams : Distinct(a) /\ ~Contains(a, x)
         => /\ Append(a, x) \in Seq(Streams) /\ Distinct(Append(a, x))
            /\ Len(Append(a, x)) = Len(a) + 1
            /\ \A y \in Streams : Contains(Append(a, x), y) <=> Contains(a, y) \/ y = x
  BY AppendSlot
<1>5. /\ left \in Seq(Streams) /\ Distinct(left) /\ Len(left) = Len(active) - 1
      /\ \A y \in Streams : Contains(left, y) <=> Contains(active, y) /\ y # s
  BY <1>2, <1>3
<1> HIDE DEF left
<1>6. /\ active' \in Seq(Streams) /\ Distinct(active') /\ Len(active') = Len(left) + 1
      /\ \A y \in Streams : Contains(active', y) <=> Contains(left, y) \/ y = s
  BY <1>1, <1>2, <1>4, <1>5
<1>7. Len(active') <= MAX_INCOMING_STREAMS
  BY <1>2, <1>5, <1>6
<1>8. \A y \in Streams : Contains(active', y) <=> Contains(active, y)
  BY <1>2, <1>5, <1>6
<1>9. /\ reader' \in [Streams -> {"new", "reading", "read", "ending", "gone"}]
      /\ \A x \in Streams : reader'[x] = IF x = s THEN "reading" ELSE reader[x]
  BY <1>1 DEF SlotsOK
<1>10. ASSUME NEW i \in 1 .. Len(active')
       PROVE  reader'[active'[i]] \in {"reading", "read", "ending"}
  <2>1. active'[i] \in Streams /\ Contains(active', active'[i])
    BY <1>6 DEF Contains
  <2>2. reader[active'[i]] \in {"reading", "read", "ending"}
    BY <1>8, <2>1 DEF SlotsOK, Contains
  <2>3. QED
    BY <1>9, <2>1, <2>2
<1>11. \A x \in Streams : reader'[x] \in {"reading", "read"} => Contains(active', x)
  BY <1>2, <1>8, <1>9 DEF SlotsOK
<1>12. SlotsOK'
  BY <1>6, <1>7, <1>9, <1>10, <1>11 DEF SlotsOK
<1>13. BytesOK'
  BY <1>1 DEF BytesOK
<1>14. QED
  BY <1>12, <1>13

LEMMA UntrackStep ==
    ASSUME InInv, NEW s \in Streams, Untrack(s)
    PROVE  InInv'
<1> USE DEF InInv
<1>1. /\ reader[s] = "ending" /\ reader' = [reader EXCEPT ![s] = "gone"]
      /\ UNCHANGED <<events, frame_bytes>> /\ active' = RemoveFirst(active, s)
  BY DEF Untrack
<1>2. /\ active \in Seq(Streams) /\ Distinct(active) /\ Len(active) \in Nat
      /\ Len(active) <= MAX_INCOMING_STREAMS
  BY DEF SlotsOK
<1>3. \A a \in Seq(Streams) : \A x \in Streams : Distinct(a)
         => /\ RemoveFirst(a, x) \in Seq(Streams) /\ Distinct(RemoveFirst(a, x))
            /\ Len(RemoveFirst(a, x)) = IF Contains(a, x) THEN Len(a) - 1 ELSE Len(a)
            /\ \A y \in Streams : Contains(RemoveFirst(a, x), y) <=> Contains(a, y) /\ y # x
  BY RemoveFirstFacts
<1>4. /\ active' \in Seq(Streams) /\ Distinct(active')
      /\ Len(active') = IF Contains(active, s) THEN Len(active) - 1 ELSE Len(active)
      /\ \A y \in Streams : Contains(active', y) <=> Contains(active, y) /\ y # s
  BY <1>1, <1>2, <1>3
<1>5. Len(active') <= MAX_INCOMING_STREAMS
  BY <1>2, <1>4, InTypes
<1>6. /\ reader' \in [Streams -> {"new", "reading", "read", "ending", "gone"}]
      /\ \A x \in Streams : reader'[x] = IF x = s THEN "gone" ELSE reader[x]
  BY <1>1 DEF SlotsOK
<1>7. ASSUME NEW i \in 1 .. Len(active')
      PROVE  reader'[active'[i]] \in {"reading", "read", "ending"}
  <2>1. active'[i] \in Streams /\ Contains(active', active'[i])
    BY <1>4 DEF Contains
  <2>2. reader[active'[i]] \in {"reading", "read", "ending"} /\ active'[i] # s
    BY <1>4, <2>1 DEF SlotsOK, Contains
  <2>3. QED
    BY <1>6, <2>1, <2>2
<1>8. \A x \in Streams : reader'[x] \in {"reading", "read"} => Contains(active', x)
  BY <1>4, <1>6 DEF SlotsOK
<1>9. SlotsOK'
  BY <1>4, <1>5, <1>6, <1>7, <1>8 DEF SlotsOK
<1>10. BytesOK'
  BY <1>1 DEF BytesOK
<1>11. QED
  BY <1>9, <1>10

(* The queue with one event more.                                           *)
LEMMA PushStep ==
    ASSUME BytesOK, NEW size \in FrameSizes \cup {0}, Len(events) < MaxEvents,
           events' = Append(events, size), frame_bytes' = frame_bytes + size,
           frame_bytes + size <= MAX_QUEUED_FRAME_BYTES
    PROVE  BytesOK'
<1>1. /\ events \in Seq(FrameSizes \cup {0}) /\ Len(events) \in Nat
      /\ frame_bytes = Total(events, 1 .. Len(events))
  BY DEF BytesOK
<1>2. events' \in Seq(FrameSizes \cup {0}) /\ Len(events') = Len(events) + 1
  BY <1>1, AppendProperties
<1>3. events \in Seq(Nat) /\ size \in Nat
  <2>1. \A i \in 1 .. Len(events) : events[i] \in Nat
    BY <1>1, InTypes
  <2>2. QED
    BY <1>1, <2>1, InTypes
<1>4. \A e \in Seq(Nat) : \A x \in Nat :
         Total(Append(e, x), 1 .. Len(Append(e, x))) = Total(e, 1 .. Len(e)) + x
  BY TotalAppend
<1>5. Total(events', 1 .. Len(events')) = Total(events, 1 .. Len(events)) + size
  BY <1>3, <1>4
<1>6. Len(events') <= MaxEvents
  BY <1>1, <1>2, InTypes
<1>7. QED
  BY <1>1, <1>2, <1>5, <1>6 DEF BytesOK

LEMMA TakeStep ==
    ASSUME BytesOK, next_event
    PROVE  BytesOK'
<1>1. /\ events \in Seq(FrameSizes \cup {0}) /\ Len(events) \in Nat
      /\ frame_bytes = Total(events, 1 .. Len(events))
      /\ Len(events) <= MaxEvents /\ frame_bytes <= MAX_QUEUED_FRAME_BYTES
  BY DEF BytesOK
<1>2. /\ events # <<>> /\ events' = Tail(events)
      /\ frame_bytes' = IF Head(events) <= frame_bytes THEN frame_bytes - Head(events) ELSE 0
  BY DEF next_event
<1>3. events' \in Seq(FrameSizes \cup {0}) /\ Len(events') = Len(events) - 1
  BY <1>1, <1>2, HeadTailProperties
<1>4. events \in Seq(Nat)
  <2>1. \A i \in 1 .. Len(events) : events[i] \in Nat
    BY <1>1, InTypes
  <2>2. QED
    BY <1>1, <2>1
<1>5. \A e \in Seq(Nat) : e # <<>>
         => /\ Total(e, 1 .. Len(e)) = Total(Tail(e), 1 .. Len(Tail(e))) + Head(e)
            /\ Total(Tail(e), 1 .. Len(Tail(e))) \in Nat /\ Head(e) \in Nat
  BY TotalTail
<1>6. /\ frame_bytes = Total(events', 1 .. Len(events')) + Head(events)
      /\ Total(events', 1 .. Len(events')) \in Nat /\ Head(events) \in Nat
  BY <1>1, <1>2, <1>4, <1>5
<1>7. /\ frame_bytes' = Total(events', 1 .. Len(events'))
      /\ frame_bytes' <= MAX_QUEUED_FRAME_BYTES
  BY <1>1, <1>2, <1>6, InTypes
<1>8. Len(events') <= MaxEvents
  BY <1>1, <1>3, InTypes
<1>9. QED
  BY <1>3, <1>7, <1>8 DEF BytesOK

LEMMA BytesNat == BytesOK => frame_bytes \in Nat
<1> SUFFICES ASSUME BytesOK PROVE frame_bytes \in Nat
  OBVIOUS
<1>1. events \in Seq(Nat)
  <2>1. events \in Seq(FrameSizes \cup {0}) /\ \A i \in 1 .. Len(events) : events[i] \in Nat
    BY InTypes DEF BytesOK
  <2>2. QED
    BY <2>1
<1>2. \A e \in Seq(Nat) : Total(e, 1 .. Len(e)) \in Nat
  BY TotalAppend
<1>3. QED
  BY <1>1, <1>2 DEF BytesOK

LEMMA InStart == InInit => InInv
<1> SUFFICES ASSUME InInit PROVE InInv
  OBVIOUS
<1> USE DEF InInit
<1>1. SlotsOK
  BY InTypes DEF SlotsOK, Distinct
<1>2. 1 .. Len(events) = {}
  OBVIOUS
<1>3. Total(events, {}) = 0
  BY FS_EmptySet, TotalZero
<1>4. frame_bytes = Total(events, 1 .. Len(events))
  BY <1>2, <1>3
<1>5. BytesOK
  BY <1>4, InTypes DEF BytesOK
<1>6. QED
  BY <1>1, <1>5 DEF InInv

LEMMA InStep == InInv /\ [InNext]_inVars => InInv'
<1> SUFFICES ASSUME InInv, [InNext]_inVars PROVE InInv'
  OBVIOUS
<1>1. SlotsOK /\ BytesOK
  BY DEF InInv
<1>2. CASE UNCHANGED inVars
  BY <1>2 DEF inVars, InInv, SlotsOK, BytesOK, Distinct, Contains
<1>3. ASSUME NEW s \in Streams, Refuse(s) PROVE InInv'
  <2>1. /\ reader[s] = "new" /\ reader' = [reader EXCEPT ![s] = "gone"]
        /\ UNCHANGED <<active, events, frame_bytes>>
    BY <1>3 DEF Refuse
  <2>2. /\ reader' \in [Streams -> {"new", "reading", "read", "ending", "gone"}]
        /\ \A x \in Streams : reader'[x] = IF x = s THEN "gone" ELSE reader[x]
    BY <1>1, <2>1 DEF SlotsOK
  <2>3. \A i \in 1 .. Len(active) : active[i] \in Streams /\ active[i] # s
    BY <1>1, <2>1 DEF SlotsOK
  <2>4. SlotsOK'
    BY <1>1, <2>1, <2>2, <2>3 DEF SlotsOK
  <2>5. QED
    BY <1>1, <2>1, <2>4 DEF InInv, BytesOK
<1>4. ASSUME NEW s \in Streams, StreamEnds(s) PROVE InInv'
  <2>1. SlotsOK'
    BY <1>1, <1>4, ReaderStep DEF StreamEnds
  <2>2. QED
    BY <1>1, <1>4, <2>1 DEF StreamEnds, InInv, BytesOK
<1>5. ASSUME NEW s \in Streams, NEW size \in FrameSizes, ReadFrame(s, size) PROVE InInv'
  <2>1. SlotsOK'
    BY <1>1, <1>5, ReaderStep DEF ReadFrame
  <2>2. CASE frame_bytes + size > MAX_QUEUED_FRAME_BYTES
    BY <1>1, <1>5, <2>1, <2>2 DEF ReadFrame, push_frame, InInv, BytesOK
  <2>3. CASE ~(frame_bytes + size > MAX_QUEUED_FRAME_BYTES)
    <3>1. frame_bytes + size <= MAX_QUEUED_FRAME_BYTES
      <4>1. frame_bytes \in Nat /\ size \in Nat
        BY <1>1, BytesNat, InTypes
      <4>2. QED
        BY <2>3, <4>1, InTypes
    <3>2. BytesOK'
      BY <1>1, <1>5, <2>3, <3>1, PushStep DEF ReadFrame, push_frame
    <3>3. QED
      BY <2>1, <3>2 DEF InInv
  <2>4. QED
    BY <2>2, <2>3
<1>6. CASE push_event
  <2>1. frame_bytes \in Nat /\ frame_bytes + 0 = frame_bytes
    BY <1>1, BytesNat
  <2>2. frame_bytes <= MAX_QUEUED_FRAME_BYTES
    BY <1>1 DEF BytesOK
  <2>3. BytesOK'
    BY <1>1, <1>6, <2>1, <2>2, PushStep DEF push_event
  <2>4. SlotsOK'
    BY <1>1, <1>6 DEF push_event, SlotsOK, Distinct, Contains
  <2>5. QED
    BY <2>3, <2>4 DEF InInv
<1>7. CASE next_event
  <2>1. SlotsOK'
    BY <1>1, <1>7 DEF next_event, SlotsOK, Distinct, Contains
  <2>2. QED
    BY <1>1, <1>7, <2>1, TakeStep DEF InInv
<1>8. QED
  BY <1>2, <1>3, <1>4, <1>5, <1>6, <1>7, AcceptStep, HeardStep, UntrackStep DEF InNext

(* The map of readers holds those at work once each, and the byte count is  *)
(* that of the queue (accept_streams, read_frames, next_event).             *)
THEOREM IncomingInvariant == InSpec => []InInv
  BY InStart, InStep, PTL DEF InSpec

(* The readers, the map and the event queue keep their types and bounds.    *)
THEOREM IncomingTypeCorrect == InSpec => []InTypeOK
<1>1. InInv => InTypeOK
  BY BytesNat DEF InInv, SlotsOK, BytesOK, InTypeOK
<1>2. QED
  BY <1>1, IncomingInvariant, PTL

(* Any number of streams, in any order of arrivals, frames and ends: no     *)
(* more are read than there are slots, no slot is lost to a reader that is  *)
(* gone, and frame_bytes is exactly what the frames in the queue weigh.     *)
THEOREM StrangersAreBounded == InSpec => []StrangersBounded
<1>1. InInv => StrangersBounded
  <2> SUFFICES ASSUME InInv PROVE StrangersBounded
    OBVIOUS
  <2> DEFINE T == {s \in Streams : reader[s] \in {"reading", "read"}}
  <2>1. active \in Seq(Streams) /\ Len(active) \in Nat /\ Len(active) <= MAX_INCOMING_STREAMS
    BY DEF InInv, SlotsOK
  <2>2. Cardinality(T) <= MAX_INCOMING_STREAMS
    <3>1. \A a \in Seq(Streams) : \A S \in SUBSET Streams :
             (\A s \in S : Contains(a, s)) => Cardinality(S) <= Len(a)
      BY SlotsBound
    <3>2. T \in SUBSET Streams /\ \A s \in T : Contains(active, s)
      BY DEF InInv, SlotsOK
    <3> HIDE DEF T
    <3>3. Cardinality(T) <= Len(active)
      BY <2>1, <3>1, <3>2
    <3>4. Cardinality(T) \in Nat
      BY <3>2, IncomingAssumption, FS_Subset, FS_CardinalityType
    <3>5. QED
      BY <2>1, <3>3, <3>4, InTypes
  <2>3. FoldSeq(+, 0, events) = Total(events, 1 .. Len(events))
    <3>1. DOMAIN events = 1 .. Len(events)
      BY DEF InInv, BytesOK
    <3>2. FoldSeq(+, 0, events) = Total(events, DOMAIN events)
      BY DEF FoldSeq, FoldFunction, FoldFunctionOnSet, MapThenFoldSet, Total, IsSum
    <3>3. QED
      BY <3>1, <3>2
  <2>4. QED
    BY <2>2, <2>3 DEF InInv, SlotsOK, BytesOK, StrangersBounded
<1>2. QED
  BY <1>1, IncomingInvariant, PTL

=============================================================================
