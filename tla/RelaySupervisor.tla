-------------------------- MODULE RelaySupervisor --------------------------
(***************************************************************************)
(* The relay's supervisor (native/conest_relay_supervisor/src/main.rs):     *)
(* `serve` keeps a relay running, stages signed updates, applies one in the *)
(* maintenance hour, and rolls back when its health gate fails.  The        *)
(* operator's `update-now` and `rollback` commands are processes of their   *)
(* own that work on the same files.                                         *)
(*                                                                          *)
(* A step is one durable change: a rename, a removal, or a write of the     *)
(* state file.  The machine or the supervisor may stop between any two.     *)
(***************************************************************************)
EXTENDS Naturals

CONSTANTS
    Newest,     \* releases are the versions 1 .. Newest
    Broken,     \* the releases that never pass their health gate
    Commands,   \* the operator's: a subset of {"update-now", "rollback"}
    MaxCrashes  \* bound: crashes of a behaviour

ASSUME ReleasesAssumption ==
    /\ Newest \in Nat \ {0}
    /\ Broken \subseteq 2 .. Newest
    /\ Commands \subseteq {"update-now", "rollback"}
    /\ MaxCrashes \in Nat

Versions == 1 .. Newest
None == 0                       \* no version; no file
MaybeVersion == Versions \cup {None}

VARIABLES
    current, staged, previous,  \* the relay binaries, by the version they are
    file,       \* supervisor-state.json (a missing file reads as the default)
    mem,        \* serve's copy of it
    relay,      \* the version of the running relay process, or None
    pc,         \* where each process is
    draft,      \* the state and version a process stages with
    crashes

vars == <<current, staged, previous, file, mem, relay, pc, draft, crashes>>
disk == <<current, staged, previous>>

Processes == {"serve", "operator"}

SupervisorState ==
    [current_version : MaybeVersion, previous_version : MaybeVersion,
     staged_version : MaybeVersion, draining : BOOLEAN]

DefaultState ==
    [current_version |-> None, previous_version |-> None,
     staged_version |-> None, draining |-> FALSE]

ServePCs == {"down", "starting", "loop", "respawn", "download", "stage", "reread", "window",
             "apply", "removed", "moved", "gate", "failed", "aside", "restored"}
OperatorPCs == {"idle", "download", "stage", "aside", "restored", "save"}

NoDraft == [state |-> DefaultState, version |-> None]

Goto(p, from, to) ==
    /\ pc[p] = from
    /\ pc' = [pc EXCEPT ![p] = to]

\* One write_state of serve: its copy and the file become s.
Save(s) == mem' = s /\ file' = s

\* Mutant: the version it reports is enough.
HealthyByVersion(expected) == relay # None /\ expected \in {None, relay}

\* The health gate waits for the version it expects (any, if None), and for
\* a store and a fetch to work; it may run out of time for a good one.
Healthy(expected) ==
    /\ relay # None
    /\ relay \notin Broken
    /\ expected \in {None, relay}

\* Is p about to write the state file?
Saving(p) ==
    IF p = "serve"
    THEN \/ pc[p] \in {"down", "download", "stage", "restored"}
         \/ pc[p] = "starting" /\ Healthy(mem.current_version)
         \/ pc[p] = "loop" /\ (relay = None \/ mem.staged_version # None)
         \/ pc[p] = "window" /\ mem.staged_version # None
         \/ pc[p] = "gate" /\ Healthy(mem.staged_version)
         \/ pc[p] = "failed" /\ previous = None
    ELSE pc[p] \in {"stage", "save"}

\* atomic_write removes the old file before it renames the new one into its
\* place: a reader between the two finds none, and reads the default.
Readable(p) ==
    {file} \cup IF \E q \in Processes \ {p} : Saving(q) THEN {DefaultState} ELSE {}

-----------------------------------------------------------------------------
(* serve: starting, and keeping the relay running.                          *)

\* Without a binary spawn_relay fails, and the service manager tries again.
Start ==
    /\ Goto("serve", "down", IF current = None THEN "down" ELSE "starting")
    /\ \E s \in Readable("serve") :
          /\ file' = s
          /\ mem' = IF current = None THEN DefaultState ELSE s
    /\ relay' = current
    /\ UNCHANGED <<disk, draft, crashes>>

StartPassed ==
    /\ Goto("serve", "starting", "loop")
    /\ Healthy(mem.current_version)
    /\ Save([mem EXCEPT !.current_version = relay])
    /\ UNCHANGED <<disk, relay, draft, crashes>>

\* serve ends with an error; the service manager kills its processes.
StartFailed ==
    /\ Goto("serve", "starting", "down")
    /\ relay' = None
    /\ mem' = DefaultState
    /\ UNCHANGED <<disk, file, draft, crashes>>

RelayExits ==
    /\ relay # None
    /\ relay' = None
    /\ UNCHANGED <<disk, file, mem, pc, draft, crashes>>

NoteExit ==
    /\ Goto("serve", "loop", "respawn")
    /\ relay = None
    /\ Save(mem)
    /\ UNCHANGED <<disk, relay, draft, crashes>>

Respawn ==
    /\ Goto("serve", "respawn", IF current = None THEN "down" ELSE "loop")
    /\ relay' = current
    /\ UNCHANGED <<disk, file, mem, draft, crashes>>

-----------------------------------------------------------------------------
(* check_and_stage_update, by serve and by update-now.  The state it writes *)
(* back at the end is the one it read before the download.                  *)

MayCheck(p) ==
    \/ p = "serve" /\ pc[p] = "loop" /\ relay # None
    \/ p = "operator" /\ pc[p] = "idle" /\ "update-now" \in Commands

is_newer(v, s) == v > s.current_version

CheckForUpdate(p, v) ==
    /\ MayCheck(p)
    /\ \E s \in Readable(p) :
          /\ is_newer(v, s)
          /\ draft' = [draft EXCEPT ![p] = [state |-> s, version |-> v]]
    /\ pc' = [pc EXCEPT ![p] = "download"]
    /\ UNCHANGED <<disk, file, mem, relay, crashes>>

StageBinary(p) ==
    /\ Goto(p, "download", "stage")
    /\ staged' = draft[p].version
    /\ UNCHANGED <<current, previous, file, mem, relay, draft, crashes>>

StageState(p) ==
    /\ Goto(p, "stage", IF p = "serve" THEN "reread" ELSE "idle")
    /\ file' = [draft[p].state EXCEPT !.staged_version = draft[p].version]
    /\ draft' = [draft EXCEPT ![p] = NoDraft]
    /\ UNCHANGED <<disk, mem, relay, crashes>>

Reread ==
    /\ Goto("serve", "reread", "window")
    /\ mem' \in Readable("serve")
    /\ UNCHANGED <<disk, file, relay, draft, crashes>>

\* A download that fails, or does not match the signed manifest.
CheckFailed(p) ==
    /\ Goto(p, "download", IF p = "serve" THEN "window" ELSE "idle")
    /\ IF p = "serve" THEN Save(mem) ELSE UNCHANGED <<file, mem>>
    /\ draft' = [draft EXCEPT ![p] = NoDraft]
    /\ UNCHANGED <<disk, relay, crashes>>

\* The rest of an iteration, when the relay was found running at its start.
AtWindow ==
    \/ pc["serve"] = "window"
    \/ pc["serve"] = "loop" /\ relay # None

\* serve notices what update-now staged.
PickUp ==
    /\ AtWindow
    /\ mem.staged_version = None
    /\ file.staged_version # None
    /\ mem' = file
    /\ pc' = [pc EXCEPT !["serve"] = "loop"]
    /\ UNCHANGED <<disk, file, relay, draft, crashes>>

EndIteration ==
    /\ Goto("serve", "window", "loop")
    /\ UNCHANGED <<disk, file, mem, relay, draft, crashes>>

-----------------------------------------------------------------------------
(* Applying what is staged, in the maintenance hour.                        *)

BeginApply ==
    /\ AtWindow
    /\ pc' = [pc EXCEPT !["serve"] = "apply"]
    /\ mem.staged_version # None
    /\ Save([mem EXCEPT !.draining = TRUE])
    /\ relay' = None
    /\ UNCHANGED <<disk, draft, crashes>>

RemovePrevious ==
    /\ pc["serve"] = "apply"
    /\ IF staged = None
       THEN Goto("serve", "apply", "failed") /\ UNCHANGED previous
       ELSE Goto("serve", "apply", "removed") /\ previous' = None
    /\ UNCHANGED <<current, staged, file, mem, relay, draft, crashes>>

\* Mutant: the binary in use is removed, not kept.
MoveCurrentAway ==
    /\ Goto("serve", "removed", "moved")
    /\ current' = None
    /\ UNCHANGED <<staged, previous, file, mem, relay, draft, crashes>>

MoveCurrent ==
    /\ Goto("serve", "removed", "moved")
    /\ previous' = IF current = None THEN previous ELSE current
    /\ current' = None
    /\ UNCHANGED <<staged, file, mem, relay, draft, crashes>>

InstallStaged ==
    /\ Goto("serve", "moved", "gate")
    /\ current' = staged
    /\ staged' = None
    /\ relay' = staged
    /\ UNCHANGED <<previous, file, mem, draft, crashes>>

GatePassed ==
    /\ Goto("serve", "gate", "loop")
    /\ Healthy(mem.staged_version)
    /\ Save([current_version |-> relay, previous_version |-> mem.current_version,
             staged_version |-> None, draining |-> FALSE])
    /\ UNCHANGED <<disk, relay, draft, crashes>>

GateFailed ==
    /\ Goto("serve", "gate", "failed")
    /\ relay' = None
    /\ UNCHANGED <<disk, file, mem, draft, crashes>>

-----------------------------------------------------------------------------
(* rollback_binary, by serve after a failed update and by the operator.     *)

AfterRollback(s) ==
    [current_version |-> s.previous_version, previous_version |-> None,
     staged_version |-> None, draining |-> FALSE]

MayRollBack(p) ==
    \/ p = "serve" /\ pc[p] = "failed"
    \/ p = "operator" /\ pc[p] = "idle" /\ "rollback" \in Commands

\* The binary in use is renamed to *.failed ...
SetAside(p) ==
    /\ MayRollBack(p)
    /\ previous # None
    /\ current' = None
    /\ pc' = [pc EXCEPT ![p] = "aside"]
    /\ UNCHANGED <<staged, previous, file, mem, relay, draft, crashes>>

\* Mutant: nothing is put in the place of the failed binary.
RestoreNothing(p) ==
    /\ Goto(p, "aside", "restored")
    /\ UNCHANGED <<disk, file, mem, relay, draft, crashes>>

\* ... and the previous one put in its place, if it is still there.
Restore(p) ==
    /\ Goto(p, "aside", IF previous # None THEN "restored"
                        ELSE IF p = "serve" THEN "failed" ELSE "idle")
    /\ current' = IF previous # None THEN previous ELSE current
    /\ previous' = None
    /\ UNCHANGED <<staged, file, mem, relay, draft, crashes>>

RolledBack ==
    /\ Goto("serve", "restored", IF current = None THEN "down" ELSE "loop")
    /\ Save(AfterRollback(mem))
    /\ relay' = current
    /\ UNCHANGED <<disk, draft, crashes>>

\* Nothing to go back to: serve saves that, and ends.
RollbackFailed ==
    /\ Goto("serve", "failed", "down")
    /\ previous = None
    /\ Save(AfterRollback(mem))
    /\ UNCHANGED <<disk, relay, draft, crashes>>

OperatorReads ==
    /\ Goto("operator", "restored", "save")
    /\ \E s \in Readable("operator") :
          draft' = [draft EXCEPT !["operator"].state = s]
    /\ UNCHANGED <<disk, file, mem, relay, crashes>>

OperatorSaves ==
    /\ Goto("operator", "save", "idle")
    /\ file' = AfterRollback(draft["operator"].state)
    /\ draft' = [draft EXCEPT !["operator"] = NoDraft]
    /\ UNCHANGED <<disk, mem, relay, crashes>>

-----------------------------------------------------------------------------
(* The machine stops, perhaps while a file is being replaced.               *)

Crash ==
    /\ crashes < MaxCrashes
    /\ crashes' = crashes + 1
    /\ file' \in {file} \cup
                 IF \E p \in Processes : Saving(p) THEN {DefaultState} ELSE {}
    /\ staged' \in {staged} \cup
                   IF \E p \in Processes : pc[p] = "download" THEN {None} ELSE {}
    /\ relay' = None
    /\ pc' = [serve |-> "down", operator |-> "idle"]
    /\ mem' = DefaultState
    /\ draft' = [p \in Processes |-> NoDraft]
    /\ UNCHANGED <<current, previous>>

Init ==
    /\ current = 1
    /\ staged = None
    /\ previous = None
    /\ file = DefaultState
    /\ mem = DefaultState
    /\ relay = None
    /\ pc = [serve |-> "down", operator |-> "idle"]
    /\ draft = [p \in Processes |-> NoDraft]
    /\ crashes = 0

ServeStep ==
    \/ Start \/ StartPassed \/ StartFailed \/ NoteExit \/ Respawn
    \/ StageBinary("serve") \/ StageState("serve") \/ Reread
    \/ CheckFailed("serve") \/ PickUp \/ EndIteration \/ BeginApply
    \/ RemovePrevious \/ MoveCurrent \/ InstallStaged \/ GatePassed \/ GateFailed
    \/ SetAside("serve") \/ Restore("serve") \/ RolledBack \/ RollbackFailed

OperatorStep ==
    \/ StageBinary("operator") \/ StageState("operator") \/ CheckFailed("operator")
    \/ SetAside("operator") \/ Restore("operator") \/ OperatorReads \/ OperatorSaves

Next ==
    \/ ServeStep
    \/ OperatorStep
    \/ \E p \in Processes, v \in Versions : CheckForUpdate(p, v)
    \/ RelayExits
    \/ Crash

Spec == Init /\ [][Next]_vars

\* serve runs, and a good relay passes its gate at some start or other; no
\* operator has to act and nothing has to crash.
FairSpec == Spec /\ WF_vars(ServeStep) /\ SF_vars(StartPassed)

-----------------------------------------------------------------------------
(* Properties.                                                              *)

(* Every variable stays in its type.                                        *)
TypeOK ==
    /\ {current, staged, previous, relay} \subseteq MaybeVersion
    /\ {file, mem} \subseteq SupervisorState
    /\ pc["serve"] \in ServePCs
    /\ pc["operator"] \in OperatorPCs
    /\ DOMAIN pc = Processes
    /\ draft \in [Processes -> [state : SupervisorState, version : MaybeVersion]]
    /\ crashes \in 0 .. MaxCrashes

(* A release that cannot pass its gate never serves: outside the gates, the *)
(* running relay is one that works, after whatever updates, rollbacks by    *)
(* serve and by the operator, stale state files and crashes; respawning     *)
(* after an exit has no gate of its own.                                    *)
BrokenNeverServes ==
    pc["serve"] \notin {"starting", "gate"} => relay \notin Broken

(* An update never costs the last relay that worked: at every step of it,   *)
(* and after a crash at any of them, a working binary is in place or the    *)
(* one `rollback` would restore.                                            *)
WorkingRelayKept ==
    \E v \in {current, previous} : v # None /\ v \notin Broken

(* The relay comes back, always: after crashes, exits, failed downloads,    *)
(* updates that fail their gate and the rollbacks they cause.               *)
RelayAlwaysBack == []<>(pc["serve"] = "loop" /\ relay # None)

(* Left alone, the relay comes back, always: while nothing crashes and no   *)
(* operator acts, no exit, failed download, failed update or rollback of    *)
(* one keeps it away for good.                                              *)
BackUndisturbed == [](crashes = 0 /\ pc["operator"] = "idle") => RelayAlwaysBack

=============================================================================
