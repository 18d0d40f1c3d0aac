--------------------------- MODULE UpdatesProofs ---------------------------
(***************************************************************************)
(* Proofs about the two updaters: RelaySupervisor, for any releases, broken *)
(* releases, operator's commands and number of crashes, and DesktopUpdater, *)
(* for any two bundles and any number of attempts, kills and restarts.      *)
(***************************************************************************)
EXTENDS RelaySupervisor, DesktopUpdater, SequenceTheorems, InductionTheorems, TLAPS

-----------------------------------------------------------------------------
(* The supervisor: types.                                                   *)

SupervisorTyped ==
    /\ TypeOK
    /\ pc \in [Processes -> ServePCs \cup OperatorPCs]

(* serve has passed a gate since it started, and works with the binary that *)
(* passed: what it spawns again, and what an update keeps as previous, is   *)
(* the current binary.                                                      *)
Gated == {"loop", "respawn", "download", "stage", "reread", "window", "apply", "removed",
          "moved", "restored"}

(* What is broken is only ever the staged binary, or the current one while  *)
(* its gate is still ahead; a rollback restores none that is.               *)
BrokenOnlyUngated ==
    /\ previous \notin Broken
    /\ pc["serve"] \in Gated => current \notin Broken
    /\ pc["serve"] \in {"starting", "gate"} /\ relay # None =>
          relay = current \/ current \notin Broken

ServesInv == SupervisorTyped /\ BrokenOnlyUngated /\ BrokenNeverServes

(* Without the operator's rollback: where the relay that worked is, at each *)
(* step of an update.                                                       *)
KeptAt ==
    /\ pc["operator"] \in {"idle", "download", "stage"}
    /\ pc["serve"] \in {"loop", "respawn", "download", "stage", "reread", "window", "apply",
                        "removed", "restored"} => current # None
    /\ pc["serve"] \in {"moved", "gate", "aside"} => previous # None
    /\ pc["serve"] \in {"starting", "gate"} /\ relay # None => relay = current

KeptInv == ServesInv /\ KeptAt /\ WorkingRelayKept

LEMMA VersionsTyped ==
    None \in MaybeVersion /\ None \notin Broken /\ Versions \subseteq MaybeVersion
BY ReleasesAssumption DEF None, MaybeVersion, Versions

LEMMA RecordsTyped ==
    /\ DefaultState \in SupervisorState
    /\ NoDraft \in [state : SupervisorState, version : MaybeVersion]
    /\ NoDraft.state = DefaultState /\ NoDraft.version = None
BY VersionsTyped DEF DefaultState, NoDraft, SupervisorState

(* The states serve and the operator write are states.                      *)
LEMMA SavedTyped ==
    ASSUME NEW s \in SupervisorState, NEW v \in MaybeVersion
    PROVE  /\ [s EXCEPT !.current_version = v] \in SupervisorState
           /\ [s EXCEPT !.staged_version = v] \in SupervisorState
           /\ [s EXCEPT !.draining = TRUE] \in SupervisorState
           /\ AfterRollback(s) \in SupervisorState
           /\ [current_version |-> v, previous_version |-> s.current_version,
               staged_version |-> None, draining |-> FALSE] \in SupervisorState
<1> USE VersionsTyped DEF SupervisorState
<1>1. [s EXCEPT !.current_version = v] \in SupervisorState
  OBVIOUS
<1>2. [s EXCEPT !.staged_version = v] \in SupervisorState
  OBVIOUS
<1>3. [s EXCEPT !.draining = TRUE] \in SupervisorState
  OBVIOUS
<1>4. AfterRollback(s) \in SupervisorState
  BY DEF AfterRollback
<1>5. [current_version |-> v, previous_version |-> s.current_version,
       staged_version |-> None, draining |-> FALSE] \in SupervisorState
  OBVIOUS
<1>6. QED
  BY <1>1, <1>2, <1>3, <1>4, <1>5, Zenon

LEMMA SupervisorInit == Init => KeptInv
<1> USE DEF Init, Processes
<1>1. Init => SupervisorTyped
  BY ReleasesAssumption, VersionsTyped, RecordsTyped
  DEF SupervisorTyped, TypeOK, ServePCs, OperatorPCs, NoDraft, MaybeVersion, Versions
<1>2. Init => BrokenOnlyUngated /\ BrokenNeverServes /\ KeptAt /\ WorkingRelayKept
  BY ReleasesAssumption, VersionsTyped, RecordsTyped
  DEF BrokenOnlyUngated, BrokenNeverServes, KeptAt, WorkingRelayKept, Gated, None
<1>3. QED
  BY <1>1, <1>2 DEF KeptInv, ServesInv

LEMMA TypedKept ==
    ASSUME SupervisorTyped, Next
    PROVE  SupervisorTyped'
<1> USE VersionsTyped, RecordsTyped DEF SupervisorTyped, TypeOK, Processes, ServePCs, OperatorPCs, disk, Goto
<1>1. CASE Start
  BY <1>1 DEF Start, Readable
<1>2. CASE StartPassed
  <2>1. [mem EXCEPT !.current_version = relay] \in SupervisorState
    BY SavedTyped
  <2>2. QED
    BY <1>2, <2>1 DEF StartPassed, Save
<1>3. CASE StartFailed
  BY <1>3 DEF StartFailed
<1>4. CASE NoteExit
  BY <1>4 DEF NoteExit, Save
<1>5. CASE Respawn
  BY <1>5 DEF Respawn
<1>6. CASE StageBinary("serve")
  BY <1>6 DEF StageBinary
<1>7. CASE StageState("serve")
  <2>1. [draft["serve"].state EXCEPT !.staged_version = draft["serve"].version] \in SupervisorState
    BY SavedTyped
  <2>2. QED
    BY <1>7, <2>1 DEF StageState
<1>8. CASE Reread
  BY <1>8 DEF Reread, Readable
<1>9. CASE CheckFailed("serve")
  BY <1>9 DEF CheckFailed, Save
<1>10. CASE PickUp
  BY <1>10 DEF PickUp, AtWindow
<1>11. CASE EndIteration
  BY <1>11 DEF EndIteration
<1>12. CASE BeginApply
  <2>1. [mem EXCEPT !.draining = TRUE] \in SupervisorState
    BY SavedTyped
  <2>2. QED
    BY <1>12, <2>1 DEF BeginApply, Save, AtWindow
<1>13. CASE RemovePrevious
  BY <1>13 DEF RemovePrevious
<1>14. CASE MoveCurrent
  BY <1>14 DEF MoveCurrent
<1>15. CASE InstallStaged
  BY <1>15 DEF InstallStaged
<1>16. CASE GatePassed
  <2>1. [current_version |-> relay, previous_version |-> mem.current_version,
         staged_version |-> None, draining |-> FALSE] \in SupervisorState
    BY SavedTyped
  <2>2. QED
    BY <1>16, <2>1 DEF GatePassed, Save
<1>17. CASE GateFailed
  BY <1>17 DEF GateFailed
<1>18. CASE SetAside("serve")
  BY <1>18 DEF SetAside, MayRollBack
<1>19. CASE Restore("serve")
  BY <1>19 DEF Restore
<1>20. CASE RolledBack
  <2>1. AfterRollback(mem) \in SupervisorState
    BY SavedTyped
  <2>2. QED
    BY <1>20, <2>1 DEF RolledBack, Save
<1>21. CASE RollbackFailed
  <2>1. AfterRollback(mem) \in SupervisorState
    BY SavedTyped
  <2>2. QED
    BY <1>21, <2>1 DEF RollbackFailed, Save
<1>22. CASE StageBinary("operator")
  BY <1>22 DEF StageBinary
<1>23. CASE StageState("operator")
  <2>1. [draft["operator"].state EXCEPT !.staged_version = draft["operator"].version] \in SupervisorState
    BY SavedTyped
  <2>2. QED
    BY <1>23, <2>1 DEF StageState
<1>24. CASE CheckFailed("operator")
  BY <1>24 DEF CheckFailed, Save
<1>25. CASE SetAside("operator")
  BY <1>25 DEF SetAside, MayRollBack
<1>26. CASE Restore("operator")
  BY <1>26 DEF Restore
<1>27. CASE OperatorReads
  BY <1>27 DEF OperatorReads, Readable
<1>28. CASE OperatorSaves
  <2>1. AfterRollback(draft["operator"].state) \in SupervisorState
    BY SavedTyped
  <2>2. QED
    BY <1>28, <2>1 DEF OperatorSaves
<1>29. CASE RelayExits
  BY <1>29 DEF RelayExits
<1>30. CASE Crash
  BY <1>30, ReleasesAssumption DEF Crash
<1>31. ASSUME NEW p \in Processes, NEW v \in Versions, CheckForUpdate(p, v)
      PROVE  SupervisorTyped'
  BY <1>31 DEF CheckForUpdate, MayCheck, Readable
<1>32. QED
  BY <1>1, <1>2, <1>3, <1>4, <1>5, <1>6, <1>7, <1>8, <1>9, <1>10, <1>11, <1>12,
     <1>13, <1>14, <1>15, <1>16, <1>17, <1>18, <1>19, <1>20, <1>21, <1>22, <1>23,
     <1>24, <1>25, <1>26, <1>27, <1>28, <1>29, <1>30, <1>31 DEF Next, ServeStep, OperatorStep

LEMMA ServesKept ==
    ASSUME ServesInv, Next, SupervisorTyped'
    PROVE  ServesInv'
<1> USE VersionsTyped, RecordsTyped DEF ServesInv, SupervisorTyped, TypeOK, Processes, disk, Goto, Gated,
        BrokenOnlyUngated, BrokenNeverServes
<1>1. CASE Start
  BY <1>1 DEF Start, Readable
<1>2. CASE StartPassed
  BY <1>2 DEF StartPassed, Save, Healthy
<1>3. CASE StartFailed
  BY <1>3 DEF StartFailed
<1>4. CASE NoteExit
  BY <1>4 DEF NoteExit, Save
<1>5. CASE Respawn
  BY <1>5 DEF Respawn
<1>6. CASE StageBinary("serve")
  BY <1>6 DEF StageBinary
<1>7. CASE StageState("serve")
  BY <1>7 DEF StageState
<1>8. CASE Reread
  BY <1>8 DEF Reread, Readable
<1>9. CASE CheckFailed("serve")
  BY <1>9 DEF CheckFailed, Save
<1>10. CASE PickUp
  BY <1>10 DEF PickUp, AtWindow
<1>11. CASE EndIteration
  BY <1>11 DEF EndIteration
<1>12. CASE BeginApply
  BY <1>12 DEF BeginApply, Save, AtWindow
<1>13. CASE RemovePrevious
  BY <1>13 DEF RemovePrevious
<1>14. CASE MoveCurrent
  BY <1>14 DEF MoveCurrent
<1>15. CASE InstallStaged
  BY <1>15 DEF InstallStaged
<1>16. CASE GatePassed
  BY <1>16 DEF GatePassed, Save, Healthy
<1>17. CASE GateFailed
  BY <1>17 DEF GateFailed
<1>18. CASE SetAside("serve")
  BY <1>18 DEF SetAside, MayRollBack
<1>19. CASE Restore("serve")
  BY <1>19 DEF Restore
<1>20. CASE RolledBack
  BY <1>20 DEF RolledBack, Save, AfterRollback
<1>21. CASE RollbackFailed
  BY <1>21 DEF RollbackFailed, Save, AfterRollback
<1>22. CASE StageBinary("operator")
  BY <1>22 DEF StageBinary
<1>23. CASE StageState("operator")
  BY <1>23 DEF StageState
<1>24. CASE CheckFailed("operator")
  BY <1>24 DEF CheckFailed, Save
<1>25. CASE SetAside("operator")
  BY <1>25 DEF SetAside, MayRollBack
<1>26. CASE Restore("operator")
  BY <1>26 DEF Restore
<1>27. CASE OperatorReads
  BY <1>27 DEF OperatorReads, Readable
<1>28. CASE OperatorSaves
  BY <1>28 DEF OperatorSaves, AfterRollback
<1>29. CASE RelayExits
  BY <1>29 DEF RelayExits
<1>30. CASE Crash
  BY <1>30 DEF Crash
<1>31. ASSUME NEW p \in Processes, NEW v \in Versions, CheckForUpdate(p, v)
      PROVE  ServesInv'
  BY <1>31 DEF CheckForUpdate, MayCheck, Readable
<1>32. QED
  BY <1>1, <1>2, <1>3, <1>4, <1>5, <1>6, <1>7, <1>8, <1>9, <1>10, <1>11, <1>12,
     <1>13, <1>14, <1>15, <1>16, <1>17, <1>18, <1>19, <1>20, <1>21, <1>22, <1>23,
     <1>24, <1>25, <1>26, <1>27, <1>28, <1>29, <1>30, <1>31 DEF Next, ServeStep, OperatorStep

LEMMA RelayKept ==
    ASSUME KeptInv, Next, ServesInv', "rollback" \notin Commands
    PROVE  KeptInv'
<1> USE VersionsTyped, RecordsTyped DEF KeptInv, ServesInv, SupervisorTyped, TypeOK, Processes, disk, Goto, Gated,
        BrokenOnlyUngated, KeptAt, WorkingRelayKept
<1>1. CASE Start
  BY <1>1 DEF Start, Readable
<1>2. CASE StartPassed
  BY <1>2 DEF StartPassed, Save, Healthy
<1>3. CASE StartFailed
  BY <1>3 DEF StartFailed
<1>4. CASE NoteExit
  BY <1>4 DEF NoteExit, Save
<1>5. CASE Respawn
  BY <1>5 DEF Respawn
<1>6. CASE StageBinary("serve")
  BY <1>6 DEF StageBinary
<1>7. CASE StageState("serve")
  BY <1>7 DEF StageState
<1>8. CASE Reread
  BY <1>8 DEF Reread, Readable
<1>9. CASE CheckFailed("serve")
  BY <1>9 DEF CheckFailed, Save
<1>10. CASE PickUp
  BY <1>10 DEF PickUp, AtWindow
<1>11. CASE EndIteration
  BY <1>11 DEF EndIteration
<1>12. CASE BeginApply
  BY <1>12 DEF BeginApply, Save, AtWindow
<1>13. CASE RemovePrevious
  BY <1>13 DEF RemovePrevious
<1>14. CASE MoveCurrent
  BY <1>14 DEF MoveCurrent
<1>15. CASE InstallStaged
  BY <1>15 DEF InstallStaged
<1>16. CASE GatePassed
  BY <1>16 DEF GatePassed, Save, Healthy
<1>17. CASE GateFailed
  BY <1>17 DEF GateFailed
<1>18. CASE SetAside("serve")
  BY <1>18 DEF SetAside, MayRollBack
<1>19. CASE Restore("serve")
  BY <1>19 DEF Restore
<1>20. CASE RolledBack
  BY <1>20 DEF RolledBack, Save, AfterRollback
<1>21. CASE RollbackFailed
  BY <1>21 DEF RollbackFailed, Save, AfterRollback
<1>22. CASE StageBinary("operator")
  BY <1>22 DEF StageBinary
<1>23. CASE StageState("operator")
  BY <1>23 DEF StageState
<1>24. CASE CheckFailed("operator")
  BY <1>24 DEF CheckFailed, Save
<1>25. CASE SetAside("operator")
  BY <1>25 DEF SetAside, MayRollBack
<1>26. CASE Restore("operator")
  BY <1>26 DEF Restore
<1>27. CASE OperatorReads
  BY <1>27 DEF OperatorReads, Readable
<1>28. CASE OperatorSaves
  BY <1>28 DEF OperatorSaves, AfterRollback
<1>29. CASE RelayExits
  BY <1>29 DEF RelayExits
<1>30. CASE Crash
  BY <1>30 DEF Crash
<1>31. ASSUME NEW p \in Processes, NEW v \in Versions, CheckForUpdate(p, v)
      PROVE  KeptInv'
  BY <1>31 DEF CheckForUpdate, MayCheck, Readable
<1>32. QED
  BY <1>1, <1>2, <1>3, <1>4, <1>5, <1>6, <1>7, <1>8, <1>9, <1>10, <1>11, <1>12,
     <1>13, <1>14, <1>15, <1>16, <1>17, <1>18, <1>19, <1>20, <1>21, <1>22, <1>23,
     <1>24, <1>25, <1>26, <1>27, <1>28, <1>29, <1>30, <1>31 DEF Next, ServeStep, OperatorStep

(* The supervisor's invariant, whatever the operator commands.              *)
THEOREM SupervisorInvariant == Spec => []ServesInv
<1>1. ServesInv /\ [Next]_vars => ServesInv'
  <2> SUFFICES ASSUME ServesInv, [Next]_vars PROVE ServesInv'
    OBVIOUS
  <2>1. CASE UNCHANGED vars
    BY <2>1 DEF vars, ServesInv, SupervisorTyped, TypeOK, BrokenOnlyUngated, BrokenNeverServes
  <2>2. CASE Next
    BY <2>2, TypedKept, ServesKept DEF ServesInv
  <2>3. QED
    BY <2>1, <2>2
<1>2. Init => ServesInv
  BY SupervisorInit DEF KeptInv
<1>3. QED
  BY <1>1, <1>2, PTL DEF Spec

(* main.rs of the supervisor: the state file, serve's copy of it, the       *)
(* binaries and the drafts keep their types, crashes included.              *)
THEOREM SupervisorTypeCorrect == Spec => []TypeOK
<1>1. ServesInv => TypeOK
  BY DEF ServesInv, SupervisorTyped
<1>2. QED
  BY <1>1, SupervisorInvariant, PTL

(* serve, apply and rollback_binary: a release that cannot pass its gate    *)
(* never serves, for any operator, any crashes and any set of broken        *)
(* releases.                                                                *)
THEOREM BrokenReleaseNeverServes == Spec => []BrokenNeverServes
<1>1. ServesInv => BrokenNeverServes
  BY DEF ServesInv
<1>2. QED
  BY <1>1, SupervisorInvariant, PTL

(* apply_staged and rollback_binary: as long as serve alone rolls back, an  *)
(* update never costs the last relay that worked.  The hypothesis is        *)
(* needed: the operator's rollback has no lock against serve, and the       *)
(* staged binary can be installed over the one it just restored.            *)
THEOREM UpdateKeepsWorkingRelay ==
    ASSUME "rollback" \notin Commands
    PROVE  Spec => []WorkingRelayKept
<1>1. KeptInv /\ [Next]_vars => KeptInv'
  <2> SUFFICES ASSUME KeptInv, [Next]_vars PROVE KeptInv'
    OBVIOUS
  <2>1. CASE UNCHANGED vars
    BY <2>1 DEF vars, KeptInv, ServesInv, SupervisorTyped, TypeOK, BrokenOnlyUngated,
                BrokenNeverServes, KeptAt, WorkingRelayKept
  <2>2. CASE Next
    <3>1. ServesInv'
      BY <2>2, TypedKept, ServesKept DEF KeptInv, ServesInv
    <3>2. QED
      BY <2>2, <3>1, RelayKept
  <2>3. QED
    BY <2>1, <2>2
<1>2. KeptInv => WorkingRelayKept
  BY DEF KeptInv
<1>3. QED
  BY <1>1, <1>2, SupervisorInit, PTL DEF Spec

-----------------------------------------------------------------------------
(* The desktop updater: its invariant.                                      *)

(* What is at a staged path once copy_entries is done with it.              *)
Done(p) == IF Staged[p] = "dir" THEN bundle[p] = "dir" ELSE bundle[p] = "new" /\ temp[p] = "none"

Placing == {"place", "temp", "copy", "mode", "remove", "rename"}

(* A file system: what exists, temporary files too, is in a directory.      *)
TreeOK == \A p \in Paths : bundle[p] # "none" \/ temp[p] # "none" =>
              \A a \in Above(p) : bundle[a] = "dir"

(* The file being placed is staged, its directory is there already, and no  *)
(* directory is in its own place any more.                                  *)
AtOK ==
    step \in Placing =>
        /\ at \in DOMAIN Staged /\ at \notin todo /\ Staged[at] = "file"
        /\ \A a \in Above(at) : bundle[a] = "dir"
        /\ step # "place" => bundle[at] # "dir"

(* This attempt's work so far is whole, whatever earlier attempts left.     *)
DoneSoFar ==
    step \in Placing \cup {"entry", "stale"} =>
        \A p \in DOMAIN Staged \ todo : (step \in Placing /\ p = at) \/ Done(p)

Counted == step \in Syncing => attempts < MAX_ATTEMPTS

UpdaterInv ==
    /\ UpdaterTypeOK /\ TreeOK /\ AtOK /\ DoneSoFar /\ Counted
    /\ step = "stale" => todo = {}
    /\ LaunchedWhole

-----------------------------------------------------------------------------
(* Paths.                                                                   *)

LEMMA Prefix ==
    ASSUME NEW p \in Seq(STRING), NEW n \in 0 .. Len(p)
    PROVE  /\ SubSeq(p, 1, n) \in Seq(STRING) /\ Len(SubSeq(p, 1, n)) = n
           /\ \A k \in 0 .. n : SubSeq(SubSeq(p, 1, n), 1, k) = SubSeq(p, 1, k)
<1>1. /\ SubSeq(p, 1, n) \in Seq(STRING) /\ Len(SubSeq(p, 1, n)) = n
      /\ \A i \in 1 .. n : SubSeq(p, 1, n)[i] = p[i]
  BY SubSeqProperties
<1>2. ASSUME NEW k \in 0 .. n
      PROVE  SubSeq(SubSeq(p, 1, n), 1, k) = SubSeq(p, 1, k)
  <2> DEFINE s == SubSeq(p, 1, n)
             u == SubSeq(s, 1, k)
             v == SubSeq(p, 1, k)
  <2>1. s \in Seq(STRING) /\ Len(s) = n /\ \A i \in 1 .. n : s[i] = p[i]
    BY <1>1
  <2> HIDE DEF s
  <2>2. u \in Seq(STRING) /\ Len(u) = k /\ \A i \in 1 .. k : u[i] = s[i]
    BY <2>1, SubSeqProperties
  <2>3. v \in Seq(STRING) /\ Len(v) = k /\ \A i \in 1 .. k : v[i] = p[i]
    BY SubSeqProperties
  <2> HIDE DEF u, v
  <2>4. u = v
    BY <2>1, <2>2, <2>3, SeqEqual
  <2>5. QED
    BY <2>4 DEF u, v, s
<1>3. QED
  BY <1>1, <1>2

LEMMA PathsTyped ==
    ASSUME NEW p \in Paths
    PROVE  /\ p \in Seq(STRING) /\ Len(p) \in Nat /\ Len(p) >= 1 /\ Above(p) \subseteq Paths
           /\ p \in DOMAIN Staged =>
                 /\ Staged[p] \in {"dir", "file"}
                 /\ \A a \in Above(p) : a \in DOMAIN Staged /\ Staged[a] = "dir"
           /\ p \in DOMAIN Installed =>
                 /\ Installed[p] \in {"dir", "file"}
                 /\ \A a \in Above(p) : a \in DOMAIN Installed /\ Installed[a] = "dir"
<1>1. p \in Seq(STRING) /\ p # <<>>
  BY UpdaterAssumption DEF Paths
<1>2. Len(p) \in Nat /\ Len(p) >= 1
  BY <1>1, EmptySeq, LenProperties
<1>3. QED
  BY <1>1, <1>2, UpdaterAssumption DEF Paths

LEMMA DeepPath ==
    ASSUME NEW p \in Paths
    PROVE  Len(p) = 1 \/ Len(p) > 1
<1>1. \A n \in Nat : n >= 1 => n = 1 \/ n > 1
  OBVIOUS
<1>2. Len(p) \in Nat /\ Len(p) >= 1
  BY PathsTyped
<1>3. QED
  BY <1>1, <1>2, Zenon

LEMMA AboveIsBelow ==
    ASSUME NEW p \in Paths, NEW q \in Paths
    PROVE  q \in Below(p) <=> p \in Above(q)
<1>1. /\ p \in Seq(STRING) /\ Len(p) \in Nat /\ Len(p) >= 1
      /\ q \in Seq(STRING) /\ Len(q) \in Nat
  BY PathsTyped
<1>2. ASSUME NEW n \in 1 .. Len(q) - 1, p = SubSeq(q, 1, n)
      PROVE  Len(p) = n
  BY <1>1, <1>2, Prefix
<1>3. QED
  BY <1>1, <1>2 DEF Above, Below

LEMMA AboveTransitive ==
    ASSUME NEW r \in Paths, NEW q \in Above(r), NEW p \in Above(q)
    PROVE  p \in Above(r)
<1>1. r \in Seq(STRING) /\ Len(r) \in Nat
  BY PathsTyped
<1>2. PICK n \in 1 .. Len(r) - 1 : q = SubSeq(r, 1, n)
  BY DEF Above
<1>3. Len(q) = n
  BY <1>1, <1>2, Prefix
<1>4. PICK k \in 1 .. n - 1 : p = SubSeq(q, 1, k)
  BY <1>3 DEF Above
<1>5. p = SubSeq(r, 1, k)
  BY <1>1, <1>2, <1>4, Prefix
<1>6. QED
  BY <1>1, <1>5 DEF Above

LEMMA ParentFirst ==
    ASSUME NEW p \in Paths
    PROVE  /\ Len(p) > 1 => Parent(p) \in Above(p)
           /\ \A a \in Above(p) : Len(p) > 1 /\ (a = Parent(p) \/ a \in Above(Parent(p)))
           /\ p \notin Above(p)
<1>1. p \in Seq(STRING) /\ Len(p) \in Nat /\ Len(p) >= 1
  BY PathsTyped
<1>2. Len(p) > 1 => Parent(p) \in Above(p) /\ Len(Parent(p)) = Len(p) - 1
  BY <1>1, Prefix DEF Above, Parent
<1>3. ASSUME NEW n \in 1 .. Len(p) - 1
      PROVE  /\ Len(p) > 1
             /\ SubSeq(p, 1, n) = Parent(p) \/ SubSeq(p, 1, n) \in Above(Parent(p))
             /\ SubSeq(p, 1, n) # p
  <2>1. Len(p) > 1 /\ Len(SubSeq(p, 1, n)) # Len(p)
    BY <1>1, Prefix
  <2>2. n # Len(p) - 1 => /\ n \in 1 .. Len(Parent(p)) - 1
                          /\ SubSeq(p, 1, n) = SubSeq(Parent(p), 1, n)
    BY <1>1, <1>2, <2>1, Prefix DEF Parent
  <2>3. QED
    BY <2>1, <2>2 DEF Parent, Above
<1>4. QED
  BY <1>2, <1>3 DEF Above

(* Of the directories above a path, the topmost one that is not in a set    *)
(* which the path's own directory is not in.                                *)
LEMMA TopmostOutside ==
    ASSUME NEW p \in Paths, NEW G, Len(p) > 1, Parent(p) \notin G
    PROVE  \E a \in Above(p) : a \notin G /\ (Len(a) = 1 \/ Parent(a) \in G)
<1> DEFINE T == {n \in 1 .. Len(p) - 1 : SubSeq(p, 1, n) \notin G}
<1>1. p \in Seq(STRING) /\ Len(p) \in Nat
  BY PathsTyped
<1>2. T \in SUBSET Nat /\ Len(p) - 1 \in T
  BY <1>1 DEF Parent
<1>3. PICK n \in T : \A m \in T : n <= m
  BY <1>2, LeastNatural
<1> DEFINE a == SubSeq(p, 1, n)
<1>4. a \in Above(p) /\ a \notin G /\ Len(a) = n
  BY <1>1, <1>3, Prefix DEF Above
<1>5. n # 1 => Parent(a) \in G
  <2>1. n # 1 => n - 1 \in 1 .. Len(p) - 1 /\ n - 1 \notin T
    BY <1>1, <1>3
  <2>2. n # 1 => Parent(a) = SubSeq(p, 1, n - 1)
    BY <1>1, <1>4, Prefix DEF Parent
  <2>3. QED
    BY <2>1, <2>2
<1>6. QED
  BY <1>4, <1>5

-----------------------------------------------------------------------------
(* The desktop updater: each step keeps the invariant.                      *)

(* Removing paths with everything below them leaves a tree.                 *)
LEMMA RemoveKeepsTree ==
    ASSUME UpdaterTypeOK, TreeOK, NEW paths \in SUBSET Paths, NEW temps \in SUBSET Paths,
           \A q \in paths : Below(q) \subseteq paths /\ Below(q) \subseteq temps,
           Remove(paths, temps)
    PROVE  /\ TreeOK'
           /\ bundle' \in [Paths -> {"none", "dir", "old", "new"}]
           /\ temp' \in [Paths -> {"none", "torn", "copied", "ready"}]
<1> USE DEF Remove
<1>1. ASSUME NEW p \in Paths, bundle'[p] # "none" \/ temp'[p] # "none", NEW a \in Above(p)
      PROVE  bundle'[a] = "dir"
  <2>1. a \in Paths /\ (p \in Below(a) <=> a \in Above(p))
    BY PathsTyped, AboveIsBelow
  <2>2. a \notin paths
    BY <1>1, <2>1
  <2>3. bundle[p] # "none" \/ temp[p] # "none"
    BY <1>1
  <2>4. bundle[a] = "dir"
    BY <2>3 DEF TreeOK
  <2>5. QED
    BY <2>1, <2>2, <2>4
<1>2. TreeOK'
  BY <1>1 DEF TreeOK
<1>3. QED
  BY <1>2 DEF UpdaterTypeOK

LEMMA BelowClosed ==
    ASSUME NEW p \in Paths, NEW q \in Below(p)
    PROVE  Below(q) \subseteq Below(p)
BY AboveIsBelow, AboveTransitive DEF Below

(* remove_dir_all of a path that is no staged directory touches no staged   *)
(* path but that one.                                                       *)
LEMMA RemoveTreeKeeps ==
    ASSUME UpdaterTypeOK, TreeOK, NEW p \in Paths,
           p \notin DOMAIN Staged \/ Staged[p] = "file", RemoveTree(p)
    PROVE  /\ TreeOK'
           /\ bundle' \in [Paths -> {"none", "dir", "old", "new"}]
           /\ temp' \in [Paths -> {"none", "torn", "copied", "ready"}]
           /\ \A q \in DOMAIN Staged \ {p} : bundle'[q] = bundle[q] /\ temp'[q] = temp[q]
           /\ bundle'[p] = "none"
           /\ \A a \in Above(p) : bundle'[a] = bundle[a]
<1>1. Below(p) \subseteq Paths
  BY DEF Below
<1>2. \A q \in {p} \cup Below(p) : Below(q) \subseteq Below(p)
  BY BelowClosed
<1>3. /\ TreeOK'
      /\ bundle' \in [Paths -> {"none", "dir", "old", "new"}]
      /\ temp' \in [Paths -> {"none", "torn", "copied", "ready"}]
  BY <1>1, <1>2, RemoveKeepsTree DEF RemoveTree
<1>4. ASSUME NEW q \in DOMAIN Staged, q \in Below(p)
      PROVE  FALSE
  <2>1. q \in Paths /\ p \in Above(q)
    BY <1>4, AboveIsBelow DEF Paths
  <2>2. p \in DOMAIN Staged /\ Staged[p] = "dir"
    BY <2>1, PathsTyped
  <2>3. QED
    BY <2>2
<1>5. \A q \in DOMAIN Staged \ {p} : bundle'[q] = bundle[q] /\ temp'[q] = temp[q]
  BY <1>4 DEF RemoveTree, Remove, Paths
<1>6. ASSUME NEW a \in Above(p)
      PROVE  bundle'[a] = bundle[a]
  <2>1. a \in Paths /\ a # p
    BY PathsTyped, ParentFirst
  <2>2. a \in Below(p) => p \in Above(a)
    BY <2>1, AboveIsBelow
  <2>3. p \in Above(a) => p \in Above(p)
    BY AboveTransitive
  <2>4. a \notin {p} \cup Below(p)
    BY <2>1, <2>2, <2>3, ParentFirst
  <2>5. QED
    BY <2>1, <2>4 DEF RemoveTree, Remove
<1>7. bundle'[p] = "none"
  BY DEF RemoveTree, Remove
<1>8. QED
  BY <1>3, <1>5, <1>6, <1>7

LEMMA RemoveSomeKeeps ==
    ASSUME UpdaterTypeOK, TreeOK, NEW p \in Paths, RemoveSome(p)
    PROVE  /\ TreeOK'
           /\ bundle' \in [Paths -> {"none", "dir", "old", "new"}]
           /\ temp' \in [Paths -> {"none", "torn", "copied", "ready"}]
<1>1. PICK paths \in SUBSET Below(p), temps \in SUBSET Below(p) :
        (\A q \in paths : Below(q) \subseteq paths \cap temps) /\ Remove(paths, temps)
  BY DEF RemoveSome
<1>2. Below(p) \subseteq Paths
  BY DEF Below
<1>3. QED
  BY <1>1, <1>2, RemoveKeepsTree

LEMMA InterruptedKeeps ==
    ASSUME UpdaterInv, Interrupted
    PROVE  /\ TreeOK'
           /\ bundle' \in [Paths -> {"none", "dir", "old", "new"}]
           /\ temp' \in [Paths -> {"none", "torn", "copied", "ready"}]
           /\ at' = <<>> /\ todo' = {}
<1> USE DEF UpdaterInv
<1>1. CASE UNCHANGED files
  BY <1>1 DEF Interrupted, files, UpdaterTypeOK, TreeOK
<1>2. CASE step = "copy" /\ temp' = [temp EXCEPT ![at] = "torn"] /\ UNCHANGED bundle
  <2>1. at \in Paths /\ \A a \in Above(at) : bundle[a] = "dir"
    BY <1>2 DEF AtOK, Placing, Paths
  <2>2. QED
    BY <1>2, <2>1 DEF Interrupted, UpdaterTypeOK, TreeOK
<1>3. CASE step = "place" /\ RemoveSome(at)
  <2>1. at \in Paths
    BY <1>3 DEF AtOK, Placing, Paths
  <2>2. QED
    BY <1>3, <2>1, RemoveSomeKeeps DEF Interrupted
<1>4. CASE \E p \in Paths : RemoveSome(p)
  BY <1>4, RemoveSomeKeeps DEF Interrupted
<1>5. QED
  BY <1>1, <1>2, <1>3, <1>4 DEF Interrupted

(* A path whose directory is done has all its directories.                  *)
LEMMA DueHasDirectories ==
    ASSUME UpdaterInv, NEW p \in Paths, Due(p)
    PROVE  p \in DOMAIN Staged /\ \A a \in Above(p) : bundle[a] = "dir"
<1> USE DEF UpdaterInv
<1>1. p \in DOMAIN Staged /\ step = "entry"
  BY DEF Due, UpdaterTypeOK
<1>2. ASSUME NEW a \in Above(p)
      PROVE  bundle[a] = "dir"
  <2>1. Len(p) > 1 /\ (a = Parent(p) \/ a \in Above(Parent(p)))
    BY ParentFirst
  <2>2. Parent(p) \in DOMAIN Staged \ todo /\ Staged[Parent(p)] = "dir" /\ Parent(p) \in Paths
    BY <1>1, <2>1, ParentFirst, PathsTyped DEF Due, Paths
  <2>3. bundle[Parent(p)] = "dir"
    BY <1>1, <2>2 DEF DoneSoFar, Done, Placing
  <2>4. QED
    BY <2>1, <2>2, <2>3 DEF TreeOK
<1>3. QED
  BY <1>1, <1>2

LEMMA EntryKeeps ==
    ASSUME UpdaterInv, NEW p \in Paths,
           ClearForDirectory(p) \/ CreateDirectory(p) \/ copy_file(p)
    PROVE  UpdaterInv'
<1> USE DEF UpdaterInv, bounds, files
<1>0. /\ p \in DOMAIN Staged /\ step = "entry" /\ p \in todo
      /\ \A a \in Above(p) : bundle[a] = "dir" /\ a \in Paths /\ a # p
  BY DueHasDirectories, PathsTyped, ParentFirst
  DEF ClearForDirectory, CreateDirectory, copy_file, Due
<1>1. CASE ClearForDirectory(p)
  <2> USE <1>1 DEF ClearForDirectory
  <2>1. UpdaterTypeOK'
    BY DEF UpdaterTypeOK
  <2>2. TreeOK'
    BY PathsTyped DEF TreeOK, UpdaterTypeOK, IsFile
  <2>3. DoneSoFar'
    BY <1>0 DEF DoneSoFar, Done, UpdaterTypeOK, Placing, Paths
  <2>4. QED
    BY <1>0, <2>1, <2>2, <2>3 DEF AtOK, Placing, Counted, LaunchedWhole
<1>2. CASE CreateDirectory(p)
  <2> USE <1>2 DEF CreateDirectory
  <2>1. UpdaterTypeOK'
    BY DEF UpdaterTypeOK
  <2>2. TreeOK'
    BY <1>0, PathsTyped DEF TreeOK, UpdaterTypeOK
  <2>3. DoneSoFar'
    BY <1>0 DEF DoneSoFar, Done, UpdaterTypeOK, Placing, Paths
  <2>4. QED
    BY <1>0, <2>1, <2>2, <2>3 DEF AtOK, Placing, Counted, LaunchedWhole
<1>3. CASE copy_file(p)
  <2> USE <1>3 DEF copy_file
  <2>1. UpdaterTypeOK' /\ TreeOK'
    BY DEF UpdaterTypeOK, TreeOK, Syncing
  <2>2. DoneSoFar'
    BY <1>0 DEF DoneSoFar, Done, Placing
  <2>3. AtOK'
    BY <1>0 DEF AtOK, Placing
  <2>4. QED
    BY <1>0, <2>1, <2>2, <2>3 DEF Counted, Syncing, LaunchedWhole
<1>4. QED
  BY <1>1, <1>2, <1>3

LEMMA PlaceKeeps ==
    ASSUME UpdaterInv,
           \/ ClearPlace \/ ClearTemp \/ CopyToTemp \/ preserve_permissions
           \/ RemoveOld \/ Rename
    PROVE  UpdaterInv'
<1> USE DEF UpdaterInv, bounds, files
<1>0. /\ step \in Placing
      /\ at \in DOMAIN Staged /\ at \in Paths /\ at \notin todo /\ Staged[at] = "file"
      /\ \A a \in Above(at) : bundle[a] = "dir" /\ a \in Paths /\ a # at
  BY PathsTyped, ParentFirst
  DEF AtOK, Placing, Paths, ClearPlace, ClearTemp, CopyToTemp, preserve_permissions, RemoveOld, Rename
<1>1. CASE ClearPlace
  <2> USE <1>1 DEF ClearPlace
  <2>1. /\ TreeOK'
        /\ bundle' \in [Paths -> {"none", "dir", "old", "new"}]
        /\ temp' \in [Paths -> {"none", "torn", "copied", "ready"}]
        /\ \A q \in DOMAIN Staged \ {at} : bundle'[q] = bundle[q] /\ temp'[q] = temp[q]
        /\ bundle'[at] # "dir"
        /\ \A a \in Above(at) : bundle'[a] = bundle[a]
    <3>1. CASE bundle[at] = "dir"
      BY <1>0, <3>1, RemoveTreeKeeps
    <3>2. CASE bundle[at] # "dir"
      BY <3>2 DEF UpdaterTypeOK, TreeOK
    <3>3. QED
      BY <3>1, <3>2
  <2>2. UpdaterTypeOK'
    BY <2>1 DEF UpdaterTypeOK, Syncing
  <2>3. AtOK' /\ DoneSoFar'
    BY <1>0, <2>1 DEF AtOK, DoneSoFar, Done, Placing
  <2>4. QED
    BY <2>1, <2>2, <2>3 DEF Counted, Syncing, LaunchedWhole
<1>2. CASE ClearTemp \/ CopyToTemp \/ preserve_permissions
  <2> USE <1>2 DEF ClearTemp, CopyToTemp, preserve_permissions
  <2>1. UpdaterTypeOK'
    BY DEF UpdaterTypeOK, Syncing
  <2>2. TreeOK'
    BY <1>0 DEF UpdaterTypeOK, TreeOK
  <2>3. AtOK' /\ DoneSoFar'
    BY <1>0 DEF AtOK, DoneSoFar, Done, Placing, UpdaterTypeOK, Paths
  <2>4. QED
    BY <2>1, <2>2, <2>3 DEF Counted, Syncing, LaunchedWhole
<1>3. CASE RemoveOld
  <2> USE <1>3 DEF RemoveOld
  <2>0. bundle[at] # "dir"
    BY DEF AtOK, Placing
  <2>1. UpdaterTypeOK'
    BY DEF UpdaterTypeOK, Syncing
  <2>2. TreeOK'
    BY <1>0, <2>0, PathsTyped DEF UpdaterTypeOK, TreeOK
  <2>3. AtOK' /\ DoneSoFar'
    BY <1>0 DEF AtOK, DoneSoFar, Done, Placing, UpdaterTypeOK, Paths
  <2>4. QED
    BY <2>1, <2>2, <2>3 DEF Counted, Syncing, LaunchedWhole
<1>4. CASE Rename
  <2> USE <1>4 DEF Rename
  <2>0. bundle[at] # "dir"
    BY DEF AtOK, Placing
  <2>1. UpdaterTypeOK'
    BY DEF UpdaterTypeOK, Syncing
  <2>2. TreeOK'
    BY <1>0, <2>0, PathsTyped DEF UpdaterTypeOK, TreeOK
  <2>3. AtOK' /\ DoneSoFar'
    BY <1>0 DEF AtOK, DoneSoFar, Done, Placing, UpdaterTypeOK, Paths
  <2>4. QED
    BY <2>1, <2>2, <2>3 DEF Counted, Syncing, LaunchedWhole
<1>5. QED
  BY <1>1, <1>2, <1>3, <1>4

LEMMA StaleKeeps ==
    ASSUME UpdaterInv, NEW p \in Paths, remove_path(p)
    PROVE  UpdaterInv'
<1> USE DEF UpdaterInv, bounds, remove_path
<1>1. /\ TreeOK'
      /\ bundle' \in [Paths -> {"none", "dir", "old", "new"}]
      /\ temp' \in [Paths -> {"none", "torn", "copied", "ready"}]
      /\ \A q \in DOMAIN Staged : bundle'[q] = bundle[q] /\ (temp[q] = "none" => temp'[q] = "none")
  <2>1. CASE Stale(p) /\ RemoveTree(p)
    BY <2>1, RemoveTreeKeeps DEF Stale
  <2>2. CASE temp' = [temp EXCEPT ![p] = "none"] /\ UNCHANGED bundle
    BY <2>2 DEF UpdaterTypeOK, TreeOK, Paths
  <2>3. QED
    BY <2>1, <2>2
<1>2. UpdaterTypeOK' /\ AtOK' /\ Counted' /\ LaunchedWhole'
  BY <1>1 DEF UpdaterTypeOK, AtOK, Placing, Counted, LaunchedWhole
<1>3. DoneSoFar'
  BY <1>1 DEF DoneSoFar, Done, Placing
<1>4. QED
  BY <1>1, <1>2, <1>3

(* With nothing stale in the directories that are looked through, nothing   *)
(* is left anywhere: what the walk does not reach is in something stale, or *)
(* in something that a staged file has replaced.                            *)
LEMMA SweepIsWhole ==
    ASSUME UpdaterInv, remove_stale_entries
    PROVE  UpdaterInv'
<1> USE DEF UpdaterInv, bounds, files, remove_stale_entries
<1> DEFINE StagedDirs == {d \in DOMAIN Staged : Staged[d] = "dir"}
<1>1. \A p \in DOMAIN Staged : Done(p)
  BY DEF DoneSoFar, Placing
<1>2. ASSUME NEW p \in Paths
      PROVE  Visited(p) <=> Len(p) = 1 \/ Parent(p) \in StagedDirs
  BY DEF Visited
<1>3. ASSUME NEW p \in Paths, ~Visited(p)
      PROVE  temp[p] = "none" /\ bundle[p] = "none" /\ p \notin DOMAIN Staged
  <2>1. Len(p) > 1 /\ Parent(p) \notin StagedDirs
    <3>1. Len(p) # 1 /\ Parent(p) \notin StagedDirs
      BY <1>3 DEF Visited
    <3>2. QED
      BY <3>1, DeepPath
  <2>2. PICK a \in Above(p) : a \notin StagedDirs /\ (Len(a) = 1 \/ Parent(a) \in StagedDirs)
    BY <2>1, TopmostOutside
  <2>3. a \in Paths /\ Visited(a)
    BY <1>2, <2>2, PathsTyped
  <2>4. bundle[a] # "dir"
    <3>1. CASE a \in DOMAIN Staged
      BY <1>1, <2>2, <3>1 DEF Done
    <3>2. CASE a \notin DOMAIN Staged
      BY <2>3, <3>2 DEF Stale
    <3>3. QED
      BY <3>1, <3>2
  <2>5. p \notin DOMAIN Staged
    BY <2>2, PathsTyped
  <2>6. QED
    BY <2>4, <2>5 DEF TreeOK
<1>4. ASSUME NEW p \in Paths
      PROVE  /\ temp[p] = "none"
             /\ bundle[p] = IF p \notin DOMAIN Staged THEN "none"
                            ELSE IF Staged[p] = "dir" THEN "dir" ELSE "new"
  <2>1. CASE ~Visited(p)
    BY <1>3, <2>1
  <2>2. CASE Visited(p)
    BY <1>1, <2>2 DEF Stale, StaleTemp, Done
  <2>3. QED
    BY <2>1, <2>2
<1>5. LaunchedWhole'
  BY <1>4 DEF LaunchedWhole
<1>6. QED
  BY <1>5 DEF UpdaterTypeOK, TreeOK, AtOK, DoneSoFar, Placing, Counted, Syncing

LEMMA EndKeeps ==
    ASSUME UpdaterInv, SyncFails \/ Killed
    PROVE  UpdaterInv'
<1>1. Interrupted
  BY DEF SyncFails, Killed
<1>2. /\ TreeOK' /\ at' = <<>> /\ todo' = {}
      /\ bundle' \in [Paths -> {"none", "dir", "old", "new"}]
      /\ temp' \in [Paths -> {"none", "torn", "copied", "ready"}]
  BY <1>1, InterruptedKeeps
<1>3. attempts' \in 0 .. MAX_ATTEMPTS /\ Counted'
  BY UpdaterAssumption
  DEF SyncFails, Killed, UpdaterInv, UpdaterTypeOK, Counted, Syncing, bounds
<1>4. step' \in {"begin", "failed", "killed"} /\ restarts' = restarts /\ lock' = lock
  BY DEF SyncFails, Killed, bounds
<1>5. UpdaterTypeOK'
  BY <1>2, <1>3, <1>4 DEF UpdaterInv, UpdaterTypeOK, Syncing
<1>6. AtOK' /\ DoneSoFar' /\ LaunchedWhole'
  BY <1>4 DEF AtOK, DoneSoFar, LaunchedWhole, Placing
<1>7. QED
  BY <1>2, <1>3, <1>4, <1>5, <1>6 DEF UpdaterInv

LEMMA RunKeeps ==
    ASSUME UpdaterInv,
           \/ sync_directories \/ Copied \/ ApplicationEnds \/ wait_for_lock_release
           \/ \E ok \in BOOLEAN : run(ok) \/ launch_application(ok)
    PROVE  UpdaterInv'
<1> USE DEF UpdaterInv, bounds, files
<1>1. CASE sync_directories
  BY <1>1 DEF sync_directories, UpdaterTypeOK, TreeOK, AtOK, DoneSoFar, Placing, Counted, Syncing,
              LaunchedWhole
<1>2. CASE Copied
  BY <1>2 DEF Copied, UpdaterTypeOK, TreeOK, AtOK, DoneSoFar, Done, Placing, Counted, Syncing,
              LaunchedWhole
<1>3. CASE ApplicationEnds
  BY <1>3 DEF ApplicationEnds, UpdaterTypeOK, TreeOK, AtOK, DoneSoFar, Done, Counted, LaunchedWhole
<1>4. CASE wait_for_lock_release
  BY <1>4 DEF wait_for_lock_release, UpdaterTypeOK, TreeOK, AtOK, DoneSoFar, Placing, Counted,
              Syncing, LaunchedWhole
<1>5. ASSUME NEW ok \in BOOLEAN, run(ok)
      PROVE  UpdaterInv'
  BY <1>5, UpdaterAssumption
  DEF run, UpdaterTypeOK, TreeOK, AtOK, DoneSoFar, Placing, Counted, Syncing, LaunchedWhole
<1>6. ASSUME NEW ok \in BOOLEAN, launch_application(ok)
      PROVE  UpdaterInv'
  BY <1>6
  DEF launch_application, UpdaterTypeOK, TreeOK, AtOK, DoneSoFar, Placing, Counted, Syncing,
      LaunchedWhole
<1>7. QED
  BY <1>1, <1>2, <1>3, <1>4, <1>5, <1>6

LEMMA UpdaterInitInv == UpdaterInit => UpdaterInv
<1> SUFFICES ASSUME UpdaterInit PROVE UpdaterInv
  OBVIOUS
<1>1. PICK left \in SUBSET {p \in DOMAIN Installed : Installed[p] = "file"} :
        temp = [p \in Paths |-> IF p \in left THEN "torn" ELSE "none"]
  BY DEF UpdaterInit
<1>2. UpdaterTypeOK
  BY <1>1, UpdaterAssumption DEF UpdaterInit, UpdaterTypeOK, Syncing
<1>3. TreeOK
  BY <1>1, PathsTyped DEF UpdaterInit, TreeOK
<1>4. AtOK /\ DoneSoFar /\ Counted /\ LaunchedWhole /\ (step = "stale" => todo = {})
  BY UpdaterAssumption DEF UpdaterInit, AtOK, DoneSoFar, Counted, LaunchedWhole, Placing
<1>5. QED
  BY <1>2, <1>3, <1>4 DEF UpdaterInv

(* The desktop updater's invariant.                                         *)
THEOREM UpdaterInvariant == UpdaterSpec => []UpdaterInv
<1>1. UpdaterInv /\ [UpdaterNext]_updaterVars => UpdaterInv'
  <2> SUFFICES ASSUME UpdaterInv, [UpdaterNext]_updaterVars PROVE UpdaterInv'
    OBVIOUS
  <2>1. CASE UNCHANGED updaterVars
    BY <2>1 DEF updaterVars, UpdaterInv, UpdaterTypeOK, TreeOK, AtOK, DoneSoFar, Done, Counted,
                LaunchedWhole
  <2>2. CASE CopyStep
    BY <2>2, EntryKeeps, PlaceKeeps, RunKeeps DEF CopyStep
  <2>3. CASE UpdaterNext /\ ~CopyStep
    BY <2>3, StaleKeeps, SweepIsWhole, EndKeeps, RunKeeps DEF UpdaterNext
  <2>4. QED
    BY <2>1, <2>2, <2>3
<1>2. QED
  BY <1>1, UpdaterInitInv, PTL DEF UpdaterSpec

(* conest_updater: the bundle is a set of files and directories that one of *)
(* the two bundles has, and the sync's place in it keeps its type, through  *)
(* failures and kills.                                                      *)
THEOREM UpdaterTypeCorrect == UpdaterSpec => []UpdaterTypeOK
<1>1. UpdaterInv => UpdaterTypeOK
  BY DEF UpdaterInv
<1>2. QED
  BY <1>1, UpdaterInvariant, PTL

(* run, sync_directories and remove_stale_entries: the application that is  *)
(* started is the staged one, whole, for any two bundles, any number of     *)
(* attempts and restarts, and a failure or kill at any call.                *)
THEOREM LaunchedBundleWhole == UpdaterSpec => []LaunchedWhole
<1>1. UpdaterInv => LaunchedWhole
  BY DEF UpdaterInv
<1>2. QED
  BY <1>1, UpdaterInvariant, PTL

=============================================================================
