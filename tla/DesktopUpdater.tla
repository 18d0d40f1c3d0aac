--------------------------- MODULE DesktopUpdater ---------------------------
(***************************************************************************)
(* The helper that replaces the installed application by a staged bundle    *)
(* and starts it again (native/conest_updater/src/main.rs).                 *)
(*                                                                          *)
(* A bundle is a tree: a function from paths, which are sequences of names, *)
(* to "dir" or "file".  A step is one call into the file system; any of     *)
(* them may fail, and the helper may be killed at any of them.  Entries are *)
(* taken in any order that takes a directory before what is in it, of which *)
(* the code's sorted order is one.                                          *)
(***************************************************************************)
EXTENDS Naturals, Sequences

CONSTANTS
    Staged, Installed,  \* the new and the old bundle
    MAX_ATTEMPTS,
    UnlinksOpen,        \* may a file be removed that a process holds open?
    MaxRestarts         \* bound: how often the update is started again

Paths == DOMAIN Staged \cup DOMAIN Installed
Parent(p) == SubSeq(p, 1, Len(p) - 1)
Above(p) == {SubSeq(p, 1, n) : n \in 1 .. Len(p) - 1}
Below(p) == {q \in Paths : Len(q) > Len(p) /\ SubSeq(q, 1, Len(p)) = p}

ASSUME UpdaterAssumption ==
    /\ \A tree \in {Staged, Installed} : \A p \in DOMAIN tree :
          /\ p \in Seq(STRING) \ {<<>>} /\ tree[p] \in {"dir", "file"}
          /\ \A a \in Above(p) : a \in DOMAIN tree /\ tree[a] = "dir"
    /\ MAX_ATTEMPTS \in Nat \ {0} /\ UnlinksOpen \in BOOLEAN /\ MaxRestarts \in Nat

VARIABLES
    step,       \* what the helper does next
    at,         \* the path it works on, or <<>>
    todo,       \* copy_entries: the staged paths to come
    bundle,     \* the bundle directory: what is at each path
    temp,       \* the .updating file beside each path
    attempts, restarts,
    lock        \* conest.lock: held by the old application, left behind, or absent

updaterVars == <<step, at, todo, bundle, temp, attempts, restarts, lock>>
files == <<bundle, temp>>
bounds == <<attempts, restarts>>

Syncing == {"begin", "entry", "place", "temp", "copy", "mode", "remove", "rename", "stale"}

UpdaterTypeOK ==
    /\ step \in Syncing \cup {"lock", "launch", "launched", "failed", "killed"}
    /\ at \in Paths \cup {<<>>}
    /\ todo \subseteq DOMAIN Staged
    /\ bundle \in [Paths -> {"none", "dir", "old", "new"}]
    /\ temp \in [Paths -> {"none", "torn", "copied", "ready"}]
    /\ attempts \in 0 .. MAX_ATTEMPTS /\ restarts \in 0 .. MaxRestarts
    /\ lock \in {"held", "left", "absent"}

IsFile(p) == bundle[p] \in {"old", "new"}

\* The old application starts the helper and is about to exit.  A helper
\* that was killed earlier may have left its temporary files.
UpdaterInit ==
    /\ step = "begin" /\ at = <<>> /\ todo = {}
    /\ bundle = [p \in Paths |-> IF p \notin DOMAIN Installed THEN "none"
                                 ELSE IF Installed[p] = "dir" THEN "dir" ELSE "old"]
    /\ temp \in {[p \in Paths |-> IF p \in left THEN "torn" ELSE "none"] :
                    left \in SUBSET {p \in DOMAIN Installed : Installed[p] = "file"}}
    /\ attempts = 0 /\ restarts = 0 /\ lock = "held"

\* Removed: what is at these paths, and the temporary files beside those.
Remove(paths, temps) ==
    /\ bundle' = [q \in Paths |-> IF q \in paths THEN "none" ELSE bundle[q]]
    /\ temp' = [q \in Paths |-> IF q \in temps THEN "none" ELSE temp[q]]

\* remove_dir_all of a whole tree.
RemoveTree(p) == Remove({p} \cup Below(p), Below(p))

\* It is interrupted: some of what is in the directory is gone, a directory
\* only after what is in it.
RemoveSome(p) ==
    \E paths, temps \in SUBSET Below(p) :
        /\ \A q \in paths : Below(q) \subseteq paths \cap temps
        /\ Remove(paths, temps)

-----------------------------------------------------------------------------
(* copy_entries and copy_file.                                              *)

sync_directories ==
    /\ step = "begin"
    /\ todo' = DOMAIN Staged
    /\ step' = "entry"
    /\ UNCHANGED <<at, files, bounds, lock>>

Due(p) == step = "entry" /\ p \in todo /\ Parent(p) \notin todo

\* A file in the place of a directory goes first.
ClearForDirectory(p) ==
    /\ Due(p) /\ Staged[p] = "dir" /\ IsFile(p)
    /\ bundle' = [bundle EXCEPT ![p] = "none"]
    /\ UNCHANGED <<step, at, todo, temp, bounds, lock>>

CreateDirectory(p) ==
    /\ Due(p) /\ Staged[p] = "dir" /\ ~IsFile(p)
    /\ bundle' = [bundle EXCEPT ![p] = "dir"]
    /\ todo' = todo \ {p}
    /\ UNCHANGED <<step, at, temp, bounds, lock>>

copy_file(p) ==
    /\ Due(p) /\ Staged[p] = "file"
    /\ todo' = todo \ {p}
    /\ at' = p
    /\ step' = "place"
    /\ UNCHANGED <<files, bounds, lock>>

\* A directory in the place of the file,
ClearPlace ==
    /\ step = "place"
    /\ step' = "temp"
    /\ IF bundle[at] = "dir" THEN RemoveTree(at) ELSE UNCHANGED files
    /\ UNCHANGED <<at, todo, bounds, lock>>

\* and a temporary file of an earlier attempt, go.
ClearTemp ==
    /\ step = "temp"
    /\ step' = "copy"
    /\ temp' = [temp EXCEPT ![at] = "none"]
    /\ UNCHANGED <<at, todo, bundle, bounds, lock>>

CopyToTemp ==
    /\ step = "copy"
    /\ step' = "mode"
    /\ temp' = [temp EXCEPT ![at] = "copied"]
    /\ UNCHANGED <<at, todo, bundle, bounds, lock>>

preserve_permissions ==
    /\ step = "mode"
    /\ step' = "remove"
    /\ temp' = [temp EXCEPT ![at] = "ready"]
    /\ UNCHANGED <<at, todo, bundle, bounds, lock>>

RemoveOld ==
    /\ step = "remove"
    /\ step' = "rename"
    /\ bundle' = [bundle EXCEPT ![at] = "none"]
    /\ UNCHANGED <<at, todo, temp, bounds, lock>>

Rename ==
    /\ step = "rename"
    /\ step' = "entry"
    /\ bundle' = [bundle EXCEPT ![at] = "new"]
    /\ temp' = [temp EXCEPT ![at] = "none"]
    /\ at' = <<>>
    /\ UNCHANGED <<todo, bounds, lock>>

Copied ==
    /\ step = "entry" /\ todo = {}
    /\ step' = "stale"
    /\ UNCHANGED <<at, todo, files, bounds, lock>>

-----------------------------------------------------------------------------
(* remove_stale_entries.                                                    *)

\* Mutant: only the top directory is looked through.
VisitedTop(p) == Len(p) = 1

\* The directories the bundle shares with the staged one are looked through.
Visited(p) == Len(p) = 1 \/ (Parent(p) \in DOMAIN Staged /\ Staged[Parent(p)] = "dir")

Stale(p) == Visited(p) /\ bundle[p] # "none" /\ p \notin DOMAIN Staged
StaleTemp(p) == Visited(p) /\ temp[p] # "none"

remove_path(p) ==
    /\ step = "stale"
    /\ \/ Stale(p) /\ RemoveTree(p)
       \/ StaleTemp(p) /\ temp' = [temp EXCEPT ![p] = "none"] /\ UNCHANGED bundle
    /\ UNCHANGED <<step, at, todo, bounds, lock>>

remove_stale_entries ==
    /\ step = "stale"
    /\ \A p \in Paths : ~Stale(p) /\ ~StaleTemp(p)
    /\ step' = "lock"
    /\ UNCHANGED <<at, todo, files, bounds, lock>>

-----------------------------------------------------------------------------
(* Failure, and the helper's end.                                           *)

\* What a call that fails, or a kill in the middle of it, leaves behind.
Interrupted ==
    /\ \/ UNCHANGED files
       \/ step = "copy" /\ temp' = [temp EXCEPT ![at] = "torn"] /\ UNCHANGED bundle
       \/ step = "place" /\ bundle[at] = "dir" /\ RemoveSome(at)
       \/ step = "stale" /\ \E p \in Paths : Stale(p) /\ RemoveSome(p)
    /\ at' = <<>> /\ todo' = {}

\* run: the whole sync is tried again after a while, so often and no more.
SyncFails ==
    /\ step \in Syncing
    /\ Interrupted
    /\ attempts' = attempts + 1
    /\ step' = IF attempts' = MAX_ATTEMPTS THEN "failed" ELSE "begin"
    /\ UNCHANGED <<restarts, lock>>

Killed ==
    /\ step \in Syncing \cup {"lock", "launch"}
    /\ Interrupted
    /\ step' = "killed"
    /\ UNCHANGED <<bounds, lock>>

\* The update is started again; without its staging directory, or with no
\* bundle directory to be had, it ends at once.
run(ok) ==
    /\ step \in {"killed", "failed"} /\ restarts < MaxRestarts
    /\ restarts' = restarts + 1
    /\ attempts' = 0
    /\ step' = IF ok THEN "begin" ELSE "failed"
    /\ UNCHANGED <<at, todo, files, lock>>

\* The old application releases its lock, and may leave the file.
ApplicationEnds ==
    /\ lock = "held"
    /\ lock' \in {"left", "absent"}
    /\ UNCHANGED <<step, at, todo, files, bounds>>

\* The lock file is absent or can be removed, or the attempts run out.
wait_for_lock_release ==
    /\ step = "lock"
    /\ step' = "launch"
    /\ lock' = IF lock # "held" \/ UnlinksOpen THEN "absent" ELSE lock
    /\ UNCHANGED <<at, todo, files, bounds>>

launch_application(ok) ==
    /\ step = "launch"
    /\ step' = IF ok THEN "launched" ELSE "failed"
    /\ UNCHANGED <<at, todo, files, bounds, lock>>

CopyStep ==
    \/ sync_directories \/ Copied
    \/ \E p \in Paths : ClearForDirectory(p) \/ CreateDirectory(p) \/ copy_file(p)
    \/ ClearPlace \/ ClearTemp \/ CopyToTemp \/ preserve_permissions \/ RemoveOld \/ Rename

UpdaterNext ==
    \/ CopyStep
    \/ \E p \in Paths : remove_path(p)
    \/ remove_stale_entries
    \/ SyncFails \/ Killed
    \/ ApplicationEnds \/ wait_for_lock_release
    \/ \E ok \in BOOLEAN : run(ok) \/ launch_application(ok)

UpdaterSpec == UpdaterInit /\ [][UpdaterNext]_updaterVars

-----------------------------------------------------------------------------
(* The application that is started is the staged one, whole: every staged   *)
(* file is in place, with nothing of the old bundle and no temporary file   *)
(* beside it, however many attempts failed halfway and however often the    *)
(* helper was killed before (run, sync_directories).                        *)
LaunchedWhole ==
    step \in {"lock", "launch", "launched"} =>
        \A p \in Paths :
            /\ temp[p] = "none"
            /\ bundle[p] = IF p \notin DOMAIN Staged THEN "none"
                           ELSE IF Staged[p] = "dir" THEN "dir" ELSE "new"

=============================================================================
