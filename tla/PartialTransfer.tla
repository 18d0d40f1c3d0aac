--------------------------- MODULE PartialTransfer ---------------------------
(***************************************************************************)
(* The receiving end of attachment protocol v2                              *)
(* (native/conest_native/src/transfer.rs): blocks are checked, written to a *)
(* partial file, flushed, recorded in an authenticated journal, and the     *)
(* file is promoted to its destination once all of it is there.             *)
(*                                                                          *)
(* A step ends at a call to the file system.  The process may be killed     *)
(* between any two steps, the power may be lost, and calls fail.  What a    *)
(* file holds is kept twice: as a reader sees it (cache) and as it survives *)
(* a loss of power (disk).  A directory entry is taken to survive in the    *)
(* order it was made, and a flush that fails to leave what was to be        *)
(* flushed to the next one.                                                 *)
(***************************************************************************)
EXTENDS Integers, Sequences, FiniteSets

CONSTANTS
    size_bytes, block_size, block_count,    \* of the manifest
    JOURNAL_CHECKPOINT_BYTES,
    Torn,           \* a piece of a journal record
    Bad,            \* a journal record of the full length with other contents
    MaxJournal,     \* bound: pieces in the journal when an append tears one
    MaxPendingBytes \* bound: bytes counted as pending

Blocks == 0 .. block_count - 1

\* The geometry validate asks of a manifest; the limits on its names, its
\* size and the three block sizes do not matter here.
validate ==
    /\ size_bytes > 0
    /\ block_count = (size_bytes + block_size - 1) \div block_size

ASSUME TransferAssumption ==
    /\ size_bytes \in Nat /\ block_size \in Nat \ {0} /\ block_count \in Nat
    /\ validate
    /\ JOURNAL_CHECKPOINT_BYTES \in Nat /\ MaxJournal \in Nat /\ MaxPendingBytes \in Nat
    /\ Torn \notin Nat /\ Bad \notin Nat /\ Torn # Bad

expected_plaintext_len(b) ==
    LET rest == size_bytes - b * block_size IN
    IF rest < block_size THEN rest ELSE block_size

VARIABLES
    sent,           \* what the sender has for each block: that of the manifest
                    \* ("good"), or of a file changed since ("other")
    doing,          \* what the receiver does next; closed: there is none
    finalizing,     \* whether this is part of finalize
    pending, pending_bytes,
    durable,        \* the journal's blocks in memory
    journal,        \* the journal file
    synced,         \* how much of it survives a loss of power
    partial,        \* whether the partial file exists
    cache, stable,  \* its contents
    destination,    \* absent, old (another file), or promoted
    promoted        \* the contents promoted last

transferVars == <<sent, doing, finalizing, pending, pending_bytes, durable, journal,
                  synced, partial, cache, stable, destination, promoted>>

memory == <<pending, pending_bytes, durable>>
log == <<journal, synced>>
partFile == <<partial, cache, stable>>
goal == <<destination, promoted>>

Contents == {"zero", "good", "other", "torn"}
Pcs == {"closed", "open", "sync", "append", "flush", "verify", "sync_all", "remove", "rename"}
Zero == [b \in Blocks |-> "zero"]

TransferTypeOK ==
    /\ sent \in [Blocks -> {"good", "other"}]
    /\ doing \in Pcs /\ finalizing \in BOOLEAN
    /\ pending \in Seq(Blocks) /\ pending_bytes \in Int /\ durable \subseteq Blocks
    /\ journal \in Seq(Blocks \cup {Torn, Bad}) /\ synced \in 0 .. Len(journal)
    /\ partial \in BOOLEAN /\ cache \in [Blocks -> Contents] /\ stable \in [Blocks -> Contents]
    /\ destination \in {"absent", "old", "promoted"} /\ promoted \in [Blocks -> Contents]

TransferInit ==
    /\ sent \in [Blocks -> {"good", "other"}]
    /\ doing = "closed" /\ finalizing = FALSE
    /\ pending = <<>> /\ pending_bytes = 0 /\ durable = {}
    /\ journal = <<>> /\ synced = 0
    /\ partial = FALSE /\ cache = Zero /\ stable = Zero
    /\ destination \in {"absent", "old"} /\ promoted = Zero

-----------------------------------------------------------------------------
(* Frames.                                                                  *)

\* The frame of a block: of this manifest, and with a tag that holds.
encrypt(b) == [manifest |-> TRUE, block |-> b, len |-> expected_plaintext_len(b), tag |-> TRUE]

\* What comes in: frames as they were sent, of another manifest, damaged, or
\* with the block or the length of another.
Frames == {encrypt(b) : b \in Blocks} \cup
    [manifest : BOOLEAN, block : 0 .. block_count, len : 1 .. block_size, tag : {FALSE}]

\* A frame says what its block is; whether that holds shows here.
decrypt(f) ==
    /\ f.manifest
    /\ f.block \in Blocks /\ f.len = expected_plaintext_len(f.block)
    /\ f.tag

Plaintext(f) == IF f.tag THEN sent[f.block] ELSE "torn"

-----------------------------------------------------------------------------
(* TransferJournal and PartialTransfer::open.                               *)

\* The records in the journal file.
Records == {journal[i] : i \in 1 .. Len(journal)} \cap Blocks

\* load_journal_records keeps the first k records: what follows is less than
\* one more.
Loads(k) ==
    /\ \A i \in 1 .. k : journal[i] \in Blocks
    /\ \A i \in k + 1 .. Len(journal) : journal[i] = Torn

\* It refuses a journal with a record that is not authentic: one of other
\* contents, or one that begins inside a torn one.
Refuses ==
    \/ \E i \in 1 .. Len(journal) : journal[i] = Bad
    \/ \E i \in 1 .. Len(journal) - 1 : journal[i] = Torn

\* The partial file, created full of zeros if need be.
OpenFile ==
    /\ partial' = TRUE
    /\ cache' = IF partial THEN cache ELSE Zero
    /\ stable' = IF partial THEN stable ELSE Zero

open(k) ==
    /\ doing = "closed" /\ Loads(k)
    /\ OpenFile
    /\ journal' = SubSeq(journal, 1, k)
    /\ synced' = IF k = Len(journal) THEN synced ELSE 0
    /\ durable' = {journal[i] : i \in 1 .. k}
    /\ pending' = <<>> /\ pending_bytes' = 0
    /\ doing' = "open" /\ finalizing' = FALSE
    /\ UNCHANGED <<sent, goal>>

OpenRefused ==
    /\ doing = "closed" /\ Refuses
    /\ OpenFile
    /\ UNCHANGED <<sent, doing, finalizing, memory, log, goal>>

\* Killed, or failed, while it writes the journal anew without its torn end.
OpenInterrupted(k, n) ==
    /\ doing = "closed" /\ Loads(k) /\ k < Len(journal) /\ n \in 0 .. k
    /\ OpenFile
    /\ journal' = SubSeq(journal, 1, n) /\ synced' = 0
    /\ UNCHANGED <<sent, doing, finalizing, memory, goal>>

-----------------------------------------------------------------------------
(* receive_encoded_block.                                                   *)

\* The block is written and pends; a checkpoint follows when enough bytes
\* pend or the last one is a while ago.
receive_encoded_block(f, elapsed) ==
    /\ doing = "open" /\ f.block \notin durable /\ decrypt(f)
    /\ pending_bytes + f.len <= MaxPendingBytes
    /\ cache' = [cache EXCEPT ![f.block] = Plaintext(f)]
    /\ pending' = Append(pending, f.block)
    /\ pending_bytes' = pending_bytes + f.len
    /\ doing' = IF pending_bytes' >= JOURNAL_CHECKPOINT_BYTES \/ elapsed THEN "sync" ELSE "open"
    /\ UNCHANGED <<sent, finalizing, durable, log, partial, stable, goal>>

\* Part of it may have been written; the same bytes again change nothing.
WriteFails(f) ==
    /\ doing = "open" /\ f.block \notin durable /\ decrypt(f)
    /\ cache' = [cache EXCEPT ![f.block] = IF @ = Plaintext(f) THEN @ ELSE "torn"]
    /\ UNCHANGED <<sent, doing, finalizing, memory, log, partial, stable, goal>>

-----------------------------------------------------------------------------
(* checkpoint and TransferJournal::append.                                  *)

\* The receiver is dropped, and what it has in memory with it.
Close ==
    /\ doing' = "closed" /\ finalizing' = FALSE
    /\ pending' = <<>> /\ pending_bytes' = 0 /\ durable' = {}

\* An error: the caller keeps the receiver and what still pends, unless it
\* gave it to finalize.
Fail(left) ==
    IF finalizing THEN Close
    ELSE doing' = "open" /\ pending' = left /\ UNCHANGED <<finalizing, pending_bytes, durable>>

checkpoint ==
    /\ doing = "open" /\ pending # <<>>
    /\ doing' = "sync"
    /\ UNCHANGED <<sent, finalizing, memory, log, partFile, goal>>

\* Mutant: the blocks are recorded without the flush before.
SyncNothing ==
    /\ doing = "sync"
    /\ doing' = "append"
    /\ UNCHANGED <<sent, finalizing, memory, log, partFile, goal>>

SyncData ==
    /\ doing = "sync"
    /\ stable' = cache
    /\ doing' = "append"
    /\ UNCHANGED <<sent, finalizing, memory, log, partial, cache, goal>>

SyncDataFails ==
    /\ doing = "sync" /\ Fail(pending)
    /\ UNCHANGED <<sent, log, partFile, goal>>

\* The next pending block is recorded, unless it is already.
append ==
    /\ doing = "append" /\ pending # <<>>
    /\ IF Head(pending) \in durable
       THEN pending' = Tail(pending) /\ UNCHANGED <<doing, journal>>
       ELSE journal' = Append(journal, Head(pending)) /\ doing' = "flush" /\ UNCHANGED pending
    /\ UNCHANGED <<sent, finalizing, pending_bytes, durable, synced, partFile, goal>>

AppendFlushed ==
    /\ doing = "flush"
    /\ synced' = Len(journal)
    /\ durable' = durable \cup {Head(pending)}
    /\ pending' = Tail(pending)
    /\ doing' = "append"
    /\ UNCHANGED <<sent, finalizing, pending_bytes, journal, partFile, goal>>

\* An append that fails leaves nothing or part of a record, or the whole of
\* one whose flush failed.  The drained blocks are dropped; their bytes go on
\* being counted.
AppendFails ==
    /\ \/ doing = "flush" /\ UNCHANGED journal
       \/ /\ doing = "append" /\ pending # <<>> /\ Head(pending) \notin durable
          /\ \/ UNCHANGED journal
             \/ Len(journal) < MaxJournal /\ journal' = Append(journal, Torn)
    /\ Fail(<<>>)
    /\ UNCHANGED <<sent, synced, partFile, goal>>

CheckpointDone ==
    /\ doing = "append" /\ pending = <<>>
    /\ pending_bytes' = 0
    /\ doing' = IF finalizing THEN "verify" ELSE "open"
    /\ UNCHANGED <<sent, finalizing, pending, durable, log, partFile, goal>>

-----------------------------------------------------------------------------
(* finalize.                                                                *)

finalize ==
    /\ doing = "open"
    /\ finalizing' = TRUE
    /\ doing' = IF pending = <<>> THEN "verify" ELSE "sync"
    /\ UNCHANGED <<sent, memory, log, partFile, goal>>

is_complete == Cardinality(durable) = block_count /\ pending = <<>>

\* Mutant: a complete journal is taken for a complete file.
VerifyJournal ==
    /\ doing = "verify"
    /\ IF is_complete THEN doing' = "sync_all" /\ UNCHANGED <<finalizing, memory>> ELSE Close
    /\ UNCHANGED <<sent, log, partFile, goal>>

\* Every block, then the hash of the whole file.
Verify ==
    /\ doing = "verify"
    /\ IF is_complete /\ \A b \in Blocks : cache[b] = "good"
       THEN doing' = "sync_all" /\ UNCHANGED <<finalizing, memory>>
       ELSE Close
    /\ UNCHANGED <<sent, log, partFile, goal>>

SyncAll ==
    /\ doing = "sync_all"
    /\ stable' = cache
    /\ doing' = "remove"
    /\ UNCHANGED <<sent, finalizing, memory, log, partial, cache, goal>>

RemoveDestination ==
    /\ doing = "remove"
    /\ destination' = "absent"
    /\ doing' = "rename"
    /\ UNCHANGED <<sent, finalizing, memory, log, partFile, promoted>>

RenamePartial ==
    /\ doing = "rename"
    /\ destination' = "promoted" /\ promoted' = stable
    /\ partial' = FALSE /\ cache' = Zero /\ stable' = Zero
    /\ Close
    /\ UNCHANGED <<sent, log>>

\* Mutant: a promotion that fails takes the files of the transfer with it.
FinalizeFailsCleanly ==
    /\ doing \in {"sync_all", "remove", "rename"}
    /\ partial' = FALSE /\ cache' = Zero /\ stable' = Zero
    /\ journal' = <<>> /\ synced' = 0
    /\ Close
    /\ UNCHANGED <<sent, goal>>

FinalizeFails ==
    /\ doing \in {"sync_all", "remove", "rename"}
    /\ Close
    /\ UNCHANGED <<sent, log, partFile, goal>>

-----------------------------------------------------------------------------
(* The receiver is dropped or its process killed; the power is lost.        *)

ReceiverKilled ==
    /\ doing # "closed"
    /\ Close
    /\ UNCHANGED <<sent, log, partFile, goal>>

\* What may be left of a block.
Left(b) == {cache[b], stable[b]} \cup (IF cache[b] = stable[b] THEN {} ELSE {"torn"})

PowerLoss ==
    /\ Close
    /\ cache' \in {c \in [Blocks -> Contents] : \A b \in Blocks : c[b] \in Left(b)}
    /\ stable' = cache'
    /\ \E k \in synced .. Len(journal), end \in {<<>>, <<Torn>>, <<Bad>>} :
        /\ end = <<>> \/ k < Len(journal)
        /\ end = <<Bad>> => journal[k + 1] # Torn
        /\ journal' = SubSeq(journal, 1, k) \o end
    /\ synced' = Len(journal')
    /\ UNCHANGED <<sent, partial, goal>>

-----------------------------------------------------------------------------
TransferNext ==
    \/ \E k \in 0 .. Len(journal) : open(k)
    \/ OpenRefused
    \/ \E k \in 0 .. Len(journal), n \in 0 .. Len(journal) : OpenInterrupted(k, n)
    \/ \E f \in Frames, elapsed \in BOOLEAN : receive_encoded_block(f, elapsed)
    \/ \E f \in Frames : WriteFails(f)
    \/ checkpoint \/ SyncData \/ SyncDataFails
    \/ append \/ AppendFlushed \/ AppendFails \/ CheckpointDone
    \/ finalize \/ Verify \/ SyncAll \/ RemoveDestination \/ RenamePartial \/ FinalizeFails
    \/ ReceiverKilled \/ PowerLoss

TransferSpec == TransferInit /\ [][TransferNext]_transferVars

-----------------------------------------------------------------------------
(* "Blocks become resume-safe only after a data flush followed by an        *)
(* authenticated journal append": whatever is killed, lost or fails, a      *)
(* block the journal file names is whole on the disk, as it was sent, until *)
(* the file is promoted; so no resumed transfer skips a block it lacks.     *)
JournalledIntact ==
    destination # "promoted" => \A b \in Records : stable[b] = sent[b]

(* Only a whole file is promoted, and it stays whole: what is at the        *)
(* destination has the hash of the manifest, on the disk, even when the     *)
(* sender's file changed, when the transfer is opened again after its       *)
(* promotion, or when it is stopped at any step of it.                      *)
DestinationWhole ==
    destination = "promoted" => \A b \in Blocks : promoted[b] = "good"

\* There is a file at the destination, or a whole one to put there.
WholeCopy == destination # "absent" \/ \A b \in Blocks : stable[b] = "good"

(* finalize takes the old destination away before it renames the new one    *)
(* into its place.  Whatever fails, is killed or loses its power in         *)
(* between, and whatever is opened, refused or received after that, a file  *)
(* stays: at the destination or, whole and flushed, beside it.              *)
WholeCopyKept == [][WholeCopy => WholeCopy']_transferVars

=============================================================================
