----------------------- MODULE PartialTransferProofs -----------------------
(* Proofs about PartialTransfer, for a file of any size in blocks of any    *)
(* size: what the journal names is whole on the disk, only a whole file is  *)
(* promoted, and a promotion that fails never leaves the user without one.  *)
(*                                                                          *)
(* JournalledIntact alone is not inductive.  A record may only be written   *)
(* for a block that was flushed, so the blocks that pend are followed from  *)
(* their write (Written); a block named by the journal may be written again *)
(* when its record was not flushed, which is harmless only because whatever *)
(* is written is the sender's block (Content); and a promotion takes the    *)
(* old destination away before the new one is there, so what was verified   *)
(* must be what was sent (Checked with Content).                            *)
EXTENDS PartialTransfer, SequenceTheorems, TLAPS

Waiting == {pending[i] : i \in 1 .. Len(pending)}

Types ==
    /\ sent \in [Blocks -> {"good", "other"}]
    /\ doing \in Pcs /\ finalizing \in BOOLEAN /\ partial \in BOOLEAN
    /\ pending \in Seq(Blocks) /\ durable \subseteq Blocks
    /\ journal \in Seq(Blocks \cup {Torn, Bad}) /\ synced \in 0 .. Len(journal)
    /\ cache \in [Blocks -> Contents] /\ stable \in [Blocks -> Contents]

Content ==
    \A b \in Blocks : cache[b] \in {"zero", "torn", sent[b]} /\ stable[b] \in {"zero", "torn", sent[b]}

NoFile == ~partial => cache = Zero /\ stable = Zero

Safe ==
    destination # "promoted" =>
        \A b \in Records \cup durable : cache[b] = sent[b] /\ stable[b] = sent[b]

Written ==
    \A b \in Waiting : cache[b] = sent[b] /\ (doing \in {"append", "flush"} => stable[b] = sent[b])

Flushing == doing = "flush" => pending # <<>>

Receiving == doing # "closed" => partial

Idle == doing = "closed" => pending = <<>> /\ durable = {}

Checked ==
    doing \in {"sync_all", "remove", "rename"} =>
        \A b \in Blocks : cache[b] = "good" /\ (doing \in {"remove", "rename"} => stable[b] = "good")

IInv ==
    /\ Types /\ Content /\ NoFile /\ Safe /\ Written /\ Flushing /\ Idle /\ Receiving /\ Checked
    /\ DestinationWhole

-----------------------------------------------------------------------------
(* A prefix of the journal has its types and no other records.              *)
LEMMA PrefixFacts ==
    ASSUME NEW S, NEW j \in Seq(S), NEW k \in 0 .. Len(j)
    PROVE  /\ SubSeq(j, 1, k) \in Seq(S) /\ Len(SubSeq(j, 1, k)) = k
           /\ \A i \in 1 .. k : SubSeq(j, 1, k)[i] = j[i]
  <1>1. \A i \in 1 .. k : j[i] \in S
    BY ElementOfSeq, LenProperties
  <1>2. k \in Int /\ Len(j) \in Nat
    BY LenProperties
  <1> QED
    BY <1>1, <1>2, SubSeqProperties

(* The records of a journal cut short.                                      *)
LEMMA CutRecords ==
    ASSUME Types, NEW k \in 0 .. Len(journal), journal' = SubSeq(journal, 1, k)
    PROVE  /\ journal' \in Seq(Blocks \cup {Torn, Bad}) /\ Len(journal') = k
           /\ Records' \subseteq Records
  <1>1. /\ journal' \in Seq(Blocks \cup {Torn, Bad}) /\ Len(journal') = k
        /\ \A i \in 1 .. k : journal'[i] = journal[i]
    BY PrefixFacts DEF Types
  <1>2. Len(journal) \in Nat
    BY LenProperties DEF Types
  <1> QED
    BY <1>1, <1>2 DEF Records

(* The records of a journal with one more piece at its end.                 *)
LEMMA LongerRecords ==
    ASSUME Types, NEW k \in 0 .. Len(journal), NEW x \in Blocks \cup {Torn, Bad},
           journal' = Append(SubSeq(journal, 1, k), x)
    PROVE  /\ journal' \in Seq(Blocks \cup {Torn, Bad}) /\ Len(journal') = k + 1
           /\ Records' \subseteq Records \cup ({x} \cap Blocks)
  <1> DEFINE p == SubSeq(journal, 1, k)
  <1>1. /\ p \in Seq(Blocks \cup {Torn, Bad}) /\ Len(p) = k
        /\ \A i \in 1 .. k : p[i] = journal[i]
    BY PrefixFacts DEF Types
  <1>2. Len(journal) \in Nat
    BY LenProperties DEF Types
  <1>3. /\ journal' \in Seq(Blocks \cup {Torn, Bad}) /\ Len(journal') = k + 1
        /\ \A i \in 1 .. k : journal'[i] = p[i]
        /\ journal'[k + 1] = x
    BY <1>1, AppendProperties
  <1> HIDE DEF p
  <1> QED
    BY <1>1, <1>2, <1>3 DEF Records

(* The same for one that is added to the whole journal.                     *)
LEMMA AppendRecords ==
    ASSUME Types, NEW x \in Blocks \cup {Torn, Bad}, journal' = Append(journal, x)
    PROVE  /\ journal' \in Seq(Blocks \cup {Torn, Bad}) /\ Len(journal') = Len(journal) + 1
           /\ Records' \subseteq Records \cup ({x} \cap Blocks)
  <1>1. SubSeq(journal, 1, Len(journal)) = journal /\ Len(journal) \in Nat
    BY SubSeqFull, LenProperties DEF Types
  <1> QED
    BY <1>1, LongerRecords

(* Torn and Bad are no blocks.                                              *)
LEMMA NoBlocks == Torn \notin Blocks /\ Bad \notin Blocks
  BY TransferAssumption DEF Blocks

(* The blocks that pend after one is taken.                                 *)
LEMMA TakeOne ==
    ASSUME Types, pending # <<>>
    PROVE  /\ Head(pending) \in Blocks /\ Head(pending) \in Waiting
           /\ Tail(pending) \in Seq(Blocks)
           /\ pending' = Tail(pending) => Waiting' \subseteq Waiting
  <1>1. /\ Head(pending) \in Blocks /\ Tail(pending) \in Seq(Blocks)
        /\ Len(Tail(pending)) = Len(pending) - 1
        /\ \A i \in 1 .. Len(Tail(pending)) : Tail(pending)[i] = pending[i + 1]
    BY HeadTailProperties DEF Types
  <1>2. Len(pending) \in Nat /\ Len(pending) # 0
    BY EmptySeq, LenProperties DEF Types
  <1>3. Head(pending) = pending[1]
    OBVIOUS
  <1>4. ASSUME pending' = Tail(pending) PROVE Waiting' \subseteq Waiting
    BY <1>1, <1>2, <1>4 DEF Waiting
  <1> QED
    BY <1>1, <1>2, <1>3, <1>4 DEF Waiting

(* Nothing pends in an empty sequence.                                      *)
LEMMA NoneWait == ASSUME pending' = <<>> PROVE Waiting' = {} /\ pending' \in Seq(Blocks)
  BY DEF Waiting

-----------------------------------------------------------------------------
(* The invariant holds at first.                                            *)
LEMMA InitHolds == TransferInit => IInv
  <1> SUFFICES ASSUME TransferInit PROVE IInv
    OBVIOUS
  <1>1. Len(journal) = 0 /\ Records = {} /\ Waiting = {}
    BY DEF TransferInit, Records, Waiting
  <1>2. pending \in Seq(Blocks) /\ journal \in Seq(Blocks \cup {Torn, Bad})
    BY DEF TransferInit
  <1>3. Zero \in [Blocks -> Contents]
    BY DEF Zero, Contents
  <1>4. doing \in Pcs /\ finalizing \in BOOLEAN /\ partial \in BOOLEAN /\ durable \subseteq Blocks
    BY DEF TransferInit, Pcs
  <1>5. synced \in 0 .. Len(journal)
    BY <1>1 DEF TransferInit
  <1>6. Types
    BY <1>2, <1>3, <1>4, <1>5 DEF TransferInit, Types
  <1>7. Content /\ NoFile
    BY DEF TransferInit, Content, NoFile, Zero
  <1>8. Safe /\ Written /\ Flushing /\ Idle /\ Receiving /\ Checked
    BY <1>1 DEF TransferInit, Safe, Written, Flushing, Idle, Receiving, Checked
  <1> QED
    BY <1>6, <1>7, <1>8 DEF TransferInit, IInv, DestinationWhole

\* What the steps of opening do to the files.
Opening ==
    /\ OpenFile
    /\ journal' \in Seq(Blocks \cup {Torn, Bad}) /\ synced' \in 0 .. Len(journal')
    /\ Records' \subseteq Records /\ durable' \subseteq Records
    /\ pending' = <<>> /\ doing' \in {"closed", "open"} /\ finalizing' \in BOOLEAN
    /\ Idle' /\ UNCHANGED <<sent, goal>>

(* Opening keeps the invariant: a partial file that has to be created had   *)
(* no block in the journal, unless it was promoted.                         *)
LEMMA OpeningKeeps == ASSUME IInv, Opening PROVE IInv'
  <1>1. Waiting' = {} /\ pending' \in Seq(Blocks)
    BY NoneWait DEF Opening
  <1>2. Records \subseteq Blocks
    BY DEF Records
  <1>3. cache' = cache /\ stable' = stable
    BY DEF IInv, NoFile, Opening, OpenFile
  <1>4. Types'
    BY <1>1, <1>2, <1>3 DEF IInv, Types, Opening, OpenFile, Pcs
  <1>5. Safe'
    BY <1>3 DEF IInv, Safe, Opening, goal
  <1> QED
    BY <1>1, <1>3, <1>4, <1>5 DEF IInv, Content, NoFile, Written, Flushing, Receiving, Checked,
        DestinationWhole, Opening, OpenFile, goal

(* When the receiver is closed nothing is in its memory.                    *)
LEMMA OpenKeeps == ASSUME IInv, NEW k \in 0 .. Len(journal), open(k) PROVE IInv'
  <1>1. /\ journal' \in Seq(Blocks \cup {Torn, Bad}) /\ Len(journal') = k
        /\ Records' \subseteq Records
    BY CutRecords DEF IInv, open
  <1>2. Len(journal) \in Nat
    BY LenProperties DEF IInv, Types
  <1>3. durable' \subseteq Records
    BY <1>2 DEF open, Loads, Records
  <1>4. synced' \in 0 .. Len(journal')
    BY <1>1, <1>2 DEF IInv, Types, open
  <1>5. Opening
    BY <1>1, <1>3, <1>4 DEF open, Opening, Idle
  <1> QED
    BY <1>5, OpeningKeeps

LEMMA OpenRefusedKeeps == ASSUME IInv, OpenRefused PROVE IInv'
  <1>1. Records' = Records /\ pending = <<>> /\ durable = {}
    BY DEF IInv, Idle, OpenRefused, Records, log
  <1>2. Opening
    BY <1>1 DEF IInv, Types, Idle, OpenRefused, Opening, memory, log
  <1> QED
    BY <1>2, OpeningKeeps

LEMMA OpenInterruptedKeeps ==
    ASSUME IInv, NEW k \in 0 .. Len(journal), NEW n \in 0 .. Len(journal), OpenInterrupted(k, n)
    PROVE  IInv'
  <1>1. /\ journal' \in Seq(Blocks \cup {Torn, Bad}) /\ Len(journal') = n
        /\ Records' \subseteq Records
    BY CutRecords DEF IInv, OpenInterrupted
  <1>2. Opening
    BY <1>1 DEF IInv, Types, Idle, OpenInterrupted, Opening, memory
  <1> QED
    BY <1>2, OpeningKeeps

-----------------------------------------------------------------------------
\* The journal has no new record.
LogKept ==
    /\ journal' \in Seq(Blocks \cup {Torn, Bad}) /\ synced' \in 0 .. Len(journal')
    /\ Records' \subseteq Records

LEMMA SameLog == ASSUME IInv, UNCHANGED log PROVE LogKept
  BY DEF IInv, Types, LogKept, log, Records

\* A step that leaves the partial file alone and, of what the receiver
\* remembers, at most forgets.
Quiet ==
    /\ LogKept /\ UNCHANGED <<sent, partFile, goal>>
    /\ pending' \in Seq(Blocks) /\ Waiting' \subseteq Waiting /\ durable' \subseteq durable
    /\ doing' \in Pcs /\ finalizing' \in BOOLEAN
    /\ doing' \in {"append", "flush"} => doing \in {"append", "flush"}
    /\ doing' # "closed" => doing # "closed"
    /\ Flushing' /\ Idle' /\ Checked'

LEMMA QuietKeeps == ASSUME IInv, Quiet PROVE IInv'
  <1>1. Records' \subseteq Records
    BY DEF Quiet, LogKept
  <1>2. Types'
    BY DEF IInv, Types, Quiet, LogKept, partFile
  <1>3. Safe'
    BY <1>1 DEF IInv, Safe, Quiet, partFile, goal
  <1>4. Written'
    BY DEF IInv, Written, Quiet, partFile
  <1>5. Content' /\ NoFile'
    BY DEF IInv, Content, NoFile, Quiet, partFile, Zero
  <1> QED
    BY <1>2, <1>3, <1>4, <1>5 DEF IInv, Receiving, DestinationWhole, Quiet, partFile, goal

(* To close is to forget.                                                   *)
LEMMA CloseKeeps == ASSUME IInv, Close, LogKept, UNCHANGED <<sent, partFile, goal>> PROVE IInv'
  <1>1. Waiting' = {} /\ pending' \in Seq(Blocks)
    BY NoneWait DEF Close
  <1>2. Quiet
    BY <1>1 DEF Close, Quiet, Flushing, Idle, Checked, Pcs
  <1> QED
    BY <1>2, QuietKeeps

LEMMA FailKeeps ==
    ASSUME IInv, doing # "closed", NEW left, Fail(left), left \in {<<>>, pending},
           LogKept, UNCHANGED <<sent, partFile, goal>>
    PROVE  IInv'
  <1>1. CASE finalizing
    BY <1>1, CloseKeeps DEF Fail
  <1>2. CASE ~finalizing
    <2>1. pending' \in Seq(Blocks) /\ Waiting' \subseteq Waiting
      BY <1>2, NoneWait DEF Fail, IInv, Types, Waiting
    <2>2. Quiet
      BY <1>2, <2>1 DEF IInv, Types, Fail, Quiet, Flushing, Idle, Checked, Pcs
    <2> QED
      BY <2>2, QuietKeeps
  <1> QED
    BY <1>1, <1>2

(* The steps that only move the receiver on.                                *)
LEMMA QuietSteps ==
    ASSUME IInv, checkpoint \/ CheckpointDone \/ finalize
    PROVE  IInv'
  <1>1. Waiting' = Waiting /\ pending' = pending
    BY DEF Waiting, checkpoint, CheckpointDone, finalize, memory
  <1>2. LogKept
    BY SameLog DEF checkpoint, CheckpointDone, finalize
  <1>3. Quiet
    BY <1>1, <1>2 DEF IInv, Types, Quiet, checkpoint, CheckpointDone, finalize, memory, Flushing,
        Idle, Checked, Pcs
  <1> QED
    BY <1>3, QuietKeeps

LEMMA VerifyKeeps == ASSUME IInv, Verify PROVE IInv'
  <1>0. LogKept
    BY SameLog DEF Verify
  <1>1. CASE is_complete /\ \A b \in Blocks : cache[b] = "good"
    <2>1. Waiting' = Waiting /\ pending' = pending
      BY <1>1 DEF Waiting, Verify, memory
    <2>2. cache' = cache /\ doing' = "sync_all"
      BY <1>1 DEF Verify, partFile
    <2>3. Checked'
      BY <1>1, <2>2 DEF Checked
    <2>4. Quiet
      BY <1>0, <1>1, <2>1, <2>2, <2>3 DEF IInv, Types, Quiet, Verify, memory, Flushing, Idle, Pcs
    <2> QED
      BY <2>4, QuietKeeps
  <1>2. CASE ~(is_complete /\ \A b \in Blocks : cache[b] = "good")
    BY <1>0, <1>2, CloseKeeps DEF Verify
  <1> QED
    BY <1>1, <1>2

-----------------------------------------------------------------------------
(* A frame that holds is of one of the blocks, and carries what was sent.   *)
LEMMA FrameFacts ==
    ASSUME NEW f, decrypt(f)
    PROVE  f.block \in Blocks /\ Plaintext(f) = sent[f.block]
  BY DEF decrypt, Plaintext

(* A block is written: what was sent, or as part of it "torn" over other    *)
(* contents.  Blocks that pend or are recorded hold what was sent, so       *)
(* writing them again changes nothing.                                      *)
LEMMA ReceiveKeeps ==
    ASSUME IInv, NEW f \in Frames, NEW elapsed \in BOOLEAN, receive_encoded_block(f, elapsed)
    PROVE  IInv'
  <1>1. f.block \in Blocks /\ Plaintext(f) = sent[f.block]
    BY FrameFacts DEF receive_encoded_block
  <1>2. cache' = [cache EXCEPT ![f.block] = sent[f.block]]
    BY <1>1 DEF receive_encoded_block
  <1>3. /\ pending' \in Seq(Blocks) /\ Len(pending') = Len(pending) + 1
        /\ \A i \in 1 .. Len(pending) : pending'[i] = pending[i]
        /\ pending'[Len(pending) + 1] = f.block
    BY <1>1, AppendProperties DEF IInv, Types, receive_encoded_block
  <1>4. Len(pending) \in Nat
    BY LenProperties DEF IInv, Types
  <1>5. Waiting' \subseteq Waiting \cup {f.block}
    BY <1>3, <1>4 DEF Waiting
  <1>6. Records' = Records
    BY DEF receive_encoded_block, log, Records
  <1>7. doing' \in {"open", "sync"} /\ doing = "open"
    BY DEF receive_encoded_block
  <1>8. cache' \in [Blocks -> Contents]
    BY <1>1, <1>2 DEF IInv, Types, Contents
  <1>9. Types'
    BY <1>3, <1>7, <1>8 DEF IInv, Types, receive_encoded_block, log, Pcs
  <1>10. Content'
    BY <1>1, <1>2 DEF IInv, Types, Content, receive_encoded_block
  <1>11. Waiting \subseteq Blocks /\ Records \subseteq Blocks
    BY <1>4, ElementOfSeq DEF IInv, Types, Waiting, Records
  <1>12. Safe'
    BY <1>1, <1>2, <1>6, <1>11 DEF IInv, Types, Safe, receive_encoded_block, goal
  <1>13. Written'
    BY <1>1, <1>2, <1>5, <1>7, <1>11 DEF IInv, Types, Written, receive_encoded_block
  <1>14. partial
    BY DEF IInv, Receiving, receive_encoded_block
  <1>15. NoFile' /\ Receiving'
    BY <1>14 DEF NoFile, Receiving, receive_encoded_block
  <1> QED
    BY <1>7, <1>9, <1>10, <1>12, <1>13, <1>15 DEF IInv, Flushing, Idle, Checked,
        DestinationWhole, receive_encoded_block, goal

LEMMA WriteFailsKeeps == ASSUME IInv, NEW f \in Frames, WriteFails(f) PROVE IInv'
  <1>1. f.block \in Blocks /\ Plaintext(f) = sent[f.block]
    BY FrameFacts DEF WriteFails
  <1>2. cache' = [cache EXCEPT ![f.block] =
            IF cache[f.block] = sent[f.block] THEN cache[f.block] ELSE "torn"]
    BY <1>1 DEF WriteFails
  <1>3. Waiting' = Waiting /\ Records' = Records
    BY DEF WriteFails, memory, log, Waiting, Records
  <1>4. \A b \in Blocks : cache[b] = sent[b] => cache'[b] = sent[b]
    BY <1>1, <1>2 DEF IInv, Types
  <1>5. cache' \in [Blocks -> Contents]
    BY <1>1, <1>2 DEF IInv, Types, Contents
  <1>6. Types'
    BY <1>5 DEF IInv, Types, WriteFails, memory, log
  <1>7. Content'
    BY <1>1, <1>2 DEF IInv, Types, Content, WriteFails
  <1>8. Waiting \subseteq Blocks /\ Records \subseteq Blocks
    BY LenProperties, ElementOfSeq DEF IInv, Types, Waiting, Records
  <1>9. Safe'
    BY <1>3, <1>4, <1>8 DEF IInv, Types, Safe, WriteFails, memory, goal
  <1>10. Written'
    BY <1>3, <1>4, <1>8 DEF IInv, Written, WriteFails
  <1>11. partial
    BY DEF IInv, Receiving, WriteFails
  <1> QED
    BY <1>6, <1>7, <1>9, <1>10, <1>11 DEF IInv, NoFile, Receiving, Flushing, Idle, Checked,
        DestinationWhole, WriteFails, memory, goal

-----------------------------------------------------------------------------
(* The flush: what pends is on the disk.                                    *)
LEMMA SyncDataKeeps == ASSUME IInv, SyncData PROVE IInv'
  <1>1. Waiting' = Waiting /\ Records' = Records
    BY DEF SyncData, memory, log, Waiting, Records
  <1>2. stable' = cache /\ cache' = cache /\ doing' = "append" /\ doing = "sync"
    BY DEF SyncData
  <1>3. Types'
    BY <1>2 DEF IInv, Types, SyncData, memory, log, Pcs
  <1>4. Safe' /\ Written'
    BY <1>1, <1>2 DEF IInv, Safe, Written, SyncData, memory, goal
  <1>5. Content' /\ NoFile'
    BY <1>2 DEF IInv, Content, NoFile, SyncData, Zero
  <1> QED
    BY <1>2, <1>3, <1>4, <1>5 DEF IInv, Flushing, Idle, Receiving, Checked,
        DestinationWhole, SyncData, memory, goal

(* A record is added for a block that was flushed.                          *)
LEMMA AppendKeeps == ASSUME IInv, append PROVE IInv'
  <1>1. /\ Head(pending) \in Blocks /\ Head(pending) \in Waiting
        /\ Tail(pending) \in Seq(Blocks)
        /\ pending' = Tail(pending) => Waiting' \subseteq Waiting
    BY TakeOne DEF IInv, append
  <1>2. CASE Head(pending) \in durable
    <2>1. pending' = Tail(pending) /\ UNCHANGED <<doing, journal, finalizing, durable>>
      BY <1>2 DEF append
    <2>0. LogKept
      BY <2>1, SameLog DEF append, log
    <2>2. Quiet
      BY <1>1, <1>2, <2>0, <2>1 DEF IInv, Types, append, Quiet, Flushing, Idle, Checked, Pcs
    <2> QED
      BY <2>2, QuietKeeps
  <1>3. CASE Head(pending) \notin durable
    <2>1. journal' = Append(journal, Head(pending)) /\ doing' = "flush" /\ pending' = pending
      BY <1>3 DEF append
    <2>2. /\ journal' \in Seq(Blocks \cup {Torn, Bad}) /\ Len(journal') = Len(journal) + 1
          /\ Records' \subseteq Records \cup ({Head(pending)} \cap Blocks)
      BY <1>1, <2>1, AppendRecords DEF IInv
    <2>3. Waiting' = Waiting /\ Len(journal) \in Nat
      BY <2>1, LenProperties DEF Waiting, IInv, Types
    <2>4. synced' \in 0 .. Len(journal')
      BY <2>2, <2>3 DEF IInv, Types, append
    <2>5. Types'
      BY <2>1, <2>2, <2>4 DEF IInv, Types, append, partFile, Pcs
    <2>6. cache[Head(pending)] = sent[Head(pending)] /\ stable[Head(pending)] = sent[Head(pending)]
      BY <1>1 DEF IInv, Written, append
    <2>7. Safe'
      BY <2>2, <2>6 DEF IInv, Safe, append, partFile, goal
    <2>8. Written'
      BY <2>1, <2>3 DEF IInv, Written, append, partFile
    <2>9. Content' /\ NoFile'
      BY DEF IInv, Content, NoFile, append, partFile, Zero
    <2>10. Flushing' /\ Idle' /\ Receiving' /\ Checked'
      BY <2>1 DEF IInv, Flushing, Idle, Receiving, Checked, append, partFile
    <2> QED
      BY <2>5, <2>7, <2>8, <2>9, <2>10 DEF IInv, DestinationWhole, append, goal
  <1> QED
    BY <1>2, <1>3

(* The record is flushed, and its block counts as durable.                  *)
LEMMA AppendFlushedKeeps == ASSUME IInv, AppendFlushed PROVE IInv'
  <1>1. /\ Head(pending) \in Blocks /\ Head(pending) \in Waiting
        /\ pending' \in Seq(Blocks) /\ Waiting' \subseteq Waiting
    BY TakeOne DEF IInv, Flushing, AppendFlushed
  <1>2. cache[Head(pending)] = sent[Head(pending)] /\ stable[Head(pending)] = sent[Head(pending)]
    BY <1>1 DEF IInv, Written, AppendFlushed
  <1>3. Records' = Records /\ Len(journal) \in Nat
    BY LenProperties DEF IInv, Types, AppendFlushed, Records
  <1>4. Types'
    BY <1>1, <1>3 DEF IInv, Types, AppendFlushed, partFile, Pcs
  <1>5. Safe' /\ Written'
    BY <1>1, <1>2, <1>3 DEF IInv, Safe, Written, AppendFlushed, partFile, goal
  <1>6. Content' /\ NoFile'
    BY DEF IInv, Content, NoFile, AppendFlushed, partFile, Zero
  <1> QED
    BY <1>4, <1>5, <1>6 DEF IInv, Flushing, Idle, Receiving, Checked, DestinationWhole,
        AppendFlushed, partFile, goal

(* A failed append adds at most a torn record, and drops what pends.        *)
LEMMA AppendFailsKeeps == ASSUME IInv, AppendFails PROVE IInv'
  <1>1. LogKept
    <2>1. CASE journal' = journal
      BY <2>1, SameLog DEF AppendFails, log
    <2>2. CASE journal' = Append(journal, Torn)
      <3>1. /\ journal' \in Seq(Blocks \cup {Torn, Bad}) /\ Len(journal') = Len(journal) + 1
            /\ Records' \subseteq Records \cup ({Torn} \cap Blocks)
        BY <2>2, AppendRecords DEF IInv
      <3>2. Len(journal) \in Nat
        BY LenProperties DEF IInv, Types
      <3> QED
        BY <3>1, <3>2, NoBlocks DEF IInv, Types, AppendFails, LogKept
    <2> QED
      BY <2>1, <2>2 DEF AppendFails
  <1> QED
    BY <1>1, FailKeeps DEF AppendFails

LEMMA SyncFailsKeeps == ASSUME IInv, SyncDataFails PROVE IInv'
  BY SameLog, FailKeeps DEF SyncDataFails

LEMMA CloseSteps == ASSUME IInv, FinalizeFails \/ ReceiverKilled PROVE IInv'
  BY SameLog, CloseKeeps DEF FinalizeFails, ReceiverKilled

-----------------------------------------------------------------------------
(* The promotion.                                                           *)
LEMMA SyncAllKeeps == ASSUME IInv, SyncAll PROVE IInv'
  <1>1. Waiting' = Waiting /\ Records' = Records
    BY DEF SyncAll, memory, log, Waiting, Records
  <1>2. stable' = cache /\ cache' = cache /\ doing' = "remove" /\ doing = "sync_all"
    BY DEF SyncAll
  <1>3. Types'
    BY <1>2 DEF IInv, Types, SyncAll, memory, log, Pcs
  <1>4. Safe' /\ Written'
    BY <1>1, <1>2 DEF IInv, Safe, Written, SyncAll, memory, goal
  <1>5. Content' /\ NoFile'
    BY <1>2 DEF IInv, Content, NoFile, SyncAll, Zero
  <1>6. Checked'
    BY <1>2 DEF IInv, Checked
  <1> QED
    BY <1>2, <1>3, <1>4, <1>5, <1>6 DEF IInv, Flushing, Idle, Receiving,
        DestinationWhole, SyncAll, memory, goal

(* What was verified is what was sent, for every block: the journal may     *)
(* name any of them when there is no destination any more.                  *)
LEMMA RemoveKeeps == ASSUME IInv, RemoveDestination PROVE IInv'
  <1>1. Waiting' = Waiting /\ Records' = Records /\ Records \subseteq Blocks
    BY DEF RemoveDestination, memory, log, Waiting, Records
  <1>2. \A b \in Blocks : cache[b] = sent[b] /\ stable[b] = sent[b]
    BY DEF IInv, Content, Checked, RemoveDestination
  <1>3. Types'
    BY DEF IInv, Types, RemoveDestination, memory, log, partFile, Pcs
  <1>4. Safe'
    BY <1>1, <1>2 DEF IInv, Types, Safe, RemoveDestination, memory, partFile
  <1>5. Written' /\ Content' /\ NoFile'
    BY <1>1 DEF IInv, Written, Content, NoFile, RemoveDestination, partFile, Zero
  <1>6. Checked'
    BY DEF IInv, Checked, RemoveDestination, partFile
  <1> QED
    BY <1>3, <1>4, <1>5, <1>6 DEF IInv, Flushing, Idle, Receiving,
        DestinationWhole, RemoveDestination, memory, partFile

LEMMA RenameKeeps == ASSUME IInv, RenamePartial PROVE IInv'
  <1>1. Waiting' = {} /\ pending' \in Seq(Blocks)
    BY NoneWait DEF RenamePartial, Close
  <1>2. Zero \in [Blocks -> Contents]
    BY DEF Zero, Contents
  <1>3. Types'
    BY <1>1, <1>2 DEF IInv, Types, RenamePartial, Close, log, Pcs
  <1>4. DestinationWhole'
    BY DEF IInv, Checked, RenamePartial, DestinationWhole
  <1>5. Content' /\ NoFile'
    BY DEF RenamePartial, Content, NoFile, Zero
  <1>6. Safe' /\ Written'
    BY <1>1 DEF RenamePartial, Safe, Written
  <1> QED
    BY <1>3, <1>4, <1>5, <1>6 DEF IInv, Flushing, Idle, Receiving, Checked, RenamePartial, Close

-----------------------------------------------------------------------------
(* A loss of power: of the journal a prefix is left, of a block that was    *)
(* flushed all of it.                                                       *)
LEMMA PowerLossKeeps == ASSUME IInv, PowerLoss PROVE IInv'
  <1>1. PICK k \in synced .. Len(journal), end \in {<<>>, <<Torn>>, <<Bad>>} :
            journal' = SubSeq(journal, 1, k) \o end
    BY DEF PowerLoss
  <1>2. k \in 0 .. Len(journal) /\ Len(journal) \in Nat
    BY LenProperties DEF IInv, Types
  <1>3. SubSeq(journal, 1, k) \in Seq(Blocks \cup {Torn, Bad})
    BY <1>2, PrefixFacts DEF IInv, Types
  <1>4. journal' \in Seq(Blocks \cup {Torn, Bad}) /\ Records' \subseteq Records
    <2>1. CASE end = <<>>
      <3>1. journal' = SubSeq(journal, 1, k)
        BY <1>1, <1>3, <2>1, ConcatEmptySeq
      <3> QED
        BY <1>2, <3>1, CutRecords DEF IInv
    <2>2. ASSUME NEW x \in {Torn, Bad}, end = <<x>>
          PROVE  journal' \in Seq(Blocks \cup {Torn, Bad}) /\ Records' \subseteq Records
      <3>1. journal' = Append(SubSeq(journal, 1, k), x)
        BY <1>1, <1>3, <2>2, AppendIsConcat
      <3> QED
        BY <1>2, <3>1, LongerRecords, NoBlocks DEF IInv
    <2> QED
      BY <2>1, <2>2
  <1>5. synced' \in 0 .. Len(journal')
    BY <1>4, LenProperties DEF PowerLoss
  <1>6. /\ cache' \in [Blocks -> Contents] /\ stable' = cache'
        /\ \A b \in Blocks : cache'[b] \in Left(b)
    BY DEF PowerLoss
  <1>7. Waiting' = {} /\ pending' \in Seq(Blocks)
    BY NoneWait DEF PowerLoss, Close
  <1>8. Types'
    BY <1>4, <1>5, <1>6, <1>7 DEF IInv, Types, PowerLoss, Close, Pcs
  <1>9. Content'
    BY <1>6 DEF IInv, Content, Left, PowerLoss
  <1>10. NoFile'
    <2> SUFFICES ASSUME ~partial PROVE cache' = Zero
      BY <1>6 DEF NoFile, PowerLoss, Zero
    <2>1. \A b \in Blocks : Left(b) = {"zero"}
      BY DEF IInv, NoFile, Left, Zero
    <2>2. \A b \in Blocks : cache'[b] = "zero"
      BY <1>6, <2>1
    <2> QED
      BY <1>6, <2>2 DEF Zero
  <1>11. Records \subseteq Blocks
    BY DEF Records
  <1>12. Safe'
    BY <1>4, <1>6, <1>11 DEF IInv, Safe, Left, PowerLoss, Close, goal
  <1>13. Written'
    BY <1>7 DEF Written
  <1> QED
    BY <1>8, <1>9, <1>10, <1>12, <1>13 DEF IInv, Flushing, Idle, Receiving, Checked,
        DestinationWhole, PowerLoss, Close, goal

-----------------------------------------------------------------------------
(* Every step keeps the invariant.                                          *)
LEMMA NextKeeps == ASSUME IInv, [TransferNext]_transferVars PROVE IInv'
  <1>1. CASE UNCHANGED transferVars
    BY <1>1 DEF transferVars, IInv, Types, Content, NoFile, Safe, Written, Flushing, Idle, Receiving,
        Checked, DestinationWhole, Waiting, Records, Zero
  <1>2. CASE TransferNext
    BY <1>2, OpenKeeps, OpenRefusedKeeps, OpenInterruptedKeeps, ReceiveKeeps, WriteFailsKeeps,
       QuietSteps, SyncDataKeeps, SyncFailsKeeps, AppendKeeps, AppendFlushedKeeps,
       AppendFailsKeeps, VerifyKeeps, SyncAllKeeps, RemoveKeeps, RenameKeeps, CloseSteps,
       PowerLossKeeps DEF TransferNext
  <1> QED
    BY <1>1, <1>2

(* The inductive invariant holds in every reachable state.                  *)
THEOREM Invariance == TransferSpec => []IInv
  BY InitHolds, NextKeeps, PTL DEF TransferSpec

(* What the invariant has no need of: the bytes that pend, and what is at   *)
(* the destination.                                                         *)
Outcome ==
    /\ pending_bytes \in Int
    /\ destination \in {"absent", "old", "promoted"} /\ promoted \in [Blocks -> Contents]

LEMMA OutcomeKept ==
    ASSUME IInv, Outcome, [TransferNext]_transferVars
    PROVE  Outcome'
  <1>1. CASE UNCHANGED transferVars
    BY <1>1 DEF Outcome, transferVars
  <1>2. ASSUME NEW f \in Frames, NEW elapsed \in BOOLEAN, receive_encoded_block(f, elapsed)
        PROVE  Outcome'
    <2>1. f.block \in Int /\ f.len = expected_plaintext_len(f.block)
      BY <1>2 DEF receive_encoded_block, decrypt, Blocks
    <2>2. f.len \in Int
      BY <2>1, TransferAssumption DEF expected_plaintext_len
    <2> QED
      BY <1>2, <2>2 DEF receive_encoded_block, Outcome, goal
  <1>3. CASE \E k \in 0 .. Len(journal) : open(k)
    BY <1>3 DEF open, Outcome, goal
  <1>4. CASE \/ OpenRefused
             \/ \E k \in 0 .. Len(journal), n \in 0 .. Len(journal) : OpenInterrupted(k, n)
             \/ \E f \in Frames : WriteFails(f)
             \/ checkpoint \/ SyncData \/ append \/ AppendFlushed \/ CheckpointDone
             \/ finalize \/ SyncAll
    BY <1>4 DEF OpenRefused, OpenInterrupted, WriteFails, checkpoint, SyncData, append,
                AppendFlushed, CheckpointDone, finalize, SyncAll, Outcome, memory, goal
  <1>5. CASE SyncDataFails \/ AppendFails \/ Verify \/ FinalizeFails \/ ReceiverKilled \/ PowerLoss
    BY <1>5 DEF SyncDataFails, AppendFails, Verify, FinalizeFails, ReceiverKilled, PowerLoss, Fail, Close,
                Outcome, memory, goal
  <1>6. CASE RemoveDestination
    BY <1>6 DEF RemoveDestination, Outcome, memory
  <1>7. CASE RenamePartial
    BY <1>7 DEF RenamePartial, Close, Outcome, IInv, Types
  <1> QED
    BY <1>1, <1>2, <1>3, <1>4, <1>5, <1>6, <1>7 DEF TransferNext

(* transfer.rs: the receiver, its journal, its file and the destination     *)
(* keep their types, through kills, power losses and errors.                *)
THEOREM TransferTypeCorrect == TransferSpec => []TransferTypeOK
  <1>1. TransferInit => Outcome
    BY DEF TransferInit, Outcome, Zero, Contents
  <1>2. IInv /\ Outcome /\ [TransferNext]_transferVars => Outcome'
    BY OutcomeKept
  <1>3. IInv /\ Outcome => TransferTypeOK
    BY DEF IInv, Types, Outcome, TransferTypeOK
  <1> QED
    BY <1>1, <1>2, <1>3, Invariance, PTL DEF TransferSpec

(* PartialTransfer::checkpoint and append: a block the journal names is     *)
(* whole on the disk, whatever is killed, lost or fails, for every size of  *)
(* the file and of its blocks.                                              *)
THEOREM JournalIsSafe == TransferSpec => []JournalledIntact
  <1>1. IInv => JournalledIntact
    BY DEF IInv, Safe, JournalledIntact
  <1> QED
    BY <1>1, Invariance, PTL

(* PartialTransfer::finalize: what is at the destination is the file of the *)
(* manifest, for every size of it.                                          *)
THEOREM OnlyWholeFilesPromoted == TransferSpec => []DestinationWhole
  <1>1. IInv => DestinationWhole
    BY DEF IInv
  <1> QED
    BY <1>1, Invariance, PTL

-----------------------------------------------------------------------------
(* WholeCopyKept needs more than what the journal names: the blocks of a    *)
(* file whose records were lost, or refused, are written again.  A block    *)
(* that is whole on the disk is whole to a reader too, and no step but the  *)
(* promotion takes it away.                                                 *)
Ahead == \A b \in Blocks : stable[b] = sent[b] => cache[b] = sent[b]

Stays ==
    /\ Ahead'
    /\ sent' = sent
    /\ \A b \in Blocks : stable[b] = sent[b] => stable'[b] = sent[b]

(* The steps that leave the partial file alone.                             *)
LEMMA FileStays == ASSUME Ahead, UNCHANGED <<sent, partFile>> PROVE Stays
  BY DEF Ahead, Stays, partFile

(* A file that is created is new: there was none with a block in it.        *)
LEMMA OpenStays == ASSUME IInv, Ahead, OpenFile, sent' = sent PROVE Stays
  <1>1. \A b \in Blocks : sent[b] # "zero"
    BY DEF IInv, Types
  <1>2. CASE partial
    BY <1>2 DEF OpenFile, Ahead, Stays
  <1>3. CASE ~partial
    BY <1>1, <1>3 DEF IInv, NoFile, OpenFile, Ahead, Stays, Zero
  <1> QED
    BY <1>2, <1>3

(* What is written over a whole block, even in part, is that block again.   *)
LEMMA ReceiveStays ==
    ASSUME IInv, Ahead, NEW f \in Frames, NEW elapsed \in BOOLEAN,
           receive_encoded_block(f, elapsed)
    PROVE  Stays
  <1>1. f.block \in Blocks /\ Plaintext(f) = sent[f.block]
    BY FrameFacts DEF receive_encoded_block
  <1>2. /\ cache' = [cache EXCEPT ![f.block] = Plaintext(f)]
        /\ cache \in [Blocks -> Contents] /\ stable' = stable /\ sent' = sent
    BY DEF receive_encoded_block, IInv, Types
  <1>3. \A b \in Blocks : cache[b] = sent[b] => cache'[b] = sent[b]
    BY <1>1, <1>2
  <1> QED
    BY <1>2, <1>3 DEF Ahead, Stays

LEMMA WriteFailsStays ==
    ASSUME IInv, Ahead, NEW f \in Frames, WriteFails(f) PROVE Stays
  <1>1. f.block \in Blocks /\ Plaintext(f) = sent[f.block]
    BY FrameFacts DEF WriteFails
  <1>2. /\ cache' = [cache EXCEPT ![f.block] = IF @ = Plaintext(f) THEN @ ELSE "torn"]
        /\ cache \in [Blocks -> Contents] /\ stable' = stable /\ sent' = sent
    BY DEF WriteFails, IInv, Types
  <1>3. \A b \in Blocks : cache[b] = sent[b] => cache'[b] = sent[b]
    BY <1>1, <1>2
  <1> QED
    BY <1>2, <1>3 DEF Ahead, Stays

(* A flush makes the disk what a reader sees.                               *)
LEMMA FlushStays == ASSUME Ahead, SyncData \/ SyncAll PROVE Stays
  BY DEF SyncData, SyncAll, Ahead, Stays

(* A block that is the same on the disk and to a reader is not lost.        *)
LEMMA PowerLossStays == ASSUME Ahead, PowerLoss PROVE Stays
  <1>1. /\ stable' = cache' /\ sent' = sent
        /\ \A b \in Blocks : cache'[b] \in Left(b)
    BY DEF PowerLoss
  <1>2. \A b \in Blocks : stable[b] = sent[b] => Left(b) = {sent[b]}
    BY DEF Ahead, Left
  <1> QED
    BY <1>1, <1>2 DEF Ahead, Stays

(* Every step but the promotion keeps the whole blocks; only a promotion    *)
(* changes the destination.                                                 *)
LEMMA StepStays ==
    ASSUME IInv, Ahead, TransferNext
    PROVE  \/ Stays /\ destination' = destination
           \/ Stays /\ RemoveDestination
           \/ RenamePartial
  <1>1. CASE \E k \in 0 .. Len(journal) : open(k)
    BY <1>1, OpenStays DEF open, goal
  <1>2. CASE OpenRefused \/ \E k, n \in 0 .. Len(journal) : OpenInterrupted(k, n)
    BY <1>2, OpenStays DEF OpenRefused, OpenInterrupted, goal
  <1>3. CASE \E f \in Frames, elapsed \in BOOLEAN : receive_encoded_block(f, elapsed)
    BY <1>3, ReceiveStays DEF receive_encoded_block, goal
  <1>4. CASE \E f \in Frames : WriteFails(f)
    BY <1>4, WriteFailsStays DEF WriteFails, goal
  <1>5. CASE SyncData \/ SyncAll
    BY <1>5, FlushStays DEF SyncData, SyncAll, goal
  <1>6. CASE checkpoint \/ SyncDataFails \/ append \/ AppendFlushed \/ AppendFails
    BY <1>6, FileStays DEF checkpoint, SyncDataFails, append, AppendFlushed, AppendFails, goal
  <1>7. CASE CheckpointDone \/ finalize \/ Verify \/ FinalizeFails \/ ReceiverKilled
    BY <1>7, FileStays DEF CheckpointDone, finalize, Verify, FinalizeFails, ReceiverKilled, goal
  <1>8. CASE PowerLoss
    BY <1>8, PowerLossStays DEF PowerLoss, goal
  <1>9. CASE RemoveDestination
    BY <1>9, FileStays DEF RemoveDestination
  <1> QED
    BY <1>1, <1>2, <1>3, <1>4, <1>5, <1>6, <1>7, <1>8, <1>9 DEF TransferNext

(* Whole blocks stay ahead, and a whole copy stays one.                     *)
LEMMA CopyStays ==
    ASSUME IInv, Ahead, [TransferNext]_transferVars
    PROVE  Ahead' /\ (WholeCopy => WholeCopy')
  <1>1. CASE UNCHANGED transferVars
    BY <1>1 DEF transferVars, Ahead, WholeCopy
  <1>2. CASE Stays /\ destination' = destination
    <2>1. \A b \in Blocks : stable[b] = "good" => sent[b] = "good"
      BY DEF IInv, Content
    <2> QED
      BY <1>2, <2>1 DEF Stays, WholeCopy
  <1>3. CASE Stays /\ RemoveDestination
    <2>1. \A b \in Blocks : stable'[b] = "good"
      BY <1>3 DEF RemoveDestination, IInv, Checked, partFile
    <2> QED
      BY <1>3, <2>1 DEF Stays, WholeCopy
  <1>4. CASE RenamePartial
    <2>1. \A b \in Blocks : stable'[b] = "zero" /\ sent'[b] # "zero"
      BY <1>4 DEF RenamePartial, Zero, IInv, Types
    <2> QED
      BY <1>4, <2>1 DEF RenamePartial, Ahead, WholeCopy
  <1> QED
    BY <1>1, <1>2, <1>3, <1>4, StepStays

(* PartialTransfer::finalize: between the removal of the old destination    *)
(* and the rename, and after a stop there, the whole file is not lost, for  *)
(* every size of it.                                                        *)
THEOREM WholeCopyStays == TransferSpec => WholeCopyKept
  <1>1. TransferInit => Ahead
    <2> SUFFICES ASSUME TransferInit, NEW b \in Blocks PROVE stable[b] # sent[b]
      BY DEF Ahead
    <2>1. stable[b] = "zero" /\ sent[b] \in {"good", "other"}
      BY DEF TransferInit, Zero
    <2> QED
      BY <2>1
  <1>2. IInv /\ Ahead /\ [TransferNext]_transferVars => Ahead' /\ [WholeCopy => WholeCopy']_transferVars
    BY CopyStays
  <1> QED
    BY <1>1, <1>2, Invariance, PTL DEF TransferSpec, WholeCopyKept

=============================================================================
