---------------------------- MODULE TorIncoming ----------------------------
(***************************************************************************)
(* What others can cause through the Tor carrier (tor.rs): accept_streams   *)
(* serves the streams that come in to the onion service, a reader task per  *)
(* stream, and the frames they read wait in the event queue, beside the     *)
(* results of commands, for the application to take them.                   *)
(***************************************************************************)
EXTENDS Naturals, Sequences, SequencesExt, FiniteSets

CONSTANTS
    Streams,                \* the streams strangers and contacts open
    MAX_INCOMING_STREAMS,
    FrameSizes,             \* sizes of a frame's event
    MAX_QUEUED_FRAME_BYTES,
    MaxEvents               \* bound: events queued at once

ASSUME IncomingAssumption ==
    /\ IsFiniteSet(Streams) /\ MAX_INCOMING_STREAMS \in Nat \ {0}
    /\ FrameSizes \subseteq Nat \ {0} /\ MAX_QUEUED_FRAME_BYTES \in Nat /\ MaxEvents \in Nat

VARIABLES
    reader,     \* of each stream: new, reading (first or later frame), read: a
                \* frame is queued and not marked yet, ending, gone
    active,     \* the map of readers, the stream quiet the longest first
    events,     \* the event queue: the size of a frame, 0 for a result
    frame_bytes

inVars == <<reader, active, events, frame_bytes>>

InTypeOK ==
    /\ reader \in [Streams -> {"new", "reading", "read", "ending", "gone"}]
    /\ active \in Seq(Streams)
    /\ events \in Seq(FrameSizes \cup {0}) /\ Len(events) <= MaxEvents
    /\ frame_bytes \in Nat

InInit ==
    /\ reader = [s \in Streams |-> "new"]
    /\ active = <<>> /\ events = <<>> /\ frame_bytes = 0

-----------------------------------------------------------------------------
(* accept_streams.                                                          *)

\* The readers when a stream comes in: with all slots taken, the stream
\* quiet the longest is aborted.  (What it may still do before its next
\* await finds no entry of its own any more.)
MakeRoom ==
    IF Len(active) < MAX_INCOMING_STREAMS THEN <<active, reader>>
    ELSE <<Tail(active), [reader EXCEPT ![Head(active)] = "gone"]>>

\* Read under the lock of the map, which holds the new reader back until it
\* is in the map.  A stream to another port is refused.
Accept(s) ==
    /\ reader[s] = "new"
    /\ LET made == MakeRoom IN
       /\ active' = Append(made[1], s)
       /\ reader' = [made[2] EXCEPT ![s] = "reading"]
    /\ UNCHANGED <<events, frame_bytes>>

Refuse(s) ==
    /\ reader[s] = "new"
    /\ reader' = [reader EXCEPT ![s] = "gone"]
    /\ UNCHANGED <<active, events, frame_bytes>>

-----------------------------------------------------------------------------
(* read_frames and the queue.                                               *)

\* A frame is queued unless too many bytes wait.
push_frame(size) ==
    IF frame_bytes + size > MAX_QUEUED_FRAME_BYTES THEN UNCHANGED <<events, frame_bytes>>
    ELSE events' = Append(events, size) /\ frame_bytes' = frame_bytes + size

ReadFrame(s, size) ==
    /\ reader[s] = "reading" /\ Len(events) < MaxEvents
    /\ push_frame(size)
    /\ reader' = [reader EXCEPT ![s] = "read"]
    /\ UNCHANGED active

\* heard: its stream is now the one heard from last.
Heard(s) ==
    /\ reader[s] = "read"
    /\ active' = IF Contains(active, s) THEN Append(RemoveFirst(active, s), s) ELSE active
    /\ reader' = [reader EXCEPT ![s] = "reading"]
    /\ UNCHANGED <<events, frame_bytes>>

\* The stream ends, idles, sends no first frame in time or a bad length.
StreamEnds(s) ==
    /\ reader[s] = "reading"
    /\ reader' = [reader EXCEPT ![s] = "ending"]
    /\ UNCHANGED <<active, events, frame_bytes>>

\* Mutant: a reader that ends stays in the map.
ForgetNothing(s) ==
    /\ reader[s] = "ending"
    /\ reader' = [reader EXCEPT ![s] = "gone"]
    /\ UNCHANGED <<active, events, frame_bytes>>

\* Its reader takes itself out of the map.
Untrack(s) ==
    /\ reader[s] = "ending"
    /\ reader' = [reader EXCEPT ![s] = "gone"]
    /\ active' = RemoveFirst(active, s)
    /\ UNCHANGED <<events, frame_bytes>>

\* push_event: a result is queued whatever waits.
push_event ==
    /\ Len(events) < MaxEvents
    /\ events' = Append(events, 0)
    /\ UNCHANGED <<reader, active, frame_bytes>>

next_event ==
    /\ events # <<>>
    /\ events' = Tail(events)
    /\ frame_bytes' = IF Head(events) <= frame_bytes THEN frame_bytes - Head(events) ELSE 0
    /\ UNCHANGED <<reader, active>>

InNext ==
    \/ \E s \in Streams : Accept(s) \/ Refuse(s) \/ Heard(s) \/ StreamEnds(s) \/ Untrack(s)
    \/ \E s \in Streams, size \in FrameSizes : ReadFrame(s, size)
    \/ push_event \/ next_event

InSpec == InInit /\ [][InNext]_inVars

-----------------------------------------------------------------------------
(* "Everything a stranger can cause is bounded": no more streams are read   *)
(* at once than there are slots, every slot is that of a reader still at    *)
(* work, so none is lost for good, and the bytes counted as waiting are     *)
(* those of the frames that wait, within their limit.                       *)
StrangersBounded ==
    /\ Cardinality({s \in Streams : reader[s] \in {"reading", "read"}}) <= MAX_INCOMING_STREAMS
    /\ \A i \in 1 .. Len(active) : reader[active[i]] \in {"reading", "read", "ending"}
    /\ frame_bytes = FoldSeq(+, 0, events)
    /\ frame_bytes <= MAX_QUEUED_FRAME_BYTES

=============================================================================
