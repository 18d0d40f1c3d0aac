---------------------------- MODULE CallReceive ----------------------------
(***************************************************************************)
(* The receive side of a call's audio (native/conest_native/src/audio.rs    *)
(* and audio_remote.rs): one jitter buffer and decoder per participant, and *)
(* the decoder thread that plays one frame of 20 ms of all of them at a     *)
(* time.  The clock moves in a step of its own, in units of which a slot    *)
(* has SLOT: the thread polls it, so a slot is looked at late by any time.  *)
(*                                                                          *)
(* The network may lose, reorder and repeat packets: any packet may be      *)
(* pushed at any time.  Audio is a number of frames; a packet's Opus data   *)
(* decodes to some of them, or to none when it is damaged.                  *)
(***************************************************************************)
EXTENDS Integers, FiniteSets, FiniteSetsExt

CONSTANTS
    Participants,           \* numbers; 0 is the peer of a 1:1 call
    LastSeq,                \* bound: a participant's packets are 1 .. LastSeq[p]
    MAX_BUFFERED_PACKETS,
    SKIP_WAIT_BACKLOG,
    MIN_JITTER_WAIT,        \* in units of time, as the next three
    MAX_JITTER_WAIT,
    SLOT,                   \* the 20 ms of a slot
    RESET,                  \* the 60 ms after which the schedule starts again
    GAP_FRAMES,
    PacketFrames,           \* the frames a packet may decode to
    PLAYBACK_QUEUE,         \* in frames
    MaxLate                 \* bound: how late the decoder thread gets to a slot

ASSUME ReceiveAssumption ==
    /\ Participants \subseteq Nat /\ 0 \in Participants /\ IsFiniteSet(Participants)
    /\ LastSeq \in [Participants -> Nat]
    /\ SKIP_WAIT_BACKLOG \in Nat \ {0} /\ MAX_BUFFERED_PACKETS \in Nat
    /\ SKIP_WAIT_BACKLOG <= MAX_BUFFERED_PACKETS
    /\ MIN_JITTER_WAIT \in Nat \ {0} /\ MAX_JITTER_WAIT \in Nat
    /\ MIN_JITTER_WAIT <= MAX_JITTER_WAIT
    /\ GAP_FRAMES \in Nat \ {0} /\ PLAYBACK_QUEUE \in Nat \ {0}
    /\ PacketFrames \subseteq Nat /\ IsFiniteSet(PacketFrames)
    /\ SLOT \in Nat \ {0} /\ RESET \in Nat /\ MaxLate \in Nat

VARIABLES
    stream,     \* RemoteMixer.streams: one RemoteStream per active participant
    rendering,  \* the participants the decoder thread, with the mixer locked,
                \* has not rendered in this slot yet
    anyReady,   \* some participant had audio in this slot
    due,        \* the time until next_playout, negative when it has passed
    playback    \* frames waiting for the speaker

rxVars == <<stream, rendering, anyReady, due, playback>>

Waits == MIN_JITTER_WAIT .. MAX_JITTER_WAIT

\* The jitter buffer (expected to lost), the decoded audio and the statistics
\* of a participant; played and stalled are history.
RemoteStream ==
    [expected : Nat \ {0}, pending : SUBSET Nat,
     gapped : BOOLEAN, age : Nat, wait : Waits, lost : Nat,
     pcm : Nat, started : BOOLEAN, short : 0 .. GAP_FRAMES + 1,
     received : Nat, gaps : Nat,
     played : SUBSET Nat, stalled : Nat]

RxTypeOK ==
    /\ DOMAIN stream \subseteq Participants
    /\ \A p \in DOMAIN stream : stream[p] \in RemoteStream
    /\ rendering \subseteq DOMAIN stream
    /\ anyReady \in BOOLEAN
    /\ due \in -MaxLate .. SLOT
    /\ playback \in 0 .. PLAYBACK_QUEUE

NewStream ==
    [expected |-> 1, pending |-> {}, gapped |-> FALSE, age |-> 0, wait |-> MIN_JITTER_WAIT,
     lost |-> 0, pcm |-> 0, started |-> FALSE, short |-> 0, received |-> 0, gaps |-> 0,
     played |-> {}, stalled |-> 0]

\* "The unchanged public 1:1 ABI always addresses stream zero."
RxInit ==
    /\ stream = [p \in {0} |-> NewStream]
    /\ rendering = {}
    /\ anyReady = FALSE
    /\ due = 0
    /\ playback = 0

Unlocked == rendering = {}

-----------------------------------------------------------------------------
(* The application's calls, each with the mixer locked.                     *)

set_active(p, active) ==
    /\ Unlocked
    /\ stream' = IF active
                 THEN [q \in DOMAIN stream \cup {p} |->
                          IF q \in DOMAIN stream THEN stream[q] ELSE NewStream]
                 ELSE [q \in DOMAIN stream \ {p} |-> stream[q]]
    /\ UNCHANGED <<rendering, anyReady, due, playback>>

\* Mutant: the missing packets before the dropped one are forgotten.
DropOldestOnly(s) ==
    LET oldest == Min(s.pending)
    IN [s EXCEPT !.pending = @ \ {oldest}, !.lost = @ + 1,
                 !.expected = oldest + 1, !.gapped = FALSE, !.age = 0]

\* The oldest packet goes, and whatever was missing before it.
DropOldest(s) ==
    LET oldest == Min(s.pending)
    IN [s EXCEPT !.pending = @ \ {oldest}, !.lost = @ + (oldest - s.expected) + 1,
                 !.expected = oldest + 1, !.gapped = FALSE, !.age = 0]

\* PacketJitterBuffer::insert.  observe_arrival sets the wait to somewhere
\* between the two bounds.  A late packet or a copy changes nothing here.
insert(s, sequence, wait) ==
    LET held == [s EXCEPT !.pending = @ \cup {sequence}, !.wait = wait,
                          !.received = @ + 1, !.started = TRUE]
    IN IF Cardinality(held.pending) > MAX_BUFFERED_PACKETS THEN DropOldest(held) ELSE held

\* RemoteMixer::push of a packet for an active participant.
push(p, sequence, wait) ==
    /\ Unlocked
    /\ p \in DOMAIN stream
    /\ sequence >= stream[p].expected /\ sequence \notin stream[p].pending
    /\ stream' = [stream EXCEPT ![p] = insert(@, sequence, wait)]
    /\ UNCHANGED <<rendering, anyReady, due, playback>>

-----------------------------------------------------------------------------
(* The decoder thread.                                                      *)

\* Time passes while decode_loop sleeps or has not got to its slot yet.
Elapse ==
    /\ Unlocked /\ due > -MaxLate
    /\ due' = due - 1
    /\ stream' = [p \in DOMAIN stream |->
                    IF stream[p].gapped THEN [stream[p] EXCEPT !.age = @ + 1] ELSE stream[p]]
    /\ UNCHANGED <<rendering, anyReady, playback>>

\* The schedule is fixed, so that slots missed are caught up with at once; a
\* thread that is far behind starts it again from now.
next_playout_after == IF -due - SLOT > RESET THEN SLOT ELSE due + SLOT

\* decode_loop reaches its next playout slot.
StartSlot ==
    /\ Unlocked /\ due <= 0
    /\ rendering' = DOMAIN stream
    /\ anyReady' = FALSE
    /\ due' = next_playout_after
    /\ UNCHANGED <<stream, playback>>

\* How long a gap has been waited for: its first look starts the wait.
Waited(s) == IF s.gapped THEN s.age ELSE 0

\* Mutant: the packets behind a gap are never enough to skip it, and the
\* wait begins anew at every look.
NeverPatient(s) == s.expected \in s.pending

\* What pop_ready finds: the expected packet, or one worth skipping to.
HasReady(s) ==
    \/ s.expected \in s.pending
    \/ s.pending # {} /\ (Cardinality(s.pending) >= SKIP_WAIT_BACKLOG \/ Waited(s) >= s.wait)

\* pop_ready hands out the oldest packet; those skipped are lost.
pop_ready(s, frames) ==
    LET next == Min(s.pending)
    IN [s EXCEPT !.pending = @ \ {next}, !.lost = @ + (next - s.expected),
                 !.expected = next + 1, !.gapped = FALSE, !.age = 0,
                 !.pcm = frames, !.played = @ \cup {next}, !.stalled = 0]

\* RemoteStream::render decodes while it has less than a frame.
Decode(p, frames) ==
    /\ rendering # {} /\ p = Min(rendering)
    /\ stream[p].pcm = 0 /\ HasReady(stream[p])
    /\ stream' = [stream EXCEPT ![p] = pop_ready(@, frames)]
    /\ UNCHANGED <<rendering, anyReady, due, playback>>

\* A run of short frames counts as a break when it gets to GAP_FRAMES.
CountBreak(s) ==
    IF s.started /\ s.pcm = 0
    THEN [s EXCEPT !.short = IF @ > GAP_FRAMES THEN @ ELSE @ + 1,
                   !.gaps = @ + IF s.short + 1 = GAP_FRAMES THEN 1 ELSE 0]
    ELSE [s EXCEPT !.short = 0]

\* pop_ready found nothing to take: it waits from its first such look on.
StartWait(s) ==
    IF s.pcm = 0 /\ s.pending # {}
    THEN [s EXCEPT !.gapped = TRUE, !.age = Waited(s), !.stalled = @ + 1] ELSE s

PlayOut(s) == [s EXCEPT !.pcm = IF @ > 0 THEN @ - 1 ELSE 0]

\* The frame of the slot goes to the playback queue, cut back first when it
\* has grown too long.
Enqueue(frames) ==
    IF frames + 1 > (PLAYBACK_QUEUE * 3) \div 4
    THEN (IF frames > PLAYBACK_QUEUE \div 4 THEN PLAYBACK_QUEUE \div 4 ELSE frames) + 1
    ELSE frames + 1

\* The rest of render for one participant; after the last one, the mix.
Play(p) ==
    LET s == stream[p]
        ready == anyReady \/ s.pcm > 0
    IN /\ rendering # {} /\ p = Min(rendering)
       /\ s.pcm > 0 \/ ~HasReady(s)
       /\ stream' = [stream EXCEPT ![p] = PlayOut(CountBreak(StartWait(s)))]
       /\ rendering' = rendering \ {p}
       /\ anyReady' = ready
       /\ playback' = IF rendering = {p} /\ ready THEN Enqueue(playback) ELSE playback
       /\ UNCHANGED due

\* play_samples: the speaker takes a frame, or silence when there is none.
play_samples ==
    /\ playback > 0
    /\ playback' = playback - 1
    /\ UNCHANGED <<stream, rendering, anyReady, due>>

\* read_playback_pcm16: Android's thread takes what there is of some frames.
read_playback_pcm16(count) ==
    /\ playback > 0
    /\ playback' = IF count < playback THEN playback - count ELSE 0
    /\ UNCHANGED <<stream, rendering, anyReady, due>>

RxNext ==
    \/ \E p \in Participants, active \in BOOLEAN : set_active(p, active)
    \/ \E p \in Participants, wait \in Waits : \E sequence \in 1 .. LastSeq[p] : push(p, sequence, wait)
    \/ Elapse \/ StartSlot
    \/ \E p \in rendering, frames \in PacketFrames : Decode(p, frames)
    \/ \E p \in rendering : Play(p)
    \/ play_samples
    \/ \E count \in 1 .. 4 : read_playback_pcm16(count)

RxSpec == RxInit /\ [][RxNext]_rxVars

-----------------------------------------------------------------------------
(* Every packet up to the next expected one was either played or counted    *)
(* lost, exactly once, and no played one comes back: what the buffer holds  *)
(* is still to come, and is bounded.                                        *)
PacketsAccounted ==
    \A p \in DOMAIN stream :
        LET s == stream[p] IN
        /\ s.expected = Cardinality(s.played) + s.lost + 1
        /\ \A q \in s.pending : q >= s.expected
        /\ \A q \in s.played : q < s.expected
        /\ Cardinality(s.pending) <= MAX_BUFFERED_PACKETS

(* "A hole never stalls audio that is already here": with a packet waiting, *)
(* a participant is silent for the slots of the longest jitter wait, and    *)
(* for those that a late decoder thread catches up with before it starts    *)
(* the schedule again, however packets are lost, whatever arrives meanwhile *)
(* and whenever the thread runs.                                            *)
NoStall ==
    \A p \in DOMAIN stream :
        SLOT * stream[p].stalled < MAX_JITTER_WAIT + RESET + 2 * SLOT

=============================================================================
