--------------------------- MODULE VoiceRecording ---------------------------
(***************************************************************************)
(* A desktop voice message (native/conest_native/src/voice_recording.rs):   *)
(* the microphone callback queues samples, a worker thread encodes them     *)
(* into pages of an Ogg/Opus file, and stop or cancel ends the recording.   *)
(* Samples, frames and granules are numbers of samples; what they sound     *)
(* like, and the waveform drawn of them, is left out.                       *)
(***************************************************************************)
EXTENDS Naturals

CONSTANTS
    FRAME_SAMPLES, PRE_SKIP, RECORD_QUEUE,
    MaxSamples      \* bound: samples the microphone delivers

ASSUME RecordAssumption ==
    /\ FRAME_SAMPLES \in Nat \ {0} /\ PRE_SKIP \in Nat
    /\ RECORD_QUEUE \in Nat \ {0} /\ MaxSamples \in Nat

VARIABLES
    recorder,   \* where open, then stop or the drop of the recorder, is
    recording,  \* the flag running
    micFailed,  \* the flag failed
    micOn,      \* the input stream runs
    worker,     \* where record_loop is
    queued,     \* samples in the queue
    captured,   \* samples delivered by the microphone
    overrun,    \* history: a sample found the queue full
    recFrame,   \* frame_len
    valid,      \* valid_samples
    encodedSamples,
    padded,     \* history: record_loop filled up a frame with silence
    hole,       \* history: and a captured sample came after that silence
    raced,      \* history: the loop saw running cleared with samples queued
    pendingPacket,
    granule,    \* end position of the last page written
    eos,        \* the last page is written
    file,       \* none, partial, or synced to disk
    refused,    \* history: the system refused to remove the file
    outcome     \* of open, stop or cancel: none, ok or failed

recVars == <<recorder, recording, micFailed, micOn, worker, queued, captured, overrun, recFrame,
             valid, encodedSamples, padded, hole, raced, pendingPacket, granule, eos, file,
             refused, outcome>>
sampleVars == <<queued, captured, overrun>>
raceVars == <<padded, hole, raced>>
pageVars == <<recFrame, valid, encodedSamples, raceVars, pendingPacket, granule, eos>>
endVars == <<file, refused, outcome>>

AtWork == {"pop", "look", "frame", "flush"}

RecTypeOK ==
    /\ recorder \in {"closed", "headers", "spawn", "play", "aborting", "open", "stopping",
                    "measure", "cancelling", "remove"}
    /\ recording \in BOOLEAN /\ micFailed \in BOOLEAN /\ micOn \in BOOLEAN
    /\ worker \in AtWork \cup {"none", "done", "error"}
    /\ queued \in 0 .. RECORD_QUEUE /\ captured \in 0 .. MaxSamples /\ overrun \in BOOLEAN
    /\ recFrame \in 0 .. FRAME_SAMPLES /\ valid \in Nat /\ encodedSamples \in Nat
    /\ padded \in BOOLEAN /\ hole \in BOOLEAN /\ raced \in BOOLEAN /\ refused \in BOOLEAN
    /\ pendingPacket \in BOOLEAN /\ granule \in Nat /\ eos \in BOOLEAN
    /\ file \in {"none", "partial", "synced"}
    /\ outcome \in {"none", "ok", "failed"}

Fresh ==
    /\ queued = 0 /\ captured = 0 /\ overrun = FALSE
    /\ recFrame = 0 /\ valid = 0 /\ encodedSamples = 0
    /\ padded = FALSE /\ hole = FALSE /\ raced = FALSE
    /\ pendingPacket = FALSE /\ granule = 0 /\ eos = FALSE

RecInit ==
    /\ recorder = "closed" /\ recording = FALSE /\ micFailed = FALSE /\ micOn = FALSE
    /\ worker = "none" /\ file = "none" /\ refused = FALSE /\ outcome = "none"
    /\ Fresh

-----------------------------------------------------------------------------
(* VoiceMessageRecorder::open, one action for each step that can fail.      *)

\* Everything but the step of open stays.
Opening(from, to) ==
    /\ recorder = from /\ recorder' = to
    /\ UNCHANGED <<micFailed, sampleVars, pageVars, refused>>

\* A microphone is found and the file is created.
open ==
    /\ outcome = "none"
    /\ Opening("closed", "headers")
    /\ file' = "partial"
    /\ UNCHANGED <<recording, micOn, worker, outcome>>

\* There is no microphone, or the file cannot be created.
OpenFails ==
    /\ outcome = "none"
    /\ Opening("closed", "closed")
    /\ outcome' = "failed"
    /\ UNCHANGED <<recording, micOn, worker, file>>

write_headers ==
    /\ Opening("headers", "spawn")
    /\ UNCHANGED <<recording, micOn, worker, file, outcome>>

HeadersFail ==
    /\ Opening("headers", "remove")
    /\ UNCHANGED <<recording, micOn, worker, file, outcome>>

SpawnWorker ==
    /\ Opening("spawn", "play")
    /\ recording' = TRUE /\ worker' = "pop"
    /\ UNCHANGED <<micOn, file, outcome>>

\* Mutant: the exit of a thread that does not start has no remove_file.
SpawnFailsLeavingFile ==
    /\ Opening("spawn", "closed")
    /\ outcome' = "failed"
    /\ UNCHANGED <<recording, micOn, worker, file>>

SpawnFails ==
    /\ Opening("spawn", "remove")
    /\ UNCHANGED <<recording, micOn, worker, file, outcome>>

PlayMicrophone ==
    /\ Opening("play", "open")
    /\ micOn' = TRUE
    /\ UNCHANGED <<recording, worker, file, outcome>>

\* The worker has to be joined before the file goes.
PlayFails ==
    /\ Opening("play", "aborting")
    /\ recording' = FALSE
    /\ UNCHANGED <<micOn, worker, file, outcome>>

-----------------------------------------------------------------------------
(* The microphone callback.                                                 *)

\* "Losing samples would make a voice note sound broken": an overrun fails
\* the recording.
CaptureSample ==
    /\ micOn /\ ~micFailed /\ captured < MaxSamples
    /\ captured' = captured + 1
    /\ queued' = IF queued < RECORD_QUEUE THEN queued + 1 ELSE queued
    /\ overrun' = (overrun \/ queued = RECORD_QUEUE)
    /\ micFailed' = (queued = RECORD_QUEUE)
    /\ UNCHANGED <<recorder, recording, micOn, worker, endVars, pageVars>>

MicError ==
    /\ micOn
    /\ micFailed' = TRUE
    /\ UNCHANGED <<recorder, recording, micOn, worker, endVars, sampleVars, pageVars>>

-----------------------------------------------------------------------------
(* record_loop.                                                             *)

\* A sample goes from the queue into the frame; with none the worker looks
\* at running.  The microphone may queue samples between the two.
PopSample ==
    /\ worker = "pop"
    /\ IF queued > 0
       THEN /\ queued' = queued - 1 /\ valid' = valid + 1 /\ recFrame' = recFrame + 1
            /\ hole' = (hole \/ padded)
            /\ worker' = IF recFrame + 1 = FRAME_SAMPLES THEN "frame" ELSE "pop"
       ELSE worker' = "look" /\ UNCHANGED <<queued, valid, recFrame, hole>>
    /\ UNCHANGED <<recorder, recording, micFailed, micOn, captured, overrun, padded, raced,
                   encodedSamples, pendingPacket, granule, eos, endVars>>

\* Still recording: sleep and pop again.  Otherwise what the frame has is
\* encoded, or the loop ends; the queue is not looked at again before that.
Look ==
    /\ worker = "look"
    /\ worker' = IF recording THEN "pop" ELSE IF recFrame = 0 THEN "flush" ELSE "frame"
    /\ raced' = (raced \/ (~recording /\ queued > 0))
    /\ UNCHANGED <<recorder, recording, micFailed, micOn, endVars, sampleVars, recFrame, valid,
                   encodedSamples, padded, hole, pendingPacket, granule, eos>>

\* A frame is encoded; the packet before it becomes a page that ends where
\* the encoded audio ended.
WriteFrame(next) ==
    /\ granule' = IF pendingPacket THEN encodedSamples ELSE granule
    /\ pendingPacket' = TRUE
    /\ encodedSamples' = encodedSamples + FRAME_SAMPLES
    /\ recFrame' = 0
    /\ worker' = next
    /\ UNCHANGED <<recorder, recording, micFailed, micOn, sampleVars, valid, hole, raced, eos, endVars>>

\* A frame the loop left early is filled up with silence.
EncodeFrame ==
    /\ worker = "frame"
    /\ padded' = (padded \/ recFrame < FRAME_SAMPLES)
    /\ WriteFrame("pop")

\* Mutant: the encoder's delay is forgotten when the stream is finished.
NeedsSilenceNoDelay == encodedSamples < valid

\* The last captured sample does not come out of the decoder yet.
NeedsSilence == encodedSamples < PRE_SKIP + valid

Flush ==
    /\ worker = "flush" /\ valid > 0
    /\ NeedsSilence
    /\ WriteFrame("flush") /\ UNCHANGED padded

\* The last page, then the file is flushed and synced.
Finish ==
    /\ worker = "flush" /\ valid > 0
    /\ ~NeedsSilence
    /\ granule' = PRE_SKIP + valid /\ eos' = TRUE
    /\ pendingPacket' = FALSE
    /\ file' = "synced"
    /\ worker' = "done"
    /\ UNCHANGED <<recorder, recording, micFailed, micOn, sampleVars, recFrame, valid,
                   encodedSamples, raceVars, refused, outcome>>

\* The encoder cannot be set up; encoding, writing or syncing fails; or
\* there was nothing to encode.
WorkerFails ==
    /\ (worker = "pop" /\ valid = 0) \/ worker \in {"frame", "flush"}
    /\ worker' = "error"
    /\ UNCHANGED <<recorder, recording, micFailed, micOn, endVars, sampleVars, pageVars>>

-----------------------------------------------------------------------------
(* The end.                                                                 *)

\* The microphone stops before running is cleared.  cancel drops the
\* recorder.
End(how) ==
    /\ recorder = "open" /\ recorder' = how
    /\ micOn' = FALSE /\ recording' = FALSE
    /\ UNCHANGED <<micFailed, worker, endVars, sampleVars, pageVars>>

stop == End("stopping")
cancel == End("cancelling")

WorkerJoined(from, to) ==
    /\ recorder = from /\ worker \in {"done", "error"}
    /\ recorder' = to
    /\ UNCHANGED <<recording, micFailed, micOn, worker, endVars, sampleVars, pageVars>>

\* stop, the exit of open without a microphone, and Drop wait for the
\* worker's end.  A worker that failed or a microphone that did ends stop.
StopJoined == WorkerJoined("stopping", IF worker = "done" /\ ~micFailed THEN "measure" ELSE "remove")
AbortJoined == WorkerJoined("aborting", "remove")
DropJoined == WorkerJoined("cancelling", "remove")

\* stop reads the size of the file, and completes.
Completed ==
    /\ recorder = "measure"
    /\ recorder' = "closed" /\ outcome' = "ok"
    /\ UNCHANGED <<recording, micFailed, micOn, worker, file, refused, sampleVars, pageVars>>

\* The size cannot be read, or there is no audio in it.
MeasureFails ==
    /\ recorder = "measure" /\ recorder' = "remove"
    /\ UNCHANGED <<recording, micFailed, micOn, worker, endVars, sampleVars, pageVars>>

\* Every exit but that of a complete recording ends in remove_file, whose
\* result nobody looks at.
remove_file(gone) ==
    /\ recorder = "remove"
    /\ recorder' = "closed" /\ outcome' = "failed"
    /\ file' = IF gone THEN "none" ELSE file
    /\ refused' = ~gone
    /\ UNCHANGED <<recording, micFailed, micOn, worker, sampleVars, pageVars>>

RecNext ==
    \/ open \/ OpenFails \/ write_headers \/ HeadersFail \/ SpawnWorker \/ SpawnFails
    \/ PlayMicrophone \/ PlayFails \/ CaptureSample \/ MicError
    \/ PopSample \/ Look \/ EncodeFrame \/ Flush \/ Finish \/ WorkerFails
    \/ stop \/ cancel \/ StopJoined \/ AbortJoined \/ DropJoined
    \/ Completed \/ MeasureFails \/ \E gone \in BOOLEAN : remove_file(gone)

RecSpec == RecInit /\ [][RecNext]_recVars

-----------------------------------------------------------------------------
(* A recording that stop reports as saved is a whole file: its last page is *)
(* there and on disk, and its end position claims the samples taken from    *)
(* the queue and no more audio than the stream holds.  The microphone       *)
(* delivered exactly these samples and those still queued; and none is      *)
(* still queued, and no silence stands between two of them, unless the      *)
(* worker saw running cleared after a pop that the microphone overtook.     *)
SavedIsWhole ==
    outcome = "ok" =>
        /\ file = "synced" /\ eos /\ ~overrun
        /\ granule = PRE_SKIP + valid /\ granule <= encodedSamples
        /\ captured = valid + queued
        /\ raced \/ (queued = 0 /\ ~hole)

(* "Encode silent frames until every captured sample is decodable, [...]    *)
(* and the tail is kept": what is saved has every sample the microphone     *)
(* delivered, without silence put in between.  Samples queued after the     *)
(* last empty pop and before running is read break it.                      *)
EverySampleSaved == outcome = "ok" => valid = captured /\ ~hole

(* A recording that is cancelled, or that fails at any step of open or      *)
(* stop, leaves nothing behind: no thread at work, no open microphone, and  *)
(* no file, unless its removal was refused.  And no file is removed under   *)
(* the worker that writes it.                                               *)
NoFileLeft ==
    /\ recorder = "closed" /\ outcome # "ok" =>
           worker \notin AtWork /\ ~micOn /\ (file = "none" \/ refused)
    /\ worker \in AtWork => file # "none"

=============================================================================
