------------------------------ MODULE CallSend ------------------------------
(***************************************************************************)
(* A call's audio session (VoiceAudioSession in audio.rs, behind the C ABI  *)
(* of ffi.rs): how it is opened and dropped, and its send side, from the    *)
(* microphone callback over the encoder thread to the application that      *)
(* polls for packets.                                                       *)
(*                                                                          *)
(* Audio is handled in frames of 20 ms.  A step ends where another thread   *)
(* may see the difference: at a queue operation, a flag, a spawn, a join.   *)
(***************************************************************************)
EXTENDS Naturals, Sequences

CONSTANTS
    CAPTURE_QUEUE,      \* in frames
    OPUS_PACKET_QUEUE,
    MaxFrames           \* bound: frames the microphone delivers

ASSUME SendAssumption ==
    /\ CAPTURE_QUEUE \in Nat \ {0} /\ OPUS_PACKET_QUEUE \in Nat \ {0} /\ MaxFrames \in Nat

VARIABLES
    session,    \* closed, codec: decoder not spawned yet, devices: not open yet,
                \* live: in VOICE_AUDIO_SESSIONS, dropping: being dropped
    running, muted, failed,
    mic, speaker,       \* the device streams run
    encoder, decoder,   \* the worker threads
    capture, encoded,   \* the queues
    frame,              \* what the encoder works on
    frames,             \* frames captured so far
    sent, send_dropped  \* the counters

flags == <<running, muted, failed>>
devices == <<mic, speaker>>
queues == <<capture, encoded, frame, frames>>
counts == <<sent, send_dropped>>
txVars == <<session, running, muted, failed, mic, speaker, encoder, decoder,
            capture, encoded, frame, frames, sent, send_dropped>>

\* A frame, and the packet made of it: can it be heard, and was the call
\* muted when it was said, and when it was encoded?
Frame == [audible : BOOLEAN, saidMuted : BOOLEAN, madeMuted : BOOLEAN]
Silence == [audible |-> FALSE, saidMuted |-> FALSE, madeMuted |-> FALSE]

TxTypeOK ==
    /\ session \in {"closed", "codec", "devices", "live", "dropping"}
    /\ running \in BOOLEAN /\ muted \in BOOLEAN /\ failed \in BOOLEAN
    /\ mic \in BOOLEAN /\ speaker \in BOOLEAN
    /\ encoder \in {"off", "collect", "encode", "full", "replace"}
    /\ decoder \in {"off", "on"}
    /\ capture \in Seq(Frame) /\ Len(capture) <= CAPTURE_QUEUE
    /\ encoded \in Seq(Frame) /\ Len(encoded) <= OPUS_PACKET_QUEUE
    /\ frame \in Frame /\ frames \in 0 .. MaxFrames
    /\ sent \in Nat /\ send_dropped \in Nat

TxInit ==
    /\ session = "closed"
    /\ running = FALSE /\ muted = FALSE /\ failed = FALSE
    /\ mic = FALSE /\ speaker = FALSE
    /\ encoder = "off" /\ decoder = "off"
    /\ capture = <<>> /\ encoded = <<>> /\ frame = Silence /\ frames = 0
    /\ sent = 0 /\ send_dropped = 0

-----------------------------------------------------------------------------
(* Opening.                                                                 *)

\* create_codec up to the encoder thread; on an error before it nothing is
\* left.  Flags, queues and counters are new.
create_codec ==
    /\ session = "closed"
    /\ session' = "codec"
    /\ running' = TRUE /\ muted' = FALSE /\ failed' = FALSE
    /\ encoder' = "collect"
    /\ capture' = <<>> /\ encoded' = <<>> /\ frame' = Silence
    /\ sent' = 0 /\ send_dropped' = 0
    /\ UNCHANGED <<devices, decoder, frames>>

SpawnDecoder ==
    /\ session = "codec"
    /\ session' = "devices"
    /\ decoder' = "on"
    /\ UNCHANGED <<flags, devices, encoder, queues, counts>>

\* Without its decoder the session gives up, and so must its encoder.
DecoderFails ==
    /\ session = "codec"
    /\ session' = "dropping"
    /\ running' = FALSE
    /\ UNCHANGED <<muted, failed, devices, encoder, decoder, queues, counts>>

\* Both streams are built, and the microphone's plays first: it captures
\* before the session is registered.
StartMicrophone ==
    /\ session = "devices" /\ ~mic
    /\ mic' = TRUE
    /\ UNCHANGED <<session, flags, speaker, encoder, decoder, queues, counts>>

\* The speaker's plays too, and the session is registered.
\* (set_output_device puts another speaker's stream in the place of this one
\* once that plays, and otherwise leaves it: the same state here.)
OpenDevices ==
    /\ session = "devices" /\ mic
    /\ session' = "live"
    /\ speaker' = TRUE
    /\ UNCHANGED <<flags, mic, encoder, decoder, queues, counts>>

\* On Android the platform's own threads bring and take the audio.
OpenAndroid ==
    /\ session = "devices" /\ ~mic
    /\ session' = "live"
    /\ UNCHANGED <<flags, devices, encoder, decoder, queues, counts>>

\* A device that is missing or refuses, perhaps with the microphone already
\* at work: it is stopped and the new session is dropped.
DevicesFail ==
    /\ session = "devices"
    /\ session' = "dropping"
    /\ running' = FALSE
    /\ mic' = FALSE
    /\ UNCHANGED <<muted, failed, speaker, encoder, decoder, queues, counts>>

-----------------------------------------------------------------------------
(* A live call.                                                             *)

set_muted(value) ==
    /\ session = "live"
    /\ muted' = value
    /\ UNCHANGED <<session, running, failed, devices, encoder, decoder, queues, counts>>

\* A device reports an error: the session is unhealthy from then on.
DeviceError ==
    /\ mic \/ speaker
    /\ failed' = TRUE
    /\ UNCHANGED <<session, running, muted, devices, encoder, decoder, queues, counts>>

\* Mutant: only the encoder silences a muted call.
CaptureAloud ==
    /\ mic /\ frames < MaxFrames
    /\ frames' = frames + 1
    /\ capture' = IF Len(capture) < CAPTURE_QUEUE
                  THEN Append(capture, [audible |-> TRUE, saidMuted |-> muted, madeMuted |-> FALSE])
                  ELSE capture
    /\ UNCHANGED <<session, flags, devices, encoder, decoder, encoded, frame, counts>>

\* The microphone callback: silence while muted; a full queue takes nothing.
capture_samples ==
    /\ mic /\ frames < MaxFrames
    /\ frames' = frames + 1
    /\ capture' = IF Len(capture) < CAPTURE_QUEUE
                  THEN Append(capture, [audible |-> ~muted, saidMuted |-> muted, madeMuted |-> FALSE])
                  ELSE capture
    /\ UNCHANGED <<session, flags, devices, encoder, decoder, encoded, frame, counts>>

\* The same on Android: its capture thread finds the session by its handle.
push_capture_pcm16 ==
    /\ session = "live" /\ ~mic /\ frames < MaxFrames
    /\ frames' = frames + 1
    /\ capture' = IF Len(capture) < CAPTURE_QUEUE
                  THEN Append(capture, [audible |-> ~muted, saidMuted |-> muted, madeMuted |-> FALSE])
                  ELSE capture
    /\ UNCHANGED <<session, flags, devices, encoder, decoder, encoded, frame, counts>>

mark_failed ==
    /\ session = "live" /\ ~mic
    /\ failed' = TRUE
    /\ UNCHANGED <<session, running, muted, devices, encoder, decoder, queues, counts>>

\* encode_loop collects a frame,
Collect ==
    /\ encoder = "collect" /\ running /\ capture # <<>>
    /\ frame' = Head(capture)
    /\ capture' = Tail(capture)
    /\ encoder' = "encode"
    /\ UNCHANGED <<session, flags, devices, decoder, encoded, frames, counts>>

\* Mutant: waiting for samples, the encoder does not look at running.
EncoderDeaf ==
    /\ encoder = "collect" /\ ~running /\ capture # <<>>
    /\ encoder' = "off"
    /\ UNCHANGED <<session, flags, devices, decoder, queues, counts>>

\* or ends.
EncoderEnds ==
    /\ encoder = "collect" /\ ~running
    /\ encoder' = "off"
    /\ UNCHANGED <<session, flags, devices, decoder, queues, counts>>

\* process_frame silences what is encoded while muted.
process_frame(f) == [f EXCEPT !.audible = @ /\ ~muted, !.madeMuted = muted]

\* A frame becomes a packet for the network (or, if Opus fails, nothing).
Encode(ok) ==
    /\ encoder = "encode"
    /\ IF ~ok
       THEN encoder' = "collect" /\ UNCHANGED <<frame, encoded, sent>>
       ELSE /\ sent' = sent + 1
            /\ frame' = process_frame(frame)
            /\ IF Len(encoded) < OPUS_PACKET_QUEUE
               THEN encoded' = Append(encoded, frame') /\ encoder' = "collect"
               ELSE encoder' = "full" /\ UNCHANGED encoded
    /\ UNCHANGED <<session, flags, devices, decoder, capture, frames, send_dropped>>

\* The queue was full: the oldest packet goes, unless the application has
\* emptied the queue meanwhile.
PopOldest ==
    /\ encoder = "full"
    /\ encoded' = IF encoded = <<>> THEN encoded ELSE Tail(encoded)
    /\ encoder' = "replace"
    /\ UNCHANGED <<session, flags, devices, decoder, capture, frame, frames, counts>>

\* "This newest one takes its place."
PushNewest ==
    /\ encoder = "replace"
    /\ encoded' = Append(encoded, frame)
    /\ send_dropped' = send_dropped + 1
    /\ encoder' = "collect"
    /\ UNCHANGED <<session, flags, devices, decoder, capture, frame, frames, sent>>

\* The application polls.  (A packet its buffer has no room for is gone.)
conest_voice_audio_next_packet ==
    /\ session = "live" /\ encoded # <<>>
    /\ encoded' = Tail(encoded)
    /\ UNCHANGED <<session, flags, devices, encoder, decoder, capture, frame, frames, counts>>

-----------------------------------------------------------------------------
(* The end.                                                                 *)

\* Out of the registry, then dropped: the workers are told and the devices
\* stopped,
conest_voice_audio_close ==
    /\ session = "live"
    /\ session' = "dropping"
    /\ running' = FALSE
    /\ mic' = FALSE /\ speaker' = FALSE
    /\ UNCHANGED <<muted, failed, encoder, decoder, queues, counts>>

\* decode_loop looks at running between two looks at its clock.
DecoderEnds ==
    /\ decoder = "on" /\ ~running
    /\ decoder' = "off"
    /\ UNCHANGED <<session, flags, devices, encoder, queues, counts>>

\* and the workers are joined.
Joined ==
    /\ session = "dropping"
    /\ encoder = "off" /\ decoder = "off"
    /\ session' = "closed"
    /\ UNCHANGED <<flags, devices, encoder, decoder, queues, counts>>

EncoderStep == Collect \/ EncoderEnds \/ (\E ok \in BOOLEAN : Encode(ok)) \/ PopOldest \/ PushNewest

TxNext ==
    \/ create_codec \/ SpawnDecoder \/ DecoderFails
    \/ StartMicrophone \/ OpenDevices \/ OpenAndroid \/ DevicesFail
    \/ \E value \in BOOLEAN : set_muted(value)
    \/ DeviceError \/ capture_samples \/ push_capture_pcm16 \/ mark_failed
    \/ EncoderStep
    \/ conest_voice_audio_next_packet
    \/ conest_voice_audio_close \/ DecoderEnds \/ Joined

TxSpec == TxInit /\ [][TxNext]_txVars

-----------------------------------------------------------------------------
(* Nothing said while muted is ever heard, and nothing is sent aloud that   *)
(* was encoded while muted: not the audio that waited in the capture queue  *)
(* when the call was muted, nor what was captured before it was unmuted.    *)
MutedNeverHeard ==
    \A i \in 1 .. Len(encoded) :
        encoded[i].audible => ~encoded[i].saidMuted /\ ~encoded[i].madeMuted

(* A session that is dropped, after a call or because it could not be       *)
(* opened, gets both its workers to end: closing a call never hangs.        *)
CloseEnds == session = "dropping" ~> session = "closed"

=============================================================================
