---------------------------- MODULE MCCallAudio ----------------------------
(* The three parts of the native audio.  They share no state, so a behaviour *)
(* of this instance is one of a single part, chosen at the start, while the  *)
(* other two stay as they are: the run explores the sum of the three state   *)
(* spaces and not their product.                                             *)
EXTENDS CallReceive, CallSend, VoiceRecording, TLC

VARIABLE part

MCLastSeq == (0 :> 4) @@ (1 :> 1)

mcVars == <<part, rxVars, txVars, recVars>>

MCInit == part \in {"receive", "send", "record"} /\ RxInit /\ TxInit /\ RecInit

Receive == part = "receive" /\ RxNext /\ UNCHANGED <<part, txVars, recVars>>
Send == part = "send" /\ TxNext /\ UNCHANGED <<part, rxVars, recVars>>
Record == part = "record" /\ RecNext /\ UNCHANGED <<part, rxVars, txVars>>

(* The two workers of a session are threads: each goes on when it can, and  *)
(* the thread that drops the session returns from its joins.                *)
MCSpec ==
    /\ MCInit /\ [][Receive \/ Send \/ Record]_mcVars
    /\ WF_mcVars(part = "send" /\ EncoderStep /\ UNCHANGED <<part, rxVars, recVars>>)
    /\ WF_mcVars(part = "send" /\ DecoderEnds /\ UNCHANGED <<part, rxVars, recVars>>)
    /\ WF_mcVars(part = "send" /\ Joined /\ UNCHANGED <<part, rxVars, recVars>>)

=============================================================================
