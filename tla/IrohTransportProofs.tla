------------------------ MODULE IrohTransportProofs ------------------------
(***************************************************************************)
(* Proofs about IrohTransport, for any installations, envelopes, call media *)
(* and connections: a receipt means the envelope is in the peer's inbox, a  *)
(* pooled connection is served, and callers that need a connection at once  *)
(* share one dial.  The last needs the most: who holds the gate of a peer,  *)
(* which ends a connection has wherever it is kept, and that a peer nobody  *)
(* owes a dial has an open connection or a dial in progress.                *)
(***************************************************************************)
EXTENDS IrohTransport, TLAPS

(* What an inbox has, or a stream's task has put there.                     *)
AnsweredIsQueued ==
    \A e \in Envelopes, a \in Attempts :
        stream[e][a].state \in {"queued", "answered"} => e \in queued

SameEnds(p, q) == {p[1], p[2]} = {q[1], q[2]}

(* A connection that is kept somewhere has been dialled, and while it is    *)
(* open its ends are those of the place it is kept at.                      *)
ConnsKnown ==
    /\ \A c \in Conns : conn[c].state # "free" => conn[c].ends \in Peers
    /\ \A p \in Peers : pool[p] # None =>
          /\ conn[pool[p]].state # "free"
          /\ Open(pool[p]) => SameEnds(p, conn[pool[p]].ends)
    /\ \A n \in Nodes : \A c \in arriving[n] :
          conn[c].state # "free" /\ conn[c].ends[2] = n
    /\ \A k \in Callers : call[k].pc = "connected" =>
          /\ call[k].on \in Conns /\ conn[call[k].on].state # "free"
          /\ Open(call[k].on) => conn[call[k].on].ends = Link(k)

(* From before its dial until its connection is pooled a caller holds the   *)
(* gate of its peer.                                                        *)
GateHeld == \A k \in Callers : call[k].pc \in {"dial", "connected"} => gate[Link(k)] = k

(* datagram_dials has a mark for each background dial of an open transport. *)
Marked ==
    \A p \in DatagramPairs :
        handle[p[1]] = "open" /\ call[p].pc # "idle" => p[2] \in dials[p[1]]

(* A dial is owed, or someone is dialling, or there is a connection.        *)
DialAccounted ==
    /\ \A p \in Peers : p \in owed \/ gate[p] # None \/ Open(pool[p])
    /\ \A k \in Callers : call[k].pc = "connected" => Link(k) \in owed \/ Open(call[k].on)

IrohInv ==
    /\ TypeOK /\ ReceiptMeansQueued /\ AnsweredIsQueued /\ PooledIsServed
    /\ ConnsKnown /\ GateHeld /\ Marked /\ DialAccounted

-----------------------------------------------------------------------------
(* Callers, links and what each operator changes of a call.                 *)

CallPcs == {"idle", "gate", "dial", "connected", "stream", "reply", "evict", "unmark", "done",
            "failed"}
CallRecord == [pc : CallPcs, on : Conns \cup {None}, attempt : Attempts]

LEMMA LinkFacts ==
    ASSUME NEW k \in Callers
    PROVE  /\ Source(k) \in Nodes /\ Target(k) \in Nodes /\ Link(k) \in Peers
           /\ Link(k)[1] = Source(k) /\ Link(k)[2] = Target(k) /\ k # None
BY TransportAssumption DEF Callers, Source, Target, Link, Peers

LEMMA PairFacts ==
    ASSUME NEW p \in DatagramPairs
    PROVE  /\ p \in Callers /\ p \in Peers /\ p \notin Envelopes /\ Link(p) = p
           /\ p[1] \in Nodes /\ p[2] \in Nodes
BY TransportAssumption DEF Callers, Peers, Link, Source, Target

LEMMA CallTyped == TypeOK => call \in [Callers -> CallRecord]
BY DEF TypeOK, CallRecord, CallPcs

LEMMA ConnFacts == None \notin Conns /\ 1 \in Attempts /\ 2 \in Attempts
BY TransportAssumption DEF Conns, Attempts

LEMMA GotoFacts ==
    ASSUME TypeOK, NEW k \in Callers, NEW pc \in CallPcs, Goto(k, pc)
    PROVE  /\ call' \in [Callers -> CallRecord]
           /\ call'[k].pc = pc /\ call'[k].on = call[k].on
           /\ \A j \in Callers \ {k} : call'[j] = call[j]
BY CallTyped DEF Goto, CallRecord

LEMMA EndFacts ==
    ASSUME TypeOK, NEW k \in Callers, NEW pc \in CallPcs, End(k, pc)
    PROVE  /\ call' \in [Callers -> CallRecord]
           /\ call'[k].pc = pc
           /\ \A j \in Callers \ {k} : call'[j] = call[j]
BY CallTyped, ConnFacts DEF End, CallRecord

LEMMA ConnectedFacts ==
    ASSUME TypeOK, NEW k \in Callers, NEW c \in Conns, Connected(k, c)
    PROVE  /\ call' \in [Callers -> CallRecord]
           /\ call'[k].pc \in {"stream", "unmark"} /\ call'[k].on = c
           /\ \A j \in Callers \ {k} : call'[j] = call[j]
<1> DEFINE pc == IF k \in Envelopes THEN "stream" ELSE "unmark"
<1>1. call' = [call EXCEPT ![k] = [call[k] EXCEPT !.pc = pc, !.on = c]]
  BY CallTyped DEF Connected, CallRecord
<1>2. [call[k] EXCEPT !.pc = pc, !.on = c] \in CallRecord
  BY CallTyped DEF CallRecord, CallPcs
<1>3. QED
  BY <1>1, <1>2, CallTyped DEF CallRecord

(* One stream changes, the others stay.                                     *)
StreamRecord == [state : StreamStates, on : Conns \cup {None}]

LEMMA StreamSet ==
    ASSUME TypeOK, NEW e \in Envelopes, NEW a \in Attempts, NEW r \in StreamRecord,
           stream' = [stream EXCEPT ![e][a] = r]
    PROVE  /\ stream' \in [Envelopes -> [Attempts -> StreamRecord]]
           /\ stream'[e][a] = r
           /\ \A f \in Envelopes, b \in Attempts :
                 f # e \/ b # a => stream'[f][b] = stream[f][b]
BY DEF TypeOK, StreamRecord

LEMMA StreamGoto ==
    ASSUME TypeOK, NEW e \in Envelopes, NEW a \in Attempts, NEW st \in StreamStates,
           stream' = [stream EXCEPT ![e][a].state = st]
    PROVE  /\ stream' \in [Envelopes -> [Attempts -> StreamRecord]]
           /\ stream'[e][a].state = st
           /\ \A f \in Envelopes, b \in Attempts :
                 f # e \/ b # a => stream'[f][b] = stream[f][b]
<1> DEFINE r == [stream[e][a] EXCEPT !.state = st]
<1>1. r \in StreamRecord /\ r.state = st
  <2>1. stream[e][a] \in StreamRecord
    BY DEF TypeOK, StreamRecord
  <2>2. QED
    BY <2>1 DEF StreamRecord
<1>2. stream' = [stream EXCEPT ![e][a] = r]
  BY DEF TypeOK
<1> HIDE DEF r
<1>3. /\ stream' \in [Envelopes -> [Attempts -> StreamRecord]]
      /\ stream'[e][a] = r
      /\ \A f \in Envelopes, b \in Attempts :
            f # e \/ b # a => stream'[f][b] = stream[f][b]
  <2>1. stream \in [Envelopes -> [Attempts -> StreamRecord]]
    BY DEF TypeOK, StreamRecord
  <2>2. QED
    BY <1>1, <1>2, <2>1
<1>4. QED
  BY <1>1, <1>3

LEMMA NoStreamTyped == NoStream \in StreamRecord /\ NoStream.state = "none"
BY DEF NoStream, StreamRecord, StreamStates

LEMMA IrohInit == Init => IrohInv
<1> SUFFICES ASSUME Init PROVE IrohInv
  OBVIOUS
<1> USE ConnFacts DEF Init, NewTransports
<1>1. TypeOK
  <2>1. /\ call \in [Callers -> CallRecord]
        /\ conn \in [Conns -> [state : {"free", "open", "closed"}, ends : Peers \cup {None},
                               relayed : BOOLEAN]]
    BY DEF CallRecord, CallPcs
  <2>2. stream \in [Envelopes -> [Attempts -> [state : StreamStates, on : Conns \cup {None}]]]
    BY DEF NoStream, StreamStates
  <2>3. inbox \in [Nodes -> Seq(Envelopes)] /\ changes \in 0 .. MaxChanges
    BY TransportAssumption
  <2>4. QED
    BY <2>1, <2>2, <2>3 DEF TypeOK, CallRecord, CallPcs
<1>2. ReceiptMeansQueued /\ Marked /\ GateHeld
  BY PairFacts DEF ReceiptMeansQueued, Marked, GateHeld, Callers
<1>3. AnsweredIsQueued
  BY DEF AnsweredIsQueued, NoStream
<1>4. PooledIsServed /\ ConnsKnown /\ DialAccounted
  BY DEF PooledIsServed, ConnsKnown, DialAccounted, Open
<1>5. QED
  BY <1>1, <1>2, <1>3, <1>4 DEF IrohInv

-----------------------------------------------------------------------------
(* Sending and receiving: what changes a call or a stream only.             *)

LEMMA SendKeeps ==
    ASSUME IrohInv, NEW e \in Envelopes, NEW valid \in BOOLEAN, conest_iroh_send(e, valid)
    PROVE  IrohInv'
<1> USE DEF IrohInv, conest_iroh_send, quic, history
<1>c. /\ call' \in [Callers -> CallRecord] /\ e \in Callers
      /\ call'[e].pc \in {"gate", "failed"}
      /\ \A j \in Callers \ {e} : call'[j] = call[j]
  BY GotoFacts DEF send_envelope_with_hints, Callers, CallPcs
<1>1. TypeOK'
  BY <1>c DEF TypeOK, CallRecord, CallPcs
<1>2. ReceiptMeansQueued'
  BY <1>c DEF ReceiptMeansQueued, Callers
<1>3. ConnsKnown'
  BY <1>c DEF ConnsKnown, Open
<1>4. GateHeld'
  BY <1>c DEF GateHeld
<1>5. Marked'
  BY <1>c, PairFacts DEF Marked
<1>6. DialAccounted'
  BY <1>c DEF DialAccounted, Open
<1>7. AnsweredIsQueued' /\ PooledIsServed'
  BY DEF AnsweredIsQueued, PooledIsServed
<1>8. QED
  BY <1>1, <1>2, <1>3, <1>4, <1>5, <1>6, <1>7

LEMMA SendStreamKeeps ==
    ASSUME IrohInv, NEW e \in Envelopes, send_stream(e)
    PROVE  IrohInv'
<1> USE DEF IrohInv, send_stream, quic, history
<1>c. /\ call' \in [Callers -> CallRecord] /\ e \in Callers
      /\ call'[e].pc \in {"reply", "evict", "failed"}
      /\ \A j \in Callers \ {e} : call'[j] = call[j]
  BY GotoFacts, EndFacts DEF Callers, CallPcs
<1>1. TypeOK'
  BY <1>c, ConnFacts DEF TypeOK, CallRecord, CallPcs, StreamStates, Open
<1>2. ReceiptMeansQueued'
  BY <1>c DEF ReceiptMeansQueued, Callers
<1>3. AnsweredIsQueued'
  BY CallTyped DEF AnsweredIsQueued, TypeOK, CallRecord
<1>4. ConnsKnown'
  BY <1>c DEF ConnsKnown, Open
<1>5. GateHeld'
  BY <1>c DEF GateHeld
<1>6. Marked'
  BY <1>c, PairFacts DEF Marked
<1>7. DialAccounted'
  BY <1>c DEF DialAccounted, Open
<1>8. PooledIsServed'
  BY DEF PooledIsServed
<1>9. QED
  BY <1>1, <1>2, <1>3, <1>4, <1>5, <1>6, <1>7, <1>8

LEMMA ReceiptKeeps ==
    ASSUME IrohInv, NEW e \in Envelopes, Receipt(e)
    PROVE  IrohInv'
<1> USE DEF IrohInv, Receipt, quic, history
<1>c. /\ call' \in [Callers -> CallRecord] /\ e \in Callers
      /\ call'[e].pc = "done"
      /\ \A j \in Callers \ {e} : call'[j] = call[j]
  BY EndFacts DEF Callers, CallPcs
<1>q. e \in queued
  BY CallTyped DEF Current, AnsweredIsQueued, CallRecord, Callers
<1>1. TypeOK'
  BY <1>c, ConnFacts DEF TypeOK, CallRecord, CallPcs, StreamStates, NoStream
<1>2. ReceiptMeansQueued'
  BY <1>c, <1>q DEF ReceiptMeansQueued, Callers
<1>3. AnsweredIsQueued'
  BY CallTyped DEF AnsweredIsQueued, TypeOK, NoStream
<1>4. ConnsKnown'
  BY <1>c DEF ConnsKnown, Open
<1>5. GateHeld'
  BY <1>c DEF GateHeld
<1>6. Marked'
  BY <1>c, PairFacts DEF Marked
<1>7. DialAccounted'
  BY <1>c DEF DialAccounted, Open
<1>8. PooledIsServed'
  BY DEF PooledIsServed
<1>9. QED
  BY <1>1, <1>2, <1>3, <1>4, <1>5, <1>6, <1>7, <1>8

LEMMA StreamFailsKeeps ==
    ASSUME IrohInv, NEW e \in Envelopes, StreamFails(e)
    PROVE  IrohInv'
<1> USE DEF IrohInv, StreamFails, quic, history
<1>c. /\ call' \in [Callers -> CallRecord] /\ e \in Callers
      /\ call'[e].pc \in {"evict", "failed"}
      /\ \A j \in Callers \ {e} : call'[j] = call[j]
  BY GotoFacts, EndFacts DEF Callers, CallPcs
<1>s. \/ stream' = stream
      \/ /\ stream' \in [Envelopes -> [Attempts -> StreamRecord]]
         /\ \A f \in Envelopes, b \in Attempts :
               stream'[f][b] = NoStream \/ stream'[f][b] = stream[f][b]
  BY CallTyped, NoStreamTyped, StreamSet DEF CallRecord, Callers
<1>1. TypeOK'
  BY <1>c, <1>s DEF TypeOK, CallRecord, CallPcs, StreamRecord
<1>2. ReceiptMeansQueued'
  BY <1>c DEF ReceiptMeansQueued, Callers
<1>3. AnsweredIsQueued'
  BY <1>s, NoStreamTyped DEF AnsweredIsQueued
<1>4. ConnsKnown'
  BY <1>c DEF ConnsKnown, Open
<1>5. GateHeld'
  BY <1>c DEF GateHeld
<1>6. Marked'
  BY <1>c, PairFacts DEF Marked
<1>7. DialAccounted'
  BY <1>c DEF DialAccounted, Open
<1>8. PooledIsServed'
  BY DEF PooledIsServed
<1>9. QED
  BY <1>1, <1>2, <1>3, <1>4, <1>5, <1>6, <1>7, <1>8

LEMMA TakeStreamKeeps ==
    ASSUME IrohInv, NEW e \in Envelopes, NEW a \in Attempts, TakeStream(e, a)
    PROVE  IrohInv'
<1> USE DEF IrohInv, TakeStream, quic, history
<1>s. /\ stream' \in [Envelopes -> [Attempts -> StreamRecord]]
      /\ stream'[e][a].state = "taken"
      /\ \A f \in Envelopes, b \in Attempts : f # e \/ b # a => stream'[f][b] = stream[f][b]
  BY StreamGoto DEF StreamStates
<1>1. TypeOK'
  BY <1>s DEF TypeOK, StreamRecord
<1>2. AnsweredIsQueued'
  BY <1>s DEF AnsweredIsQueued
<1>3. ReceiptMeansQueued' /\ PooledIsServed' /\ ConnsKnown' /\ GateHeld' /\ Marked' /\ DialAccounted'
  BY DEF ReceiptMeansQueued, PooledIsServed, ConnsKnown, GateHeld, Marked, DialAccounted, Open
<1> HIDE DEF TakeStream
<1>4. QED
  BY <1>1, <1>2, <1>3

LEMMA EnqueueKeeps ==
    ASSUME IrohInv, NEW e \in Envelopes, NEW a \in Attempts, Enqueue(e, a)
    PROVE  IrohInv'
<1> USE DEF IrohInv, Enqueue, quic, history
<1>s. /\ stream' \in [Envelopes -> [Attempts -> StreamRecord]]
      /\ stream'[e][a].state = "queued"
      /\ \A f \in Envelopes, b \in Attempts : f # e \/ b # a => stream'[f][b] = stream[f][b]
  BY StreamGoto DEF StreamStates
<1>1. TypeOK'
  BY <1>s, TransportAssumption DEF TypeOK, StreamRecord
<1>2. ReceiptMeansQueued'
  BY DEF ReceiptMeansQueued
<1>3. AnsweredIsQueued'
  BY <1>s DEF AnsweredIsQueued
<1>4. PooledIsServed' /\ ConnsKnown' /\ GateHeld' /\ Marked' /\ DialAccounted'
  BY DEF PooledIsServed, ConnsKnown, GateHeld, Marked, DialAccounted, Open
<1>5. QED
  BY <1>1, <1>2, <1>3, <1>4

LEMMA AnswerKeeps ==
    ASSUME IrohInv, NEW e \in Envelopes, NEW a \in Attempts, Answer(e, a)
    PROVE  IrohInv'
<1> USE DEF IrohInv, Answer, quic, history
<1>s. /\ stream' \in [Envelopes -> [Attempts -> StreamRecord]]
      /\ stream'[e][a].state = "answered"
      /\ \A f \in Envelopes, b \in Attempts : f # e \/ b # a => stream'[f][b] = stream[f][b]
  BY StreamGoto DEF StreamStates
<1>1. TypeOK'
  BY <1>s DEF TypeOK, StreamRecord
<1>2. AnsweredIsQueued'
  BY <1>s DEF AnsweredIsQueued
<1>3. ReceiptMeansQueued' /\ PooledIsServed' /\ ConnsKnown' /\ GateHeld' /\ Marked' /\ DialAccounted'
  BY DEF ReceiptMeansQueued, PooledIsServed, ConnsKnown, GateHeld, Marked, DialAccounted, Open
<1>4. QED
  BY <1>1, <1>2, <1>3

LEMMA StreamTimesOutKeeps ==
    ASSUME IrohInv, NEW e \in Envelopes, NEW a \in Attempts, StreamTimesOut(e, a)
    PROVE  IrohInv'
<1> USE DEF IrohInv, StreamTimesOut, quic, history
<1>1. TypeOK'
  BY ConnFacts, TransportAssumption DEF TypeOK, StreamStates, NoStream
<1>2. AnsweredIsQueued'
  BY DEF AnsweredIsQueued, TypeOK, NoStream
<1>3. ReceiptMeansQueued' /\ PooledIsServed' /\ ConnsKnown' /\ GateHeld' /\ Marked' /\ DialAccounted'
  BY DEF ReceiptMeansQueued, PooledIsServed, ConnsKnown, GateHeld, Marked, DialAccounted, Open
<1>4. QED
  BY <1>1, <1>2, <1>3

LEMMA PollKeeps ==
    ASSUME IrohInv, NEW n \in Nodes, conest_iroh_next(n)
    PROVE  IrohInv'
<1> USE DEF IrohInv, conest_iroh_next, quic, history
<1>1. TypeOK'
  BY DEF TypeOK
<1>2. ReceiptMeansQueued' /\ AnsweredIsQueued' /\ PooledIsServed' /\ ConnsKnown' /\ GateHeld' /\ Marked' /\ DialAccounted'
  BY DEF ReceiptMeansQueued, AnsweredIsQueued, PooledIsServed, ConnsKnown, GateHeld, Marked, DialAccounted, Open
<1>3. QED
  BY <1>1, <1>2

-----------------------------------------------------------------------------
(* The gate, the dial and the pool.                                         *)

LEMMA ConnTyped ==
    TypeOK => conn \in [Conns -> [state : {"free", "open", "closed"}, ends : Peers \cup {None},
                                  relayed : BOOLEAN]]
BY DEF TypeOK

(* The first caller at a peer's gate dials, and a later one takes the       *)
(* connection that is there.                                                *)
LEMMA GateKeeps ==
    ASSUME IrohInv, NEW k \in Callers, pooled_connection(k)
    PROVE  IrohInv'
<1> USE DEF IrohInv, pooled_connection, quic, history
<1>l. Link(k) \in Peers /\ k # None /\ \A j \in Callers : j # None
  BY LinkFacts
<1>1. CASE Open(pool[Link(k)])
  <2>c. /\ call' \in [Callers -> CallRecord]
        /\ call'[k].pc \in {"stream", "unmark"}
        /\ \A j \in Callers \ {k} : call'[j] = call[j]
    <3>1. pool[Link(k)] \in Conns
      BY <1>1, <1>l DEF Open, TypeOK
    <3>2. \A c \in Conns : Connected(k, c) =>
            /\ call' \in [Callers -> CallRecord]
            /\ call'[k].pc \in {"stream", "unmark"}
            /\ \A j \in Callers \ {k} : call'[j] = call[j]
      BY ConnectedFacts
    <3>3. QED
      BY <1>1, <3>1, <3>2
  <2>1. TypeOK'
    BY <1>1, <2>c DEF TypeOK, CallRecord, CallPcs
  <2>2. ReceiptMeansQueued'
    BY <2>c DEF ReceiptMeansQueued, Callers
  <2>3. ConnsKnown'
    BY <2>c DEF ConnsKnown, Open
  <2>4. GateHeld'
    BY <1>1, <2>c DEF GateHeld
  <2>5. Marked'
    BY <2>c, PairFacts DEF Marked
  <2>6. DialAccounted'
    BY <1>1, <2>c DEF DialAccounted, Open
  <2>7. AnsweredIsQueued' /\ PooledIsServed'
    BY DEF AnsweredIsQueued, PooledIsServed
  <2>8. QED
    BY <2>1, <2>2, <2>3, <2>4, <2>5, <2>6, <2>7
<1>2. CASE ~Open(pool[Link(k)])
  <2>c. /\ call' \in [Callers -> CallRecord]
        /\ call'[k].pc = "dial"
        /\ \A j \in Callers \ {k} : call'[j] = call[j]
    BY <1>2, GotoFacts DEF CallPcs
  <2>g. /\ gate' \in [Peers -> Callers \cup {None}]
        /\ gate'[Link(k)] = k
        /\ \A p \in Peers \ {Link(k)} : gate'[p] = gate[p]
        /\ owed' = owed \ {Link(k)}
    <3>1. gate' = [gate EXCEPT ![Link(k)] = k] /\ owed' = owed \ {Link(k)}
      BY <1>2
    <3>2. gate \in [Peers -> Callers \cup {None}] /\ Link(k) \in Peers
      BY <1>l DEF TypeOK
    <3>3. QED
      BY <3>1, <3>2
  <2>o. \A j \in Callers : call[j].pc \in {"dial", "connected"} => Link(j) # Link(k)
    BY <1>l DEF GateHeld
  <2>1. TypeOK'
    BY <2>c, <2>g DEF TypeOK, CallRecord, CallPcs
  <2>2. ReceiptMeansQueued'
    BY <2>c DEF ReceiptMeansQueued, Callers
  <2>3. ConnsKnown'
    BY <2>c DEF ConnsKnown, Open
  <2>4. GateHeld'
    BY <2>c, <2>g, <2>o, LinkFacts DEF GateHeld
  <2>5. Marked'
    BY <2>c, PairFacts DEF Marked
  <2>6. DialAccounted'
    BY <2>c, <2>g, <2>o, <1>l, LinkFacts DEF DialAccounted, Open
  <2>7. AnsweredIsQueued' /\ PooledIsServed'
    BY DEF AnsweredIsQueued, PooledIsServed
  <2>8. QED
    BY <2>1, <2>2, <2>3, <2>4, <2>5, <2>6, <2>7
<1>3. QED
  BY <1>1, <1>2

(* A new connection is one that nothing refers to yet.                      *)
LEMMA DialSucceedsKeeps ==
    ASSUME IrohInv, NEW k \in Callers, NEW c \in Conns, DialSucceeds(k, c)
    PROVE  IrohInv'
<1> USE DEF IrohInv, DialSucceeds, quic, history
<1>l. Link(k) \in Peers /\ Link(k)[2] = Target(k) /\ Target(k) \in Nodes
  BY LinkFacts
<1>c. /\ call' \in [Callers -> CallRecord]
      /\ call'[k].pc = "connected" /\ call'[k].on = c
      /\ \A j \in Callers \ {k} : call'[j] = call[j]
  <2>1. call' = [call EXCEPT ![k] = [call[k] EXCEPT !.pc = "connected", !.on = c]]
    BY CallTyped DEF CallRecord
  <2>2. [call[k] EXCEPT !.pc = "connected", !.on = c] \in CallRecord
    BY CallTyped DEF CallRecord, CallPcs
  <2>3. QED
    BY <2>1, <2>2, CallTyped DEF CallRecord
<1>n. /\ conn' \in [Conns -> [state : {"free", "open", "closed"}, ends : Peers \cup {None},
                              relayed : BOOLEAN]]
      /\ conn'[c].state = "open" /\ conn'[c].ends = Link(k)
      /\ \A d \in Conns \ {c} : conn'[d] = conn[d]
  BY <1>l, ConnTyped
<1>a. /\ arriving' \in [Nodes -> SUBSET Conns]
      /\ \A n \in Nodes : arriving'[n] \subseteq arriving[n] \cup {c}
      /\ \A n \in Nodes : c \in arriving'[n] => n = Target(k)
  <2>1. \A n \in Nodes : c \notin arriving[n]
    BY DEF ConnsKnown
  <2>2. QED
    BY <2>1, <1>l DEF TypeOK
<1>1. TypeOK'
  BY <1>c, <1>n, <1>a DEF TypeOK, CallRecord, CallPcs
<1>2. ReceiptMeansQueued'
  BY <1>c DEF ReceiptMeansQueued, Callers
<1>3. ConnsKnown'
  <2>1. \A d \in Conns : conn'[d].state # "free" => conn'[d].ends \in Peers
    BY <1>n, <1>l DEF ConnsKnown
  <2>2. \A p \in Peers : pool[p] # None =>
          pool[p] \in Conns \ {c} /\ conn'[pool[p]] = conn[pool[p]]
    BY <1>n DEF ConnsKnown, TypeOK
  <2>3. \A n \in Nodes : \A d \in arriving'[n] :
          conn'[d].state # "free" /\ conn'[d].ends[2] = n
    <3> SUFFICES ASSUME NEW n \in Nodes, NEW d \in arriving'[n]
                 PROVE  conn'[d].state # "free" /\ conn'[d].ends[2] = n
      OBVIOUS
    <3>1. CASE d = c
      BY <3>1, <1>a, <1>n, <1>l
    <3>2. CASE d # c
      BY <3>2, <1>a, <1>n DEF ConnsKnown, Open, TypeOK
    <3>3. QED
      BY <3>1, <3>2
  <2>4. \A j \in Callers : call'[j].pc = "connected" =>
          /\ call'[j].on \in Conns /\ conn'[call'[j].on].state # "free"
          /\ conn'[call'[j].on].state = "open" => conn'[call'[j].on].ends = Link(j)
    <3> SUFFICES ASSUME NEW j \in Callers, call'[j].pc = "connected"
                 PROVE  /\ call'[j].on \in Conns /\ conn'[call'[j].on].state # "free"
                        /\ conn'[call'[j].on].state = "open" =>
                              conn'[call'[j].on].ends = Link(j)
      OBVIOUS
    <3>1. CASE j = k
      BY <3>1, <1>c, <1>n
    <3>2. CASE j # k
      BY <3>2, <1>c, <1>n, ConnFacts DEF ConnsKnown, Open
    <3>3. QED
      BY <3>1, <3>2
  <2>5. \A p \in Peers : pool'[p] # None =>
          /\ conn'[pool'[p]].state # "free"
          /\ Open(pool[p])' => SameEnds(p, conn'[pool'[p]].ends)
    BY <2>2 DEF ConnsKnown, Open
  <2>6. QED
    BY <2>1, <2>3, <2>4, <2>5 DEF ConnsKnown, Open
<1>4. GateHeld'
  BY <1>c DEF GateHeld
<1>5. Marked'
  BY <1>c, PairFacts DEF Marked
<1>6. DialAccounted'
  BY <1>c, <1>n, ConnFacts DEF DialAccounted, Open, ConnsKnown, TypeOK
<1>7. AnsweredIsQueued' /\ PooledIsServed'
  BY DEF AnsweredIsQueued, PooledIsServed
<1>8. QED
  BY <1>1, <1>2, <1>3, <1>4, <1>5, <1>6, <1>7

(* The gate of a peer has one holder: nobody else is at its dial.           *)
LEMMA GateAlone ==
    ASSUME IrohInv, NEW k \in Callers, call[k].pc \in {"dial", "connected"}, Release(Link(k))
    PROVE  /\ gate' \in [Peers -> Callers \cup {None}]
           /\ gate'[Link(k)] = None
           /\ \A p \in Peers \ {Link(k)} : gate'[p] = gate[p]
           /\ \A j \in Callers \ {k} : call[j].pc \in {"dial", "connected"} =>
                 Link(j) # Link(k) /\ gate'[Link(j)] = j
<1>1. Link(k) \in Peers /\ \A j \in Callers : Link(j) \in Peers
  BY LinkFacts
<1>2. /\ gate' \in [Peers -> Callers \cup {None}]
      /\ gate'[Link(k)] = None
      /\ \A p \in Peers \ {Link(k)} : gate'[p] = gate[p]
  BY <1>1 DEF IrohInv, TypeOK, Release
<1>3. QED
  BY <1>1, <1>2 DEF IrohInv, GateHeld

LEMMA DialFailsKeeps ==
    ASSUME IrohInv, NEW k \in Callers, DialFails(k)
    PROVE  IrohInv'
<1> USE DEF IrohInv, DialFails, quic, history
<1>c. /\ call' \in [Callers -> CallRecord]
      /\ call'[k].pc \in {"failed", "unmark"}
      /\ \A j \in Callers \ {k} : call'[j] = call[j]
  BY EndFacts DEF CallPcs
<1>g. /\ gate' \in [Peers -> Callers \cup {None}]
      /\ \A p \in Peers \ {Link(k)} : gate'[p] = gate[p]
      /\ \A j \in Callers \ {k} : call[j].pc \in {"dial", "connected"} => gate'[Link(j)] = j
      /\ owed' = owed \cup {Link(k)} /\ Link(k) \in Peers
  BY GateAlone, LinkFacts DEF Excuse
<1>1. TypeOK'
  BY <1>c, <1>g DEF TypeOK, CallRecord, CallPcs
<1>2. ReceiptMeansQueued'
  BY <1>c DEF ReceiptMeansQueued, Callers
<1>3. ConnsKnown'
  BY <1>c DEF ConnsKnown, Open
<1>4. GateHeld'
  BY <1>c, <1>g DEF GateHeld
<1>5. Marked'
  BY <1>c, PairFacts DEF Marked
<1>6. DialAccounted'
  BY <1>c, <1>g DEF DialAccounted, Open
<1>7. AnsweredIsQueued' /\ PooledIsServed'
  BY DEF AnsweredIsQueued, PooledIsServed
<1>8. QED
  BY <1>1, <1>2, <1>3, <1>4, <1>5, <1>6, <1>7

LEMMA PoolConnectionKeeps ==
    ASSUME IrohInv, NEW k \in Callers, PoolConnection(k)
    PROVE  IrohInv'
<1> USE DEF IrohInv, PoolConnection, quic, history
<1> DEFINE d == call[k].on
<1>l. /\ Link(k) \in Peers /\ Link(k)[1] = Source(k) /\ Source(k) \in Nodes
      /\ d \in Conns /\ d # None /\ conn[d].state # "free"
      /\ Open(d) => conn[d].ends = Link(k)
  BY LinkFacts, ConnFacts DEF ConnsKnown
<1>c. /\ call' \in [Callers -> CallRecord]
      /\ call'[k].pc \in {"stream", "unmark"}
      /\ \A j \in Callers \ {k} : call'[j] = call[j]
  <2>1. \A c \in Conns : Connected(k, c) =>
          /\ call' \in [Callers -> CallRecord]
          /\ call'[k].pc \in {"stream", "unmark"}
          /\ \A j \in Callers \ {k} : call'[j] = call[j]
    BY ConnectedFacts
  <2>2. QED
    BY <2>1, <1>l
<1>g. /\ gate' \in [Peers -> Callers \cup {None}]
      /\ \A p \in Peers \ {Link(k)} : gate'[p] = gate[p]
      /\ \A j \in Callers \ {k} : call[j].pc \in {"dial", "connected"} => gate'[Link(j)] = j
  BY GateAlone
<1>p. /\ pool' \in [Peers -> Conns \cup {None}]
      /\ pool'[Link(k)] = d
      /\ \A p \in Peers \ {Link(k)} : pool'[p] = pool[p]
  BY <1>l DEF TypeOK
<1>s. /\ served' \in [Nodes -> SUBSET Conns]
      /\ d \in served'[Source(k)]
      /\ \A n \in Nodes : served[n] \subseteq served'[n]
  BY <1>l DEF TypeOK
<1>o. Link(k) \in owed \/ Open(d)
  BY DEF DialAccounted
<1> HIDE DEF d
<1>1. TypeOK'
  BY <1>c, <1>g, <1>p, <1>s DEF TypeOK, CallRecord, CallPcs
<1>2. ReceiptMeansQueued'
  BY <1>c DEF ReceiptMeansQueued, Callers
<1>3. ConnsKnown'
  <2>1. \A p \in Peers : pool'[p] # None =>
          /\ conn[pool'[p]].state # "free"
          /\ Open(pool'[p]) => SameEnds(p, conn[pool'[p]].ends)
    BY <1>l, <1>p DEF ConnsKnown, SameEnds
  <2>2. QED
    BY <2>1, <1>c DEF ConnsKnown, Open
<1>4. PooledIsServed'
  BY <1>l, <1>p, <1>s DEF PooledIsServed, Peers
<1>5. GateHeld'
  BY <1>c, <1>g DEF GateHeld
<1>6. Marked'
  BY <1>c, PairFacts DEF Marked
<1>7. DialAccounted'
  BY <1>c, <1>g, <1>p, <1>o DEF DialAccounted, Open
<1>8. AnsweredIsQueued'
  BY DEF AnsweredIsQueued
<1>9. QED
  BY <1>1, <1>2, <1>3, <1>4, <1>5, <1>6, <1>7, <1>8

(* evict_if_same takes one connection from the pool at most, and leaves a   *)
(* peer without an open one only if it is owed a dial.                      *)
LEMMA EvictFacts ==
    ASSUME TypeOK, NEW q \in Peers, NEW c \in Conns \cup {None}, evict_if_same(q, c)
    PROVE  /\ pool' \in [Peers -> Conns \cup {None}]
           /\ \A p \in Peers : \/ pool'[p] = pool[p]
                               \/ pool'[p] = None /\ (p \in owed' \/ ~Open(pool[p]))
           /\ owed \subseteq owed' /\ owed' \subseteq Peers
<1>t. pool \in [Peers -> Conns \cup {None}] /\ owed \subseteq Peers
  BY DEF TypeOK
<1>1. CASE pool[q] = c
  <2>1. pool' = [pool EXCEPT ![q] = None]
    BY <1>1 DEF evict_if_same, Without
  <2>2. owed \subseteq owed' /\ owed' \subseteq Peers /\ (q \in owed' \/ ~Open(pool[q]))
    BY <1>1, <1>t DEF evict_if_same, Excuse
  <2>3. QED
    BY <1>t, <2>1, <2>2
<1>2. CASE pool[q] # c
  BY <1>t, <1>2 DEF evict_if_same, Without
<1>3. QED
  BY <1>1, <1>2

LEMMA RetryKeeps ==
    ASSUME IrohInv, NEW e \in Envelopes, Retry(e)
    PROVE  IrohInv'
<1> USE DEF IrohInv, Retry, quic, history
<1>c. /\ call' \in [Callers -> CallRecord] /\ e \in Callers
      /\ call'[e].pc = "gate"
      /\ \A j \in Callers \ {e} : call'[j] = call[j]
  BY CallTyped, ConnFacts DEF Callers, CallRecord, CallPcs
<1>p. /\ pool' \in [Peers -> Conns \cup {None}]
      /\ \A p \in Peers : \/ pool'[p] = pool[p]
                          \/ pool'[p] = None /\ (p \in owed' \/ ~Open(pool[p]))
      /\ owed \subseteq owed' /\ owed' \subseteq Peers
  <2>1. Link(e) \in Peers /\ call[e].on \in Conns \cup {None}
    BY <1>c, LinkFacts, CallTyped DEF CallRecord
  <2>2. QED
    BY <2>1, EvictFacts
<1>1. TypeOK'
  BY <1>c, <1>p DEF TypeOK, CallRecord, CallPcs
<1>2. ReceiptMeansQueued'
  BY <1>c DEF ReceiptMeansQueued, Callers
<1>3. ConnsKnown'
  BY <1>c, <1>p DEF ConnsKnown, Open
<1>4. PooledIsServed'
  BY <1>p DEF PooledIsServed
<1>5. GateHeld'
  BY <1>c DEF GateHeld
<1>6. Marked'
  BY <1>c, PairFacts DEF Marked
<1>7. DialAccounted'
  BY <1>c, <1>p DEF DialAccounted, Open
<1>8. AnsweredIsQueued'
  BY DEF AnsweredIsQueued
<1>9. QED
  BY <1>1, <1>2, <1>3, <1>4, <1>5, <1>6, <1>7, <1>8

-----------------------------------------------------------------------------
(* The accept loop, the connections' tasks and the background dials.        *)

LEMMA AcceptKeeps ==
    ASSUME IrohInv, NEW n \in Nodes, NEW c \in Conns, run_accept_loop(n, c)
    PROVE  IrohInv'
<1> USE DEF IrohInv, run_accept_loop, quic, history
<1>a. /\ arriving' \in [Nodes -> SUBSET Conns]
      /\ \A m \in Nodes : arriving'[m] \subseteq arriving[m]
  BY DEF TypeOK
<1> DEFINE q == <<n, conn[c].ends[1]>>
<1>q. q \in Peers /\ SameEnds(q, conn[c].ends) /\ q[1] = n /\ c # None /\ conn[c].state # "free"
  <2>1. conn[c].ends \in Peers /\ conn[c].ends[2] = n /\ conn[c].state # "free"
    BY DEF ConnsKnown
  <2>2. QED
    BY <2>1, ConnFacts DEF Peers, SameEnds
<1>1. CASE pool' # pool \/ served' # served \/ owed' # owed
  <2>e. /\ pool' = [pool EXCEPT ![q] = c]
        /\ served' = [served EXCEPT ![n] = served[n] \cup {c}]
        /\ IF Open(c) THEN owed' = owed ELSE owed' = owed \cup {q}
    BY <1>1 DEF Excuse
  <2> HIDE DEF q
  <2>p. /\ pool' \in [Peers -> Conns \cup {None}]
        /\ pool'[q] = c
        /\ \A p \in Peers \ {q} : pool'[p] = pool[p]
    BY <2>e, <1>q DEF TypeOK
  <2>s. /\ served' \in [Nodes -> SUBSET Conns]
        /\ c \in served'[n]
        /\ \A m \in Nodes : served[m] \subseteq served'[m]
    <3>2. served \in [Nodes -> SUBSET Conns]
      BY DEF TypeOK
    <3> HIDE DEF IrohInv, run_accept_loop
    <3>3. QED
      BY <2>e, <3>2
  <2>o. /\ owed \subseteq owed' /\ owed' \subseteq Peers
        /\ q \in owed' \/ Open(c)
    BY <2>e, <1>q DEF TypeOK
  <2>1. TypeOK'
    BY <1>a, <2>p, <2>s, <2>o DEF TypeOK
  <2>2. ConnsKnown'
    <3>1. \A p \in Peers : pool'[p] # None =>
            /\ conn[pool'[p]].state # "free"
            /\ Open(pool'[p]) => SameEnds(p, conn[pool'[p]].ends)
      BY <2>p, <1>q DEF ConnsKnown, Open
    <3>2. QED
      BY <3>1, <1>a DEF ConnsKnown, Open
  <2>3. PooledIsServed'
    BY <2>p, <2>s, <1>q DEF PooledIsServed, Peers
  <2>4. DialAccounted'
    BY <2>p, <2>o DEF DialAccounted, Open
  <2>5. ReceiptMeansQueued' /\ AnsweredIsQueued' /\ GateHeld' /\ Marked'
    BY DEF ReceiptMeansQueued, AnsweredIsQueued, GateHeld, Marked
  <2>6. QED
    BY <2>1, <2>2, <2>3, <2>4, <2>5
<1>2. CASE pool' = pool /\ served' = served /\ owed' = owed
  <2>u. UNCHANGED <<handle, conn, pool, served, gate, call, stream, inbox, dials, changes, queued, owed>>
    BY <1>2
  <2> HIDE DEF run_accept_loop
  <2>1. TypeOK' /\ ConnsKnown'
    BY <2>u, <1>a DEF TypeOK, ConnsKnown, Open
  <2>2. /\ ReceiptMeansQueued' /\ AnsweredIsQueued' /\ GateHeld' /\ Marked'
        /\ PooledIsServed' /\ DialAccounted'
    BY <2>u DEF ReceiptMeansQueued, AnsweredIsQueued, GateHeld, Marked, PooledIsServed,
                DialAccounted, Open
  <2>3. QED
    BY <2>1, <2>2
<1>3. QED
  BY <1>1, <1>2

(* A step that leaves streams alone or gives them up keeps what is known of *)
(* the others.                                                              *)
LEMMA StreamsGivenUp ==
    ASSUME IrohInv, queued' = queued,
           stream' \in [Envelopes -> [Attempts -> StreamRecord]],
           \A e \in Envelopes, a \in Attempts :
               stream'[e][a] = NoStream \/ stream'[e][a] = stream[e][a]
    PROVE  AnsweredIsQueued'
BY NoStreamTyped DEF IrohInv, AnsweredIsQueued

LEMMA RunnerEndsKeeps ==
    ASSUME IrohInv, NEW n \in Nodes, NEW c \in Conns, RunnerEnds(n, c)
    PROVE  IrohInv'
<1> USE DEF IrohInv, RunnerEnds, quic, history
<1>p. /\ pool' \in [Peers -> Conns \cup {None}]
      /\ \A p \in Peers : \/ pool'[p] = pool[p] /\ ~(p[1] = n /\ pool[p] = c)
                          \/ pool'[p] = None /\ ~Open(pool[p])
  BY DEF TypeOK, Open
<1>s. /\ served' \in [Nodes -> SUBSET Conns]
      /\ \A m \in Nodes : \A d \in served[m] : d \in served'[m] \/ (m = n /\ d = c)
  BY DEF TypeOK
<1>r. /\ stream' \in [Envelopes -> [Attempts -> StreamRecord]]
      /\ \A e \in Envelopes, a \in Attempts :
            stream'[e][a] = NoStream \/ stream'[e][a] = stream[e][a]
  BY NoStreamTyped DEF TypeOK, StreamRecord
<1>1. TypeOK'
  BY <1>p, <1>s, <1>r DEF TypeOK, StreamRecord
<1>2. AnsweredIsQueued'
  BY <1>r, StreamsGivenUp
<1>3. ConnsKnown'
  BY <1>p DEF ConnsKnown, Open
<1>4. PooledIsServed'
  BY <1>p, <1>s DEF PooledIsServed, Peers
<1>5. DialAccounted'
  BY <1>p DEF DialAccounted, Open
<1>6. ReceiptMeansQueued' /\ GateHeld' /\ Marked'
  BY DEF ReceiptMeansQueued, GateHeld, Marked
<1>7. QED
  BY <1>1, <1>2, <1>3, <1>4, <1>5, <1>6

(* An open transport without a mark has no background dial to disturb.      *)
LEMMA DatagramKeeps ==
    ASSUME IrohInv, NEW p \in DatagramPairs, send_datagram(p)
    PROVE  IrohInv'
<1> USE DEF IrohInv, send_datagram, warm_datagram_connection, quic, history
<1>f. /\ p \in Callers /\ p \in Peers /\ p \notin Envelopes
      /\ p[1] \in Nodes /\ p[2] \in Nodes
  BY PairFacts
<1>p. /\ pool' \in [Peers -> Conns \cup {None}]
      /\ \A q \in Peers : \/ pool'[q] = pool[q]
                          \/ pool'[q] = None /\ (q \in owed' \/ ~Open(pool[q]))
      /\ owed \subseteq owed' /\ owed' \subseteq Peers
  <2>1. CASE pool[p] # None /\ evict_if_same(p, pool[p])
    <3>1. pool[p] \in Conns \cup {None}
      BY <1>f DEF TypeOK
    <3>2. QED
      BY <2>1, <3>1, <1>f, EvictFacts
  <2>2. CASE UNCHANGED <<pool, owed>>
    BY <2>2 DEF TypeOK
  <2>3. QED
    BY <2>1, <2>2
<1>3. ConnsKnown' /\ DialAccounted' /\ GateHeld' /\ ReceiptMeansQueued' /\ Marked' /\ TypeOK'
  <2>1. CASE p[2] \in dials[p[1]]
    <3>1. TypeOK'
      BY <2>1, <1>p DEF TypeOK
    <3>2. ConnsKnown'
      BY <2>1, <1>p DEF ConnsKnown, Open
    <3>3. DialAccounted'
      BY <2>1, <1>p DEF DialAccounted, Open
    <3>4. GateHeld' /\ ReceiptMeansQueued' /\ Marked'
      BY <2>1 DEF GateHeld, ReceiptMeansQueued, Marked
    <3>5. QED
      BY <3>1, <3>2, <3>3, <3>4
  <2>2. CASE p[2] \notin dials[p[1]]
    <3>c. /\ call' \in [Callers -> CallRecord]
          /\ call'[p].pc = "gate"
          /\ \A j \in Callers \ {p} : call'[j] = call[j]
      BY <2>2, <1>f, GotoFacts DEF CallPcs
    <3>d. /\ dials' \in [Nodes -> SUBSET Nodes]
          /\ p[2] \in dials'[p[1]]
          /\ \A m \in Nodes : dials[m] \subseteq dials'[m]
      <4>1. dials' = [dials EXCEPT ![p[1]] = dials[p[1]] \cup {p[2]}]
        BY <2>2
      <4>2. dials \in [Nodes -> SUBSET Nodes]
        BY DEF TypeOK
      <4> HIDE DEF IrohInv, send_datagram, warm_datagram_connection
      <4>3. QED
        BY <4>1, <4>2, <1>f
    <3>1. TypeOK'
      BY <1>p, <3>c, <3>d DEF TypeOK, CallRecord, CallPcs
    <3>2. ConnsKnown'
      BY <1>p, <3>c DEF ConnsKnown, Open
    <3>3. DialAccounted'
      BY <1>p, <3>c DEF DialAccounted, Open
    <3>4. GateHeld'
      BY <3>c DEF GateHeld
    <3>5. ReceiptMeansQueued'
      BY <3>c, <1>f DEF ReceiptMeansQueued, Callers
    <3>6. Marked'
      BY <3>c, <3>d, PairFacts DEF Marked
    <3>7. QED
      BY <3>1, <3>2, <3>3, <3>4, <3>5, <3>6
  <2>3. QED
    BY <2>1, <2>2
<1>4. AnsweredIsQueued'
  BY DEF AnsweredIsQueued
<1>5. PooledIsServed'
  BY <1>p DEF PooledIsServed
<1>6. QED
  BY <1>3, <1>4, <1>5

LEMMA UnmarkKeeps ==
    ASSUME IrohInv, NEW p \in DatagramPairs, Unmark(p)
    PROVE  IrohInv'
<1> USE DEF IrohInv, Unmark, quic, history
<1>f. /\ p \in Callers /\ p \in Peers /\ p \notin Envelopes
      /\ p[1] \in Nodes /\ p[2] \in Nodes
  BY PairFacts
<1>c. /\ call' \in [Callers -> CallRecord]
      /\ call'[p].pc = "idle"
      /\ \A j \in Callers \ {p} : call'[j] = call[j]
  BY <1>f, EndFacts DEF CallPcs
<1>d. /\ dials' \in [Nodes -> SUBSET Nodes]
      /\ \A q \in Peers \ {p} : q[2] \in dials[q[1]] => q[2] \in dials'[q[1]]
  <2>1. dials' = [dials EXCEPT ![p[1]] = dials[p[1]] \ {p[2]}]
    OBVIOUS
  <2>2. dials \in [Nodes -> SUBSET Nodes]
    BY DEF TypeOK
  <2> HIDE DEF IrohInv, Unmark
  <2>3. dials' \in [Nodes -> SUBSET Nodes]
    BY <2>1, <2>2, <1>f
  <2>4. \A q \in Peers \ {p} : q[1] # p[1] \/ q[2] # p[2]
    BY <1>f DEF Peers
  <2>5. \A q \in Peers : q[1] \in Nodes /\ q[2] \in Nodes
    BY DEF Peers
  <2>6. QED
    BY <2>1, <2>2, <2>3, <2>4, <2>5
<1>1. TypeOK'
  BY <1>c, <1>d DEF TypeOK, CallRecord, CallPcs
<1>2. ReceiptMeansQueued'
  BY <1>c, <1>f DEF ReceiptMeansQueued, Callers
<1>3. ConnsKnown'
  BY <1>c DEF ConnsKnown, Open
<1>4. GateHeld'
  BY <1>c DEF GateHeld
<1>5. Marked'
  BY <1>c, <1>d, PairFacts DEF Marked
<1>6. DialAccounted'
  BY <1>c DEF DialAccounted, Open
<1>7. AnsweredIsQueued' /\ PooledIsServed'
  BY DEF AnsweredIsQueued, PooledIsServed
<1>8. QED
  BY <1>1, <1>2, <1>3, <1>4, <1>5, <1>6, <1>7

-----------------------------------------------------------------------------
(* The network and the end: whoever loses a connection is owed a dial.      *)

LEMMA ClosedTyped ==
    ASSUME TypeOK, NEW c \in Conns
    PROVE  /\ Closed(c) \in [state : {"free", "open", "closed"}, ends : Peers \cup {None},
                              relayed : BOOLEAN]
           /\ Closed(c).state = "closed" /\ Closed(c).ends = conn[c].ends
BY ConnTyped DEF Closed

LEMMA ResetFacts ==
    ASSUME TypeOK, NEW cs, Reset(cs)
    PROVE  /\ stream' \in [Envelopes -> [Attempts -> StreamRecord]]
           /\ \A e \in Envelopes, a \in Attempts :
                 stream'[e][a] = NoStream \/ stream'[e][a] = stream[e][a]
BY NoStreamTyped DEF TypeOK, Reset, StreamRecord

LEMMA ConnectionLostKeeps ==
    ASSUME IrohInv, NEW c \in Conns, ConnectionLost(c)
    PROVE  IrohInv'
<1> USE DEF IrohInv, ConnectionLost, quic, history
<1>n. /\ conn' \in [Conns -> [state : {"free", "open", "closed"}, ends : Peers \cup {None},
                              relayed : BOOLEAN]]
      /\ conn'[c].state = "closed" /\ conn'[c].ends = conn[c].ends
      /\ \A d \in Conns \ {c} : conn'[d] = conn[d]
  BY ClosedTyped, ConnTyped
<1>o. /\ owed \subseteq owed' /\ owed' \subseteq Peers
      /\ \A p \in Peers : SameEnds(p, conn[c].ends) => p \in owed'
  BY DEF Excuse, SameEnds, TypeOK
<1>r. /\ stream' \in [Envelopes -> [Attempts -> StreamRecord]]
      /\ \A e \in Envelopes, a \in Attempts :
            stream'[e][a] = NoStream \/ stream'[e][a] = stream[e][a]
  BY ResetFacts
<1>1. TypeOK'
  BY <1>n, <1>o, <1>r DEF TypeOK, StreamRecord
<1>2. AnsweredIsQueued'
  BY <1>r, StreamsGivenUp
<1>3. ConnsKnown'
  BY <1>n, ConnFacts DEF ConnsKnown, Open, TypeOK
<1>4. DialAccounted'
  <2>1. \A p \in Peers : p \in owed' \/ gate[p] # None \/ Open(pool[p])'
    BY <1>n, <1>o DEF DialAccounted, ConnsKnown, Open, TypeOK
  <2>2. \A k \in Callers : call[k].pc = "connected" =>
          Link(k) \in owed' \/ conn'[call[k].on].state = "open"
    BY <1>n, <1>o, LinkFacts DEF DialAccounted, ConnsKnown, Open, SameEnds
  <2>3. QED
    BY <2>1, <2>2, ConnFacts DEF DialAccounted, Open, ConnsKnown
<1>5. ReceiptMeansQueued' /\ PooledIsServed' /\ GateHeld' /\ Marked'
  BY DEF ReceiptMeansQueued, PooledIsServed, GateHeld, Marked
<1>6. QED
  BY <1>1, <1>2, <1>3, <1>4, <1>5

LEMMA PathChangesKeeps ==
    ASSUME IrohInv, NEW c \in Conns, PathChanges(c)
    PROVE  IrohInv'
<1> USE DEF IrohInv, PathChanges, quic, history
<1>n. /\ conn' \in [Conns -> [state : {"free", "open", "closed"}, ends : Peers \cup {None},
                              relayed : BOOLEAN]]
      /\ \A d \in Conns : conn'[d].state = conn[d].state /\ conn'[d].ends = conn[d].ends
  BY ConnTyped
<1>1. TypeOK'
  BY <1>n, TransportAssumption DEF TypeOK
<1>2. ConnsKnown'
  BY <1>n DEF ConnsKnown, Open, TypeOK
<1>3. DialAccounted'
  BY <1>n DEF DialAccounted, ConnsKnown, Open, TypeOK
<1>4. ReceiptMeansQueued' /\ AnsweredIsQueued' /\ PooledIsServed' /\ GateHeld' /\ Marked'
  BY DEF ReceiptMeansQueued, AnsweredIsQueued, PooledIsServed, GateHeld, Marked
<1>5. QED
  BY <1>1, <1>2, <1>3, <1>4

(* A cleared pool owes a dial to each of its peers.                         *)
LEMMA ClearedKeeps ==
    ASSUME IrohInv, NEW n \in Nodes, pool' = Cleared(n), Excuse(PoolOf(n)),
           UNCHANGED <<conn, arriving, served, gate, call>>
    PROVE  /\ pool' \in [Peers -> Conns \cup {None}] /\ owed' \subseteq Peers
           /\ ConnsKnown' /\ PooledIsServed' /\ DialAccounted'
<1>p. /\ pool' \in [Peers -> Conns \cup {None}]
      /\ \A p \in Peers : pool'[p] = pool[p] \/ (pool'[p] = None /\ p \in owed')
      /\ owed \subseteq owed' /\ owed' \subseteq Peers
  BY DEF IrohInv, TypeOK, Cleared, Excuse, PoolOf
<1>1. ConnsKnown'
  BY <1>p DEF IrohInv, ConnsKnown, Open
<1>2. PooledIsServed'
  BY <1>p DEF IrohInv, PooledIsServed
<1>3. DialAccounted'
  BY <1>p DEF IrohInv, DialAccounted, Open
<1>4. QED
  BY <1>p, <1>1, <1>2, <1>3

LEMMA NetworkChangeKeeps ==
    ASSUME IrohInv, NEW n \in Nodes, network_change(n)
    PROVE  IrohInv'
<1> USE DEF IrohInv, network_change, quic, history
<1>p. /\ pool' \in [Peers -> Conns \cup {None}] /\ owed' \subseteq Peers
      /\ ConnsKnown' /\ PooledIsServed' /\ DialAccounted'
  BY ClearedKeeps
<1>1. TypeOK'
  BY <1>p, TransportAssumption DEF TypeOK
<1>2. ReceiptMeansQueued' /\ AnsweredIsQueued' /\ GateHeld' /\ Marked'
  BY DEF ReceiptMeansQueued, AnsweredIsQueued, GateHeld, Marked
<1>3. QED
  BY <1>p, <1>1, <1>2

LEMMA CloseKeeps ==
    ASSUME IrohInv, NEW n \in Nodes, close(n)
    PROVE  IrohInv'
<1> USE DEF IrohInv, close, quic, history
<1>p. /\ pool' \in [Peers -> Conns \cup {None}] /\ owed' \subseteq Peers
      /\ ConnsKnown' /\ PooledIsServed' /\ DialAccounted'
  BY ClearedKeeps
<1>1. TypeOK'
  BY <1>p, TransportAssumption DEF TypeOK
<1>2. Marked'
  BY PairFacts DEF Marked, TypeOK
<1>3. ReceiptMeansQueued' /\ AnsweredIsQueued' /\ GateHeld'
  BY DEF ReceiptMeansQueued, AnsweredIsQueued, GateHeld
<1>4. QED
  BY <1>p, <1>1, <1>2, <1>3

LEMMA EndpointClosedKeeps ==
    ASSUME IrohInv, NEW n \in Nodes, EndpointClosed(n)
    PROVE  IrohInv'
<1> USE DEF IrohInv, EndpointClosed, quic, history
<1>n. /\ conn' \in [Conns -> [state : {"free", "open", "closed"}, ends : Peers \cup {None},
                              relayed : BOOLEAN]]
      /\ \A d \in Conns :
            \/ conn'[d] = conn[d]
            \/ /\ conn[d].state = "open" /\ conn'[d].state = "closed"
               /\ conn'[d].ends = conn[d].ends
               /\ n \in {conn[d].ends[1], conn[d].ends[2]}
  BY ClosedTyped, ConnTyped DEF Open
<1>o. /\ owed \subseteq owed' /\ owed' \subseteq Peers
      /\ \A p \in Peers : n \in {p[1], p[2]} => p \in owed'
  BY DEF Excuse, TypeOK
<1>r. /\ stream' \in [Envelopes -> [Attempts -> StreamRecord]]
      /\ \A e \in Envelopes, a \in Attempts :
            stream'[e][a] = NoStream \/ stream'[e][a] = stream[e][a]
  <2>1. \E cs \in SUBSET Conns : Reset(cs)
    OBVIOUS
  <2>2. QED
    BY <2>1, ResetFacts
<1>1. TypeOK'
  BY <1>n, <1>o, <1>r DEF TypeOK, StreamRecord
<1>u. queued' = queued
  OBVIOUS
<1>q. UNCHANGED <<pool, arriving, call>>
  OBVIOUS
<1>2. AnsweredIsQueued'
  <2> HIDE DEF EndpointClosed, IrohInv
  <2>1. QED
    BY <1>r, <1>u, StreamsGivenUp
<1>3. ConnsKnown'
  <2>t. ConnsKnown /\ TypeOK
    OBVIOUS
  <2> HIDE DEF EndpointClosed, IrohInv
  <2>1. \A d \in Conns : conn[d].state # "free" => conn'[d].state # "free"
    BY <1>n
  <2>2. \A d \in Conns : conn'[d].state = "open" => conn'[d] = conn[d]
    BY <1>n
  <2>3. \A p \in Peers : pool[p] # None =>
          /\ conn'[pool[p]].state # "free"
          /\ conn'[pool[p]].state = "open" => SameEnds(p, conn'[pool[p]].ends)
    BY <2>1, <2>2, <2>t DEF ConnsKnown, Open, TypeOK
  <2>4. \A m \in Nodes : \A d \in arriving[m] :
          /\ conn'[d].state # "free"
          /\ conn'[d].ends[2] = m
    BY <1>n, <2>1, <2>t DEF ConnsKnown, Open, TypeOK
  <2>5. \A k \in Callers : call[k].pc = "connected" =>
          /\ call[k].on \in Conns /\ conn'[call[k].on].state # "free"
          /\ conn'[call[k].on].state = "open" => conn'[call[k].on].ends = Link(k)
    BY <2>1, <2>2, <2>t, ConnFacts DEF ConnsKnown, Open
  <2>6. \A d \in Conns : conn'[d].state # "free" => conn'[d].ends \in Peers
    BY <1>n, <2>t DEF ConnsKnown
  <2>7. QED
    BY <1>q, <2>3, <2>4, <2>5, <2>6 DEF ConnsKnown, Open
<1>4. DialAccounted'
  <2>1. \A p \in Peers : p \in owed' \/ gate[p] # None \/ Open(pool[p])'
    <3> SUFFICES ASSUME NEW p \in Peers, p \notin owed', gate[p] = None
                 PROVE  Open(pool[p])'
      OBVIOUS
    <3>1. pool[p] \in Conns /\ Open(pool[p]) /\ SameEnds(p, conn[pool[p]].ends)
      BY <1>o DEF DialAccounted, ConnsKnown, Open, TypeOK
    <3>2. n \notin {conn[pool[p]].ends[1], conn[pool[p]].ends[2]}
      BY <3>1, <1>o DEF SameEnds
    <3>3. QED
      BY <3>1, <3>2, <1>n DEF Open
  <2>2. \A k \in Callers : call[k].pc = "connected" =>
          Link(k) \in owed' \/ conn'[call[k].on].state = "open"
    BY <1>n, <1>o, LinkFacts DEF DialAccounted, ConnsKnown, Open
  <2>3. QED
    BY <2>1, <2>2, ConnFacts DEF DialAccounted, Open, ConnsKnown
<1>5. Marked'
  BY PairFacts DEF Marked, TypeOK
<1>6. ReceiptMeansQueued' /\ PooledIsServed' /\ GateHeld'
  BY DEF ReceiptMeansQueued, PooledIsServed, GateHeld
<1>7. QED
  BY <1>1, <1>2, <1>3, <1>4, <1>5, <1>6

-----------------------------------------------------------------------------
LEMMA IrohStep == IrohInv /\ [Next]_vars => IrohInv'
<1> SUFFICES ASSUME IrohInv, [Next]_vars PROVE IrohInv'
  OBVIOUS
<1>1. CASE \E e \in Envelopes : EnvelopeStep(e) \/ \E valid \in BOOLEAN : conest_iroh_send(e, valid)
  BY <1>1, SendKeeps, SendStreamKeeps, ReceiptKeeps, StreamFailsKeeps, RetryKeeps
     DEF EnvelopeStep
<1>2. CASE \E k \in Callers : CallStep(k)
  BY <1>2, GateKeeps, DialSucceedsKeeps, DialFailsKeeps, PoolConnectionKeeps DEF CallStep
<1>3. CASE \E e \in Envelopes, a \in Attempts : StreamStep(e, a)
  BY <1>3, TakeStreamKeeps, EnqueueKeeps, AnswerKeeps, StreamTimesOutKeeps DEF StreamStep
<1>4. CASE \E p \in DatagramPairs : MediaStep(p)
  BY <1>4, DatagramKeeps, UnmarkKeeps DEF MediaStep
<1>5. CASE \E n \in Nodes : NodeStep(n)
  BY <1>5, PollKeeps, NetworkChangeKeeps, CloseKeeps, EndpointClosedKeeps, AcceptKeeps,
     RunnerEndsKeeps DEF NodeStep
<1>6. CASE \E c \in Conns : ConnectionLost(c) \/ PathChanges(c)
  BY <1>6, ConnectionLostKeeps, PathChangesKeeps
<1>7. CASE UNCHANGED vars
  BY <1>7 DEF vars, IrohInv, TypeOK, ReceiptMeansQueued, AnsweredIsQueued, PooledIsServed,
              ConnsKnown, GateHeld, Marked, DialAccounted, Open
<1>8. QED
  BY <1>1, <1>2, <1>3, <1>4, <1>5, <1>6, <1>7 DEF Next

THEOREM IrohInvariant == Spec => []IrohInv
BY IrohInit, IrohStep, PTL DEF Spec

(* The transport's maps, calls and streams keep their types in every state. *)
THEOREM IrohTypeCorrect == Spec => []TypeOK
<1>1. IrohInv => TypeOK
  BY DEF IrohInv
<1>2. QED
  BY <1>1, IrohInvariant, PTL

(* send_envelope_with_hints returns a receipt only for an envelope that the *)
(* peer's handle_stream put into its inbox, however often the stream was    *)
(* lost, timed out or retried.                                              *)
THEOREM ReceiptIsTrue == Spec => []ReceiptMeansQueued
<1>1. IrohInv => ReceiptMeansQueued
  BY DEF IrohInv
<1>2. QED
  BY <1>1, IrohInvariant, PTL

(* Every connection in the pool has its run_connection task, whichever of   *)
(* pooled_connection and run_accept_loop put it there.                      *)
THEOREM PoolIsServed == Spec => []PooledIsServed
<1>1. IrohInv => PooledIsServed
  BY DEF IrohInv
<1>2. QED
  BY <1>1, IrohInvariant, PTL

(* Only pooled_connection brings a caller to its dial, with the gate free   *)
(* and no open connection in the pool: the peer is owed a dial.             *)
LEMMA DialIsOwed ==
    ASSUME IrohInv, Next, NEW k \in Callers, call[k].pc # "dial", call'[k].pc = "dial"
    PROVE  Link(k) \in owed
<1>l. Link(k) \in Peers
  BY LinkFacts
<1>p. \A j \in Callers : pooled_connection(j) => Link(k) \in owed
  <2> SUFFICES ASSUME NEW j \in Callers, pooled_connection(j) PROVE Link(k) \in owed
    OBVIOUS
  <2>1. CASE Open(pool[Link(j)])
    <3>1. pool[Link(j)] \in Conns
      BY <2>1, LinkFacts DEF Open, IrohInv, TypeOK
    <3>2. \A c \in Conns : Connected(j, c) =>
            /\ call'[j].pc \in {"stream", "unmark"}
            /\ \A i \in Callers \ {j} : call'[i] = call[i]
      BY ConnectedFacts DEF IrohInv
    <3>3. QED
      BY <2>1, <3>1, <3>2 DEF pooled_connection
  <2>2. CASE ~Open(pool[Link(j)])
    <3>1. \A i \in Callers \ {j} : call'[i] = call[i]
      BY <2>2, GotoFacts DEF pooled_connection, CallPcs, IrohInv
    <3>2. QED
      BY <2>2, <3>1, <1>l DEF pooled_connection, IrohInv, DialAccounted
  <2>3. QED
    BY <2>1, <2>2
<1>c. \A j \in Callers, pc \in CallPcs \ {"dial"} :
        Goto(j, pc) \/ End(j, pc) => call'[k].pc = call[k].pc \/ call'[k].pc = pc
  BY GotoFacts, EndFacts DEF IrohInv
<1>n. call' # call
  OBVIOUS
<1>1. CASE \E e \in Envelopes : EnvelopeStep(e) \/ \E valid \in BOOLEAN : conest_iroh_send(e, valid)
  <2>1. PICK e \in Envelopes : EnvelopeStep(e) \/ \E valid \in BOOLEAN : conest_iroh_send(e, valid)
    BY <1>1
  <2>2. e \in Callers
    BY DEF Callers
  <2>3. ~Retry(e)
    BY <2>2, CallTyped DEF Retry, IrohInv, CallRecord
  <2>4. \E pc \in {"gate", "failed", "reply", "evict", "done"} : Goto(e, pc) \/ End(e, pc)
    BY <2>1, <2>3 DEF EnvelopeStep, conest_iroh_send, send_envelope_with_hints, send_stream,
                      Receipt, StreamFails
  <2>5. QED
    BY <2>2, <2>4, <1>c DEF CallPcs
<1>2. CASE \E j \in Callers : CallStep(j)
  <2>1. PICK j \in Callers : CallStep(j)
    BY <1>2
  <2>2. CASE DialFails(j)
    BY <2>2, <1>c DEF DialFails, CallPcs
  <2>3. CASE PoolConnection(j)
    <3>1. call[j].on \in Conns
      BY <2>3 DEF PoolConnection, IrohInv, ConnsKnown
    <3>2. \A c \in Conns : Connected(j, c) =>
            /\ call'[j].pc \in {"stream", "unmark"}
            /\ \A i \in Callers \ {j} : call'[i] = call[i]
      BY ConnectedFacts DEF IrohInv
    <3>3. QED
      BY <2>3, <3>1, <3>2 DEF PoolConnection
  <2>4. CASE \E c \in Conns : DialSucceeds(j, c)
    BY <2>4, CallTyped DEF DialSucceeds, IrohInv, CallRecord
  <2>5. QED
    BY <2>1, <2>2, <2>3, <2>4, <1>p DEF CallStep
<1>3. CASE \E e \in Envelopes, a \in Attempts : StreamStep(e, a)
  BY <1>3, <1>n DEF StreamStep, TakeStream, Enqueue, Answer, StreamTimesOut
<1>4. CASE \E p \in DatagramPairs : MediaStep(p)
  BY <1>4, <1>n, <1>c, PairFacts DEF MediaStep, send_datagram, warm_datagram_connection, Unmark, CallPcs
<1>5. CASE \E n \in Nodes : NodeStep(n)
  BY <1>5, <1>n DEF NodeStep, conest_iroh_next, network_change, close, EndpointClosed,
                    run_accept_loop, RunnerEnds
<1>6. CASE \E c \in Conns : ConnectionLost(c) \/ PathChanges(c)
  BY <1>6, <1>n DEF ConnectionLost, PathChanges
<1>7. QED
  BY <1>1, <1>2, <1>3, <1>4, <1>5, <1>6 DEF Next

(* connect_locks coalesces dials: pooled_connection dials a peer again only *)
(* if a connection between the two was lost or dropped, or a dial failed,   *)
(* since its last dial of that peer began.                                  *)
THEOREM DialsAreShared == Spec => OneDialPerLoss
<1>1. IrohInv /\ [Next]_vars =>
        [\A k \in Callers : call[k].pc # "dial" /\ call'[k].pc = "dial" => Link(k) \in owed]_vars
  <2>1. CASE UNCHANGED vars
    BY <2>1
  <2>2. CASE Next
    BY <2>2, DialIsOwed
  <2>3. QED
    BY <2>1, <2>2
<1>2. QED
  BY <1>1, IrohInvariant, PTL DEF Spec, OneDialPerLoss

-----------------------------------------------------------------------------
(* A gate that is shut has someone at work behind it, who will open it:     *)
(* with GateHeld, the gate of a peer is shut exactly while one caller dials *)
(* that peer or is about to pool what it dialled.                           *)
GateReturned ==
    \A p \in Peers : gate[p] # None =>
        call[gate[p]].pc \in {"dial", "connected"} /\ Link(gate[p]) = p

(* The steps that leave the gates alone and stop nobody behind one.         *)
LEMMA HolderStays ==
    ASSUME TypeOK, GateReturned, gate' = gate,
           \A k \in Callers : call[k].pc \in {"dial", "connected"} =>
               call'[k].pc \in {"dial", "connected"}
    PROVE  GateReturned'
<1>1. \A p \in Peers : gate[p] # None => gate[p] \in Callers
  BY DEF TypeOK
<1>2. QED
  BY <1>1 DEF GateReturned, Link

(* A caller that leaves its dial opens the gate it holds, and no other.     *)
LEMMA GateOpened ==
    ASSUME TypeOK, GateReturned, NEW k \in Callers, Release(Link(k)),
           \A j \in Callers \ {k} : call'[j] = call[j]
    PROVE  GateReturned'
<1> SUFFICES ASSUME NEW p \in Peers, gate'[p] # None
             PROVE  call'[gate'[p]].pc \in {"dial", "connected"} /\ Link(gate'[p]) = p
  BY DEF GateReturned, Link
<1>1. p # Link(k) /\ gate'[p] = gate[p]
  BY LinkFacts DEF Release, TypeOK
<1>2. gate[p] \in Callers \ {k}
  BY <1>1 DEF TypeOK, GateReturned
<1>3. QED
  BY <1>1, <1>2 DEF GateReturned

(* pooled_connection shuts a gate only to dial.                             *)
LEMMA GateShut ==
    ASSUME IrohInv, GateReturned, NEW k \in Callers, pooled_connection(k)
    PROVE  GateReturned'
<1>t. TypeOK
  BY DEF IrohInv
<1>1. CASE Open(pool[Link(k)])
  <2>1. pool[Link(k)] \in Conns /\ gate' = gate /\ Connected(k, pool[Link(k)])
    BY <1>1, <1>t, LinkFacts DEF pooled_connection, Open, TypeOK
  <2>2. \A j \in Callers \ {k} : call'[j] = call[j]
    BY <2>1, <1>t, ConnectedFacts
  <2>3. call[k].pc = "gate"
    BY DEF pooled_connection
  <2>4. QED
    BY <1>t, <2>1, <2>2, <2>3, HolderStays
<1>2. CASE ~Open(pool[Link(k)])
  <2>1. /\ call'[k].pc = "dial" /\ \A j \in Callers \ {k} : call'[j] = call[j]
        /\ gate' = [gate EXCEPT ![Link(k)] = k] /\ call[k].pc = "gate"
    BY <1>2, <1>t, GotoFacts DEF pooled_connection, CallPcs
  <2> SUFFICES ASSUME NEW p \in Peers, gate'[p] # None
               PROVE  call'[gate'[p]].pc \in {"dial", "connected"} /\ Link(gate'[p]) = p
    BY DEF GateReturned, Link
  <2>2. CASE p = Link(k)
    BY <2>1, <2>2, <1>t DEF TypeOK
  <2>3. CASE p # Link(k)
    <3>1. gate'[p] = gate[p]
      BY <2>1, <2>3, <1>t DEF TypeOK
    <3>2. gate[p] \in Callers \ {k}
      <4>1. gate[p] # None /\ call[gate[p]].pc \in {"dial", "connected"}
        BY <3>1 DEF GateReturned
      <4>2. gate[p] # k
        BY <2>1, <4>1
      <4>3. gate \in [Peers -> Callers \cup {None}]
        BY <1>t DEF TypeOK
      <4>4. QED
        BY <4>1, <4>2, <4>3
    <3>3. QED
      BY <2>1, <3>1, <3>2 DEF GateReturned
  <2>4. QED
    BY <2>2, <2>3
<1>3. QED
  BY <1>1, <1>2

LEMMA GateStep == ASSUME IrohInv, GateReturned, [Next]_vars PROVE GateReturned'
<1>t. TypeOK
  BY DEF IrohInv
<1>m. ASSUME NEW j \in Callers, NEW pc \in CallPcs, Goto(j, pc) \/ End(j, pc),
             call[j].pc \notin {"dial", "connected"}
      PROVE  \A k \in Callers : call[k].pc \in {"dial", "connected"} =>
                 call'[k].pc \in {"dial", "connected"}
  BY <1>m, <1>t, GotoFacts, EndFacts
<1>1. CASE \E e \in Envelopes : EnvelopeStep(e) \/ \E valid \in BOOLEAN : conest_iroh_send(e, valid)
  <2>1. PICK e \in Envelopes : EnvelopeStep(e) \/ \E valid \in BOOLEAN : conest_iroh_send(e, valid)
    BY <1>1
  <2>2. e \in Callers
    BY DEF Callers
  <2>3. gate' = gate /\ call[e].pc \notin {"dial", "connected"}
    BY <2>1 DEF EnvelopeStep, conest_iroh_send, send_stream, Receipt, StreamFails, Retry
  <2>4. CASE Retry(e)
    <3>1. \A k \in Callers \ {e} : call'[k] = call[k]
      BY <2>2, <2>4, <1>t, CallTyped DEF Retry
    <3>2. QED
      BY <2>3, <3>1, <1>t, HolderStays
  <2>5. CASE ~Retry(e)
    <3>1. \E pc \in {"gate", "failed", "reply", "evict", "done"} : Goto(e, pc) \/ End(e, pc)
      BY <2>1, <2>5 DEF EnvelopeStep, conest_iroh_send, send_envelope_with_hints, send_stream,
                        Receipt, StreamFails
    <3>2. QED
      BY <2>2, <2>3, <3>1, <1>m, <1>t, HolderStays DEF CallPcs
  <2>6. QED
    BY <2>4, <2>5
<1>2. CASE \E k \in Callers : CallStep(k)
  <2>1. PICK k \in Callers : CallStep(k)
    BY <1>2
  <2>2. CASE DialFails(k)
    <3>1. \A j \in Callers \ {k} : call'[j] = call[j]
      BY <2>2, <1>t, EndFacts DEF DialFails, CallPcs
    <3>2. QED
      BY <2>2, <3>1, <1>t, GateOpened DEF DialFails
  <2>3. CASE PoolConnection(k)
    <3>1. call[k].on \in Conns
      BY <2>3 DEF PoolConnection, IrohInv, ConnsKnown
    <3>2. \A j \in Callers \ {k} : call'[j] = call[j]
      BY <2>3, <3>1, <1>t, ConnectedFacts DEF PoolConnection
    <3>3. QED
      BY <2>3, <3>2, <1>t, GateOpened DEF PoolConnection
  <2>4. CASE \E c \in Conns : DialSucceeds(k, c)
    <3>1. /\ gate' = gate /\ call'[k].pc = "connected"
          /\ \A j \in Callers \ {k} : call'[j] = call[j]
      BY <2>4, <1>t, CallTyped DEF DialSucceeds, CallRecord
    <3>2. QED
      BY <3>1, <1>t, HolderStays
  <2>5. QED
    BY <2>1, <2>2, <2>3, <2>4, GateShut DEF CallStep
<1>3. CASE \E e \in Envelopes, a \in Attempts : StreamStep(e, a)
  <2>1. gate' = gate /\ call' = call
    BY <1>3 DEF StreamStep, TakeStream, Enqueue, Answer, StreamTimesOut
  <2>2. QED
    BY <2>1, <1>t, HolderStays
<1>4. CASE \E p \in DatagramPairs : MediaStep(p)
  <2>1. PICK p \in DatagramPairs : MediaStep(p)
    BY <1>4
  <2>2. CASE send_datagram(p)
    <3>1. p \in Callers /\ gate' = gate
      BY <2>2, PairFacts DEF send_datagram
    <3>2. CASE p[2] \in dials[p[1]]
      BY <2>2, <3>1, <3>2, <1>t, HolderStays DEF send_datagram, warm_datagram_connection
    <3>3. CASE p[2] \notin dials[p[1]]
      <4>1. call[p].pc = "idle" /\ Goto(p, "gate")
        BY <2>2, <3>3 DEF send_datagram, warm_datagram_connection, transport, IrohInv, Marked
      <4>2. QED
        BY <3>1, <4>1, <1>m, <1>t, HolderStays DEF CallPcs
    <3>4. QED
      BY <3>2, <3>3
  <2>3. CASE Unmark(p)
    BY <2>3, <1>m, <1>t, PairFacts, HolderStays DEF Unmark, CallPcs
  <2>4. QED
    BY <2>1, <2>2, <2>3 DEF MediaStep
<1>5. CASE \E n \in Nodes : NodeStep(n)
  <2>1. gate' = gate /\ call' = call
    BY <1>5 DEF NodeStep, conest_iroh_next, network_change, close, EndpointClosed,
                run_accept_loop, RunnerEnds
  <2>2. QED
    BY <2>1, <1>t, HolderStays
<1>6. CASE \E c \in Conns : ConnectionLost(c) \/ PathChanges(c)
  <2>1. gate' = gate /\ call' = call
    BY <1>6 DEF ConnectionLost, PathChanges
  <2>2. QED
    BY <2>1, <1>t, HolderStays
<1>7. CASE UNCHANGED vars
  <2>1. gate' = gate /\ call' = call
    BY <1>7 DEF vars
  <2>2. QED
    BY <2>1, <1>t, HolderStays
<1>8. QED
  BY <1>1, <1>2, <1>3, <1>4, <1>5, <1>6, <1>7 DEF Next

(* connect_locks: no outcome of a dial, no loss of a connection and no end  *)
(* of an endpoint leaves the gate of a peer shut with nobody behind it, so  *)
(* that no send waits at a gate for good.                                   *)
THEOREM GatesAreReturned == Spec => []GateReturned
<1>1. Init => GateReturned
  BY DEF Init, NewTransports, GateReturned
<1>2. IrohInv /\ GateReturned /\ [Next]_vars => GateReturned'
  BY GateStep
<1>3. QED
  BY <1>1, <1>2, IrohInvariant, PTL DEF Spec

=============================================================================
