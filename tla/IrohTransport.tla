--------------------------- MODULE IrohTransport ---------------------------
(***************************************************************************)
(* The native Iroh transport (native/conest_native/src/api.rs) behind its   *)
(* C ABI (ffi.rs): endpoints that dial each other, keep one pooled QUIC     *)
(* connection per peer, send each envelope on a stream of its own that the  *)
(* peer acknowledges, and warm a connection in the background when a call's *)
(* datagram finds none.                                                     *)
(*                                                                          *)
(* A step ends where the code awaits or takes a lock.  QUIC is external:    *)
(* a connection may be lost at any step, its path may change, and a stream  *)
(* that a sender gives up may still reach the peer.                         *)
(***************************************************************************)
EXTENDS Naturals, Sequences, FiniteSets

CONSTANTS
    Nodes,          \* installations, each with one endpoint
    Envelopes,      \* calls of conest_iroh_send
    From, To,       \* [Envelopes -> Nodes]
    DirectOnly,     \* the envelopes sent with allow_relay = false
    DatagramPairs,  \* <<caller, peer>>: who sends call media to whom
    MaxConns,       \* bound: the connections of a behaviour
    INBOX_CAPACITY,
    MAX_INBOUND_STREAMS,
    MaxChanges,     \* bound: path changes, network changes and closes
    None

ASSUME TransportAssumption ==
    /\ From \in [Envelopes -> Nodes] /\ To \in [Envelopes -> Nodes]
    /\ \A e \in Envelopes : From[e] # To[e]
    /\ DirectOnly \subseteq Envelopes
    /\ DatagramPairs \subseteq {p \in Nodes \X Nodes : p[1] # p[2]}
    /\ INBOX_CAPACITY \in Nat \ {0} /\ MAX_INBOUND_STREAMS \in Nat \ {0}
    /\ MaxChanges \in Nat /\ MaxConns \in Nat /\ None \notin Nat /\ None \notin Nodes
    /\ Envelopes \cap DatagramPairs = {} /\ None \notin Envelopes \cup DatagramPairs

Conns == 1 .. MaxConns
Callers == Envelopes \cup DatagramPairs     \* of pooled_connection
Source(k) == IF k \in Envelopes THEN From[k] ELSE k[1]
Target(k) == IF k \in Envelopes THEN To[k] ELSE k[2]
Attempts == 1 .. 2                          \* "retry exactly once"

VARIABLES
    handle,     \* open: in TRANSPORTS; closing: removed, pools cleared; closed
    conn,       \* the QUIC connections
    arriving,   \* connections an endpoint has not accepted yet
    pool,       \* connections: the pooled one of each peer
    served,     \* the connections an endpoint has a run_connection task for
    gate,       \* connect_locks: who holds the gate of a peer
    call,       \* what each caller does, on which connection
    stream,     \* the stream of each attempt at an envelope, at the receiver
    inbox,
    dials,      \* datagram_dials
    changes,
    queued,     \* history: the envelopes put into an inbox
    owed        \* history: the peers with a reason for a dial since the last one

quic == <<conn, arriving>>
history == <<queued, owed>>
vars == <<handle, conn, arriving, pool, served, gate, call, stream, inbox, dials,
          changes, queued, owed>>

Peers == {p \in Nodes \X Nodes : p[1] # p[2]}

\* A stream not opened yet, or reset, or given up by its receiver.
NoStream == [state |-> "none", on |-> None]
StreamStates == {"none", "opened", "taken", "queued", "answered"}

TypeOK ==
    /\ handle \in [Nodes -> {"open", "closing", "closed"}]
    /\ conn \in [Conns -> [state : {"free", "open", "closed"}, ends : Peers \cup {None},
                           relayed : BOOLEAN]]
    /\ arriving \in [Nodes -> SUBSET Conns]
    /\ pool \in [Peers -> Conns \cup {None}]
    /\ served \in [Nodes -> SUBSET Conns]
    /\ gate \in [Peers -> Callers \cup {None}]
    /\ call \in [Callers -> [pc : {"idle", "gate", "dial", "connected", "stream", "reply",
                                   "evict", "unmark", "done", "failed"},
                             on : Conns \cup {None}, attempt : Attempts]]
    /\ stream \in [Envelopes -> [Attempts -> [state : StreamStates, on : Conns \cup {None}]]]
    /\ inbox \in [Nodes -> Seq(Envelopes)]
    /\ dials \in [Nodes -> SUBSET Nodes]
    /\ changes \in 0 .. MaxChanges
    /\ queued \subseteq Envelopes
    /\ owed \subseteq Peers

\* NativeTransport::start: the endpoint is bound, its accept loop runs, and
\* every map is empty.
NewTransports ==
    /\ arriving = [n \in Nodes |-> {}]
    /\ pool = [p \in Peers |-> None]
    /\ served = [n \in Nodes |-> {}]
    /\ gate = [p \in Peers |-> None]
    /\ inbox = [n \in Nodes |-> <<>>]
    /\ dials = [n \in Nodes |-> {}]

\* start_transport puts the handle into the registry.
Init ==
    /\ NewTransports
    /\ handle = [n \in Nodes |-> "open"]
    /\ conn = [c \in Conns |-> [state |-> "free", ends |-> None, relayed |-> FALSE]]
    /\ call = [k \in Callers |-> [pc |-> "idle", on |-> None, attempt |-> 1]]
    /\ stream = [e \in Envelopes |-> [a \in Attempts |-> NoStream]]
    /\ changes = 0
    /\ queued = {}
    /\ owed = Peers

Link(k) == <<Source(k), Target(k)>>
Open(c) == c # None /\ conn[c].state = "open"

\* A connection that is no more, as the tasks that hold it see it.
Closed(c) == [conn[c] EXCEPT !.state = "closed", !.relayed = FALSE]

\* A call reaches the transport only through a handle of the registry.
transport(n) == handle[n] = "open"

Goto(k, pc) == call' = [call EXCEPT ![k].pc = pc]
End(k, pc) == call' = [call EXCEPT ![k] = [pc |-> pc, on |-> None, attempt |-> 1]]

Release(p) == gate' = [gate EXCEPT ![p] = None]

\* A connection to these peers was lost or dropped, or a dial failed.
Excuse(ps) == owed' = owed \cup ps

\* Mutant: whatever is pooled goes.
WithoutAny(p, c) == [pool EXCEPT ![p] = None]

\* The pool without a connection that failed, unless another is there now.
Without(p, c) == IF pool[p] = c THEN [pool EXCEPT ![p] = None] ELSE pool

\* evict_if_same.  To give up a pooled connection that is still open is a
\* reason for a dial; that a newer one is there, or a dead one, is none.
evict_if_same(p, c) ==
    /\ pool' = Without(p, c)
    /\ IF pool[p] = c /\ Open(c) THEN Excuse({p}) ELSE UNCHANGED owed

-----------------------------------------------------------------------------
(* Sending an envelope.                                                     *)

\* An empty or oversized envelope and a bad address are refused.
send_envelope_with_hints(e, valid) == Goto(e, IF valid THEN "gate" ELSE "failed")

\* The C ABI checks the handle and its pointers and waits for the outcome.
conest_iroh_send(e, valid) ==
    /\ call[e].pc = "idle"
    /\ transport(From[e])
    /\ send_envelope_with_hints(e, valid)
    /\ UNCHANGED <<handle, quic, pool, served, gate, stream, inbox, dials, changes, history>>

\* Where a caller goes on with a connection: an envelope opens its stream, a
\* warmed connection is what the datagram call wanted.
Connected(k, c) ==
    call' = [call EXCEPT ![k].pc = IF k \in Envelopes THEN "stream" ELSE "unmark", ![k].on = c]

\* pooled_connection: the gate of the peer, then the pool, then a dial with
\* the gate held.
pooled_connection(k) ==
    /\ call[k].pc = "gate"
    /\ gate[Link(k)] = None
    /\ IF Open(pool[Link(k)])
       THEN Connected(k, pool[Link(k)]) /\ UNCHANGED <<gate, owed>>
       ELSE /\ Goto(k, "dial")
            /\ gate' = [gate EXCEPT ![Link(k)] = k]
            /\ owed' = owed \ {Link(k)}
    /\ UNCHANGED <<handle, quic, pool, served, stream, inbox, dials, changes,
                   queued>>

\* The handshake ends: the dialler has the connection, the peer's accept
\* loop is about to.
DialSucceeds(k, c) ==
    /\ call[k].pc = "dial"
    /\ handle[Source(k)] # "closed" /\ handle[Target(k)] # "closed"
    /\ conn[c].state = "free" /\ \A d \in 1 .. c - 1 : conn[d].state # "free"
    /\ \E relayed \in BOOLEAN :
          conn' = [conn EXCEPT ![c] = [state |-> "open", ends |-> Link(k), relayed |-> relayed]]
    /\ arriving' = [arriving EXCEPT ![Target(k)] = @ \cup {c}]
    /\ call' = [call EXCEPT ![k].pc = "connected", ![k].on = c]
    /\ UNCHANGED <<handle, pool, served, gate, stream, inbox, dials, changes, history>>

\* Mutant: the gate of a peer stays shut behind a dial that failed.
DialFailsGateShut(k) ==
    /\ call[k].pc = "dial"
    /\ End(k, IF k \in Envelopes THEN "failed" ELSE "unmark")
    /\ Excuse({Link(k)})
    /\ UNCHANGED <<handle, quic, pool, served, gate, stream, inbox, dials, changes, queued>>

\* The dial fails or takes longer than CONNECT_TIMEOUT: the send fails.
DialFails(k) ==
    /\ call[k].pc = "dial"
    /\ End(k, IF k \in Envelopes THEN "failed" ELSE "unmark")
    /\ Release(Link(k))
    /\ Excuse({Link(k)})
    /\ UNCHANGED <<handle, quic, pool, served, stream, inbox, dials, changes, queued>>

\* Mutant: the connection is pooled without a task that serves it.
PoolUnserved(k) ==
    /\ call[k].pc = "connected"
    /\ pool' = [pool EXCEPT ![Link(k)] = call[k].on]
    /\ Connected(k, call[k].on)
    /\ Release(Link(k))
    /\ UNCHANGED <<handle, quic, served, stream, inbox, dials, changes, history>>

\* The end of pooled_connection: pooled, and served like an accepted one.
PoolConnection(k) ==
    /\ call[k].pc = "connected"
    /\ pool' = [pool EXCEPT ![Link(k)] = call[k].on]
    /\ served' = [served EXCEPT ![Source(k)] = @ \cup {call[k].on}]
    /\ Connected(k, call[k].on)
    /\ Release(Link(k))
    /\ UNCHANGED <<handle, quic, stream, inbox, dials, changes, history>>

\* send_stream: the path is checked against the policy, then the envelope is
\* written to a new stream.
send_stream(e) ==
    LET c == call[e].on
        allowed == Open(c) /\ ~(e \in DirectOnly /\ conn[c].relayed)
    IN /\ call[e].pc = "stream"
       /\ IF allowed THEN Goto(e, "reply")
          ELSE IF call[e].attempt = 1 THEN Goto(e, "evict") ELSE End(e, "failed")
       /\ stream' = IF allowed
                    THEN [stream EXCEPT ![e][call[e].attempt] = [state |-> "opened", on |-> c]]
                    ELSE stream
       /\ UNCHANGED <<handle, quic, pool, served, gate, inbox, dials, changes, history>>

Current(e) == stream[e][call[e].attempt]

\* The one byte of the acknowledgement came.
Receipt(e) ==
    /\ call[e].pc = "reply"
    /\ Current(e).state = "answered"
    /\ Open(call[e].on)
    /\ End(e, "done")
    /\ stream' = [stream EXCEPT ![e][call[e].attempt] = NoStream]
    /\ UNCHANGED <<handle, quic, pool, served, gate, inbox, dials, changes, history>>

\* The stream fails or STREAM_TIMEOUT passes.  What was written may be reset
\* with it, or reach the peer all the same.
StreamFails(e) ==
    /\ call[e].pc = "reply"
    /\ IF call[e].attempt = 1 THEN Goto(e, "evict") ELSE End(e, "failed")
    /\ \/ Current(e).state # "answered" /\ UNCHANGED stream
       \/ /\ Current(e).state # "queued"
          /\ stream' = [stream EXCEPT ![e][call[e].attempt] = NoStream]
    /\ UNCHANGED <<handle, quic, pool, served, gate, inbox, dials, changes, history>>

\* The first failure: evict_if_same, then the one retry.
Retry(e) ==
    /\ call[e].pc = "evict"
    /\ evict_if_same(Link(e), call[e].on)
    /\ call' = [call EXCEPT ![e] = [pc |-> "gate", on |-> None, attempt |-> 2]]
    /\ UNCHANGED <<handle, quic, served, gate, stream, inbox, dials, changes, queued>>

-----------------------------------------------------------------------------
(* Receiving.                                                               *)

\* Lost connections take along what was sent and not read yet.
Reset(cs) ==
    stream' = [e \in Envelopes |-> [a \in Attempts |->
                 IF stream[e][a].on \in cs /\ stream[e][a].state \in {"opened", "answered"}
                 THEN NoStream ELSE stream[e][a]]]

\* run_accept_loop: an accepted connection takes the place of a pooled one,
\* without a look at whether it is still open: one that was lost meanwhile
\* drops the one that was pooled.  A handshake that fails, or outlasts
\* CONNECT_TIMEOUT, at this end only is the loss of the connection.
run_accept_loop(n, c) ==
    LET p == <<n, conn[c].ends[1]>> IN
    /\ c \in arriving[n]
    /\ arriving' = [arriving EXCEPT ![n] = @ \ {c}]
    /\ \/ /\ pool' = [pool EXCEPT ![p] = c]
          /\ served' = [served EXCEPT ![n] = @ \cup {c}]
          /\ IF Open(c) THEN UNCHANGED owed ELSE Excuse({p})
       \/ ~Open(c) /\ UNCHANGED <<pool, served, owed>>
    /\ UNCHANGED <<handle, conn, gate, call, stream, inbox, dials, changes, queued>>

Taken(n, c) ==
    {t \in Envelopes \X Attempts :
        LET s == stream[t[1]][t[2]] IN
        s.on = c /\ To[t[1]] = n /\ s.state \in {"taken", "queued"}}

\* run_connection takes a stream while fewer than its bound are in work.
TakeStream(e, a) ==
    LET c == stream[e][a].on IN
    /\ stream[e][a].state = "opened"
    /\ Open(c) /\ c \in served[To[e]]
    /\ Cardinality(Taken(To[e], c)) < MAX_INBOUND_STREAMS
    /\ stream' = [stream EXCEPT ![e][a].state = "taken"]
    /\ UNCHANGED <<handle, quic, pool, served, gate, call, inbox, dials, changes, history>>

\* Mutant: acknowledged before the inbox has it.
AnswerEarly(e, a) ==
    /\ stream[e][a].state \in {"taken", "queued"}
    /\ stream' = [stream EXCEPT ![e][a].state = "answered"]
    /\ UNCHANGED <<handle, quic, pool, served, gate, call, inbox, dials, changes, history>>

\* The task of a stream waits for room in the inbox,
Enqueue(e, a) ==
    /\ stream[e][a].state = "taken"
    /\ Len(inbox[To[e]]) < INBOX_CAPACITY
    /\ inbox' = [inbox EXCEPT ![To[e]] = Append(@, e)]
    /\ stream' = [stream EXCEPT ![e][a].state = "queued"]
    /\ queued' = queued \cup {e}
    /\ UNCHANGED <<handle, quic, pool, served, gate, call, dials, changes, owed>>

\* and then writes its acknowledgement,
Answer(e, a) ==
    /\ stream[e][a].state = "queued"
    /\ stream' = [stream EXCEPT ![e][a].state = "answered"]
    /\ UNCHANGED <<handle, quic, pool, served, gate, call, inbox, dials, changes, history>>

\* unless its own STREAM_TIMEOUT comes first.
StreamTimesOut(e, a) ==
    /\ stream[e][a].state \in {"taken", "queued"}
    /\ stream' = [stream EXCEPT ![e][a] = NoStream]
    /\ UNCHANGED <<handle, quic, pool, served, gate, call, inbox, dials, changes, history>>

\* run_connection ends with its connection: the pool loses it if it is still
\* the pooled one, and its streams are aborted.
RunnerEnds(n, c) ==
    /\ c \in served[n] /\ ~Open(c)
    /\ served' = [served EXCEPT ![n] = @ \ {c}]
    /\ pool' = [p \in Peers |-> IF p[1] = n /\ pool[p] = c THEN None ELSE pool[p]]
    /\ stream' = [e \in Envelopes |-> [a \in Attempts |->
                    IF <<e, a>> \in Taken(n, c)
                    THEN NoStream ELSE stream[e][a]]]
    /\ UNCHANGED <<handle, quic, gate, call, inbox, dials, changes, history>>

\* try_next_envelope, polled by the application.
conest_iroh_next(n) ==
    /\ transport(n)
    /\ inbox[n] # <<>>
    /\ inbox' = [inbox EXCEPT ![n] = Tail(@)]
    /\ UNCHANGED <<handle, quic, pool, served, gate, call, stream, dials, changes, history>>

-----------------------------------------------------------------------------
(* Call media: a datagram goes on the pooled connection or is dropped, and  *)
(* then one background dial warms a connection.                             *)

\* One background dial at a time warms the pool.
warm_datagram_connection(p) ==
    IF p[2] \in dials[p[1]]
    THEN UNCHANGED <<dials, call>>
    ELSE dials' = [dials EXCEPT ![p[1]] = @ \cup {p[2]}] /\ Goto(p, "gate")

\* A datagram that is not sent: there was no connection, or a dead one, or
\* sending on it failed.  The one it was tried on goes if it is still the
\* pooled one, and a background dial is started, also when another call has
\* pooled a connection since.  (A datagram that is sent, or refused for its
\* size or its path, changes nothing.  A call that outlives the closing of
\* its transport is left out.)
send_datagram(p) ==
    /\ transport(p[1])
    /\ \/ pool[p] # None /\ evict_if_same(p, pool[p])
       \/ UNCHANGED <<pool, owed>>
    /\ warm_datagram_connection(p)
    /\ UNCHANGED <<handle, quic, served, gate, stream, inbox, changes, queued>>

\* The background task ends, whatever came of its dial.
Unmark(p) ==
    /\ call[p].pc = "unmark"
    /\ dials' = [dials EXCEPT ![p[1]] = @ \ {p[2]}]
    /\ End(p, "idle")
    /\ UNCHANGED <<handle, quic, pool, served, gate, stream, inbox, changes, history>>

-----------------------------------------------------------------------------
(* The network and the end.                                                 *)

\* A connection is lost, for both its ends.
ConnectionLost(c) ==
    /\ Open(c)
    /\ conn' = [conn EXCEPT ![c] = Closed(c)]
    /\ Excuse({p \in Peers : {p[1], p[2]} = {conn[c].ends[1], conn[c].ends[2]}})
    /\ Reset({c})
    /\ UNCHANGED <<handle, arriving, pool, served, gate, call, inbox, dials,
                   changes, queued>>

\* path_kind reads another answer from now on.
PathChanges(c) ==
    /\ Open(c) /\ changes < MaxChanges
    /\ changes' = changes + 1
    /\ conn' = [conn EXCEPT ![c].relayed = ~@]
    /\ UNCHANGED <<handle, arriving, pool, served, gate, call, stream, inbox, dials, history>>

PoolOf(n) == {p \in Peers : p[1] = n}

Cleared(n) == [p \in Peers |-> IF p[1] = n THEN None ELSE pool[p]]

\* The pooled connections are dropped, not closed: their tasks go on.
network_change(n) ==
    /\ transport(n) /\ changes < MaxChanges
    /\ changes' = changes + 1
    /\ pool' = Cleared(n)
    /\ Excuse(PoolOf(n))
    /\ UNCHANGED <<handle, quic, served, gate, call, stream, inbox, dials, queued>>

\* conest_iroh_close: out of the registry, the marks and the pool cleared;
\* calls in progress keep the transport.
close(n) ==
    /\ transport(n) /\ changes < MaxChanges
    /\ changes' = changes + 1
    /\ handle' = [handle EXCEPT ![n] = "closing"]
    /\ dials' = [dials EXCEPT ![n] = {}]
    /\ pool' = Cleared(n)
    /\ Excuse(PoolOf(n))
    /\ UNCHANGED <<quic, served, gate, call, stream, inbox, queued>>

\* endpoint.close ends every connection of the endpoint.
EndpointClosed(n) ==
    /\ handle[n] = "closing"
    /\ handle' = [handle EXCEPT ![n] = "closed"]
    /\ LET cs == {c \in Conns : Open(c) /\ n \in {conn[c].ends[1], conn[c].ends[2]}} IN
       /\ conn' = [c \in Conns |-> IF c \in cs THEN Closed(c) ELSE conn[c]]
       /\ Reset(cs)
    /\ Excuse({p \in Peers : n \in {p[1], p[2]}})
    /\ UNCHANGED <<arriving, pool, served, gate, call, inbox, dials, changes, queued>>

-----------------------------------------------------------------------------
CallStep(k) ==
    \/ pooled_connection(k) \/ DialFails(k) \/ PoolConnection(k)
    \/ \E c \in Conns : DialSucceeds(k, c)

EnvelopeStep(e) == send_stream(e) \/ Receipt(e) \/ StreamFails(e) \/ Retry(e)

StreamStep(e, a) == TakeStream(e, a) \/ Enqueue(e, a) \/ Answer(e, a) \/ StreamTimesOut(e, a)

MediaStep(p) == send_datagram(p) \/ Unmark(p)

NodeStep(n) ==
    \/ conest_iroh_next(n) \/ network_change(n) \/ close(n) \/ EndpointClosed(n)
    \/ \E c \in Conns : run_accept_loop(n, c) \/ RunnerEnds(n, c)

Next ==
    \/ \E e \in Envelopes : EnvelopeStep(e) \/ \E valid \in BOOLEAN : conest_iroh_send(e, valid)
    \/ \E k \in Callers : CallStep(k)
    \/ \E e \in Envelopes, a \in Attempts : StreamStep(e, a)
    \/ \E p \in DatagramPairs : MediaStep(p)
    \/ \E n \in Nodes : NodeStep(n)
    \/ \E c \in Conns : ConnectionLost(c) \/ PathChanges(c)

Spec == Init /\ [][Next]_vars

\* A task of the runtime that can go on does; every wait of a call has a
\* timeout, and closing an endpoint ends.
FairSpec ==
    /\ Spec
    /\ \A k \in Callers : SF_vars(pooled_connection(k))
    /\ \A k \in Callers : WF_vars(DialFails(k) \/ \E c \in Conns : DialSucceeds(k, c))
    /\ \A k \in Callers : WF_vars(PoolConnection(k))
    /\ \A e \in Envelopes : WF_vars(EnvelopeStep(e))
    /\ \A n \in Nodes, c \in Conns : WF_vars(RunnerEnds(n, c))

-----------------------------------------------------------------------------
(* A receipt is the truth: an envelope that send reports as accepted was    *)
(* put into the peer's inbox, whatever was lost, retried or timed out.      *)
ReceiptMeansQueued == \A e \in Envelopes : call[e].pc = "done" => e \in queued

(* Sends and call media that need a connection at the same time share one   *)
(* dial: an endpoint dials a peer again only if, since the last dial began, *)
(* a connection between the two was lost or dropped or a dial failed.  That *)
(* a send failed on a connection another one has replaced is no reason.     *)
OneDialPerLoss ==
    [][\A k \in Callers : call[k].pc # "dial" /\ call'[k].pc = "dial" => Link(k) \in owed]_vars

(* A pooled connection has the task that takes its streams, and that takes  *)
(* it out of the pool when it dies: a dead entry is never there for good.   *)
PooledIsServed == \A p \in Peers : pool[p] # None => pool[p] \in served[p[1]]

(* Every send ends, with its receipt or its error, however its dial, its    *)
(* stream, its peer's inbox and the closing of an endpoint turn out.        *)
SendsEnd == \A e \in Envelopes : call[e].pc = "gate" ~> call[e].pc \in {"done", "failed"}

=============================================================================
