---------------------------- MODULE RelayMailbox ----------------------------
(***************************************************************************)
(* The relay's durable mailbox store (native/conest_relay/src/main.rs) and  *)
(* the two ends of it: senders that store, recipients that fetch, process   *)
(* and acknowledge.                                                         *)
(*                                                                          *)
(* Every operation of RelayState on the SQLite table queue_entries is one   *)
(* transaction under the database mutex, so it is one action here.  The     *)
(* clock value an operation works with is read BEFORE it waits for that     *)
(* mutex: the operation is late by some lag d when it runs.  Time is kept   *)
(* as the age of a row and the time left of its lease.                      *)
(***************************************************************************)
EXTENDS Integers, FiniteSets, FiniteSetsExt

CONSTANTS
    Envelopes,          \* the envelopes senders store (a retry stores one again)
    MailboxOf,          \* recipient_device_id of an envelope
    KindOf,             \* its "kind": "message", "pairing" or "none" (absent)
    SenderOf,           \* its senderDeviceId, or NoSender
    KeyOf,              \* its messageId as deduplication key, or NoKey
    SourceOf,           \* the peer group that stores it, or NoSource
    BytesOf,            \* its serialized length
    NoSender, NoKey, NoSource,
    LeaseIds, NoLease,  \* random lease ids; no lease
    MaxQueuePerMailbox, MaxMailboxBytes, MaxPairingPerMailbox,
    MaxStoredBytesPerPeer, MaxTotalBytes,
    Limits,             \* the limits fetches ask for (clamped to the server's)
    LeaseTimes,         \* the lease times fetches ask for (after the clamp)
    TTL,                \* RelayConfig.ttl
    MaxLag,             \* how late an operation's clock value can be
    MaxAge,             \* bound: ages saturate here
    MaxStores,          \* bound: rows ever inserted
    MaxInFlight         \* bound: fetch responses in flight

ASSUME ConstantsAssumption ==
    /\ BytesOf \in [Envelopes -> Nat]
    /\ DOMAIN MailboxOf = Envelopes
    /\ DOMAIN KindOf = Envelopes
    /\ DOMAIN SenderOf = Envelopes
    /\ DOMAIN KeyOf = Envelopes
    /\ DOMAIN SourceOf = Envelopes
    /\ NoLease \notin LeaseIds
    /\ Limits \subseteq Nat \ {0}
    /\ LeaseTimes \subseteq Nat \ {0}
    /\ {TTL, MaxLag, MaxAge, MaxStores, MaxInFlight} \subseteq Nat
    /\ MaxLag <= MaxAge
    /\ {MaxQueuePerMailbox, MaxMailboxBytes, MaxPairingPerMailbox,
        MaxStoredBytesPerPeer, MaxTotalBytes} \subseteq Nat
    /\ MaxPairingPerMailbox > 0     \* MAX_PAIRING_PER_MAILBOX is 8

VARIABLES
    rows,       \* table queue_entries
    nextId,     \* the id AUTOINCREMENT gives next
    wire,       \* fetch responses on their way to recipients
    acks,       \* acknowledgements recipients have yet to get through
    delivered,  \* history: ids of rows some recipient durably processed
    dropped     \* history: ids of rows the relay gave up unacknowledged

vars == <<rows, nextId, wire, acks, delivered, dropped>>

Mailboxes == {MailboxOf[e] : e \in Envelopes}
Lags == 0 .. MaxLag

Row == [id : Nat, env : Envelopes, age : 0 .. MaxAge,
        lease : LeaseIds \cup {NoLease}, left : Int]

(* A response lists the ids it carries, and as taken the ones a legacy      *)
(* fetch deleted from the table when it read them.                          *)
Response == [mailbox : Mailboxes, lease : LeaseIds \cup {NoLease},
             ids : SUBSET Nat, taken : SUBSET Nat]

AckRequest == [mailbox : Mailboxes, lease : LeaseIds]

Ids(R) == {r.id : r \in R}

-----------------------------------------------------------------------------
(* Reading the table.                                                      *)

Mailbox(r) == MailboxOf[r.env]

IsPairing(r) == KindOf[r.env] = "pairing"

Unleased(R) == {r \in R : r.lease = NoLease}

Bytes(R) == MapThenSumSet(LAMBDA r : BytesOf[r.env], R)

\* ORDER BY id LIMIT k
Oldest(k, R) == {r \in R : Cardinality({q \in R : q.id < r.id}) < k}

\* queued_at_millis < now - ttl, for an operation that is d late
Expired(r, d) == r.age > TTL + d

\* Mutant: the lateness of the clock value counted the wrong way.
LeaseOverEarly(r, d) == r.lease # NoLease /\ r.left - d <= 0

\* Mutant: an expired lease is not cleared.
LeaseNeverOver(r, d) == FALSE

\* lease_until_millis IS NOT NULL AND lease_until_millis <= now
LeaseOver(r, d) == r.lease # NoLease /\ r.left + d <= 0

Alive(R, d) == {r \in R : ~Expired(r, d)}

-----------------------------------------------------------------------------
(* store_from: the steps of its transaction, each on what the one before   *)
(* it left in the table.                                                   *)

\* Mutant: rows under a lease are not searched for the same message.
AlreadyPresentUnleased(R, e) ==
    /\ KeyOf[e] # NoKey
    /\ \E r \in Unleased(R) : Mailbox(r) = MailboxOf[e] /\ KeyOf[r.env] = KeyOf[e]

AlreadyPresent(R, e) ==
    /\ KeyOf[e] # NoKey
    /\ \E r \in R : Mailbox(r) = MailboxOf[e] /\ KeyOf[r.env] = KeyOf[e]

Pairings(R, m) == {r \in R : Mailbox(r) = m /\ IsPairing(r)}

\* A sender's newer announcement replaces its older ones.
Superseded(R, e) ==
    {r \in Pairings(R, MailboxOf[e]) :
        SenderOf[e] # NoSender /\ SenderOf[r.env] = SenderOf[e]}

\* Mutant: room is made down to the cap, not below it.
PairingOverflowByOne(R, e) ==
    LET P == Pairings(R, MailboxOf[e])
    IN  Oldest(Cardinality(P) - MaxPairingPerMailbox, Unleased(P))

\* The eviction loop runs until there is room below the cap, and removes only
\* announcements without a lease: were one leased, it might never end.
PairingOverflow(R, e) ==
    LET P == Pairings(R, MailboxOf[e])
        over == Cardinality(P) - (MaxPairingPerMailbox - 1)
    IN  Oldest(over, Unleased(P))

AfterPairing(R, e) ==
    IF KindOf[e] # "pairing" THEN R
    ELSE LET S == R \ Superseded(R, e) IN S \ PairingOverflow(S, e)

FitsMailbox(R, e) ==
    LET Q == {r \in R : Mailbox(r) = MailboxOf[e]}
    IN  /\ Cardinality(Q) < MaxQueuePerMailbox
        /\ Bytes(Q) + BytesOf[e] <= MaxMailboxBytes

\* COALESCE(oldest unleased row known not to be an announcement, oldest
\* unleased row); a row without a kind fails the SQL comparison.
EvictedBefore(q, r) ==
    LET first(x) == KindOf[x.env] = "message"
    IN  \/ first(q) /\ ~first(r)
        \/ first(q) = first(r) /\ q.id < r.id

MailboxVictims(R, m, k) ==
    LET U == {r \in Unleased(R) : Mailbox(r) = m}
    IN  {r \in U : Cardinality({q \in U : EvictedBefore(q, r)}) < k}

\* The tables the mailbox-quota loop can end with: none if it must refuse.
AfterMailboxQuota(R, e) ==
    LET left(k) == R \ MailboxVictims(R, MailboxOf[e], k)
        enough == {k \in 0 .. Cardinality(R) : FitsMailbox(left(k), e)}
    IN  IF enough = {} THEN {} ELSE {left(Min(enough))}

WithinPeerShare(R, e) ==
    \/ SourceOf[e] = NoSource
    \/ Bytes({r \in R : SourceOf[r.env] = SourceOf[e]}) + BytesOf[e]
          <= MaxStoredBytesPerPeer

Held(R, s) == {r \in Unleased(R) : SourceOf[r.env] = s}

IsLargestHolder(R, s) ==
    /\ Held(R, s) # {}
    /\ \A r \in Unleased(R) :
          Bytes(Held(R, SourceOf[r.env])) <= Bytes(Held(R, s))

FitsTotal(R, e) == Bytes(R) + BytesOf[e] <= MaxTotalBytes

\* One by one, the rows the total-quota loop may delete: the oldest of a
\* largest holder, staying with that holder while it has any left; when it
\* has none, one row of the largest holder then, and a fresh choice next.
RoomMakers(R, e) ==
    LET left(vs, i) == R \ {vs[j] : j \in 1 .. i}
        holder(vs, i) == SourceOf[vs[i].env]
        spent(vs, i) == Held(left(vs, i), holder(vs, i)) = {}
        Legal(vs, n) ==
            LET chosen[i \in 0 .. n] ==      \* largest.is_some() after i rows
                    i > 0 /\ ~(chosen[i - 1] /\ spent(vs, i - 1))
            IN  \A i \in 1 .. n :
                   /\ ~FitsTotal(left(vs, i - 1), e)
                   /\ {vs[i]} = Oldest(1, Held(left(vs, i - 1), holder(vs, i)))
                   /\ IF chosen[i - 1] /\ ~spent(vs, i - 1)
                      THEN holder(vs, i) = holder(vs, i - 1)
                      ELSE IsLargestHolder(left(vs, i - 1), holder(vs, i))
    IN  {V \in SUBSET Unleased(R) :
            /\ FitsTotal(R \ V, e)
            /\ \E vs \in [1 .. Cardinality(V) -> V] :
                  /\ {vs[j] : j \in 1 .. Cardinality(V)} = V
                  /\ Legal(vs, Cardinality(V))}

\* The tables the whole transaction can leave before its INSERT; empty if
\* the store is refused (the transaction is then rolled back).
Made(R, e) ==
    LET quota == {Q \in AfterMailboxQuota(AfterPairing(R, e), e) :
                     WithinPeerShare(Q, e)}
    IN  UNION {{Q \ V : V \in RoomMakers(Q, e)} : Q \in quota}

NewRow(e, d) ==
    [id |-> nextId, env |-> e, age |-> d, lease |-> NoLease, left |-> 0]

\* A retried message already queued is accepted without a second copy.
StoreDuplicate(e, d) ==
    LET A == Alive(rows, d)
    IN  /\ AlreadyPresent(A, e)
        /\ rows' = A
        /\ dropped' = dropped \cup (Ids(rows) \ Ids(A))
        /\ UNCHANGED <<nextId, wire, acks, delivered>>

StoreInsert(e, d) ==
    LET A == Alive(rows, d)
    IN  /\ nextId <= MaxStores
        /\ ~AlreadyPresent(A, e)
        /\ \E K \in Made(A, e) :
              /\ rows' = K \cup {NewRow(e, d)}
              /\ dropped' = dropped \cup (Ids(rows) \ Ids(K))
        /\ nextId' = nextId + 1
        /\ UNCHANGED <<wire, acks, delivered>>

\* Refusals return an error and roll everything back.
StoreRefused(e, d) ==
    LET A == Alive(rows, d)
    IN  /\ ~AlreadyPresent(A, e)
        /\ Made(A, e) = {}
        /\ UNCHANGED vars

Store(e, d) == StoreDuplicate(e, d) \/ StoreInsert(e, d) \/ StoreRefused(e, d)

-----------------------------------------------------------------------------
(* take_queue, for a leased and for a legacy fetch.                        *)

WithLease(r, lease, left) == [r EXCEPT !.lease = lease, !.left = left]

Release(r) == WithLease(r, NoLease, 0)

Released(R, d) == {IF LeaseOver(r, d) THEN Release(r) ELSE r : r \in R}

\* The table a fetch selects from, and the rows it selects.
Table(d) == Released(Alive(rows, d), d)

Selected(m, limit, d) ==
    Oldest(limit, {r \in Unleased(Table(d)) : Mailbox(r) = m})

\* Mutant: announcements are leased and consumed like messages.
TakenWithPairings(G) == G

\* Announcements are handed out, but neither leased nor deleted.
Taken(G) == {r \in G : ~IsPairing(r)}

\* A lease id is 18 random bytes: never one that could still mean something.
LeasesInUse(R) ==
    {r.lease : r \in R} \cup {w.lease : w \in wire} \cup {a.lease : a \in acks}

\* An empty answer changes nothing at the recipient.
Respond(m, lease, G, taken) ==
    wire' = IF G = {} THEN wire
            ELSE wire \cup {[mailbox |-> m, lease |-> lease, ids |-> Ids(G),
                             taken |-> Ids(taken)]}

\* Mutant: the lease is put on the whole mailbox, not on the rows selected.
FetchLeasedWhole(m, limit, time, d, lease) ==
    LET G == Selected(m, limit, d)
        T == Taken({r \in Unleased(Table(d)) : Mailbox(r) = m})
    IN  /\ Cardinality(wire) < MaxInFlight
        /\ lease \in LeaseIds \ LeasesInUse(Table(d))
        /\ rows' = (Table(d) \ T)
                      \cup {WithLease(r, lease, time - d) : r \in T}
        /\ Respond(m, IF T = {} THEN NoLease ELSE lease, G, {})
        /\ dropped' = dropped \cup (Ids(rows) \ Ids(Table(d)))
        /\ UNCHANGED <<nextId, acks, delivered>>

FetchLeased(m, limit, time, d, lease) ==
    LET G == Selected(m, limit, d)
        T == Taken(G)
    IN  /\ Cardinality(wire) < MaxInFlight
        /\ lease \in LeaseIds \ LeasesInUse(Table(d))
        /\ rows' = (Table(d) \ T)
                      \cup {WithLease(r, lease, time - d) : r \in T}
        /\ Respond(m, IF T = {} THEN NoLease ELSE lease, G, {})
        /\ dropped' = dropped \cup (Ids(rows) \ Ids(Table(d)))
        /\ UNCHANGED <<nextId, acks, delivered>>

FetchLegacy(m, limit, d) ==
    LET G == Selected(m, limit, d)
        T == Taken(G)
    IN  /\ Cardinality(wire) < MaxInFlight
        /\ rows' = Table(d) \ T
        /\ Respond(m, NoLease, G, T)
        /\ dropped' = dropped \cup (Ids(rows) \ Ids(Table(d)))
        /\ UNCHANGED <<nextId, acks, delivered>>

\* stats also deletes what is past its time to live.
Stats(d) ==
    /\ rows' = Alive(rows, d)
    /\ dropped' = dropped \cup (Ids(rows) \ Ids(rows'))
    /\ UNCHANGED <<nextId, wire, acks, delivered>>

\* Mutant: the lease id of the acknowledgement is ignored.
AckMatchesMailbox(a) == {r \in rows : Mailbox(r) = a.mailbox}

AckMatches(a) == {r \in rows : Mailbox(r) = a.mailbox /\ r.lease = a.lease}

\* The request may arrive more than once (its answer got lost).
AcknowledgeLease(a) ==
    /\ a \in acks
    /\ rows' = rows \ AckMatches(a)
    /\ acks' \in {acks, acks \ {a}}
    /\ UNCHANGED <<nextId, wire, delivered, dropped>>

\* Mutant: what was leased when the relay stopped is forgotten.
RestartForgets ==
    /\ rows' = Unleased(rows)
    /\ UNCHANGED <<nextId, wire, acks, delivered, dropped>>

\* try_new on an existing database requeues everything leased.
Restart ==
    /\ rows' = {Release(r) : r \in rows}
    /\ UNCHANGED <<nextId, wire, acks, delivered, dropped>>

-----------------------------------------------------------------------------
(* The recipient: it processes and saves a whole batch, then acknowledges. *)

Process(w) ==
    /\ w \in wire
    /\ wire' = wire \ {w}
    /\ delivered' = delivered \cup w.ids
    /\ acks' = IF w.lease = NoLease THEN acks
               ELSE acks \cup {[mailbox |-> w.mailbox, lease |-> w.lease]}
    /\ UNCHANGED <<rows, nextId, dropped>>

\* The answer does not arrive in time, or processing it fails.
LoseResponse(w) ==
    /\ w \in wire
    /\ wire' = wire \ {w}
    /\ dropped' = dropped \cup w.taken
    /\ UNCHANGED <<rows, nextId, acks, delivered>>

\* The recipient dies, or cannot reach the relay, before it acknowledges.
LoseAck(a) ==
    /\ a \in acks
    /\ acks' = acks \ {a}
    /\ UNCHANGED <<rows, nextId, wire, delivered, dropped>>

-----------------------------------------------------------------------------
Older(r) == [r EXCEPT !.age = IF @ < MaxAge THEN @ + 1 ELSE @,
                      !.left = IF r.lease # NoLease /\ @ > -MaxLag
                               THEN @ - 1 ELSE @]

Tick ==
    /\ rows' = {Older(r) : r \in rows}
    /\ UNCHANGED <<nextId, wire, acks, delivered, dropped>>

Init ==
    /\ rows = {}
    /\ nextId = 1
    /\ wire = {}
    /\ acks = {}
    /\ delivered = {}
    /\ dropped = {}

Next ==
    \/ \E d \in Lags :
          \/ \E e \in Envelopes : Store(e, d)
          \/ \E m \in Mailboxes, k \in Limits :
                \/ \E t \in LeaseTimes, l \in LeaseIds : FetchLeased(m, k, t, d, l)
                \/ FetchLegacy(m, k, d)
          \/ Stats(d)
    \/ \E w \in wire : Process(w) \/ LoseResponse(w)
    \/ \E a \in acks : AcknowledgeLease(a) \/ LoseAck(a)
    \/ Restart
    \/ Tick

Spec == Init /\ [][Next]_vars

-----------------------------------------------------------------------------
(* Fairness.  A recipient polls again and again with a limit above the      *)
(* announcement cap (64 against 8), and asks for leases that outlast its    *)
(* own fetch timeout: a row it is handed over and over is at some time      *)
(* processed, and acknowledged, while its lease still stands.  Requests     *)
(* time out: no answer and no acknowledgement is on its way for ever.       *)

Poll(m) ==
    \E d \in Lags, k \in Limits, t \in LeaseTimes, l \in LeaseIds :
        k > MaxPairingPerMailbox /\ FetchLeased(m, k, t, d, l)

ProcessInTime(i) ==
    \E w \in wire :
        /\ i \in w.ids
        /\ \A r \in rows : r.id = i => r.lease = w.lease
        /\ Process(w)

AcknowledgeInTime(i) ==
    \E a \in acks : i \in Ids(AckMatches(a)) /\ AcknowledgeLease(a)

FairSpec ==
    /\ Spec
    /\ WF_vars(Tick)
    /\ WF_vars(\E w \in wire : Process(w) \/ LoseResponse(w))
    /\ WF_vars(\E a \in acks : AcknowledgeLease(a) \/ LoseAck(a))
    /\ \A m \in Mailboxes : WF_vars(Poll(m))
    /\ \A i \in 1 .. MaxStores :
          SF_vars(ProcessInTime(i)) /\ SF_vars(AcknowledgeInTime(i))

-----------------------------------------------------------------------------
(* Properties.                                                              *)

(* Every variable stays in its type: rows carry ids below nextId, ages and  *)
(* lease times stay within their bounds.                                    *)
TypeOK ==
    /\ rows \subseteq Row
    /\ nextId \in 1 .. MaxStores + 1
    /\ wire \subseteq Response
    /\ acks \subseteq AckRequest
    /\ \A r \in rows : r.id \in 1 .. (nextId - 1)
    /\ \A w \in wire : w.ids \subseteq 1 .. (nextId - 1) /\ w.taken \subseteq w.ids
    /\ delivered \subseteq 1 .. (nextId - 1)
    /\ dropped \subseteq 1 .. (nextId - 1)

(* The pairing loop of store_from deletes unleased announcements until the  *)
(* count is below the cap, with no way out if there are none: it ends       *)
(* because no fetch ever leases an announcement.                            *)
PairingNeverLeased == \A r \in rows : IsPairing(r) => r.lease = NoLease

(* What store_from promises about space holds at all times, not only for    *)
(* the mailbox being stored to: entry count, byte and announcement caps of  *)
(* every mailbox, every address's share, and the relay's total.             *)
QuotasHold ==
    /\ Bytes(rows) <= MaxTotalBytes
    /\ \A m \in Mailboxes :
          LET Q == {r \in rows : Mailbox(r) = m}
          IN  /\ Cardinality(Q) <= MaxQueuePerMailbox
              /\ Bytes(Q) <= MaxMailboxBytes
              /\ Cardinality(Pairings(rows, m)) <= MaxPairingPerMailbox
    /\ \A e \in Envelopes :
          SourceOf[e] # NoSource =>
             Bytes({r \in rows : SourceOf[r.env] = SourceOf[e]})
                <= MaxStoredBytesPerPeer

(* AUTOINCREMENT ids identify rows, and no mailbox holds two rows with the  *)
(* same messageId, leased rows included: the INSERT of store_from can never *)
(* fail on the unique index queue_mailbox_dedup.                            *)
RowsDistinct ==
    \A q, r \in rows :
        q # r => /\ q.id # r.id
                 /\ \/ Mailbox(q) # Mailbox(r)
                    \/ KeyOf[q.env] = NoKey
                    \/ KeyOf[q.env] # KeyOf[r.env]

(* Until its deadline a lease is safe: a row under it is neither evicted    *)
(* for another store nor handed to another fetch, however late the clock    *)
(* value of the operation that runs; it goes by acknowledgement of that     *)
(* very lease, by its time to live, or (all leases at once) by a restart.   *)
LeaseSafe ==
    [][\A r \in rows :
          r.lease # NoLease /\ r.left > 0 =>
             \/ [mailbox |-> Mailbox(r), lease |-> r.lease] \in acks
             \/ Expired(r, 0)
             \/ \E q \in rows' :
                   /\ q.id = r.id
                   /\ q.lease = r.lease \/ Unleased(rows') = rows']_vars

(* An acknowledgement, even one that arrives after its lease expired, the   *)
(* row was handed out again, or the relay restarted, deletes only rows the  *)
(* recipient processed.                                                     *)
AckOnlyProcessed == \A a \in acks : Ids(AckMatches(a)) \subseteq delivered

(* Fetches that overlap, from several devices or retried by one, never      *)
(* share: a row still under the lease of an answer on its way is in that    *)
(* answer, and what a legacy fetch consumed is neither in the table nor in  *)
(* what another one consumed.                                               *)
HandoutsConsistent ==
    /\ \A w \in wire, r \in rows :
          /\ w.lease # NoLease /\ r.lease = w.lease => r.id \in w.ids
          /\ r.id \notin w.taken
    /\ \A v, w \in wire : v # w => v.taken \cap w.taken = {}

(* The relay with its lossy network implements the at-least-once mailbox:   *)
(* a row leaves the table processed, or openly given up.                    *)
InAnswers == UNION {w.taken : w \in wire}

Pending == Ids(rows) \cup InAnswers

ALO == INSTANCE AtLeastOnce WITH next <- nextId, pending <- Pending

ImplementsAtLeastOnce == ALO!Spec

(* Every stored row is processed in the end (or given up): announcements    *)
(* that stay at the head of the queue, lost answers, lost acknowledgements  *)
(* and restarts delay it but cannot starve it.                              *)
EventuallyProcessed ==
    \A i \in 1 .. MaxStores :
        i \in Ids(rows) ~> i \in delivered \cup dropped

=============================================================================
