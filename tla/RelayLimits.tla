---------------------------- MODULE RelayLimits ----------------------------
(***************************************************************************)
(* What one address may ask of the relay: the per-minute request budget     *)
(* with its soft ban, the heavier budget for stores and datagrams, and the  *)
(* bytes a mailbox takes per minute (native/conest_relay/src/main.rs,       *)
(* allow_request_banning, allow_store, allow_mailbox_bytes).                *)
(*                                                                          *)
(* A worker thread reads the clock, then takes the ban lock, the bucket     *)
(* lock and the ban lock again, then reads the clock for the store window   *)
(* and takes its lock, and so for the mailbox.  Each critical section is a  *)
(* step; between them other workers run, and time passes: a clock value can *)
(* be late when it is used.                                                 *)
(***************************************************************************)
EXTENDS Integers, FiniteSets, FiniteSetsExt

CONSTANTS
    Workers,
    Peers,              \* address keys
    Datagrams,          \* those of them that are UDP keys
    NoPeer,
    RateMailboxes,      \* where stores go
    Window,             \* 60_000 ms, in ticks
    PruneInterval,      \* 1_000 ms, in ticks
    MaxRequests,        \* max_requests_per_minute
    MaxStoresPerMinute, \* max_stores_per_minute
    MaxStoreBytes,      \* max_store_bytes_per_minute
    MaxMailboxRate,     \* max_bytes_per_mailbox_per_minute; 0 for no limit
    StoreSizes,         \* the sizes of store requests
    MaxRateKeys,        \* max_rate_keys
    BanThreshold,       \* soft_ban_threshold
    BanDuration,        \* soft_ban_duration
    ClockLag,           \* how late a clock value can be
    MaxTime             \* bound: the clock stops here

ASSUME LimitsAssumption ==
    /\ Datagrams \subseteq Peers
    /\ NoPeer \notin Peers
    /\ {Window, PruneInterval, MaxRequests, MaxStoresPerMinute, MaxStoreBytes,
        MaxMailboxRate, MaxRateKeys, BanThreshold, BanDuration, ClockLag,
        MaxTime} \subseteq Nat
    /\ StoreSizes \subseteq Nat
    /\ ClockLag < Window /\ MaxTime > 0

Keep == 2 * Window      \* the 120_000 ms a rate map keeps an idle entry

VARIABLES
    now,            \* now_millis
    banned_peers,   \* BanEntry of every peer that has one
    rate_buckets,   \* RateBucket of every peer that has one
    store_windows,  \* StoreWindow of every peer that has one
    mailbox_bytes,  \* MailboxByteWindow of every mailbox that has one
    rates_pruned_at,
    stage,
    request,        \* the request a worker serves: peer, clock value, bytes
    admitted        \* history: how many requests of each peer, by their age

limitVars == <<now, banned_peers, rate_buckets, store_windows, mailbox_bytes,
               rates_pruned_at, stage, request, admitted>>

Times == 0 .. MaxTime
Light == -1             \* a request that stores nothing
Span == Window - ClockLag

Idle == [peer |-> NoPeer, time |-> 0, bytes |-> Light]

NoEntry == [absent |-> TRUE]

\* The map without the entries that keep(k) does not hold for.
Retain(map, keep(_)) == [k \in DOMAIN map |-> IF keep(k) THEN map[k] ELSE NoEntry]

Keys(map) == {k \in DOMAIN map : map[k] # NoEntry}

\* u64::saturating_sub
Since(t, start) == IF t > start THEN t - start ELSE 0

Proceed(w, from, to) ==
    /\ stage[w] = from
    /\ stage' = [stage EXCEPT ![w] = to]

Finish(w) ==
    /\ stage' = [stage EXCEPT ![w] = "idle"]
    /\ request' = [request EXCEPT ![w] = Idle]

-----------------------------------------------------------------------------
(* allow_request_banning.                                                   *)

Arrive(w, p, bytes) ==
    /\ Proceed(w, "idle", "bans")
    /\ request' = [request EXCEPT ![w] = [peer |-> p, time |-> now, bytes |-> bytes]]
    /\ UNCHANGED <<now, banned_peers, rate_buckets, store_windows, mailbox_bytes,
                   rates_pruned_at, admitted>>

\* Mutant: only tallies are kept.
KeepTally(entry, t) == entry # NoEntry /\ entry.banned_until = 0 /\ entry.violations > 0

\* The entries the ban map keeps: bans in force, and tallies of peers that
\* were never banned.
KeepBan(entry, t) ==
    /\ entry # NoEntry
    /\ \/ entry.banned_until > t
       \/ entry.banned_until = 0 /\ entry.violations > 0

IsBanned(entry, t) == entry # NoEntry /\ entry.banned_until > t

CheckBan(w) ==
    LET p == request[w].peer
        t == request[w].time
        kept == Retain(banned_peers, LAMBDA q : KeepBan(banned_peers[q], t))
    IN  /\ stage[w] = "bans"
        /\ banned_peers' = kept
        /\ IF IsBanned(kept[p], t) THEN Finish(w)
           ELSE Proceed(w, "bans", "bucket") /\ UNCHANGED request
        /\ UNCHANGED <<now, rate_buckets, store_windows, mailbox_bytes,
                       rates_pruned_at, admitted>>

prune_due(t) == Since(t, rates_pruned_at) >= PruneInterval

\* Mutant: the prune takes an entry whose minute is not over.
PrunedEarly(map, t) ==
    Retain(map, LAMBDA q : /\ map[q] # NoEntry
                           /\ prune_due(t) => Since(t, map[q].started) < PruneInterval)

\* The rate map after the prune that may be due.
Pruned(map, t) ==
    Retain(map, LAMBDA q : /\ map[q] # NoEntry
                           /\ prune_due(t) => Since(t, map[q].started) < Keep)

NotePrune(t) ==
    rates_pruned_at' = IF prune_due(t) THEN t ELSE rates_pruned_at

\* Is there room for p: an entry of its own, or a free one?
HasKey(map, p) == Cardinality(Keys(map)) < MaxRateKeys \/ p \in Keys(map)

\* p's entry for this minute, empty if it has none or the last minute is over.
Current(map, p, t, empty) ==
    IF map[p] = NoEntry \/ (map[p] # NoEntry /\ Since(t, map[p].started) >= Window)
    THEN empty ELSE map[p]

CountRequest(w) ==
    LET p == request[w].peer
        t == request[w].time
        kept == Pruned(rate_buckets, t)
        bucket == Current(kept, p, t, [started |-> t, count |-> 0])
        Full == bucket.count >= MaxRequests
    IN  /\ stage[w] = "bucket"
        /\ NotePrune(t)
        /\ IF ~HasKey(kept, p)
           THEN /\ rate_buckets' = kept
                /\ Finish(w)
                /\ UNCHANGED admitted
           ELSE IF Full
           THEN /\ rate_buckets' = [kept EXCEPT ![p] = bucket]
                /\ IF p \in Datagrams THEN Finish(w)
                   ELSE Proceed(w, "bucket", "violation") /\ UNCHANGED request
                /\ UNCHANGED admitted
           ELSE /\ rate_buckets' = [kept EXCEPT ![p] =
                                       [bucket EXCEPT !.count = @ + 1]]
                /\ Proceed(w, "bucket", "compliance")
                /\ admitted' = [admitted EXCEPT ![p][0] = @ + 1]
                /\ UNCHANGED request
        /\ UNCHANGED <<now, banned_peers, store_windows, mailbox_bytes>>

note_rate_violation(w) ==
    LET p == request[w].peer
        tally == 1 + IF banned_peers[p] = NoEntry THEN 0
                     ELSE banned_peers[p].violations
        until == IF banned_peers[p] = NoEntry THEN 0 ELSE banned_peers[p].banned_until
    IN  /\ stage[w] = "violation"
        /\ banned_peers' = [banned_peers EXCEPT ![p] =
              [violations |-> tally,
               banned_until |-> IF tally >= BanThreshold
                                THEN request[w].time + BanDuration ELSE until]]
        /\ Finish(w)
        /\ UNCHANGED <<now, rate_buckets, store_windows, mailbox_bytes,
                       rates_pruned_at, admitted>>

\* A light request is admitted now; a datagram without its cookie gets the
\* cookie, or nothing; all else goes on to the heavier budget.
note_rate_compliance(w) ==
    LET p == request[w].peer
        entry == banned_peers[p]
        ends == (IF request[w].bytes = Light /\ p \notin Datagrams THEN {TRUE} ELSE {FALSE})
                   \cup (IF p \in Datagrams THEN {TRUE} ELSE {})
    IN  /\ stage[w] = "compliance"
        /\ banned_peers' = IF entry # NoEntry /\ entry.banned_until = 0
                           THEN [banned_peers EXCEPT ![p].violations = 0]
                           ELSE banned_peers
        /\ \E end \in ends :
              IF end THEN Finish(w)
              ELSE /\ Proceed(w, "compliance", "store")
                   /\ request' = [request EXCEPT ![w].time = now]
        /\ UNCHANGED <<now, rate_buckets, store_windows, mailbox_bytes,
                       rates_pruned_at, admitted>>

allow_store(w) ==
    LET p == request[w].peer
        t == request[w].time
        bytes == IF request[w].bytes = Light THEN 0 ELSE request[w].bytes
        kept == Pruned(store_windows, t)
        window == Current(kept, p, t, [started |-> t, count |-> 0, bytes |-> 0])
        Refused == \/ window.count >= MaxStoresPerMinute
                   \/ window.bytes + bytes > MaxStoreBytes
    IN  /\ stage[w] = "store"
        /\ NotePrune(t)
        /\ store_windows' =
              IF ~HasKey(kept, p) THEN kept
              ELSE IF Refused THEN [kept EXCEPT ![p] = window]
              ELSE [kept EXCEPT ![p] = [window EXCEPT !.count = @ + 1,
                                                      !.bytes = @ + bytes]]
        /\ IF HasKey(kept, p) /\ ~Refused /\ request[w].bytes # Light
           THEN /\ Proceed(w, "store", "mailbox")
                /\ request' = [request EXCEPT ![w].time = now]
           ELSE Finish(w)
        /\ UNCHANGED <<now, banned_peers, rate_buckets, mailbox_bytes, admitted>>

\* What store_from does first.  Pairing announcements are not counted; what
\* is counted stays so if the store is refused later on.
allow_mailbox_bytes(w, m) ==
    LET t == request[w].time
        kept == Retain(mailbox_bytes,
                       LAMBDA k : /\ mailbox_bytes[k] # NoEntry
                                  /\ Since(t, mailbox_bytes[k].started) < Keep)
        window == Current(kept, m, t, [started |-> t, used |-> 0])
        fits == window.used + request[w].bytes <= MaxMailboxRate
    IN  /\ stage[w] = "mailbox"
        /\ \/ UNCHANGED mailbox_bytes          \* an announcement, or no limit
           \/ /\ MaxMailboxRate > 0
              /\ mailbox_bytes' = [kept EXCEPT ![m] =
                    IF fits THEN [window EXCEPT !.used = @ + request[w].bytes]
                    ELSE window]
        /\ Finish(w)
        /\ UNCHANGED <<now, banned_peers, rate_buckets, store_windows,
                       rates_pruned_at, admitted>>

-----------------------------------------------------------------------------
LimitsTick ==
    /\ now < MaxTime
    /\ \A w \in Workers : stage[w] = "idle" \/ now - request[w].time < ClockLag
    /\ now' = now + 1
    /\ admitted' = [p \in Peers |-> [age \in 0 .. Span |->
                       IF age = 0 THEN 0 ELSE admitted[p][age - 1]]]
    /\ UNCHANGED <<banned_peers, rate_buckets, store_windows, mailbox_bytes,
                   rates_pruned_at, stage, request>>

LimitsInit ==
    /\ now = 1
    /\ banned_peers = [p \in Peers |-> NoEntry]
    /\ rate_buckets = [p \in Peers |-> NoEntry]
    /\ store_windows = [p \in Peers |-> NoEntry]
    /\ mailbox_bytes = [m \in RateMailboxes |-> NoEntry]
    /\ rates_pruned_at = 0
    /\ stage = [w \in Workers |-> "idle"]
    /\ request = [w \in Workers |-> Idle]
    /\ admitted = [p \in Peers |-> [age \in 0 .. Span |-> 0]]

LimitsNext ==
    \/ \E w \in Workers :
          \/ \E p \in Peers, b \in StoreSizes \cup {Light} : Arrive(w, p, b)
          \/ CheckBan(w) \/ CountRequest(w)
          \/ note_rate_violation(w) \/ note_rate_compliance(w) \/ allow_store(w)
          \/ \E m \in RateMailboxes : allow_mailbox_bytes(w, m)
    \/ LimitsTick

LimitsSpec == LimitsInit /\ [][LimitsNext]_limitVars

-----------------------------------------------------------------------------
(* Properties.                                                              *)

BanEntry == [banned_until : Nat, violations : Nat]
RateBucket == [started : Times, count : Nat]
StoreWindow == [started : Times, count : Nat, bytes : Nat]

(* Every variable stays in its type, and no rate map has more keys than it  *)
(* may.                                                                     *)
LimitsTypeOK ==
    /\ now \in Times
    /\ banned_peers \in [Peers -> BanEntry \cup {NoEntry}]
    /\ rate_buckets \in [Peers -> RateBucket \cup {NoEntry}]
    /\ store_windows \in [Peers -> StoreWindow \cup {NoEntry}]
    /\ mailbox_bytes \in [RateMailboxes -> [started : Times, used : Nat] \cup {NoEntry}]
    /\ rates_pruned_at \in Times
    /\ stage \in [Workers -> {"idle", "bans", "bucket", "violation", "compliance", "store",
                              "mailbox"}]
    /\ request \in [Workers -> [peer : Peers \cup {NoPeer}, time : Times,
                                bytes : StoreSizes \cup {Light}]]
    /\ \A w \in Workers :
          /\ stage[w] # "idle" => request[w].peer \in Peers
          /\ stage[w] = "mailbox" => request[w].bytes # Light
          /\ request[w].time <= now
    /\ admitted \in [Peers -> [0 .. Span -> Nat]]
    /\ Cardinality(Keys(rate_buckets)) <= MaxRateKeys
    /\ Cardinality(Keys(store_windows)) <= MaxRateKeys

(* A budget counted in fixed minutes that start when requests happen to     *)
(* come still bounds every minute: however the workers' late clock values   *)
(* meet the start of a new one, and whatever the prune removes, two         *)
(* admissions that are a minute less that lag apart have at most two        *)
(* budgets of them between them.                                            *)
NoMoreThanTwoBudgets ==
    \A p \in Peers :
        MapThenSumSet(LAMBDA age : admitted[p][age], 0 .. Span) <= 2 * MaxRequests

(* A ban in force stays in force until its time: requests of other peers    *)
(* that clean the map, and requests of the same peer that were counted      *)
(* before it, do not lift it (a late violation may cut it by its lag).      *)
BansLast ==
    [][\A p \in Peers :
          IsBanned(banned_peers[p], now) =>
             /\ banned_peers'[p] # NoEntry
             /\ banned_peers'[p].banned_until + ClockLag
                   >= banned_peers[p].banned_until]_limitVars

=============================================================================
