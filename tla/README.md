# Conest: specifications and proofs

Conest is a private messenger. Its client is written in Dart (Flutter) with a
Rust library beside it; messages that cannot go directly travel through relays,
a Rust server that keeps a durable mailbox for every device. This directory holds
TLA+ models of the parts whose correctness depends on concurrency, failure, time or limits,
the TLC configurations that check them, and TLAPS proofs of
the results that matter most.

`PROJECT.json` lists the components, runs, theorems, hazards and, under `map`,
the source lines each definition stands for.

## 1. Inventory

### Relay (`native/conest_relay`)

| Part | State | Operations |
|---|---|---|
| Mailbox store | SQLite table `queue_entries` (mailbox, dedup key, sender, source, bytes, queued-at, lease id and deadline) | `store_from`, `fetch`, `fetch_leased`, `acknowledge_lease`, `stats`, `try_new` at startup |
| Long poll | map mailbox -> `MailboxSignal` (generation, waiters, condvar), clones held by worker threads | `notifier_for`, `existing_notifier`, `prune_notifier`, wait, signal |
| Request limits | ban map, rate buckets, store windows, mailbox byte windows, `rates_pruned_at` | `allow_request_banning`, `note_rate_violation`, `note_rate_compliance`, `allow_store`, `allow_mailbox_bytes` |
| Connections | per-address slots for connections and long polls, UDP cookie of the minute | `take_peer_slot`, drop of a slot, `valid_udp_cookie` |
| Wire | none | line, HTTP and datagram parsing, signing of responses |

Requests run on worker threads. A request first passes the limits (three to five critical
sections under three mutexes), then the store (one transaction under the database mutex); a
store then looks up the mailbox's notifier and signals it, and a fetch with a
wait time sleeps on it between two drains. Clock values are read before the
wait for a mutex and used after it.

*Hard*: eviction loops over rows of which some are leased; leases that run out
while answers and acknowledgements are on their way; retries of stores; a
restart, which clears leases; the drain-then-wait race; a notifier removed while
somebody still uses it; late clock values at window boundaries.

*Correct if*: quotas hold for everyone at all times; a message is never lost
except openly (legacy fetch, expiry, eviction); an acknowledgement deletes only what
was processed; a lease protects its rows; no wakeup is lost; budgets and bans
mean what they say.

### Relay supervisor (`native/conest_relay_supervisor`)

State: the relay binary in three places (current, staged, previous),
`supervisor-state.json`, serve's copy of it, the relay process. Operations:
`serve` (start, health gate, restart, check, apply, roll back) and the operator's
`update-now` and `rollback`, which are processes of their own on the same files.
*Hard*: a crash between two renames or between a rename and the state write; two
processes with copies of one state file; a file replaced by remove-then-rename.
*Correct if*: a broken release never serves, a working binary is always kept, the
relay always comes back, state and binary agree.

### Desktop updater (`native/conest_updater`)

State: the bundle directory, the staged one, temporary files beside each file, the
old application's lock file. One program: copy every entry over (to a temporary file, then
rename), remove what is stale, try the whole again on an error, wait for the
lock, launch. *Hard*: a failure or a kill in the middle of a copy or a removal, and a
later attempt that finds what it left. *Correct if*: what is launched is the staged bundle and
nothing else.

### File transfer (`transfer.rs`)

State: the partial file, the authenticated journal of durable blocks, blocks that
wait for a checkpoint, the destination. Operations: `open` (resume), `receive_encoded_block`,
`checkpoint`, `finalize`. *Hard*: a kill or a power loss between write, sync, append and
rename; torn journal records; blocks that come twice or were encrypted from a
file that changed. *Correct if*: a journalled block is on disk, and only the sender's whole file
becomes the destination.

### Iroh transport and its C ABI (`api.rs`, `ffi.rs`)

State: handles, one pooled connection per peer, a gate per peer for dialling, a task per
connection, an inbox, marks of datagram dials. Operations: send (one retry), accept, receive,
datagrams, network change, close. *Hard*: callers of one peer that meet no connection, a
connection lost under any of them, a receipt against a full inbox and two timeouts, a close under
calls. *Correct if*: a receipt means the envelope was queued, nobody dials needlessly, only the connection that
failed is thrown out, dead connections leave the pool, and every send ends.

### Call audio (`audio.rs`, `audio_remote.rs`, `voice_recording.rs`)

State: a jitter buffer per participant, the playback, capture and packet queues, the flags `running`,
`muted`, `failed`, two worker threads; for a voice message the recorder's worker and its
file. *Hard*: packets late, twice, never; muting between any two threads' steps; joins of
threads that wait; the codec's delay at the end of a recording; each failing step of opening one. *Correct if*: each packet
is played or counted lost once, a gap never stalls, muted means muted, closing ends, a saved
recording is whole and a failed one leaves nothing behind.

### Tor carrier (`tor.rs`, `tor_proxy.rs`)

State: the installed client, a generation that each stop moves on, the lock of starts, a stream per
contact, the web entrance, incoming streams, an event queue. Operations: start, stop,
send, proxy, each a task that answers once. *Hard*: a stop at any await of the
others; strangers. *Correct if*: a stop ends everything, nothing of a stopped
generation is installed, every command is answered, strangers are bounded.

### Bluetooth LE (`ble/`)

State: links, backoff, outgoing queues, reassembly buffers; a task per dialled link. *Hard*: callbacks
of a stack in any order, crossed links, links that go under their task. *Correct if*: one
link per peer, each served, none dead for long.

### Others

| Part | Why it is not modelled |
|---|---|
| Ratchet (`ratchet.rs`) | each call loads a pickle, does one Olm operation and returns the new pickle: no state between calls |
| Matrix, Beam, camera, signing, crash reports | wrappers of libraries and devices |

### Messenger (Dart, `lib/src`)

The controller polls relays (`fetchLeasedEnvelopes`, process, save the snapshot,
`acknowledgeLease`), keeps an outgoing queue with retries, contacts, groups and
several carriers (relay, LAN, BLE, e-mail, Nostr, Matrix, ...). The interesting
parts for a model are the inbound pipeline (overlapping fetches of one mailbox,
deduplication, durability before acknowledgement), the outgoing queue, and the history of group
membership.

## 2. Plan

1. `RelayMailbox` with the abstract `AtLeastOnce`; `RelayLongPoll`; `BleMesh`; proofs of each. **Done.**
2. `RelayLimits`, `RelaySupervisor`; proofs. **Done.**
3. `PartialTransfer`; proofs. **Done.**
4. `IrohTransport`, `CallReceive`, `CallSend`, `VoiceRecording`, `TorCarrier`, `TorIncoming`,
   `DesktopUpdater`; proofs. **Done.**
5. A theorem for every safety invariant and every action property that a passing run checks. **Done.** Liveness is out of the
   prover's reach and stays with TLC.
6. Models still worth having: `BleTraffic` (queues, rate limits, reassembly), the tunnels of the web
   entrance, connection and long-poll slots of the relay with the UDP cookie, the inbound
   pipeline of the Dart client as the recipient of `RelayMailbox`.

## 3. Modules

| Module | Models | Role |
|---|---|---|
| `AtLeastOnce` | what a mailbox promises | abstract specification |
| `RelayMailbox` | the mailbox store, with lossy network and recipients | detailed specification |
| `RelayLongPoll` | notifiers and waiting | one critical section a step |
| `RelayLimits` | budgets, bans, windows | one critical section a step |
| `RelaySupervisor` | serve, update-now, rollback, crashes | one durable change a step |
| `BleMesh` | link table, dialling tasks, restarts of the Bluetooth mesh | one step between two awaits |
| `PartialTransfer` | the receiving end of a file transfer | one file system call a step; kills, power loss, errors |
| `IrohTransport` | sends, connection pool, dial gates, accept loop, inbox | one step between two awaits |
| `CallReceive` | jitter buffers, mixer, playback | a unit of time, a slot, one participant of it a step |
| `CallSend` | session life, capture, encoder, packet queue | one queue, flag, spawn or join a step |
| `VoiceRecording` | recorder, its worker and its file | the same |
| `TorCarrier` | start, stop, send, proxy | one step between two awaits |
| `TorIncoming` | incoming streams, frames, events | the same |
| `DesktopUpdater` | the helper that replaces the application | one file system call a step; failures, kills |
| `RelayMailboxProofs`, `BleMeshProofs`, `PartialTransferProofs`, `IrohTransportProofs` | - | theorems of the module named |
| `RelayServiceProofs` | - | theorems of `RelayLongPoll` and `RelayLimits` |
| `UpdatesProofs` | - | theorems of `RelaySupervisor` and `DesktopUpdater` |
| `NativeProofs` | - | theorems of `TorCarrier`, `TorIncoming`, `CallReceive`, `CallSend`, `VoiceRecording` |
| `InductionTheorems` | - | induction and sums, for the other proofs |
| `MC...` | - | constants and symmetry sets for TLC |

`MCRelay`, `MCUpdates`, `MCCallAudio` and `MCTor` join modules that share no state: a
behaviour chooses its `part` at the start, so the run explores the sum of the parts, not their product.
Every module has a type invariant. Each is a theorem (section 5) and TLC checked it on its run's
instance, but the runs list only the properties that say more.

Definitions marked `Mutant` are the forms a plausible mistake would give the
definition after them. They are used by no specification; each
shows that a property notices the mistake (`mutants` in `PROJECT.json`).

### RelayMailbox

A row of `queue_entries` is a record: `id`, the envelope (whose mailbox, kind,
sender, dedup key, source and bytes are constants of the instance), its `age`,
its `lease` and the time `left` of it. Ages and remaining times instead of
absolute times keep the state space finite; an operation with a clock value that is
`d` late sees ages `d` smaller and leases `d` longer. Each
operation of `RelayState` is one action, for it is one transaction under one
mutex:

- `Store` = `store_from`: expire, look for a duplicate, replace and cap
  announcements, make room in the mailbox, check the address's share, make room in the relay
  (evicting from the largest holder, never leased rows), insert. The three
  eviction loops are given by what they remove (`PairingOverflow`,
  `MailboxVictims`, `RoomMakers`); a refused store is rolled back and
  changes nothing, expired rows included.
- `FetchLeased` = `take_queue` with a lease; `FetchLegacy` the fetch that
  deletes; both leave announcements in place.
- `AcknowledgeLease`, `Stats`, `Restart` (startup clears leases).
- `Process`, `LoseResponse`, `LoseAck`: the client's poll loop.
- `Tick`: time.

### RelayLongPoll

One mailbox; threads that fetch and threads that store. `map` is its entry in
the notifier map, `ref` the `Arc` clone a thread holds; `StrongCount` counts
these. Fetchers go through `NotifierFor`, `Observe`, `Drain`, `Lock`, `Wake` or
`Timeout`, `DrainAgain`, `Prune`, `Return`; stores through `Commit`, `Lookup`, `Signal`,
`Done`. A message whose lease runs out comes back unannounced (`requeued`): the
code signals arrivals only, and the properties speak of arrivals (`ready`).

### RelayLimits

A worker goes through `Arrive`, `CheckBan`, `CountRequest`, then
`note_rate_violation` or `note_rate_compliance`, `allow_store`,
`allow_mailbox_bytes`. `request[w].time` is the clock value it read; `LimitsTick` lets
it get at most `ClockLag` old. The history `admitted`, how many requests of a peer were
let through at each age, serves the properties only.

### RelaySupervisor

Binaries are the versions they are; a missing file is `None`. Each rename, removal and
state write is a step, and `Crash` may come between any two. `atomic_write`
removes the old state file before the rename, so a reader that falls into a
write (`Readable`) may find none and read the default. A health gate may
fail for a good release (it may run out of time) and never passes for a broken one.

### BleMesh

`links`, `next` and `backoff` are the fields of `Core` in `ble/core.rs`; a write
limit is only whether it is usable. `tasks` are the central tasks of `ble/linux.rs`, by the id
they reserved: `setup`, `serving`, then `closing` while they disconnect.
All tasks run on one thread, so a task's code between two awaits is one step:

- `Dial` = a discovered device, `reserve` as central, the spawned task;
  `SetupDone` (`ready`) and `SetupFails`; `Hear` (`receive`), `Notice` (the tick that
  finds its link gone), `LoseConnection`; `Finish` is the tail of `central`;
- `Write` and `Subscribe` = the neighbour's write and the notify event, with
  `admit_peripheral`; `HubEnds` = the tail of `notify_hub`;
- `Expire` = `expire` from the main loop; `reserve` sweeps expired links too (`Swept`);
- `Fail`, `Start` = the worker of `ble/mod.rs` with its `DropGuard`; `failed` is a history, apart
  from the guard's own record `drops`: how long ago each of the last `DROPS_TO_PAUSE` failures was.

`Fail` is one step for what the code does in three after a failure: it ends the tasks, waits up to 2.5 s for
their links to be disconnected, and clears the table. During that wait the table still has links whose tasks are gone, and a neighbour's
write may add one; the clearing takes them all. The model, and so `DialledLinksServed`, leaves the wait out.

When the record of failing peers is full the code forgets the one whose
delay ends first; the model forgets any of those it cannot tell apart.

### PartialTransfer

`cache` is the partial file as a reader sees it, `stable` what is on the disk for certain; `journal` and `synced` the same for the journal. A block is `good` (as in the
manifest), `other` (the sender's file changed), `torn` or `zero`. `receive_encoded_block` writes
and may begin a `checkpoint`, which is `SyncData`, then `append` and `AppendFlushed` for each
pending block, then `CheckpointDone`. `finalize` is a last checkpoint, `is_complete`, `Verify` (the digest of the whole
file), `SyncAll`, `RemoveDestination`, `RenamePartial`. `open` reads the journal with a
torn tail (`Loads`) or refuses it (`OpenRefused`). Errors are actions of their own
(`WriteFails`, `SyncDataFails`, `AppendFails`, `FinalizeFails`), `ReceiverKilled` and `PowerLoss` may come between any two.

### IrohTransport

`call[k]` is where a caller of `pooled_connection` is: an envelope, or the datagrams of a call. It
waits for the peer's `gate`, finds an open connection in `pool` or dials (`DialSucceeds`,
`DialFails`), and pools it with its `run_connection` task (`PoolConnection`). An envelope then opens a
`stream` (`send_stream`), waits for its `Receipt`, and on `StreamFails` evicts the connection if
it is still the pooled one (`evict_if_same`) and tries once more (`Retry`). `send_datagram` is a datagram that finds no
connection, a dead one, or one on which sending fails: the same eviction, then one background dial
(`warm_datagram_connection`). A datagram call that outlives the closing of its transport is left out.
`run_accept_loop` pools what it accepts without a look at whether it is still open, as the code does. The receiver goes through
`TakeStream`, `Enqueue`, `Answer`, with a timeout at each. `ConnectionLost` and `PathChanges` are the
network's; a lost connection resets its streams. `owed` is a history: a peer is owed a dial if a
connection to it was lost or dropped, or a dial failed, since the last one began. An eviction is
such a drop only if it is of the connection that failed: one that threw out another would make the next dial
one that nobody is owed.

### CallReceive, CallSend, VoiceRecording

A `stream` of `CallReceive` is a participant's `PacketJitterBuffer` and decoder: the `pending` sequence numbers, the
`expected` one, `lost`, the wait that runs. `push` is `RemoteMixer::push` with `insert`; a slot is `StartSlot`, then for each participant
`Decode` (`pop_ready` until a frame is there) and `Play`. Time moves in a step of its own (`Elapse`), in units of which a slot has `SLOT`.
The decoder thread polls the clock, so a slot begins at its time or late by anything up to `MaxLate`; `next_playout_after` keeps to the
fixed schedule, so that a late thread catches up with several slots at one instant, and starts it again when it is more than `RESET` behind.
`played` and `stalled` are histories. Sequence numbers and the count of lost packets are naturals; the code's are `u64` with saturating sums
(`audio.rs:1014`, `:1051`), which differ at the last number only.

In `CallSend` a frame carries whether it can be heard and whether the call was muted
when it was said and when it was encoded. `create_codec`, `SpawnDecoder`, `StartMicrophone` and `OpenDevices` (or `OpenAndroid`)
open a session, each of which may fail with the microphone already running (`DevicesFail`); `capture_samples` (or `push_capture_pcm16`), `Collect`, `Encode`, `PopOldest`,
`PushNewest` carry a frame to `conest_voice_audio_next_packet`; `conest_voice_audio_close` and `Joined` end it.

`VoiceRecording` counts samples. Opening is `open` (the file is created), `write_headers`, `SpawnWorker`, `PlayMicrophone`, and each may fail on
its own (`OpenFails`, `HeadersFail`, `SpawnFails`, `PlayFails`). `CaptureSample` queues a sample; the worker goes through `PopSample`,
`Look` (at `running`, with an empty queue a moment ago), `EncodeFrame`, then `Flush` (silence for the encoder's delay) and `Finish`. `stop`,
`cancel` and the failed start join the worker (`StopJoined`, `DropJoined`, `AbortJoined`); `stop` then reads the size of the file (`Completed`,
`MeasureFails`). Every exit but the complete one ends in `remove_file`, which may be refused and whose result the code ignores. Three histories
tell what the samples went through: `padded` (the loop filled up a frame), `hole` (a sample came after such silence), `raced` (the loop saw
`running` cleared with samples in the queue).

### TorCarrier, TorIncoming

`gen[c]` is the generation a command began in, `generation` the present one. A start
takes `startLock`, creates the client, registers for the wake-up and checks the generation (`Register`, `Check`), bootstraps,
launches the onion service, and installs the client if its generation still stands. A stop moves the generation,
takes the client (`TakeState`), wakes the registered (`NotifyWaiters`), clears the streams,
ends the web entrance, shuts down. A send locks its contact's slot, connects if
need be, writes, tries once more. `unless_stopped` drops a command at any await (`Stopped`), `SendTimeout` does so for a
send. `proxy` opens the web entrance without a look at the generation.

`TorIncoming` keeps the readers of incoming streams (`active`, the quietest first; `MakeRoom` ends the quietest
for a new one) and the event queue with its byte count.

### DesktopUpdater

Bundles are functions from paths to `dir` or `file`. The copy pass takes staged paths in an order
that visits directories first (the code's sorted order is one of them); a file is `ClearPlace`,
`ClearTemp`, `CopyToTemp`, `preserve_permissions`, `RemoveOld`, `Rename`. The stale pass is `remove_path` for
what has no staged counterpart. `SyncFails` and `Killed` leave what an interrupted call leaves: a torn temporary
file, a directory partly removed.

## 4. Runs

| Run | Question | Result |
|---|---|---|
| `mailbox` | quotas, announcements never leased, unique index, lease safety, acknowledgements, overlapping fetches, refinement of `AtLeastOnce`; limits: at most two budgets in a minute less the lag, bans last | pass |
| `mailbox_liveness` | every stored message is processed in the end | pass |
| `longpoll` | one notifier, no lost wakeup; an arrival wakes waiting fetches without the timeout | pass |
| `updates` | supervisor: a working release is kept; desktop helper: what it launches is the staged bundle, whole; transfer: journalled blocks are on disk, only whole files are promoted, a promotion that fails never leaves no file at all | pass |
| `supervisor_rollback` | the operator's rollback racing serve never makes a broken release serve; left alone, the relay always comes back | pass |
| `supervisor_crash` | the relay always comes back, after a crash too | violated |
| `ble_links` | one link per peer, dialled links served by their own tasks, crossed links converge, dead slots and orphaned tasks go, no endless restarts | pass |
| `iroh` | a receipt means queued, pooled means served, one dial per loss, sends end | pass |
| `call_audio` | packets accounted for, no stall, muted never heard, closing ends, recordings whole and none left behind | pass |
| `tor` | a stop wakes all it must end, no client of a stopped generation, strangers bounded, every command answered | pass |
| `recording_tail` | a saved voice message has every sample the microphone delivered, without silence in between | violated |
| `tor_entrance` | the web entrance is open only while Tor runs | violated |

The violated ones are disagreements between the code and its documentation (`findings` in `PROJECT.json`):

- `supervisor_crash`: a crash after the new binary is in place and before its version is recorded makes every later start
  wait for the wrong version and fail; in the counterexample every release works.
- `recording_tail`: samples queued after the worker's last empty pop (`voice_recording.rs:163`) and before it reads `running` (`:174`), with
  a stop in that moment, are left in the queue; or, if the frame was begun, follow the silence that fills it up (`:183`), and as many samples as
  there was silence fall behind the end position. The comment at `:201` says that every captured sample is decodable and the tail is kept. `SavedIsWhole`, in
  `call_audio`, says what does hold: nothing is lost or padded but in that moment.
- `tor_entrance`: a `proxy` command that overlaps a stop (`tor.rs:260`-`:272`) stores its proxy after the stop has looked for one to
  end; the comment at `:131` says "while Tor runs".

### Where the code differs from its own words

Met while modelling. The models follow the code.

- `conest_relay` `main.rs:835`: two long polls that end together (or one that ends while a store
  holds its clone) leave the notifier in the map; the test at `:3266` expects an empty one.
- `main.rs:890`: a violation tally below the threshold has no time and is kept for ever; the
  comment at `:869` says stale ones are dropped.
- `conest_relay_supervisor` `main.rs:276`: after a failed update serve restores the binary in use and
  records the version before it. An operator's rollback or `update-now` amid serve's own
  update can leave only a broken binary, and the relay stays down.
- `transfer.rs`: a block that comes twice before a checkpoint counts twice in `received_bytes` until
  then, and a duplicate of a durable block reports the durable bytes only; an append after a torn record makes the
  journal unreadable, so the transfer must begin again; a receiver reopened after the promotion
  can never complete.
- `tor.rs:582`: a delivery dropped amid its write leaves part of a frame in a stream that stays in its slot, and the next frame
  follows it. The bytes of a frame are not modelled, so this is a remark and not a run.
- `api.rs:447`: network changes are said to leave call datagrams alone, but both use the one
  pool, so the next datagram after the change dials. `api.rs:529`: an accepted connection that has died meanwhile takes the place of a
  pooled one in use.
- `audio.rs`: what a participant sent before a late joiner's first packet counts as lost for
  them; `send_dropped` counts one too many when the application empties the queue between the encoder's
  two steps; `failed` is never cleared.
- `conest_updater` `main.rs:79`: a lock file that can be removed is taken as released, which holds only
  where an open file cannot be removed. When the attempts run out, or the helper is killed, a mixture of
  two bundles stays until the next update.

### Bounds

- Mailboxes: three rows ever inserted, two lease ids, two answers in flight,
  ages up to the time to live plus twice the lag. Quotas of two entries, one announcement and four bytes, with
  envelopes of one to four bytes to two mailboxes, make every eviction loop run, run twice over several
  holders, and refuse. The liveness run has one mailbox of two entries, one answer in flight and no
  expiry; with both entries leased a store is refused.
- Long polls: two fetchers and two stores are the least for every race named
  above; four notifiers are more than can be alive together. Proofs cover any number.
- Limits: a minute of two ticks, a lag of one. The bound of `NoMoreThanTwoBudgets` is tight: with a span one tick longer TLC finds a counterexample.
- Transfer: two blocks, the last one shorter, and a checkpoint at three bytes, so that a
  checkpoint comes by size with one or with both blocks pending; three pieces of journal when an append tears one,
  which is a torn record with others before and after it. The proofs cover any number of blocks.
- Iroh: two nodes, one envelope, the media of one call, two connections ever made, an inbox and a stream
  limit of one, one network change or close. Two callers of one peer are the least for the gate, two connections for
  the retry and for a stale eviction.
- Call audio: two participants, a buffer of two packets, waits of one to three units, a slot of two, a schedule that starts again when it is
  two behind and a thread up to five late, so that slots are on time, caught up with and skipped; five frames sent through queues of two; eight samples
  recorded in frames of three with a delay of two, so that the end falls at every place in a frame.
- Tor: two starts and a stop, two sends to one contact, one proxy, two launch attempts; four streams
  against a limit of two.
- Desktop helper: a bundle in which a directory becomes a file, a file a directory, and a directory keeps one file and loses
  one; two attempts and one more start.
- Supervisor: three releases give an update on top of an update, and a failure on top of it; one
  crash and one operator.
- Bluetooth: three neighbours, one below and two above the own address, two slots, three
  reservations. Two slots let a peer's second link stand beside its first one if a replacement forgets it; three neighbours
  make reservations meet a full table. The proofs cover any number.
- The two violated runs have what their counterexamples need: the recorder's constants as above; one start, stop and proxy.

### Fairness

- `RelayMailbox!FairSpec`: time passes; requests end or time out; a recipient
  polls with a limit above the announcement cap (64 against 8 in the code); a
  row that is handed out again and again is at some time processed and
  acknowledged while its lease stands (strong fairness: leases last longer than the
  client's own timeout).
- `RelayLongPoll!FairSpec`: worker threads run. No fairness for the timeout,
  for clients that begin a poll, or for stores.
- `RelaySupervisor!FairSpec`: serve runs (the service manager restarts it), and a
  good relay passes its start gate at some attempt (strong fairness). None for
  operators, exits or crashes.
- `IrohTransport!FairSpec`: tasks that can go on do, a dial ends (it has a timeout), and the gate goes to those who wait in turn
  (strong fairness: tokio's mutex is fair). None for the network, the receiver's application or the receiver's streams.
- `MCCallAudio!MCSpec`: the encoder, the decoder's look at `running` and the join go on. None for devices or the application.
- `TorCarrier!TorFairness`: a command that was given goes on (every wait for Tor has a timeout), and
  a lock goes to those who wait in turn (strong fairness). None for commands to be given.
- `BleMesh!FairSpec`: time passes, the main loop expires links, and tasks reach their timeouts
  and ticks. None for neighbours, for setups that succeed, or for restarts.

## 5. Proofs

Every safety invariant and action property of the passing runs is a theorem here, for every value of
the constants the named `ASSUME`s allow. An assumption says what the code's constants are (types,
positive limits) unless noted below.

`InductionTheorems`. The library's induction theorems take the predicate as an
operator, which the provers cannot instantiate. Here the predicate is a set: a non-empty set of
naturals has a least element (`LeastNatural`), hence `SetInduction` on naturals and
`FiniteInduction` on finite sets. With these, `Total(f, S)` is shown to be the one sum there is
(`TotalUnique`), to grow by what is added (`TotalAdd`), to fall with the set (`TotalSubset`). The community
modules' folds, which take elements in an order of their own, are shown equal to it where a model uses them. For a fold that is no
sum, `FoldExists` gives the function, and what holds at every step of it holds at its end.

`RelayMailboxProofs` assumes `ConstantsAssumption` only (types, no lease equal
to `NoLease`, positive limits; the announcement cap, 8 in the code, is positive). The inductive invariant joins the parts that
need each other: an acknowledgement deletes only processed rows
(`AckOnlyProcessed`) because an answer carries every row under its lease
(`HandoutsConsistent`), because ids name rows (`RowsDistinct`), and because a
fetch draws a lease id nobody else has: `LeasesInUse`, for the code's 18 random
bytes. With a lease id drawn twice an old acknowledgement could match a new lease.
A step either *derives* the new table from the old one row by row (same id, same
envelope, the lease kept or cleared), or inserts a row with a fresh id, or leases rows
under a fresh id; the lemmas `RemovingStep`, `InsertStep`, `LegacyStep` and `LeasedStep`
treat these and the actions follow. Theorems: `TypeCorrect`, `PairingsStayUnleased`,
`RowsStayDistinct`, `HandoutsStayConsistent`, `AcksDeleteOnlyProcessed`, `LeasesAreSafe`
(an action property), and `Refinement`: every step is a step of `AtLeastOnce` or a stutter.

`QuotasAlwaysHold` rests on sums over the rows of a table. Every operation but the insert leaves a table
that `Lessens` the old one: each row comes from a row of the same envelope, no two from one, so no count and no
sum of bytes grows. The insert is safe because the three eviction loops leave room for the new row or the store
is refused (`PairingRoom`, `MadeRoom`); that the relay-wide loop stops only with room, or with nothing more to evict, is
where the sum of what it removes is needed.

`RelayServiceProofs` has, for `RelayLongPoll`, `TypeOK /\ SharedNotifier /\ WaitersExact /\ NoLostWakeup`
as its inductive invariant. The heart is `LastUser`: if at most two clones of a notifier
exist, one in the map and one with the thread that prunes, no other
thread has one; so a removal leaves nobody behind. Fetchers and stores are any
finite sets.

For `RelayLimits` the invariant is `LimitsInv`. Its heart, `Budget`, ties a peer's bucket to the ages of the
requests it stands for: a request is let through at most `ClockLag` after its clock value was read, so those of earlier minutes lie
before the start of the bucket plus the lag, and when a minute is over its own are all that a span of a
minute less the lag can hold. `TwoBudgetsAtMost` follows, and needs `ClockLag < Window`. `BansStand` needs that no clock value in
use is older than `ClockLag` and that no ban ends later than one that would begin now.

`BleMeshProofs` proves `OneLink`, `LinksServed` and `Converge` from `OneLinkPerPeer /\
DialledLinksServed` with the types of the table, which is inductive. Every step
is of one of two kinds (`StepKinds`): it adds no link and keeps the peers of those it leaves (`Fewer`),
or it is a reservation that `MayReserve` allows, after a sweep that left no link to the
peer (`SweptFacts`). Backoff and clock play no part, so the results do not depend on any time limit.
`NoStorm` is about the other half of the state: the guard's record ends with the recent failures in their order (`GuardInv`), although
the code drops old ones only from the front and only when a failure is recorded.
`StoppingCloses` (`StopCloses`): every dialled link is to a device in `connected`, the set `run` disconnects when it
stops (`linux.rs:176`, `:280`). `TasksStayBounded`: tasks outlive their links, so the bound on links does not bound
them; the guard on new dials (`linux.rs:231`) does, at twice `MAX_LINKS`. `BackoffStaysBounded`: `remove` forgets a peer before it
enters one in a full record, and `expire` does that for several links in a row, which is a fold (`FoldExists`).

`PartialTransferProofs` proves `JournalIsSafe` and `OnlyWholeFilesPromoted` for a file of any size, from
`TransferAssumption` alone. `JournalledIntact` is not inductive: a record may be written only for a block that was flushed, so
pending blocks are followed from their write (`Written`); a block whose record was lost may be written again, which
is harmless only because whatever is written is the sender's block (`Content`); and what is promoted
was verified (`Checked`). Together with the types these are `IInv`; most actions leave files and
journal alone or only shorten them (`QuietSteps`, `CloseSteps`), and the others have a lemma each.
`WholeCopyStays` is an action property: from a state with a file at the destination, old or new, or with the whole new one on
the disk beside it, every step leads to another such state. The journal is no help here, since blocks whose records were lost are
written again; what is needed is `Ahead`: a block that is whole on the disk is whole in the cache
too, so neither a flush nor a power loss replaces it by less. It is what makes removing the old destination before the rename
harmless.

`UpdatesProofs`, for `RelaySupervisor`: `BrokenNeverServes` becomes inductive with `BrokenOnlyUngated` (serve is past its gate
only with a binary that works). `WorkingRelayKept` needs where the working binary is at each step of an
update (`KeptAt`), and the hypothesis that the operator gives no `rollback` command: that command has no lock
against serve, and serve may install the staged binary over the one just restored. The run that checks the property has the same
restriction; what happens with the command is in "Where the code differs" above. For `DesktopUpdater`,
`LaunchedWhole` follows from `UpdaterInv`: the bundle is a tree at every step, also after an interrupted removal
(`TreeOK`); the path in hand has its directories in place (`AtOK`); and every staged path taken from the list is there, but for the one
in hand (`DoneSoFar`). `UpdaterAssumption` says of the two bundles that they are trees.

`IrohTransportProofs`: a receipt is true because an answer is written only after the envelope was queued
(`AnsweredIsQueued`); a pooled connection is served because pooling it and
spawning its task are one step, and so are their ends. `DialsAreShared` needs that whoever dials holds the peer's gate until its
connection is pooled (`GateHeld`, `Marked`), that a connection kept anywhere is one between the two ends it is
kept for (`ConnsKnown`), and that with the gate free there is a connection or a dial is owed (`DialAccounted`).
An eviction keeps the last of these because it removes the failed connection only, and is then excused.
`GatesAreReturned` is the converse of `GateHeld`: a gate that is shut has a caller between its dial and its pooling, so
no failed or closed dial leaves a peer unreachable. It rests on `Marked`, and is the safety half of `SendsEnd`.

`NativeProofs`:

- `TorCarrier`: `TorInv` has the stops counted against the generation, every waiting command registered before it looked at
  the generation, and the holders of the two kinds of lock. `StopMissesNone` is the reason for that order in
  `unless_stopped`; `NoClientOutlivesStop` for the second look at the generation under the state lock. `LocksAreReturned` is the
  other half of exclusion: a start lock or a slot that is taken belongs to a command still at work under it, so no
  answer, failure or stop leaves one taken; the safety half of `CommandsAnswered`.
- `TorIncoming`: slots are distinct and every reader at work has one (`SlotsOK`); the byte count is the sum of the queue
  (`BytesOK`).
- `CallSend`: `SaidInv` follows the mute flag from the microphone to the packet; `RoomInv` covers the encoder's two steps at a full queue.
  `SessionOwnsWorkers` (`WorkersOwned`): workers run exactly while a session owns them, and devices only in a live one, also when
  opening fails half way.
- `VoiceRecording`: `RecorderOK` says how far open and stop are, and with it which of thread, microphone and file there are; `QueueOK` that
  what was captured is in the file's samples or in the queue, and that the worker fills up a frame, or leaves the loop, only after the
  recording, with an empty queue unless it was overtaken; `WorkerOK` that a worker that is done has finished the file.
- `CallReceive`: per participant, every number below the expected one was played or counted (`Accounted`), and a
  participant that has been silent behind a gap for some slots has a wait as old as these slots, less what the schedule was behind when it began
  (`Patient`): `due` turns slots into time, `RESET` bounds the lateness, and a participant not yet rendered in the present slot is a slot
  behind (`Slack`).

### Model-checked only

All liveness, which rests on fairness and ENABLED: `mailbox_liveness`, the wake-up of `longpoll`, and the properties of
`iroh`, `call_audio`, `tor`, `ble_links` and `supervisor_rollback` that say something happens in the end.
The counterexamples of the three violated runs are TLC's too.
