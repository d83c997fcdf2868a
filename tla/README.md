# Verification of hermes-drop

TLA+ models of hermes-drop, of its broker and of the plugin that uses it, the TLC
configurations that check them on small instances, and theorems about them checked
by the TLA+ proof system. Every definition is a translation of the code; `PROJECT.json` maps each
one to the lines it stands for, lists the hazards the properties aim at, the
mutants that show each property can fail, and the places where the code and its
documentation disagree.

Run inside this directory:

    tlc -config BrokerDrop.cfg MCBroker        # any cfg with the module of its run
    tlapm BrokerProofs.tla                     # the proofs; a few minutes each
    tlapm BrokerRefinement.tla                 # the refinement of OneShot
    tlapm ServerProofs.tla                     # the HTTP server over the broker
    tlapm ControlProofs.tla                    # the control server over the broker
    tlapm OutboundProofs.tla                   # the outbound store, and its refinement
    tlapm LatchProofs.tla                      # the reconcile latch
    tlapm ReconcilerProofs.tla                 # the plugin
    tlapm MaterializeProofs.tla                # file claims and their spool

## 1. The system

hermes-drop lets a person hand a secret (a text, or files) to an agent, and the
agent hand one back, through links that work once. A Node process, the *broker*,
keeps every drop in memory; a Python *plugin* inside the agent's host asks for
links and collects what was dropped.

| Component | State it keeps | Operations that change it | Talks to |
|---|---|---|---|
| Inbound broker (`src/broker.js`) | one record per handoff in two indexes (by capability hash, by id), the process-wide `reservedFileBytes` | `create`, `acquireSubmitSlot`/release, `submit` and its `acceptEnvelope`, `waitForSubmission`, `claim`, `beginFileClaim`, `ackFileClaimFrame`, `commitFileClaim`, `abandonFileClaim`, the lease timer, `sweep`, `destroyAll`, lazy expiry in `live` | called by both servers |
| Outbound store (`src/outbound-drop.js`) | one record per outbound drop: sealed payload, code, attempts, the claim being acknowledged | `create`, `claim` (code), `acknowledge`, the acknowledgement timer, `sweep`, `destroyAll` | called through the broker |
| Public HTTP server (`src/public-server.js`) | one handler per request, with a deadline | `POST /api/submit`, the metadata and reveal routes | broker |
| Control server (`src/control-server.js`) | one session per connection: phase, promise chain, transfer lease, queued frames | commands, framed file transfer | broker |
| Lifecycle (`src/main.js`) | the sweeper and the two servers | start, close | all of the above |
| Browser page (`src/client/*`) | one page | seal and submit; reveal and acknowledge with retries | public server |
| Admin and receiver clients (`src/*-client.js`, `bin/*`) | one connection | commands, receiving a transfer | control server |
| Plugin journal (`journal.py`) | one persisted entry per drop | insert, update, expire, atomic rewrite | service, reconciler, announcer |
| Reconciler, waiter, announcer | a pass, a thread or task per waited drop, wake-up attempts | reconcile once, finalize, announce, reclaim | journal, control client, host |
| Plugin service and tools | none of its own | create, claim | journal, control client, messenger |
| File receiver, spool, materializer | staged files | receive, commit, publish, quarantine, sweep | control server, file system |
| Vault | placeholder tokens with timers | put, resolve, expire | service, host |
| Source registry, origin | bounded registry of message origins | register, look up, expire | host |

Formats and static parts (`file-container.js`, `hpke-suite.js`, the payload and
envelope parsers, `config.js`, the logger, the wording of notices) keep no state.

### What is hard

* **Awaits.** Node runs one handler at a time, but `create` awaits a key pair,
  `submit` awaits a digest, an AEAD open and a container decode, `beginFileClaim`
  awaits a decode. Whatever was checked before an await may be stale after it.
* **Money.** A file reservation is taken by `create`, by an upload's slot or by
  the winning attempt, and given back by the release of the slot, the retirement,
  the destruction or a failed mint. A record and a process-wide counter must agree
  through every order of those, and exactly one party must own each reservation.
* **Races to one cell.** Retries and rivals of an envelope in flight, two
  transfers beginning at once, acknowledgements of a dead lease, a lease timer
  after the lease was replaced.
* **Timeouts.** A request deadline answers the client while the work behind it goes
  on; a wait times out as the drop is submitted; a TTL passes under a transfer.
* **Ends.** `sweep` is the only thing that ends an untouched drop; a parked
  waiter must be woken by every way a drop can stop being pending.
* **Journal and chat.** Waiter, pass, create and claim of one drop run on one loop
  and interleave at every await: each checks the journal, edits a message whose
  answer may be an error, and writes. A gateway or a broker that restarts leaves
  whatever was between two of those.
* **Two threads, one latch.** The startup poller and the message hook read the gate,
  claim the latch and schedule in separate steps.
* **The commit nobody answered.** Once a file transfer wrote its commit, the broker
  may have retired the payload; timeouts, cancellations and disk errors after that
  may neither publish an unproved file nor throw the only copy away.
* **Threads that outlive their task.** A cancelled claim leaves a worker that goes
  on creating, renaming or removing its directory while the janitor, the startup
  purge and other claims walk the same root.
* **A secret in a browser.** The answers to a claim and to its acknowledgement may be
  lost, or the requests arrive after the page has asked again.

### What makes each component correct

* *Inbound broker*: one winner per drop; a payload is delivered at most once, and a
  file payload only after one lease proved every frame; the counter is exact and
  within its limit; every reservation has an owner; no forgotten waiter; a receipt
  names the winner; failures spend the drop.
* *Public server*: every request ends, gives its slot back, and tells the truth.
* *Outbound store and page*: one browser, which keeps being served while its window
  is open; destruction by what has read the payload, or at a deadline.
* *Control server*: a lease ends with its connection; frames leave in order and from
  a payload that is still there; nothing is handled before what precedes it on the
  line; a receiver that stalls is on a deadline.
* *Journal and its users*: what journal and message say of a drop is true and they
  agree; a waiting drop is watched, and resolved in the end; a pass that reports
  clean left nothing behind; one pass at a time, a bounded number of vain ones.
* *Spool and materializer*: a file is published only if the broker retired the
  payload for it; the bytes of a consumed drop are never discarded; an answer
  invites no retry that must fail; slots, directories and calls all end.

## 2. Modules

| Module | What it is |
|---|---|
| `OneShot` | What a drop promises, whatever carries it: opened, deposited to once, lent and given back, handed over once, ended. |
| `Broker` | The inbound broker, with callers as free as its interface lets them be. |
| `PublicServer` | Extends `Broker`: the submit handler of the HTTP server restricts those callers, with deadlines, lost bodies and fairness. |
| `ControlServer` | Extends `Broker`: the framed conversation of each connection of the control socket drives a claimant. |
| `MCBroker`, `MCServer`, `MCControl` | Instances for TLC. |
| `Journal` | The plugin's entries and the questions asked of them, as operators. |
| `Latch` | The reconcile latch: one record and what each function under its lock makes of it. |
| `LatchTriggers` | Extends `Latch`: poller thread and message hook racing for it, passes ending with any report. |
| `Reconciler` | Extends `Journal`, instantiates `Latch`: create, waiter, pass, announcement and claim of a drop, with restarts. |
| `Spool` | The claim directories, worker threads, startup purge and janitor. |
| `Materialize` | Extends `Spool`: the task of a file claim, the receiver's conversation and the broker's side of it. |
| `Outbound` | The other direction: gateway send, outbound store, page; implements `OneShot`. |
| `MCReconciler`, `MCMaterialize` | Instances for TLC. |
| `BrokerProofs` | Theorems about `Broker`, proved for every value of its constants. |
| `BrokerRefinement` | The theorem that `Broker` implements `OneShot`, proved from the invariant of `BrokerProofs`. |
| `ServerProofs` | Theorems about `PublicServer`, among them that it is the broker. |
| `ControlProofs` | Theorems about `ControlServer`, among them that it is the broker. |
| `OutboundProofs` | Theorems about `Outbound`, and that it implements `OneShot`. |
| `LatchProofs` | Theorems about `LatchTriggers`. |
| `ReconcilerProofs` | Theorems about `Reconciler`. |
| `MaterializeProofs` | Theorems about `Materialize` and its `Spool`. |

### Broker

One action is one handler from its entry, or from the await it resumes at, to its
next await or its return.

| Action | Code |
|---|---|
| `Create`, `CreateFinish`, `CreateFail` | `create` before the key pair, after it, and when it throws |
| `AcquireSubmitSlot`, `ReleaseSlot` | `acquireSubmitSlot` and the `release` it returns |
| `Submit` | `submit` up to the attempt it starts or joins, or its immediate answer |
| `OpenEnvelope` | `acceptEnvelope`: sizes, fingerprint, AEAD open, the `aeadFailures` counter |
| `DecodeContainer` | `acceptEnvelope`: the container decode and its own counter |
| `FinishAttempt` (a helper of both) | the single-use gate, the conversion of a borrowed reservation, the winner |
| `Wait`, `WaitTimeout` | `waitForSubmission` |
| `Claim` | `claim`, the synchronous delivery of text |
| `BeginFileClaim`, `GrantFileClaim` | `beginFileClaim` before and after its await |
| `AckFileClaimFrame`, `CommitFileClaim`, `AbandonFileClaim`, `LeaseTimeout` | the rest of the transfer |
| `Age`, `LookupExpired`, `Sweep`, `DestroyAll` | time, lazy expiry, the sweeper, shutdown |

`rec` is the records; `reservedFileBytes` the counter; `slot`, `call`, `beginning`
and `wait` are what a caller holds across an await (the slot object, the promise of
`submit`, the pending decode, the subscription). `delivered` and `acked` are
history, read only by properties.

Abstractions:

* An envelope is a constant: the drop it names (`Hid`), the lane its version
  belongs to, what opening it will find (`Grade`), how many frames its container
  has. Envelope identity (a digest of its canonical fields in the code) is the value itself.
* A key pair exists exactly while a record is "minting" or "pending", so it is no
  variable; an attempt that reaches the AEAD on a destroyed record fails there.
* One reservation is always `fileContainerCeiling`: `narrowFileLimits` lets a drop
  narrow only its number of files, and the ceiling depends on the total bytes.
  So all reservations have one size.
* Time is `fresh` → `closing` (under `MIN_TRANSFER_LEASE_MS`) → `expired`; a lease's
  own deadline is a timer that may fire at any moment.
* `destroy` and `retire` are one action each: they run to their end without an
  await. What they wipe is the `plaintext` field.
* Digest and byte-count checks of an acknowledgement or a commit are the Boolean
  `matches`.
* A record outlives its indexes: a destroyed record is still reachable from an
  attempt, a slot or a decode that started before, as in the code. Drop names are
  not reused (they are random 128-bit values).

### PublicServer

`Arrive` asks for the slot before the body is read, `BodyRead`/`BodyLost` submit,
`Respond` answers and releases in the handler's `finally`, `Deadline` answers in its
place and cuts the upload. After the deadline the body can only be lost: the socket
is destroyed and `readBody` settles with `null`, which is still submitted (as no
envelope). A client may send any envelope to any drop under any declaration; a link
exists only once `create` returned it.

### ControlServer

A connection is a claimant of `Broker`, and `conv[c]` is what `serveConnection` keeps
for it: the phase, the lease, the frame being written, the state of the socket, and
in `awaits` what the one promise chain of the connection is suspended on.

| Action | Code |
|---|---|
| `Begin`, `Begun` | `beginFileClaim` of `serveConnection` before and after the broker's decode |
| `StepWritten`, `StepFails` | `writeStep`: one flushed or failed write, on to what follows it in `beginFileClaim`, `writeFrame` or `ackFrame` |
| `AckFrame`, `Commit`, `LastLine` | `handleLine`: the lines of the conversation, and every line that ends it |
| `Flood` | the guard of the `data` event, which does not wait for the chain |
| `HalfClose`, `HangUp`, `SocketClosed` | the `end` event (queued on the chain), the receiver's death, the `close` event |
| `Elsewhere` | what the broker does on its own and for other callers, with `Notice` for every lease it takes away (`clearLease` with `notifyHolder`, then `onLeaseLost`) |

A line that has arrived is handled when `Attends`: only once what was on the chain
before it has finished. Which lines a client sends, and when, is free. Each handler
is composed with what it calls in the broker, so `GrantFileClaim`,
`AckFileClaimFrame`, `CommitFileClaim` and `AbandonFileClaim` are never steps of
their own here.

Abstractions: the metadata line, the answer to an acknowledgement, a frame's header
and its body are one write each, and an empty frame has no body; the byte counts of
lines and floods are nondeterminism; one connection carries one conversation, as
its phases allow no second begin; a one-line operation is the broker's action in
`Elsewhere` and its answer is `LastLine`. `sent` (frames flushed whole) and `flooded`
(dropped for flooding under its decode) are history.

### Journal, Latch, LatchTriggers, Reconciler

A coroutine of the plugin is at one of its awaits; what it does between two awaits
is one action (`run[a].at`, `creating`, `claiming`, `sweep.phase` are where they
stand). `finalize_terminal` is shared code, run by the waiter of a drop
(`a \in Drops`) or by the pass: `Finalize` checks the entry and starts the edit,
`EditLands` is the platform's side, which an error answer may follow,
`EditAnswered` writes. The pass (`PassStarts` to `PassEnds`) keeps the snapshots it
took: the entries it lists, what it has probed, what it announces. `Report` is the
summary it hands to `_account_for_pass`, which is `AccountForPass` of `Latch`.

What survives a `GatewayRestart` is the journal, the chat and the broker; waiters,
latch, registry and retry counters are new. `BrokerCrashes` loses every record.
`GracePasses` is the age after which an announcement may be repeated. A fault is
spent from a budget of its own kind and from one for all kinds.

Abstractions: the five routing fields are one `lane` and a claim is by the right
conversation; what a probe answers is the broker's state or "unknown"; the
announcement's text and the platform's wording are left out; one status message per
drop; a journal write is atomic (the file's temporary name and rename are not
modelled); `Latch` counts with naturals and `LatchTriggers` stops counting failures
at `FailureBound`, above the budget, where the code behaves alike. `FindsNoLoop` and
`PassCancelled` of `LatchTriggers` are the two exits that keep the latch with nothing
behind it: the hook outside any loop while the gateway names none, and a pass that
ends with `CancelledError`, which `_run_pass` does not catch. `lostTo` records them;
after either, this process reconciles no more. In `Reconciler` the hook always finds its
loop and a pass is cancelled only as its process ends (`GatewayRestart`).

### Spool and Materialize

`disk` is what lies under a claim's name, `dir` the open `StagingClaim`, `jobs` the
worker threads a caller has started and `out` the result it has not seen yet. A
worker's system calls that another thread could observe are separate actions:
`Reserves`, `OpensRoot`, `Makes`, `Accepts`, `Publishes`, `Holds`, `Discards`. `PurgeOpens`,
`Examine`, `PurgeEnds` are the startup purge in the thread of whoever came first,
entry by entry, and `JanitorOpens`, `JanitorEnds` the sweep that repeats.
`Materialize` is the task at each of its awaits, `Cancel` meets any of them,
`HoldsNow` is the synchronous quarantine of a cancelled receiver, and `GatewayDies`
ends all of it. The broker's side is the lease and the retirement of `Broker`,
reduced to `held`, `lease` and `retiredBy`.

Abstractions: a chunk stands for all frames before the commit; a rename and the flag
that records it are one step (`publish` orders them within one thread and nobody
else reads the flag); an answer to the begin is one step with the request; the
lock of the root is free (one gateway owns it); the registration of a staging
directory and its `mkdir` are one step (`Makes`; the code registers first, so that no
sweep meets the directory unregistered); a commit answer over the line limit
is a lost answer: `receive_file_claim` would call it `broker_unavailable` and the bytes
would be discarded (`file_claim.py:181`), but no answer of the broker comes near the
limit. `BytesSafe` and what is proved of it are about the bytes of the staged files: a
text beside them (`private_text`) is never on disk and goes with the task.

### Outbound

`SendOutbound` to `PostAnswered` are `send_outbound` at its awaits; nothing can take
a minted drop back, so `SendGivenUp` just leaves it. `drop` is the store's record;
`claim` and `acknowledge` run without an await, so a request that arrives is one
action, `Handles`, whoever still waits for it. A page is a claim id. `Fails` is an
answer that never comes: the request was lost, was handled, or is still under way
in `stray` and handled later, after the page has asked again. `FetchRejects` puts the
page back at its gate, from the claim and from the acknowledgement alike;
`BodyLost` ends it, because an answer that cannot be read counts as "unavailable".
`late` is the deadline a record has: its TTL, or once reserved the window.
The metadata request is one step with its answer; a mistyped length never leaves
the page; codes are right or wrong.

## 3. Runs

| Run | Instance | Shows |
|---|---|---|
| `broker_drop` | 1 drop of any kind, 2 callers, 2 claimants, 1 waiter, four envelopes | types, owners of reservations, failure budget, whole deliveries, no sleeping waiter, a failed transfer loses nothing, refinement of `OneShot` |
| `control` | 2 drops and room for one reservation, 2 connections, 1 upload of two frames | frames are written before they are proven, broker and connections agree on every lease, a stalled receiver is on a deadline; the byte counter is exact and bounded |
| `server` | 1 drop, 2 requests, 1 claimant, with fairness | what a client is told is true, slots belong to requests in progress; requests and drops end |
| `latch` | 2 triggers, 2 lanes, budgets of 2 and 3, with fairness | one pass at a time, bounded vain passes, a latch shut for good only by a clean pass, a budget or the two exits that keep it, a lane that comes back gets its pass |
| `reconcile_drop` | 1 drop, one fault of any kind, with fairness | types; journal, chat and broker tell the truth of each other; a waiting entry is watched, then resolved; a clean pass left nothing |
| `spool_claims` | 2 claims of one drop, 2 faults | published means committed, honest verdicts, safe bytes, slots return, paths stay |
| `spool_live` | 1 claim, slow transfers, late root, pass and janitor, 2 faults, with fairness | no sweep takes a directory being written; calls end, and entries do unless a cancellation left them registered in this process |
| `outbound` | 1 drop, 2 pages (one with a damaged link), 3 wrong codes, 3 faults, with fairness | one browser, served while its window is open; nothing destroyed unread; payloads end; refinement of `OneShot` |

Four more runs each state a sentence of the documentation or of a comment and find
it violated (section 6).

Bounds. The broker's runs use a budget of exactly one reservation
(`FileReservationBytes` = 2, `MaxLiveFileBytes` = 3, so that an off-by-one in the
limit shows), two failures to spend a drop and two transfer attempts. Two callers
are the least for a winner and a loser whose slot is still open; two claimants for
a stale lease of another owner; two frames for an acknowledgement out of turn; two
attempts for a lease, its loss and another; two drops with room for one reservation
for competition. In `control` two connections are the least for one to begin while
the other holds, loses or forgets its lease, and two drops for a lease of the one to
be taken for a lease of the other. `transferAttempts` is not capped by the model: it passes its
maximum only by as many as there are claimants decoding at once.

In `latch` a budget of two failed and three deferred passes shows every branch of
the two counters and their meeting; a third lane adds nothing to "one of them is
back". The exits that keep the latch need no bound: after one of them there is
nobody to take another. In `reconcile_drop` each counter has its least value that still has a step
before its end, and one fault in total: a restart, a write that fails, a
cancellation, a lapsing lane or an unanswered probe meets every interleaving of
waiter, pass and claim. Two faults of the same drop exceed what TLC does in minutes.
In `spool_claims` two claims of one drop are the least for a stale directory, a
competing lease and a purge against a claim in progress; two faults the least for a
cancellation after a failure or a restart after a cancellation. In `outbound` two
pages are the least for a second browser, three faults the least for a lost claim,
a late acknowledgement and a closed page in one behaviour.

Drops, requests, claims and pages act until they end, and a gateway may have nothing
to do: a run really can stop, so deadlock checking is off. What must not stop is
stated as liveness. Symmetry is used in safety runs only.

### Fairness

`server` assumes weak fairness of what the event loop does by itself: the
continuation of an await (`Accepting`, `CreateFinish`/`CreateFail`,
`GrantFileClaim`, `Respond`), a timer that is armed (`Deadline`, `LeaseTimeout`),
the passing of the TTL (`Age`), the sweeper's interval (`Sweep`), and the settling
of a body read once the deadline destroyed the socket. Nothing is assumed of
clients, claimants or the operator: no body need arrive, no drop be collected, no
transfer finished. Each fair action is a conjunction with "the rest of the server
stands still", which is how one turn of the loop is.

`latch` assumes that messages keep arriving, so that the hook runs, and that a
scheduled pass ends; no lane need come back. `reconcile_drop` assumes that the loop
runs its coroutines to their next await and that awaits end (each has a timeout),
that clocks pass, and that a conversation is heard from again: `WaitingResolved`
is a promise about a gateway somebody talks to, which is what the dispatch hook
relies on. `spool_live` assumes that threads run what they were given, that a
receiving task ends by its timeout at the latest, that the janitor wakes and that
entries age. `outbound` assumes the clock, the encryption and the sweeper; nobody is
bound to open a link, type a code or acknowledge. After `destroyAll` the sweeper is
cleared in the code while the model keeps it: a record minted later goes with the
process instead.

## 4. Proofs

Every invariant and action property of the passing runs is stated by a theorem
below, and so are the two refinements; only liveness stays with TLC alone. Each
theorem holds for every value of the constants that meets the named assumptions. The
inductive invariants of the broker, of the plugin and of the file claims (`IInv`,
`RInv`, `MInv` and `KInv`) were checked by TLC on the instances of their runs before
they were proved.

### The broker

`BrokerProofs` and `BrokerRefinement` prove, for every finite set of drops, any set of
callers, any envelopes and any limits that meet the named assumptions:

| Theorem | States |
|---|---|
| `Invariant` | the inductive invariant `IInv` |
| `TypeCorrect` | `TypeOK` |
| `FailuresSpend` | `FailuresSpendDrop` |
| `LeaseMatches` | `LeaseMatchesState` |
| `PayloadsPaid` | `PayloadReserved` |
| `HandedOnce` | `DeliveredOnce` |
| `BudgetIsExact`, `BudgetIsBounded` | `BudgetExact`, `BudgetWithinLimit` |
| `CallersInvariant` | the inductive invariant `CInv`, on top of `IInv` |
| `ReservationsOwned` | `ReservationOwned` |
| `DeliveriesWhole` | `DeliveredWhole` |
| `WaitersWoken` | `NoForgottenWait` |
| `PayloadsKept` | `PayloadKept` |
| `Refinement` | `ImplementsOneShot` |

Assumptions: the constants are typed (`EnvelopeAssumption`), one reservation fits
the limit and the ceilings are positive, as `config.js` enforces at start
(`LimitAssumption`), drops are finite (`FiniteDropsAssumption`, needed to count
what they hold), and `None` is none of the values it stands in for
(`NoneAssumption`).

The argument. None of these is inductive alone: a failure counter stays within its
range only because no attempt runs on a drop that spent it; a file payload keeps its
reservation only because its `submitLease` was cleared when it won; a lease is only
granted to a file payload because the drop a decode was begun for never changes its
kind. `Sound` says this of a record, `BegunOnFiles` of a pending decode, `Handed`
relates the delivery count to the state.

1. For each thing a handler does to a record (`Destroyed`, `Submitted`, a slot, a
   lease...), a lemma shows that the result is sound and that it `Follows` the
   record it came from: past "pending" its kind is fixed, and spent is spent.
2. For each action, a lemma shows it is a `RecordStep`: it replaces one record and
   moves the counter by exactly the change of that record's reservation, adding
   only under the limit; or it destroys a set of drops; or it leaves both alone.
3. The invariant, and the budget, follow from `RecordStep` alone: replacing one
   record moves the number of holding records by at most one
   (`ReplacedHolding`), destroying a set removes exactly its holders
   (`DestroyedHolding`).

4. The refinement has the same shape: under the mapping, replacing a record either
   changes nothing `OneShot` sees (`StaysStep`) or is one of its steps: opening by
   `CreateFinish`, depositing by the winner of `OpenEnvelope` or `DecodeContainer`,
   lending by a granted lease, giving back by a cleared one, handing over by
   `Claim` or `CommitFileClaim`, and ending by every destruction. It rests on
   `IInv` where a step's meaning depends on the record it meets: only a lent
   record has a lease to give back, and only a held one is handed over.

5. `CInv` ties the records to whoever called: a reservation that is borrowed has one
   open upload to return it, the frames proved are those of the lease that is in
   force, a sleeper is parked on a drop that is still pending. Most steps bring a
   record nothing of the kind and are `Tame`; the others (an upload that converts, a
   frame, a commit, a wait) answer for what they add.

`LeaseMatchesState`, `PayloadReserved` and `DeliveredOnce` are not in a run of
their own: they are consequences of the proved invariant, and what breaks them shows
in `ImplementsOneShot`, `PayloadKept` or `BudgetExact` of the runs.

### The HTTP server

`ServerProofs` adds, under `AnswerAssumption` (`None` is no answer) and for any number
of requests:

| Theorem | States |
|---|---|
| `ServerInvariant` | `IInv` and `CInv` of the broker, `ServerInv` of the requests |
| `ServerIsBroker` | `ServerSpec => Spec`: all of the above holds behind `POST /api/submit` |
| `SlotsReturned` | `SlotsOfRequests` |
| `AnswersTrue` | `AnswerIsReceipt` |

`InHandler` says which slot and which call a request has where it stands; `BusyHeld`
that a busy body slot is some request's; `Promised` that a request which waits is
joined to the attempt in flight for its own envelope, so that the answer it gets when
the attempt settles is about what it sent. `Receipt` is then stable: past "pending" a
record's envelope never changes (`KeyKept`), and every step of the broker either
`Spares` the slots or is the request's own.

### The control server

`ControlProofs` adds, under `LeaseAssumption` (`None` is no lease) and for any number
of connections:

| Theorem | States |
|---|---|
| `ControlInvariant` | `IInv` of the broker and `ConvInv` of the connections |
| `ControlIsBroker` | `ControlSpec => Spec`: all of the above holds behind the socket |
| `WrittenFirst` | `WrittenBeforeProved` |
| `LeaseFollows` | `LeaseFollowsConnection` |
| `StalledBounded` | `StalledHasDeadline` |

`ConvInv` has four parts. `InTurn` says what a session may look like (no lease before
its begin is answered, nothing streaming between two lines, the frame written last is
flushed when its acknowledgement is awaited); `Backed` who stands behind a lease;
`Match` that broker and session name the same lease and the same next frame;
`Issued` that a lease's number came from its record's counter, which is what makes
`AbandonFileClaim` a step the broker can take. A step either leaves leases alone,
ends exactly the one its connection holds (`Freed`, `FreedMatches`), grants one
(`GrantedMatches`) or moves one frame on (`AckMatches`); what happens elsewhere may
only take leases away (`ElsewhereQuiet`), and the notice makes the sessions follow
(`NoticeMatches`).

### The outbound store

`OutboundProofs` proves, for any sets of drops and pages, any attempt limit and any
number of faults, under `OutboundAssumption` (`MaxCodeAttempts`
is positive, `None` is no page, drop or answer):

| Theorem | States |
|---|---|
| `Invariant` | the inductive invariant `IInv` of the outbound store |
| `OneBrowserServed` | `OneBrowser` |
| `HolderIsServed` | `HolderServed` |
| `AcknowledgedRead` | `AckedWasRead` |
| `OutboundRefines` | `ImplementsOneShot` of `Outbound` |

Again none is inductive alone. `Sound` says that whoever was served is the claim id of
the record, so that a reservation made for one page excludes every other; `Posted` and
`Linked` that a page, and a request left under way by a page, leads to a drop that was
minted; `Asked` that an acknowledgement on its way comes from a page that read, without
which a late one could destroy what nobody saw; `Told` that a page refused with the right
code met a drop that is over for it. The store's part of every handler is one lemma:
`HandlesStep` for a request, however late, the others for timers, sweep and lookup; each
shows that a record `Evolves` (never back to "available", never to another claim id).
The refinement rests on `Sound` (no acknowledgement precedes the destruction, so the
one that destroys is the first) and on `Posted` and `Linked`: a request that reaches the
store names a drop that was minted.

### The reconcile latch

`LatchProofs` proves, for any lanes and any positive budgets (`BudgetAssumption`):

| Theorem | States |
|---|---|
| `LatchInvariant` | the inductive invariant `LatchInv` |
| `OnePass` | `OnePassAtATime` |
| `IdlePassesPaid` | `IdlePassesBounded` |
| `ShutExplained` | `ShutLatchExplained` |

`Exclusive` says that an open latch, or one that gave up, has neither a pass nor a
claimer behind it, and a shut one at most one of them. `Paid` is the account: while the
latch has not given up, the passes that came to nothing are covered by the failures
counted (all but the last leave it open) and the deferrals counted, and progress resets
both sides. An exit that keeps the latch adds one vain pass that no counter pays for; it
is the last (`Lost` implies that nobody is behind the latch), so the two budgets still
bound them all. `ShutLatchExplained` names these exits as the code has them: what is
proved is that there is no third. `DeferredPays`, `FailedPays` and `CleanPays` prove it of the three functions
that end a pass, each on its record alone.

### The plugin

`ReconcilerProofs` proves, for any number of drops and lanes, any limits, retries and
faults, under the assumptions named in `Journal`, `Latch` and `Reconciler` (typed
constants, positive limits, `None` is no entry, the pass is no drop):

| Theorem | States |
|---|---|
| `ReconcilerInvariant` | the inductive invariant `RInv` |
| `ReconcilerTyped` | `TypeOK` |
| `VerdictsTrue` | `VerdictTrue` |
| `DeadLinksFlagged` | `DeadLinkFlagged` |
| `ClaimedIsSpent` | `ClaimedMeansSpent` |
| `WaitingWatched` | `WaitingIsWatched` |
| `CleanPassLeavesNone` | `CleanPassLeavesNothing` (an action property) |

Every hazard here is a decision taken before an await and acted on after it. The
properties say nothing of what a coroutine remembers, so none is inductive: `RInv` adds
what each carries (`Carries`: the drop it edits has an entry, the state it will write was
the broker's), what a pass read before its awaits (`Old`), and where waiter and pass can
be (`WaiterAt`, `PassPlaces`). What makes them survive is `Grows`: a submitted drop was
submitted for good, a gone one is gone, an entry stays and a resolved one stays
resolved, so whoever takes no step keeps what he carries (`QuietStep`), and each action
answers for its own actor (`WaiterMoves`, `PassMoves`). `Announced` and `Watched` hold
when no journal write fails (`Faultless`): every resolved drop was told, is being told,
or its row is among those the pass has still to go through, and every waiting one has a
waiter, a pass, or a latch that lets the next pass in.

### File claims

`MaterializeProofs` proves, for any number of calls and drops, any slot limit, with or
without a pass beside them and for any number of faults:

| Theorem | States | with |
|---|---|---|
| `SpoolInvariant` | the inductive invariant `MInv` | |
| `PublishedFilesCommitted` | `PublishedIsCommitted` | |
| `VerdictsHonest` | `VerdictHonest` | |
| `SlotsReleased` | `SlotsReturn` | |
| `WritersSpared` | `StagingSpared` | |
| `AwaitsAnswered` | an await without its answer has its worker still to run: the safety half of `CallsEnd` | |
| `SpoolKeeps` | the inductive invariant `KInv` | `RootExists` |
| `BytesKept` | `BytesSafeUnlessCutHolding` | `RootExists` |
| `PathsKept` | `PathsStay` | `RootExists` |

Assumptions: each call claims a drop (`DropAssumption`), there is at least one slot
(`SlotAssumption`), `None` is none of the codes and the reconciler's caller is no claim
(`NamesAssumption`). `RootExists` is the hypothesis of the two last properties because
the code does not keep them without it (section 6): a purge that finds no root returns
the startup lock with the latch unspent.

`MInv` joins five pieces of state at every await. `Wired` reads from the connection how
far the call went, above all that only a call that wrote its commit can have consumed
the drop; `Booked` that the broker retires a payload once; `Judged` that a verdict
which invites a retry is reached only when no commit can come any more, and one that
marks the drop spent only when the payload is gone; `Placed` that a directory is open
exactly as long as its slot and registration are held; `Manned` which workers may be
left behind, the ones of a cancelled await among them, and that an unanswered await has
its worker (`AwaitsSomebody`). The cuts `SlotsReturn` excepts
are those where `Placed` needs the exception: a worker still making the directory, and a
discard nobody runs. `KInv` adds `Latched`, that while a purge runs no call of this
process has passed its start, and `Guarded`, that bytes whose commit was sent
(`AtStake`) are in an open, a published or a quarantined directory unless the
quarantining rename failed or was itself cut. Most steps concern one call: `OneCall` and
`OneCallKeeps` reduce them to that call, whose other calls see nothing but histories that
grow (`Same`); `StartStep` does the same for the startup and the sweeps, `UnwindsDoes`
says what a cancellation does to the directory at each await.

### What the proofs changed, and what is left to TLC

`PassEnds` of `LatchTriggers` was written with CASE arms that overlap. TLC takes the
first arm that holds, the logic leaves the choice open, so it could not be reasoned
about: it now tests in the order of the code, and so does the waiter's start in
`Reconciler`.
The assumptions on `None` and on the names of actors were implicit in the instances and
are now stated.

Left to TLC: the liveness properties (`RequestsEnd`, `DropsEnd`, `RevivedLaneRetried`,
`WaitingResolved`, `CallsEnd`, `EntriesEnd`, `PayloadsEnd`), since the prover does not
handle fairness.

## 5. What is not modelled, and the plan

* **Control server.** Taking over a stale socket path, and the close of the listening
  server: file-system set-up around the conversations that are modelled.
* **Lifecycle.** The start and close order of the two servers around `destroyAll`.
* **Journal files.** The atomic rewrite and its orphan sweep; `Journal` has the
  entries and what is asked of them.
* **Source registry.** Its capacity and expiry; `LatchTriggers` and `Reconciler`
  let any lane come and go.
* **Vault.** Placeholder tokens with expiry timers: sequential, one session each.
* **Inbound page.** Sealing and submitting; its requests are the free callers of
  `Broker` and `PublicServer`.
* **Two gateways on one spool root.** The code takes a lock on the root and
  refuses; the model has one gateway.

Proofs planned: an abstract reconcile latch and an abstract claim, which
`LatchTriggers` and `Materialize` would implement as the broker and the outbound store
implement `OneShot`; and the safety facts the liveness properties rest on (whoever waits
is waited for by something enabled), as invariants of their own.

Not planned: cryptography (`hpke-suite.js`), byte formats (`file-container.js`,
payload and envelope parsers), configuration, logging and wording, the build and
install scripts: they keep no state, and whether an envelope opens or decodes is a
constant of the models.

## 6. Where the code and its documents disagree

Each of these is a run that finds its property violated:

| Run | Property | What happens |
|---|---|---|
| `attempts` | `TransferAttemptsBounded` | Two begins decode at once under the last attempt; the first lease is given back before the second resumes, and both are granted. The maximum is documented as a bound. |
| `reconcile_files` | `FilesRecorded` | A pass that resolves a file drop journals it without its payload kind, so the claim takes the text path and the broker refuses it. The waiter's docstring says the reconciler can do everything it does. |
| `spool_hold` | `BytesSafe` | A cancellation meets the await of the quarantine of a transfer whose commit nobody answered; the directory is discarded. The docstring says a cancellation propagates after the bytes are safe. |
| `outbound_ack` | `AckKeepsSecret` | The acknowledgement destroys the payload and its answer is lost: `revealSecret` throws, the plaintext goes with it, and the page offers a retry that can only find the drop gone. The docstring says a failed acknowledgement is not fatal. |

Others were met while modelling; the models behave as the code does, and no run is
spent on them:

* `fileBudget` can report leased bytes that are not among the reserved ones: a text
  claimed under a borrowed upload leaves `submitLease` (`broker.js:1219`, comment at
  `:1234`).
* The retry of a file envelope that arrives during its own first upload is refused
  for good (`broker.js:961`), though a retry is said never to look like a failure
  (`SECURITY.md:275`); a good envelope that arrives while a bad one is being opened
  is refused although nothing has won (`broker.js:1041`, `SECURITY.md:256`).
* A waiter and a pass that finalize one drop at once both edit its message and write
  their verdict, the check being before the await (`reconciler.py:794`), though every
  terminal transition is said to refuse to happen twice (`reconciler.py:1026`).
* Attempts to announce are counted from a snapshot taken before the await, so two
  announcements at once count as one (`announce.py:119`) of the five "in total"
  (`README.md:332`).
* After a clean pass the latch stays consumed (`reconciler.py:229`), so a claim that
  was not recorded is announced again after the grace (`README.md:331`) only once
  the gateway has restarted.
* A gateway that dies between the post and the journal entry leaves a live link
  nothing tracks (`service.py:239`, `README.md:81`).
* A waiter whose journal write fails ends with its entry still waiting
  (`waiter.py:177`), and after a clean pass nothing drives it again before a restart.
* The hook that finds no loop returns without putting the latch back
  (`reconciler.py:713`), which every exit has to do (`reconciler.py:664`), and a
  cancelled pass is accounted for by nobody, `CancelledError` being no `Exception`
  (`reconciler.py:623`): either ends reconciliation for the process.
  `ShutLatchExplained` and `RevivedLaneRetried` name the two.
* A startup purge that begins while the root is absent spends its latch and runs
  against a claim that has just created it (`spool.py:1522`, `:1541`): `PathsStay` holds
  of a root that exists, which is the instance of `spool_claims`.
* A cancellation at the creation or at the discard of a claim directory leaves its
  slot taken and its staging directory on disk, registered as in use, so that neither
  janitor nor purge removes it while the process lives (`spool.py:416`, `:1321`).
  `SlotsReturn` names the two awaits; `EntriesEnd` excuses such a directory for as long
  as it is registered (`LeftRegistered`), and the next process has to remove it.
* A connection dropped for flooding while its begin decodes is granted a lease when the
  decode is back: `releaseLease` ran when there was none, and when the `close` event
  comes before the grant (`control-server.js:547`, `:295`) the lease stays until its timer,
  though it "is given back however the connection ends" (`control-server.js:190`).
  `LeaseFollowsConnection` names the case with `flooded`.
* A claim answer that breaks off in its body ends the page (`reveal-client.js:110`),
  though a transport failure is said to leave the drop retryable (`app.js:141`); so
  does a mistyped code on the retry of an answer that was lost.
