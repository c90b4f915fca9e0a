# Verification of ScreenerBot's trading core

ScreenerBot is a Solana trading bot in Rust: services discover and filter tokens, evaluators
decide entries and exits, the positions system buys, sells and books, and a copy service
follows other wallets. This directory holds TLA+ models of the parts that move money and of
what they learn the state of the chain from, with the TLC configurations that check them and
proofs checked by TLAPS. `PROJECT.json` maps every definition to the source lines it models
and lists the components, hazards, runs, mutants and theorems. Paths below are relative to
`src/src/`.

## The system

| Part | State it keeps | Operations | Talks to |
|---|---|---|---|
| position slots (`positions/state.rs`) | semaphore of `max_open_positions`, `SLOT_HOLDERS`, mint locks, pending-open marks | acquire, register, release, reclaim, reconcile at startup | every call that opens or ends a position |
| position calls (`positions/operations/`) | the call in progress | open, add (DCA), partial close, full close, force close | swaps, store, queue |
| verification queue and worker (`positions/queue.rs`, `worker.rs`, `verifier.rs`) | queue items with expiry bound, retries, confirmation; abandoned signatures | enqueue, poll, requeue, verify, give up, renew, rehydrate | settlement, bookings |
| settlement (`positions/settle.rs`, `chains/solana/settlement.rs`) | none; reads the chain | expiry bound, signature verdict, disposition | RPC providers |
| bookings (`positions/apply.rs`, `booking.rs`, `database/booking.rs`) | position rows and their entry/exit records | entry, add, partial exit, exit, residual, failures, late fills, handover | store, memory, slots |
| pending sets (`positions/state_pending.rs`) | pending adds and partial exits, the per-mint counter, swaps in flight | register, clear, rehydrate | calls, bookings |
| swap holds (`positions/swap_hold.rs`) | sends with no proof either way | hold, settle, release | calls, worker |
| exit ladder and swaps (`positions/operations/exit_ladder.rs`, `swaps/`, `chains/solana/swaps/`) | the rung and route of one sale | quote, execute, fall back, send, settle | RPC providers, relay |
| wallet-history ledger (`positions/ledger/`) | rounds reduced from the wallet's transactions | plan and apply row writes, resync | store, slots |
| wallet watch (`wallets/watch/`) | cursor and known signatures of a wallet, its stream and channel | subscribe, poll, dedupe, record, publish | ledger, copy service, alerts |
| copy trading (`trader/copy/`) | tasks, their spend, a paper queue per task | create, pause, resume, delete, copy, reconcile | wallet watch, position calls, paper book |
| position requests (`webserver/routes/positions/manage.rs`) | none | archive, unarchive, set management, delete | store, slots, pending sets |
| trader (`trader/`) | cooldowns, loss limit | evaluate, execute, pause | position calls |
| rpc (`rpc/`) | circuit breakers, rate limits per provider | select, execute, record | everything that reads the chain |
| services (`services/`, `run/`) | running tasks | start in order, stop | all |
| the rest | see `components` in `PROJECT.json` | I/O, pages, numeric analysis | |

What is hard here is concurrency across awaits. A position is touched by the call that
submits a swap (holding the mint lock), by the verification worker (not holding it while it
books), by HTTP requests (force close holds no lock at all) and by the wallet-history sync.
Its state is in three places that are written one after the other: the row, memory, and the
queue or pending sets. A submitted swap cannot be taken back, and providers may lag, so what
became of it is learnt late, repeatedly and sometimes wrongly. The process may stop between
any two writes.

What makes the parts correct: a slot is freed once and never handed out twice; a mint has
one open round; every submitted swap is booked exactly once or proved never to have landed;
nothing submitted is forgotten; a swap still undecided blocks the next one that would sell
the same tokens; a sale is sent again only when the last one provably sold nothing; the rows of
a mint together hold what the wallet holds; a transaction of a watched wallet is acted on
exactly once; a copy task stays within its budget and leaves nothing behind.

How the modules meet: `SwapSubmission` is one sale up to the outcome its call sees;
`PartialExits` is what the calls, the worker and a restart do with that outcome;
`SwapVerification` decides what became of a submitted swap; `PositionBooks` is what each
booking does to the amounts; `PositionSlots` what it does to the slots; `WalletWatch` produces the
activity that starts a resync in `LedgerSync` and a copy in `CopyTrading`. Each module takes from
its neighbour only what the neighbour's properties promise.

## Modules

`PositionSlots` has one action per step of each task that takes or frees a slot. `row[i]` is
the stored position, reduced to its state (free, open, closed, deleted), mint, whether the
bot owns it, archived, and entry verified. `available` and `holders` are the semaphore and
`SLOT_HOLDERS`; `lock` the mint locks; `pending` the pending-open marks. `opener[o]` is an
`open_position_impl` call: it has its permit and waits for the lock (`lock`), has sent the
swap (`swap`), or has its row in memory and is about to register its slot (`register`).
`task[t]` is a request, the worker or the sync between its read, its write and the slot
operation that follows. The tasks are split exactly at the awaits between these, which is
where the code interleaves. `Restart` is the end of the process and the next startup:
`reconcile_global_position_semaphore` followed by `rebuild_position_slot_holders`, with a
limit the user may have changed. A wallet read, quote or swap is the branch it leads to.
`excess` is a history variable, the holders the last start registered without a permit. The
start is taken to have read the positions (see Not modelled).

`SwapVerification` follows the swaps of one position. `fate` is the chain's (external)
decision; `call` the call that holds the mint lock; `round`, `stored` and `memory` the row
and the two views of what is still to be verified (exit and entry signatures on the row,
adds and partial exits in the pending sets); `queue[s]` the items of a signature, which the
code allows to be more than one; `wpc`, `sig`, `hand`, `unresolved` the worker's progress
through a pass. Bookings are records of effects (`Now`, `Leg`, `Cleared`, ...): a booking
action picks one of the effects its transition can have, its failures included. Three
abstractions need an argument:

- An expiry bound is a block height. All that matters is whether it was read after the swap
  was sent (`covers`) or before (`early`); only a covering bound proves a swap absent.
- A pass of the worker is over one signature. In the code a cycle reads the verdicts of many
  signatures at once. A not-landed verdict with a covering bound stays true, the removal
  conditions and the dust reading are evaluated when the item is settled, and a verdict that
  was read earlier is one a later read may also give, so passes over several signatures have
  the effects of passes one after the other.
- An item's age and attempts decide only when it gives up, which the model allows at any
  retry. Backoff decides only which items are due, which is any set of them.

A provider may miss a landed or reverted swap, but not in two consecutive reads of it
(`lagged`). That is the assumption `settle::disposition` is written for ("one lagging provider
cannot decide it"); it is stated in `Verdicts` and everything about failed swaps rests on it.

`Restart` reads the pending sets as `worker.rs` does: a read that fails is logged, and the process
goes on with an empty set (`ReadAtStartup`), which the next persist of the set writes over the
stored one. `accepted` is what was handed to verification since the last start, so `NothingDropped`
does not count a swap that a start did not read.

`CircuitBreaker` is the breaker of one RPC provider and the requests that pass it, from
`can_execute` to the recorded outcome. `pc[c]` says where a request stands: it has copied the
state and is about to count itself as a probe (`probe`) or to look at the cooldown (`open`),
found the cooldown over (`transition`), or was sent. `cooled` and `settled` are the two
comparisons with a clock the code makes. An outcome the manager does not report (a rate limit,
an error about the request itself, a dropped caller) is `EndUnrecorded`. `earned` is a history variable: the successes recorded since the circuit last became
half-open. The selection of a provider only decides which requests
come here, and every number of them may.

`SwapSubmission` is one exit call from the slippage ladder down to the chain: for every rung a
quote and an execution, around it the chain of routers, below it the relay and the providers
with their retries, and the settle loop that polls a signature against its deadline. `txs` is
every transaction the call signed, with its fate and the last height it can land in; `call` the
rung and route; `rpc` the tries; `tip` what the settle loop read. A node may be any number of
blocks behind, answer wrongly that it knows nothing, or not answer. `OneSale` is the abstract
specification of such a call in three variables (sold, a transaction that can still land, the
outcome): it sells at most once, reports the truth and ends. `ImplementsOneSale` is the refinement, with
`sold` and `live` mapped to the transactions that landed and that still can.

`PartialExits` is the partial exits of several positions with their take-profit steps: the step
taken on the row before the send, the counter of the mint, the pending details, the holds, and
the whole-set copies of the last two that are written to the store outside their lock.
`Persists` may write an older copy over a newer one, and may fail; so may each of the two reads at
a start, which is then an empty set in memory (`Loaded`). `forgotten` and
`superseded` are histories: positions whose flying sale no record read at a restart names, and
positions whose step a later sale took before a restart is given an older record of it.

`LedgerSync` is one mint with an open row the trader and the wallet-history sync both book.
A sync reads legs, history and wallet, plans, reads the marks of swaps in flight, and writes in
a transaction of its own, so every read may be stale. `doubt` names the sources that may be
behind a booked fill in a behaviour. `counted` is a history of the transactions in the row's
amount, `covered` of the activity some sync has looked for. A sync that cannot repair the gap or
read the history ends there, and counts as having looked.

`WalletWatch` is one wallet: the notifications with their bounded channel, the polls that page
back to the durable cursor, and the funnel both go through (dedupe, decode, record, commit,
publish), split at every write. A wallet is the own one over an RPC, the own one over the
service's version stream, or a watched one. Each page of a poll may come from another node, and
nothing in `poll_target` or `advance` asks whether that node knows the cursor, the signature to
page from, or the moment the wallet was added. That it does is an assumption about the
surroundings, `UpToDate`, made by every run but `MCWatchLag.cfg` and switched off by the constant
`NodesLag`: a node that does not know the boundary pages on past it, one that does not know where to
go on answers an empty page. `FetchPage` and `Resume` read the history `since` for that assumption
alone.

`PositionBooks` is the token amounts of the positions of a mint. The rules of `holdings.rs` and
`round_state.rs` are operators on a row; the actions are the sends (sized as
`exit_sizing.rs` does), the landing, the worker's reading of the wallet and each booking, with
late fills on closed rows, hand-overs to the open row, residuals and write-offs. `overlapped` is a
history of what the properties except (see Observations): a position with two swaps in flight
("own") or two sales ("sales"), and a wallet divided while a sale was about to move it ("shared"),
by a late fill booked beside an unsettled sale or a full exit sized beside a sale in flight.

`CopyTrading` is the life of copy tasks. `actor` holds two requests and the copy service, each
at one of its awaits; `fifo` and `running` are the paper queue of a task, on which its removal
waits too; `slot` is `ACTIVE_SLOT`; `source` the task's source of a watch target. A failed call, a
request dropped with its client and a restart may fall between any two steps. Inserts, updates,
attaches and detaches run in `spawn_blocking`, so a handler dropped while it waits for one frees
`ACTIVE_SLOT` and leaves the write behind (`LateWrite`, `LateAttach`, `LateDetach`): it lands later,
or fails, with nobody to look at what came of it. `revived`, `torn`,
`undone` and `escaped` are histories of what the properties except.

The `MC` modules give the instances that need definitions; the other modules only need their
`.cfg` files. The theorems of a component are in `<component>Proofs`, the two of the circuit breaker in
`SwapSubmissionProofs`, because a submission sends through the providers a breaker guards. Definitions marked `Defect` are variants of the definition that follows them with a
plausible bug; no action uses them, and `PROJECT.json` pairs each with the property that must
notice it.

## Runs

| Run | Shows | States |
|---|---|---|
| `slots` | `SlotAccounting`: free permits, permits in hand and holders never exceed the limit (plus the excess of the last start). `OneOpenRound`: opens, late fills and the sync never create two open rounds of a mint. `OperationsEnd`: every started call and task ends | 202 k |
| `verify_entry_add` | `BookedOnce`, `FailedNeverLands`, `NothingDropped`, `RemovedHeldNothing` for an entry and an add, with a write-off and one restart | 1.1 M |
| `verify_partial_exit` | the first three for a partial and a full exit with residuals | 2.8 M |
| `verify_live` | `EventuallySettled`: an exit handed to verification is booked, settled or abandoned with its reason | 14 k |
| `verify_serialized` | violated, see the finding | |
| `books` | `HoldingsBacked`: open rows never claim more than the wallet holds. `NothingLost`: tokens that no open row claims are the dust of the closed rows. `LateFillsConserve`: a late fill books what it moved | 1.9 M |
| `breaker` | `RecoveryEarned`: a half-open circuit closes by itself only on `success_threshold` successes of that half-open period; late answers and forced changes included. `OpenEnds`: an open circuit is tried again | 61 k |
| `submission` | `EarlierSendsDead`: a sale is sent again only when every earlier transaction is dead. `ImplementsOneSale`: the refinement | 85 k |
| `partial_exits` | `SalesSerialized`: one sale of a mint in flight. `StepSoldOnce`: a take-profit step sells once. `BlockedForCause`: a mint is kept from selling only by what will free it. Writes and the reads at a start may fail | 1.1 M |
| `watch` | `NothingSkipped`: the cursor passes nothing undecided. `PublishedOnce`: an activity goes out at most once, wherever the program stops. `WatchStartsNow`: the past of a new wallet is not news; both over nodes that are `UpToDate`. `EventuallySeen`: what lands on the own wallet is processed in the end | 282 k |
| `ledger` | `EachFillOnce`: the row counts every fill once, whoever booked it. `NotSwallowed`: activity leads to a sync that has not read the history yet | 2.0 M |
| `copy` | `ActiveLimit`: no more tasks enabled than allowed, but for writes that held no slot. `GoneHoldsNothing`: a removed paper task holds no copy. `NoOrphanSource`: nor a watch. `BudgetKept` | 2.7 M |

Every run but the live and the violated one also checks the module's type invariant, apart from
`verify_entry_add`, whose is checked by `verify_partial_exit`.

**Bounds.** Slots with a limit of one and two positions of one mint meet the contended cases of a
running process: an open that waits, a reopen that finds no free slot. A start over the limit needs
two mints: it is in `MCPositionSlotsWide.cfg`, which is too large for the liveness check, and in
the theorem, which holds for every instance. Ids are never
reused, so a run ends when they are spent; restarts keep the model from deadlock. One open and one
request suffice because they meet the worker and the sync in the slot primitives.
For verification two swaps at a time cover every pair of kinds that can meet on a row; the
violation uses three. One restart of the entry/add run reaches every point a process can stop at;
the partial/exit run leaves restarts out to stay within its time. The two items per signature of the type
invariant are checked, not assumed: no third ever appears.
The breaker has thresholds of two, so that the value before, at and after each occurs, and three
requests: one that transitions, one that probes and one with a late answer.
`submission` has two rungs and one fallback router, so that each kind of resend occurs (next
provider, next router, around a closed curve, next rung), and blocks enough for one
transaction after another to expire. `partial_exits` has two positions, whose snapshots overtake each
other, three sales and two restarts. `watch` has pages, channel and budget of one, the smallest at
which each overflows, and two transactions besides one of the past. `ledger` has two resyncs,
two transactions and a history load. `books` has two positions and four swaps, the least at which a
late fill meets an open position with a swap of its own; a buy is three tokens, so
that a partial exit can leave dust or more. The overlaps marked "shared" need a fifth swap to do
harm; the theorems hold for any number. `copy` has one live and one paper task at a limit of one, two requests and two trades
against a budget of one, and one fault.

**Deadlock** is checked for the slots and the breaker. The other models end when their swaps,
transactions or requests are spent and decided.

**Fairness.** `slots`: every swap call and database write ends by its timeout, and
tokio's mutex queues fairly, so an open waiting for the mint lock gets it (strong fairness);
requests and tasks only need to be scheduled (weak). Nothing makes a new call start.
`verify_live`: the worker loop runs on, the chain decides every transaction within its
blockhash's validity, an item's backoff runs out (so a read of all its due items and a poll
recur), and a booking or settlement retried for ever succeeds in the end. It also assumes
`<>[][Truthful]_vars`: from some time on a verdict read answers what the chain holds.
Without it a provider that always answers "pending" keeps an item waiting, as the code
intends.
`breaker`: time passes, requests keep coming, every request ends by its timeout (weak
fairness), and a provider asked for ever does not fail for ever (strong fairness of
`record_success`). `OpenEnds` does not need the last.
`submission`: the call runs on and the clock reaches its deadlines; neither the chain nor a node
owes it anything. `watch`: the forwarder and the worker run on, failures of the RPC and the store
come to an end, and a node asked for ever is not behind for ever.

## Finding

*Counter of another partial exit* (`positions/apply.rs`), run `verify_serialized`. A full exit with a
residual is booked as a partial exit and lowers the mint's counter, which it never raised; a
second partial exit is then sent beside the pending one. `state_pending.rs` and `apply.rs` state
the opposite.

## Observations

What the passing properties except, and what the further configurations below show. Each is a
behaviour of the code as modelled, with a trace behind it.

- *Surplus slots* (`positions/state.rs`, `NoSurplusSlot`). A start over the limit registers all open positions as
  holders but consumes only the permits that exist. Closing them then frees slots nobody took.
- *Leaked slot* (`operations/open.rs`, `SlotHolderIsActive`). A force close between `add_position` and
  `register_position_slot` finds no slot to release; the closed position is registered afterwards
  and its slot is gone until a restart.
- *Confirmed swap settled as not landed* (`queue.rs`, `MCVerifyConfirmed.cfg`). The worker
  re-enqueues an exit while its call awaits the expiry bound; two items of the signature exist, and
  the confirmation marks only the first.
- *Exit lost from memory* (`operations/close.rs`, `MCVerifyOneExit.cfg`). An exit whose row write
  failed is erased from memory by the next booking, and another exit can be sent.
- *Pending partial exit forgotten* (`state_pending.rs`, `MCPartialExitsDurable.cfg`). The older of
  two copies of the pending details may be written last; a restart then does not know the newer sale.
- *Pending set not read at a start* (`worker.rs`). A failed read of the pending adds, partial exits
  or holds is logged; their swaps are not verified until a later start reads the set, and never if
  a persist wrote over it before. The mint is then free to sell beside a sale still in flight.
- *Sync that could not read the history* (`ledger/sync.rs`). It ends with a log line and nothing
  schedules another: the activity it was started for waits for the next activity or start.
- *Booked fill lost by a sync* (`ledger/sync.rs`, `MCLedgerDoubt.cfg`). With the stored history and
  the wallet read both behind a booked fill, the sync takes the fill away.
- *Skipped history* (`wallets/watch/service.rs`, `MCWatchUnread.cfg`). A failed read of the cursor
  counts as a wallet never polled; the baseline it then takes passes what was not processed.
- *History of a lagging node* (`wallets/watch/service.rs`, `MCWatchLag.cfg`). The first page of a
  wallet just added may come from a node that knows nothing of it: it is empty, and the wallet
  counts as polled with a cursor of nothing. The next page, from an up-to-date node, is then replayed
  from the start, what the wallet did before it was watched included. A node behind the cursor pages
  past it the same way; the funnel turns away what it knows, but not what is from before the
  watch. An empty page in the middle of a range ends the range, and the cursor passes
  what was not fetched.
- *Version stream without polls* (`MCWatchStream.cfg`). A connected wallet on the service's stream
  is not polled, so what one page of a change does not hold waits for the next outage or restart.
- *Stuck half-open* (`rpc/circuit_breaker/state.rs`, `MCBreakerHalfOpen.cfg`). Probes whose outcome
  is not reported use up `half_open_requests`, which nothing lowers while the circuit is half-open.
- *Add before its entry* (`apply.rs`, `MCBooksEarly.cfg`). An add sent and booked before the
  entry of its position is verified is overwritten by the entry's fill; its tokens are on no row.
- *Late fills* (`apply.rs`, `state_pending_queries.rs`). `late_fill_holding` says that nothing can be
  decided while another swap of the mint is unsettled; by design `other_swap_in_flight` waits for no
  full exit, for no swap of the fill's own row, and, between closed rows, for none that was sent
  later. A late fill that reads the wallet before such a sale lands divides tokens that are about to
  go: the open rows then claim more than is left. The other way round, a late add settled while a
  landed full exit of the open row is unbooked finds everything claimed by that row and books its
  own tokens as sold; the exit then closes the row, and they are on none.
- *Full close beside a sale* (`exit_sizing.rs`). It is sized by all the wallet holds, also what a
  partial exit in flight, of this row or of a closed one, will still take.
- *Dust adds up* (`round_state.rs`). Each closed row may leave dust of what it acquired, so the
  wallet may hold several rows' dust that no position will sell. `NothingLost` bounds it by their sum.
- *Limit passed by a dropped request* (`trader/copy/control/tasks.rs`, `copy/database.rs`,
  `MCCopyDropped.cfg`). The comment of `ACTIVE_SLOT` says "so two enables at the last free slot never
  both count it free". The guard lives in the handler, the write in a blocking task: when the client
  of a create goes away in between, the slot is free again, a second create counts before the first
  row is there, and both are stored. `EnabledWithinMax` states the comment; `ActiveLimit` excepts the
  tasks enabled by a write that held no slot.
- *Stale task row* (`trader/copy/control/tasks.rs`). An update writes the row it read; a pause the
  service made since is undone, without a slot being counted. `ActiveLimit` excepts those tasks.
- *New task not looked at again.* `create_task` attaches its source without a second look at the
  row, unlike `attach_while_stored`; a delete in between leaves the source. So does any detach that
  fails or is dropped half-way after the row is gone, and an attach that lands after its request was
dropped. `NoOrphanSource` excepts these.
- *Live copy of a removed task.* A live copy under way when its task is deleted leaves a position
  without a task; `GoneHoldsNothing` is about paper tasks.
- *Unrecorded spend.* A live copy whose outcome is not recorded (the write fails, the process
  stops, a failed open lands) is not charged to the budget. `BudgetKept` counts them apart.

**Further configurations.** Those named above TLC reports as violated. Two more pass.
`MCPositionSlotsWide.cfg` (1.3 million states up to symmetry) checks the invariants of `slots` with two mints and
two open calls, a start over the limit included. `MCCopyLive.cfg` (38 thousand states) checks `EnabledWatched`, an enabled task whose wallet is not watched is attached
or paused with the reason, and `PausedFollowed`, a paused task that holds copies is watched for the
wallet's sells. It assumes that the service's tick takes up every task again and again and that an
attach tried for ever succeeds.

## Proofs

Every modelled component has theorems, each of `Spec` and of every value of the constants that the
assumption of its module allows. Every inductive invariant was checked by TLC on an instance
of the runs' size; the number of states is given where it is not that of the run.

**Slots** (`SlotConstants`: finite sets of ids and open calls, limits that are natural numbers,
task names that do not collide):

- `TypeCorrect`: the inductive invariant adds `StepNamesPosition`: a task
  that is past its read, and an open call about to register, name a position; otherwise the
  registry could take `None` and the type would not be kept.
- `SlotsNeverDuplicated` (`SlotAccounting`). One step per action, each about the three
  terms of the sum: an acquire moves one from free to hand, a register from hand to holders
  (or loses one, when the position was already reclaimed), a release and a reclaim between
  holders and free, and `Restart` sets all three from the rows. The cardinality facts are
  lemmas over `FiniteSetTheorems`.
- `OneRoundPerMint` (`OneOpenRound`). Only three actions open a row, each with the
  check that the mint has none in the same transaction.

**Verification** (`VerificationConstants`: any finite set of swaps of any kinds, any number of
restarts):

- `NoSwapBookedTwice` (`BookedOnce`). Only `VerifyLanded` writes a record. The lemmas
  show that each constructor of effects keeps the record an effect carries (`Fresh`), so an
  effect that books was computed while the swap had no record; that the check and the record
  share one booking transaction is what the theorem rests on.
- `VerificationTyped`, `FailedOnlyTheDead` (`FailedNeverLands`), `NothingLeftBehind`
  (`NothingDropped`) and `RemovedRowsEmpty` (`RemovedHeldNothing`) share one invariant (1.1 million
  states of the entry and add, 2.8 million of the exits). `CountInv` counts the items
  of a swap in the queue, in the worker's hands and still to come from its call: one, or two where
  the row names the swap, since the worker's own enqueue may come between the call's. It bounds the
  queue, and it is why a pass over a pending swap has that swap's only item in hand. `FitInv` says that a
  pending swap's item marked as missed was missed by a read its bound covers; with the one missed
  read a lagging provider is granted, the second settles only a swap the chain will never execute.
  `PassInv`: a settlement pass finds the item it is over, unless its swap is done with.

**Circuit breaker** (`BreakerConstants`: thresholds are at least one):

- `BreakerTyped` and `ClosesOnlyWhenRecovered` (`RecoveryEarned`). The
  inductive invariant adds `SuccessesEarned`: while the circuit is half-open the success counter
  equals what was recorded since it became so. It rests on the reset in
  `transition_to_half_open`, because `force_open` leaves the counter as it was.

**Submission** (`SubmissionAssumption`: at least one rung, the rest natural numbers; 85 thousand
states):

- `CallIsOneSale`: `Spec => Sale!Spec`, the safety part of `ImplementsOneSale`: the first state maps
  to a first state of `OneSale` and every step to a step of it or to none. `SubmissionTyped` and
  `ResendsOnlyTheDead` (`EarlierSendsDead`) come from the same invariant, which says that a call
  never has two transactions that are not provably dead. A refusal gives a transaction up only
  while nothing was dispatched (`NotHandedOver`), and a null status is an expiry only at a finalized
  tip past the last block it fits in (`InItsBlocks`).

**Wallet watch** (`WatchConstants`: page, budget and channel at least one; any history, transactions
and faults; 9.1 million states):

- `WatchTyped` and `ActivityOnce` (`PublishedOnce`). `FunnelInv`: a signature about to be recorded
  or committed is not known yet, and one about to be published is known, recorded and not
  published. So whatever brings it again, a restart included, is turned away.
- `NothingPassedOver` (`NothingSkipped`) and `NothingFromBefore` (`WatchStartsNow`), while reads of
  the durable cursor succeed and nodes are `UpToDate`. `RangeInv` and `CursorInv`: the pages of a poll are contiguous from the
  newest signature down, and a complete range reaches the cursor it was opened at. `ReplayInv` and
  `SinceInv`: a replay goes up from there and is done with everything below the one in hand. The
  conditions `ReadsFail = FALSE` and `NodesLag = FALSE` are needed: without the first `MCWatchUnread.cfg`
  violates `NothingSkipped`, without the second `MCWatchLag.cfg` violates `WatchStartsNow`, and
  `NothingSkipped` as well. The other two theorems hold without them.

**Partial exits** (`PartialExitConstants`: finite positions, natural bounds, a store that fails or not):

- `ExitsTyped`, `OneSaleAtATime` (`SalesSerialized`), `StepsSoldOnce` (`StepSoldOnce`) and
  `CounterNeverLeaks` (`BlockedForCause`). `CountInv` ties the counter of a mint to its records:
  while a call runs the counter is one and only the call's sale is recorded, otherwise it is the
  number of its sales in verification. `RecordsInv` keeps one record a position in
  memory, in the store and in every copy that is still to be written, because any of them
  may be what a restart reads. `StepInv` then gives a step back only when every sale that
  took it is dead. Positions a restart knows nothing of are named by `forgotten` and `superseded`.

**Copy trading** (`CopyConstants`: finite tasks, names that do not collide; 2.7 million states):

- `CopyTyped`, `LimitHolds` (`ActiveLimit`): a request that is not dropped holds `ACTIVE_SLOT` from
  its count to the write it counted for (`SlotInv`), so the count still holds at the write; a task
  enabled by any other write is in `revived`, which the property leaves out. `BudgetHolds`
  (`BudgetKept`): jobs of a task run one at a time, and the service records one live spend before the
  next, so at most one is under way when the budget is looked at (`SpendInv`). `RemovedHoldNothing`
  (`GoneHoldsNothing`): a removal runs as a job of its task, and only once its copies are settled
  (`GoneInv`). `RemovedNotWatched` (`NoOrphanSource`) is inductive beside the others: for every task
  that is gone and watched there is somebody at a step that detaches it.

**Ledger** (`LedgerConstants`: any transactions, resync tasks and loads; 257 thousand states):

- `LedgerTyped`, `ActivityNotSwallowed` (`NotSwallowed`), and `FillsOnce` (`EachFillOnce`) while not
  both the history and the wallet are behind. The row carries the balance of the transactions counted (`RowInv`), and
  what a sync has read is an earlier state of what it reads (`SyncInv`): the legs it read are among
  the fills of the history it reads next, or of the wallet, whichever is not behind. So no booked fill is
  missing from its plan; `booked_since` drops a plan that a booking overtook, and the marks one that
  has a fill about to be booked. `MCLedgerDoubt.cfg` violates `EachFillOnce` when both sources are behind.

**Amounts** (`BooksConstants`: finitely many positions, numbered in their order; finitely many
positive amounts, any limits of dust, swaps and adds; 1.9 million states):

- `LateFillsMakeNothing` (`LateFillsConserve`). What the rows acquired together is a sum over the
  positions. `OneMoves` and `TwoMove` show, by induction on the sets of positions, that the sum moves
  as the rows that are assigned do; `Followed`, `RoundHandedOver` and `LegHandedOver` that the rules a
  late fill applies keep what went in. The invariant is that a closed row holds nothing, without which an
  entry's fill would replace tokens the row had.
- `OpenRowsBacked` (`HoldingsBacked`). `BackInv` is what the property needs of every state, settled or
  not. `Due` is what sales in flight of rows that were closed since will take. The wallet without it
  covers an open row (`RowBacked`) as it stands, with the buy it has yet to book, or less what a
  landed sale of it took. A late fill may claim what its reading left, because the wallet
  still holds it: a sale that could lower it in between is one `other_swap_in_flight` waits for, or
  is marked in `overlapped`.
- `AmountsBounded` (`TypeOK`). No bound of a row is inductive, because a sale may exceed what its row
  holds and a hand-over moves tokens between rows, so the invariant `BoundsInv` is about flow: the
  wallet and what landed sales took are within what landed buys brought, and what the rows acquired
  together is within the amounts of the swaps that were booked, each once.
- `NothingIsLost` (`NothingLost`), while a position is traded only once its entry is verified. `LeftInv`
  counts the worth of a row: what it holds when open, the dust it may have left when closed. The
  worth of the rows and of the landed buys still to be booked never falls below the wallet (`Placed`). One
  entry or sale waits at a time (`OneWaits`), so at its booking the wallet holds no more than was read
  and what landed since (`ReadAll`), and a full exit booked without a residual left dust (`ReadSold`). With early
  trades the entry's fill overwrites what the row holds, and `MCBooksEarly.cfg` violates the property.

`PositionBooksProofs` takes tlapm about fifteen minutes from nothing on two threads.

The histories (`excess`, `forgotten`, `superseded`, `counted`, `escaped` and the like) are written
by the actions and read by no guard, so they restrict nothing. The one exception is `since` in
`WalletWatch`, which `UpToDate` and `Resume` read to state the assumption about nodes.

**Only model-checked.** Liveness (`OperationsEnd`, `EventuallySettled`, `OpenEnds`,
`EventuallySeen`, and `EnabledWatched` and `PausedFollowed` of `MCCopyLive.cfg`), the fairness part
of `ImplementsOneSale` and anything with `ENABLED` is beyond the prover. Every safety property of a
passing run is stated by a theorem; the condition that `NothingPassedOver`, `NothingFromBefore`,
`FillsOnce` and `NothingIsLost` have is also met by their runs, and is named with each. No module
uses a RECURSIVE operator, so each can be proved about.

## Not modelled

Within the modelled parts: a start that cannot read the positions themselves (`worker.rs` logs it
and goes on: the process then knows no position and all its slots are free, while the store still
refuses a second open row of a mint); prices, costs and fees;
native amounts; the deletion of a position by
the user while its swaps are in verification; the holds of full exits and adds; rounds of several
rows in `LedgerSync`; pending records, retention and the high-activity mode of the watch; changes of
a copy task's mode, resets of its paper book, its sizing and risk checks, and mirrored sells other
than as a copy that closes; paper positions; the management flag. The trader's decisions are not
modelled because the models allow every call at any time. The adaptive rate of the RPC limiter is
only reported and limits nothing, so there is nothing to check. Most of the repository is numeric
analysis (candles, pools, indicators), I/O (stores, clients, pages) and configuration, whose
correctness is not a question of order; the components and the reasons are in `PROJECT.json`.

## Plan

Done, in order of the money at risk: slots and verification, then the circuit breaker; the sale
and its refinement, partial exits with holds, the ledger, the watch, the amounts, copy tasks; then
the theorems about each.

1. The loss limiter and the pauses of the trader; startup and stop order of the services.
2. Paper positions, over the same rules of `PositionBooks`.
