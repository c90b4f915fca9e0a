---------------------------- MODULE WalletWatch ----------------------------
(***************************************************************************)
(* Observation of one wallet (wallets/watch/service.rs,                    *)
(* wallets/watch/service_targets.rs, wallets/watch/poller.rs,              *)
(* wallets/watch/dedupe.rs, wallets/watch/recorder.rs and the cursor in    *)
(* wallets/watch/database.rs).                                             *)
(*                                                                         *)
(* Transactions of the wallet are numbered in the order they land.  They   *)
(* are seen twice over: a stream of notifications feeds a bounded channel, *)
(* and polls page back, newest first, to the durable cursor.  One worker   *)
(* takes both through one funnel: dedupe, decode, record, dedupe commit,   *)
(* publish.  A crash or an abort of the worker may fall between any two of *)
(* these, and a decode, a write or a page may fail.                        *)
(*                                                                         *)
(* The wallet is the own one over an RPC ("own"), the own one over the     *)
(* service's version stream ("service"), or a watched one ("external").    *)
(* Pending-transaction records, the backfill mark of an activity and the   *)
(* high-activity mode are left out.                                        *)
(***************************************************************************)
EXTENDS Naturals, Sequences, FiniteSets

CONSTANTS
    Kinds,       \* the kinds of wallet explored
    PageSize,    \* signatures of a page (PAGE_SIZE, SIGNATURES_PER_CHANGE)
    PageBudget,  \* pages of a poll
    Capacity,    \* TARGET_EVENT_CAPACITY
    Attempts,    \* WS_RETRY_ATTEMPTS
    ReadsFail,   \* whether a read of the cursor may fail
    NodesLag,    \* whether a page or a head may come from a node behind what was seen before
    History,     \* bound: transactions that landed before the wallet was added
    MaxTx,       \* bound: transactions of the wallet
    MaxFaults    \* bound: restarts, outages and ended streams explored

ASSUME WatchConstants ==
    /\ Kinds \subseteq {"own", "service", "external"}
    /\ PageSize \in Nat \ {0} /\ PageBudget \in Nat \ {0}
    /\ Capacity \in Nat \ {0} /\ Attempts \in Nat
    /\ ReadsFail \in BOOLEAN /\ NodesLag \in BOOLEAN
    /\ MaxTx \in Nat /\ History \in 0 .. MaxTx /\ MaxFaults \in Nat

VARIABLES
    kind,        \* the kind of the wallet
    head,        \* the newest transaction on the chain
    failed,      \* transactions the chain reports as failed
    enabled,     \* watch_targets.enabled
    cursor,      \* watch_cursors: whether there is a row, and its last_signature (0: NULL)
    known,       \* known_signatures
    recorded,    \* processed_transactions
    published,   \* how often the activity of a transaction was broadcast
    connected,   \* the transport
    stream,      \* the forwarder's subscription
    events,      \* the channel from the forwarder to the worker
    overflowed,  \* an event did not fit the channel
    gapfill,     \* a GapFill command waits
    retries,     \* PendingRetry: a signature and its attempt
    range,       \* CatchUpState, and baseline_only
    worker,      \* where the worker stands
    faults,
    since,       \* history: the newest transaction when the wallet was added
    base         \* history: where the first window of the cursor began

chain == <<kind, head, failed, since>>
store == <<enabled, cursor, known, recorded, base>>
feed == <<connected, stream, events, overflowed, gapfill>>
vars == <<chain, store, published, feed, retries, range, worker, faults>>

Sigs == 1 .. MaxTx
Own == kind # "external"

NoStream == [up |-> FALSE, seen |-> 0, pending |-> {}]
NoRange == [open |-> FALSE, until |-> 0, initial |-> FALSE, baseline |-> FALSE,
            low |-> 0, newest |-> 0, complete |-> FALSE]
\* The job in hand, its step, its signature, the attempt or the pages left, whether every
\* replay so far was terminal, and whether the signature in hand is published at the end.
Rest(pc) == [job |-> "none", pc |-> pc, sig |-> 0, n |-> 0, ok |-> TRUE, loud |-> FALSE]
Idle == Rest("idle")

TypeOK ==
    /\ kind \in Kinds
    /\ head \in 0 .. MaxTx /\ since \in 0 .. head /\ failed \subseteq 1 .. head
    /\ enabled \in BOOLEAN
    /\ cursor \in [row : BOOLEAN, at : 0 .. head]
    /\ known \subseteq 1 .. head /\ recorded \subseteq 1 .. head
    /\ published \in [Sigs -> Nat]
    /\ connected \in BOOLEAN
    /\ stream \in [up : BOOLEAN, seen : 0 .. head, pending : SUBSET (1 .. head)]
    /\ events \in Seq(1 .. head) /\ Len(events) <= Capacity
    /\ overflowed \in BOOLEAN /\ gapfill \in BOOLEAN
    /\ retries \subseteq (1 .. head) \X (0 .. Attempts)
    /\ range \in [open : BOOLEAN, until : 0 .. head, initial : BOOLEAN, baseline : BOOLEAN,
                  low : 0 .. head, newest : 0 .. head, complete : BOOLEAN]
    /\ worker \in [job : {"none", "event", "retry", "poll"},
                   pc : {"start", "idle", "gone", "page", "seen", "record", "commit",
                         "publish", "cursor"},
                   sig : 0 .. head, n : 0 .. PageBudget + Attempts, ok : BOOLEAN, loud : BOOLEAN]
    /\ faults \in 0 .. MaxFaults
    /\ base \in 0 .. head

Init ==
    /\ kind \in Kinds
    /\ head \in 0 .. History /\ since = head /\ failed = {}
    /\ enabled = TRUE
    /\ cursor = [row |-> FALSE, at |-> 0] /\ base = 0
    /\ known = {} /\ recorded = {}
    /\ published = [s \in Sigs |-> 0]
    /\ connected = TRUE /\ stream = NoStream
    /\ events = <<>> /\ overflowed = FALSE /\ gapfill = FALSE
    /\ retries = {} /\ range = NoRange
    /\ worker = Rest("start")
    /\ faults = 0

----------------------------------------------------------------------------
(* The chain and the transport *)

\* The wallet makes a transaction, which may fail on the chain.
Land ==
    /\ head < MaxTx
    /\ head' = head + 1
    /\ \/ failed' = failed \union {head + 1}
       \/ failed' = failed
    /\ UNCHANGED <<kind, since, store, published, feed, retries, range, worker, faults>>

\* The transport drops: what lands until it is back is not notified.
Disconnect ==
    /\ faults < MaxFaults /\ connected
    /\ connected' = FALSE /\ stream' = NoStream
    /\ faults' = faults + 1
    /\ UNCHANGED <<chain, store, published, events, overflowed, gapfill, retries, range, worker>>

\* The transport is back: every target is asked to fill its gap.
Reconnect ==
    /\ ~ connected
    /\ connected' = TRUE
    /\ gapfill' = (worker.pc # "gone")
    /\ UNCHANGED <<chain, store, published, stream, events, overflowed, retries, range, worker, faults>>

\* The subscription ends on its own, on the version stream when a read of it fails.  The
\* forwarder subscribes again; nothing asks for a gap fill.
StreamEnds ==
    /\ faults < MaxFaults /\ stream.up
    /\ stream' = NoStream
    /\ faults' = faults + 1
    /\ UNCHANGED <<chain, store, published, connected, events, overflowed, gapfill, retries, range, worker>>

----------------------------------------------------------------------------
(* The forwarder *)

\* Only what lands after the newest signature now is notified.
Subscribe ==
    /\ connected /\ ~ stream.up /\ worker.pc # "gone"
    /\ stream' = [up |-> TRUE, seen |-> head, pending |-> {}]
    /\ UNCHANGED <<chain, store, published, connected, events, overflowed, gapfill, retries, range, worker, faults>>

\* A version change reads one page of what landed since the last one.
ReadVersion ==
    /\ kind = "service" /\ stream.up /\ stream.pending = {} /\ stream.seen < head
    /\ stream' = [stream EXCEPT !.seen = head,
                                !.pending = {s \in stream.seen + 1 .. head : s + PageSize > head}]
    /\ UNCHANGED <<chain, store, published, connected, events, overflowed, gapfill, retries, range, worker, faults>>

\* Defect of Deliver: the channel takes every event.
DeliverUnbounded(s) ==
    /\ events' = IF s \in failed /\ ~ Own THEN events ELSE Append(events, s)
    /\ overflowed' = overflowed

\* try_send: an event that finds the channel full only leaves the mark for a poll.
Deliver(s) ==
    IF s \in failed /\ ~ Own THEN UNCHANGED <<events, overflowed>>
    ELSE IF Len(events) < Capacity THEN /\ events' = Append(events, s)
                                        /\ overflowed' = overflowed
    ELSE /\ events' = events
         /\ overflowed' = TRUE

\* The forwarder hands on the next notification, oldest first.
Forward ==
    /\ stream.up
    /\ \/ /\ kind = "service" /\ stream.pending # {}
          /\ LET s == CHOOSE x \in stream.pending : \A y \in stream.pending : x <= y
             IN  /\ stream' = [stream EXCEPT !.pending = @ \ {s}]
                 /\ Deliver(s)
       \/ /\ kind # "service" /\ stream.seen < head
          /\ stream' = [stream EXCEPT !.seen = @ + 1]
          /\ Deliver(stream.seen + 1)
    /\ UNCHANGED <<chain, store, published, connected, gapfill, retries, range, worker, faults>>

----------------------------------------------------------------------------
(* The funnel *)

\* The oldest signature a poll replays, or the end of its replay.
Replay(r, ok) ==
    IF r.newest = 0 THEN [Rest("cursor") EXCEPT !.job = "poll"]
    ELSE [Rest("seen") EXCEPT !.job = "poll", !.sig = r.low, !.ok = ok]

\* Defect of Finished: the cursor moves on whatever became of the replay.
FinishedAnyway(outcome) ==
    IF worker.sig = range.newest THEN [Rest("cursor") EXCEPT !.job = "poll"]
    ELSE [Rest("seen") EXCEPT !.job = "poll", !.sig = worker.sig + 1]

\* A replay goes on to the next signature; the cursor moves only when all were terminal.
Finished(outcome) ==
    LET ok == worker.ok /\ outcome = "terminal"
    IN  IF worker.sig < range.newest
        THEN [Rest("seen") EXCEPT !.job = "poll", !.sig = worker.sig + 1, !.ok = ok]
        ELSE IF ok THEN [Rest("cursor") EXCEPT !.job = "poll"] ELSE Idle

\* What the caller does with the outcome: a notification is tried again a few times, then
\* left to the poll; a poll keeps its range.
Finish(outcome) ==
    /\ worker' = IF worker.job = "poll" THEN Finished(outcome) ELSE Idle
    /\ retries' = LET next == IF worker.job = "event" THEN 0 ELSE worker.n + 1
                  IN  IF worker.job # "poll" /\ outcome = "retryable" /\ next < Attempts
                      THEN retries \union {<<worker.sig, next>>}
                      ELSE retries

Step(pc, loud) == worker' = [worker EXCEPT !.pc = pc, !.loud = loud]

\* process_signature up to the classification, of a signature not seen before: what never
\* decodes or classifies as nothing is only marked known, a failed transaction is recorded
\* for the own wallet alone, the rest is recorded and published.
Classified ==
    /\ worker.pc = "seen"
    /\ ~ (worker.sig \in known) /\ ~ (worker.sig \in failed /\ ~ Own)
    /\ \/ Step("commit", FALSE)
       \/ worker.sig \in failed /\ Step("record", FALSE)
       \/ ~ (worker.sig \in failed) /\ Step("record", TRUE)
    /\ UNCHANGED <<chain, store, published, feed, retries, range, faults>>

\* The signature is known, or a failed one of a watched wallet.
Skipped ==
    /\ worker.pc = "seen"
    /\ worker.sig \in known \/ (worker.sig \in failed /\ ~ Own)
    /\ Finish("terminal")
    /\ UNCHANGED <<chain, store, published, feed, range, faults>>

\* The dedupe read, the decode, the record or the commit fails for now.
FunnelFails ==
    /\ worker.pc \in {"seen", "record", "commit"}
    /\ worker.pc = "seen" => ~ (worker.sig \in known) /\ ~ (worker.sig \in failed /\ ~ Own)
    /\ Finish("retryable")
    /\ UNCHANGED <<chain, store, published, feed, range, faults>>

\* recorder::record
Record ==
    /\ worker.pc = "record"
    /\ recorded' = recorded \union {worker.sig}
    /\ Step("commit", worker.loud)
    /\ UNCHANGED <<chain, enabled, cursor, known, base, published, feed, retries, range, faults>>

\* Defect of Commit: the activity goes out before the signature is durably known.
CommitAfterPublish ==
    /\ worker.pc = "commit"
    /\ IF worker.loud
       THEN /\ published' = [published EXCEPT ![worker.sig] = @ + 1]
            /\ Step("commit", FALSE)
            /\ UNCHANGED <<known, retries>>
       ELSE /\ known' = known \union {worker.sig}
            /\ published' = published
            /\ Finish("terminal")
    /\ UNCHANGED <<chain, enabled, cursor, recorded, base, feed, range, faults>>

\* dedupe::commit: durable before anything is published.
Commit ==
    /\ worker.pc = "commit"
    /\ known' = known \union {worker.sig}
    /\ IF worker.loud THEN Step("publish", TRUE) /\ UNCHANGED retries
                      ELSE Finish("terminal")
    /\ UNCHANGED <<chain, enabled, cursor, recorded, base, published, feed, range, faults>>

\* publish
Publish ==
    /\ worker.pc = "publish"
    /\ published' = [published EXCEPT ![worker.sig] = @ + 1]
    /\ Finish("terminal")
    /\ UNCHANGED <<chain, store, feed, range, faults>>

----------------------------------------------------------------------------
(* The worker: notifications and their retries *)

\* process_event; a paused target drops the event.
TakeEvent ==
    /\ worker.pc = "idle" /\ events # <<>>
    /\ events' = Tail(events)
    /\ worker' = IF enabled THEN [Rest("seen") EXCEPT !.job = "event", !.sig = Head(events)]
                            ELSE worker
    /\ UNCHANGED <<chain, store, published, connected, stream, overflowed, gapfill, retries, range, faults>>

\* process_retries, of one retry that is due; a paused target drops them all.
TakeRetry ==
    /\ worker.pc = "idle"
    /\ \E r \in retries :
          /\ retries' = IF enabled THEN retries \ {r} ELSE {}
          /\ worker' = IF enabled THEN [Rest("seen") EXCEPT !.job = "retry", !.sig = r[1], !.n = r[2]]
                                  ELSE worker
    /\ UNCHANGED <<chain, store, published, feed, range, faults>>

----------------------------------------------------------------------------
(* The worker: polls *)

\* Defect of cadence: a connected transport is not polled.
cadence_only_offline == ~ connected

\* cadence_secs and polls_while_connected: the version stream is not polled while connected.
cadence == ~ connected \/ kind # "service"

\* Defect of baseline_only: the first poll of a watched wallet replays its page.
never_baseline_only == FALSE

\* A watched wallet without a cursor row starts from now.
baseline_only == ~ Own /\ ~ cursor.row

\* What get_cursor and has_cursor_row may answer: a failed read is taken for an address
\* without a cursor.
CursorRead == {cursor.at} \union (IF ReadsFail THEN {0} ELSE {})
BaselineRead == {baseline_only} \union (IF ReadsFail /\ ~ Own THEN {TRUE} ELSE {})

\* poll_target up to the first page: an unfinished range goes on, else one is opened.
OpenRange ==
    \E until \in CursorRead, baseline \in BaselineRead :
       LET opened == [NoRange EXCEPT !.open = TRUE, !.until = until, !.initial = (until = 0),
                                     !.baseline = baseline]
           r == IF range.open THEN range ELSE opened
       IN  /\ range' = r
           /\ worker' = IF r.complete /\ ~ r.baseline THEN Replay(r, TRUE)
                        ELSE [Rest(IF r.complete THEN "cursor" ELSE "page")
                                 EXCEPT !.job = "poll", !.n = PageBudget]

\* The startup poll, a gap fill, or a tick that is due.  A paused target does nothing.
Poll ==
    /\ \/ worker.pc = "start" /\ UNCHANGED <<gapfill, overflowed>>
       \/ worker.pc = "idle" /\ gapfill /\ gapfill' = FALSE /\ UNCHANGED overflowed
       \/ worker.pc = "idle" /\ (overflowed \/ cadence) /\ overflowed' = FALSE /\ UNCHANGED gapfill
    /\ IF enabled THEN OpenRange ELSE UNCHANGED <<range, worker>>
    /\ UNCHANGED <<chain, store, published, connected, stream, events, retries, faults>>

\* A range that was not complete when its pages were spent: the own wallet pages on with the
\* next tick; a watched one is paused, its range dropped and its cursor kept, unless the
\* write of the pause fails.
PagesSpent(r) ==
    /\ worker' = Idle
    /\ IF Own THEN range' = r /\ enabled' = enabled
       ELSE /\ range' = NoRange
            /\ enabled' \in BOOLEAN

\* An assumption about the surroundings, no check of the code: unless NodesLag, a node that
\* answers knows the boundary, what was fetched or observed before, and the moment the wallet
\* was added (the only place, with Resume, that reads the history since).
UpToDate(tip) == tip >= since /\ tip >= cursor.at /\ tip >= range.until /\ tip >= range.newest

\* One page, newest first, from a node whose newest transaction is tip.  A node that does not
\* know the boundary (until) pages on past it, one that does not know where to go on
\* (before) answers an empty page.  An initial window is one page.
FetchPage(tip) ==
    /\ worker.pc = "page"
    /\ tip <= head /\ (NodesLag \/ UpToDate(tip))
    /\ LET top == IF range.newest = 0 THEN tip ELSE IF tip >= range.low THEN range.low - 1 ELSE 0
           until == IF tip >= range.until THEN range.until ELSE 0
           from == IF top > until + PageSize THEN top - PageSize + 1 ELSE until + 1
           size == IF top < from THEN 0 ELSE top - from + 1
           r == IF size = 0 THEN [range EXCEPT !.complete = TRUE]
                ELSE [range EXCEPT !.newest = IF @ = 0 THEN tip ELSE @,
                                   !.low = from,
                                   !.complete = range.initial \/ size < PageSize]
       IN  IF r.complete
           THEN /\ range' = r /\ enabled' = enabled
                /\ worker' = IF r.baseline THEN [Rest("cursor") EXCEPT !.job = "poll"]
                             ELSE Replay(r, TRUE)
           ELSE IF worker.n > 1
           THEN /\ range' = r /\ enabled' = enabled
                /\ worker' = [worker EXCEPT !.n = @ - 1]
           ELSE PagesSpent(r)
    /\ UNCHANGED <<chain, cursor, known, recorded, base, published, feed, retries, faults>>

\* A page or the write of the cursor fails: the range is kept as it is.
PollFails ==
    /\ worker.pc \in {"page", "cursor"}
    /\ worker.pc = "cursor" => range.newest # 0 \/ range.baseline
    /\ worker' = Idle
    /\ UNCHANGED <<chain, store, published, feed, retries, range, faults>>

\* set_cursor or mark_cursor_initialized; an empty range of an initialized target leaves the
\* row as it is.
SetCursor ==
    /\ worker.pc = "cursor"
    /\ cursor' = IF range.newest # 0 THEN [row |-> TRUE, at |-> range.newest]
                 ELSE IF range.baseline THEN [cursor EXCEPT !.row = TRUE]
                 ELSE cursor
    /\ base' = IF cursor.at # 0 \/ range.newest = 0 THEN base
               ELSE IF range.baseline THEN range.newest ELSE range.low - 1
    /\ range' = NoRange
    /\ worker' = Idle
    /\ UNCHANGED <<chain, enabled, known, recorded, published, feed, retries, faults>>

----------------------------------------------------------------------------
(* The registry *)

Forget(pc) ==
    /\ worker' = Rest(pc)
    /\ stream' = NoStream /\ events' = <<>> /\ overflowed' = FALSE /\ gapfill' = FALSE
    /\ retries' = {} /\ range' = NoRange

\* reload_targets stops the worker of a paused target wherever it stands.
Reload ==
    /\ ~ enabled /\ worker.pc # "gone"
    /\ Forget("gone")
    /\ UNCHANGED <<chain, store, published, connected, faults>>

\* resume_target: the cursor moves to the head the node reports (under the assumption of
\* UpToDate no older than the wallet's watch), and the user accepts what is missed.  A worker
\* that still runs goes on, a stopped one is registered again.
Resume ==
    /\ ~ enabled
    /\ enabled' = TRUE
    /\ \E v \in 0 .. head : (NodesLag \/ v >= since) /\ cursor' = [row |-> TRUE, at |-> v] /\ base' = v
    /\ IF worker.pc = "gone" THEN worker' = Rest("start") ELSE worker' = worker
    /\ UNCHANGED <<chain, known, recorded, published, feed, retries, range, faults>>

\* The program stops anywhere and starts again, or the worker is aborted and registered again.
Restart ==
    /\ faults < MaxFaults
    /\ faults' = faults + 1
    /\ connected' = TRUE
    /\ Forget(IF enabled THEN "start" ELSE "gone")
    /\ UNCHANGED <<chain, store, published>>

WorkerStep ==
    \/ Classified \/ Skipped \/ Record \/ Commit \/ Publish
    \/ TakeEvent \/ TakeRetry \/ Poll \/ SetCursor
    \/ \E tip \in 0 .. MaxTx : FetchPage(tip)

Next ==
    \/ Land \/ Disconnect \/ Reconnect \/ StreamEnds
    \/ Subscribe \/ ReadVersion \/ Forward
    \/ WorkerStep \/ FunnelFails \/ PollFails
    \/ Reload \/ Resume \/ Restart

Spec == Init /\ [][Next]_vars

\* A page that is up to date.
FetchFresh == FetchPage(head)

\* The forwarder and the worker run on, failures of the RPC and of the store come to an end,
\* and a node is not behind for ever.
Fairness ==
    /\ WF_vars(Reconnect) /\ WF_vars(Subscribe \/ ReadVersion \/ Forward)
    /\ WF_vars(WorkerStep)
    /\ SF_vars(FetchFresh)
    /\ <>[][~ (FunnelFails \/ PollFails)]_vars

FairSpec == Spec /\ Fairness

----------------------------------------------------------------------------
(* Properties *)

\* The cursor never passes a transaction the funnel has not finished with: everything that
\* landed between where observation began and the cursor is durably known, but for failed
\* transactions of a watched wallet (poller.rs: a restart may re-page, but cannot skip).
\* Under reads of the cursor that answer, and nodes that know it (ReadsFail, NodesLag): neither
\* is checked by the code, and MCWatchUnread and MCWatchLag show what happens without them.
NothingSkipped ==
    \A s \in Sigs : base < s /\ s <= cursor.at => s \in known \/ (s \in failed /\ ~ Own)

\* An activity goes out at most once, whatever is notified, polled and tried again and wherever
\* the program stops, and only of a successful transaction that is recorded and known.
PublishedOnce ==
    \A s \in Sigs : published[s] > 0 =>
       published[s] = 1 /\ s \in known \intersect recorded /\ s \notin failed

\* Copy trading and alerts never act on what a wallet did before it was watched.  Under the
\* same assumptions: a node that lags behind the add, or does not know the cursor, answers
\* with transactions of before, and they are replayed (MCWatchLag).
WatchStartsNow ==
    ~ Own => \A s \in 1 .. since : published[s] = 0

\* Every transaction of the own wallet after its first window is processed in the end, lost
\* notifications, full channels, outages and restarts notwithstanding.
EventuallySeen ==
    \A s \in Sigs : (kind = "own" /\ base < s /\ s <= head /\ cursor.at > 0) ~> (s \in known)

\* The same of the own wallet over the version stream of the service.
StreamSeen ==
    \A s \in Sigs : (kind = "service" /\ base < s /\ s <= head /\ cursor.at > 0) ~> (s \in known)
=============================================================================
