-------------------------- MODULE SwapVerification --------------------------
(***************************************************************************)
(* How the swaps of one position are booked: the call that submits a swap, *)
(* the verification queue, the worker that verifies and settles its items, *)
(* and the bookings they make.                                             *)
(*                                                                         *)
(* Source: positions/queue.rs, positions/worker.rs, positions/settle.rs,   *)
(* positions/apply.rs, positions/state_pending.rs, the tails of the calls  *)
(* in positions/operations, and chains/solana/settlement.rs.               *)
(*                                                                         *)
(* Amounts and prices are left out.  An item's age and attempt count only  *)
(* decide when it gives up, which may happen at any retry.  A block height *)
(* used as expiry bound is reduced to whether it was read after the swap   *)
(* was sent ("covers") or before ("early").  A startup that cannot read    *)
(* the positions themselves is left out: it knows no position at all.      *)
(***************************************************************************)
EXTENDS Naturals, Sequences, FiniteSets

CONSTANTS
    Sigs,         \* signatures of the swaps the position may send
    Kind,         \* what each swap is: "entry", "add", "partial" or "exit"
    MaxRestarts,  \* bound on the restarts explored
    None

ASSUME VerificationConstants ==
    /\ IsFiniteSet(Sigs)
    /\ Kind \in [Sigs -> {"entry", "add", "partial", "exit"}]
    /\ MaxRestarts \in Nat
    /\ None \notin Sigs

OfKind(k) == {s \in Sigs : Kind[s] = k}
Exits == OfKind("exit")

\* The swaps the position row itself names; the others are named by the pending sets.
OnRow == OfKind("entry") \cup Exits

VARIABLES
    fate,       \* the chain: what became of each swap
    lagged,     \* the last verdict read of the swap missed it on the chain
    call,       \* the call that holds the mint's position lock
    round,      \* the position row
    memory,     \* swaps memory holds as still to be verified
    stored,     \* swaps the store holds as still to be verified
    noted,      \* expiry bound kept with a pending add or partial exit
    partials,   \* PENDING_PARTIAL_EXITS, the counter of the mint
    queue,      \* queue[s]: the queued items of signature s, front first
    abandoned,  \* signatures no enqueue takes any more
    wpc,        \* where the worker stands
    snap,       \* signatures without a bound, taken before the bound is read
    sentAtRead, \* swaps already sent when the worker read the bound
    sig,        \* the signature whose items the worker's pass is over
    hand,       \* its items in hand, with the verdicts read for them
    unresolved, \* its items the verifier gave up on
    bookings,   \* bookings[s]: records written for the swap
    failed,     \* swaps settled as failed or not landed
    accepted,   \* history: swaps handed to verification in this run
    restarts

chainVars == <<fate, lagged>>
rowVars == <<round, memory, stored, partials>>
workVars == <<wpc, snap, sentAtRead, sig, hand, unresolved>>
outcomeVars == <<bookings, failed>>
vars == <<chainVars, call, rowVars, noted, queue, abandoned, workVars, outcomeVars,
          accepted, restarts>>

Bounds == {"none", "covers", "early"}
Item(b) == [bound |-> b, confirmed |-> FALSE, seen |-> FALSE]
IdleCall == [pc |-> "idle", sig |-> None]

Init ==
    /\ fate = [s \in Sigs |-> "unsent"]
    /\ lagged = [s \in Sigs |-> FALSE]
    /\ call = IdleCall
    /\ round = IF OfKind("entry") = {} THEN "open" ELSE "none"
    /\ memory = {} /\ stored = {}
    /\ noted = [s \in Sigs |-> "none"]
    /\ partials = 0
    /\ queue = [s \in Sigs |-> <<>>]
    /\ abandoned = {}
    /\ wpc = "idle" /\ snap = {} /\ sentAtRead = {}
    /\ sig = None /\ hand = <<>> /\ unresolved = <<>>
    /\ bookings = [s \in Sigs |-> 0]
    /\ failed = {} /\ accepted = {}
    /\ restarts = 0

-----------------------------------------------------------------------------
(* The chain (external): a swap in flight lands, reverts or outlives its          *)
(* blockhash.                                                                     *)
ChainDecides(s) ==
    /\ fate[s] = "flying"
    /\ \E f \in {"landed", "reverted", "expired"} : fate' = [fate EXCEPT ![s] = f]
    /\ UNCHANGED <<lagged, call, rowVars, noted, queue, abandoned, workVars,
                   outcomeVars, accepted, restarts>>

-----------------------------------------------------------------------------
(* The calls.  Each holds the mint's position lock from its checks to its enqueue. *)

\* What a call checks before it sends: an open needs the mint free, a partial exit no
\* other partial exit pending, a full close no exit in memory.
MaySend(s) ==
    CASE Kind[s] = "entry"   -> round = "none"
      [] Kind[s] = "add"     -> round = "open"
      [] Kind[s] = "partial" -> round = "open" /\ partials = 0
      [] Kind[s] = "exit"    -> round = "open" /\ memory \cap Exits = {}

\* The partial-exit counter is raised before the send.
SendSwap(s) ==
    /\ call.pc = "idle"
    /\ fate[s] = "unsent"
    /\ MaySend(s)
    /\ fate' = [fate EXCEPT ![s] = "flying"]
    /\ partials' = IF Kind[s] = "partial" THEN partials + 1 ELSE partials
    /\ call' = [pc |-> "record", sig |-> s]
    /\ UNCHANGED <<lagged, round, memory, stored, noted, queue, abandoned, workVars,
                   outcomeVars, accepted, restarts>>

\* persist_position_with_retry and add_position; an unsaved entry ends the call.
RecordEntry ==
    LET s == call.sig IN
    /\ call.pc = "record" /\ Kind[s] = "entry"
    /\ \/ /\ round' = "open"
          /\ memory' = memory \cup {s}
          /\ stored' = stored \cup {s}
          /\ call' = [call EXCEPT !.pc = "enqueue"]
       \/ UNCHANGED <<round, memory, stored>> /\ call' = IdleCall
    /\ UNCHANGED <<chainVars, noted, partials, queue, abandoned, workVars, outcomeVars,
                   accepted, restarts>>

\* register_pending_dca_swap, register_pending_partial_exit: the bound was read first;
\* memory keeps the entry even when the persist of the whole set fails.
RecordPending ==
    LET s == call.sig
        same == OfKind(Kind[s])
    IN
    /\ call.pc = "record" /\ Kind[s] \in {"add", "partial"}
    /\ memory' = memory \cup {s}
    /\ stored' \in {stored, (stored \ same) \cup (memory' \cap same)}
    /\ \E b \in {"none", "covers"} : noted' = [noted EXCEPT ![s] = b]
    /\ call' = [call EXCEPT !.pc = "enqueue"]
    /\ UNCHANGED <<chainVars, round, partials, queue, abandoned, workVars, outcomeVars,
                   accepted, restarts>>

\* mark_exit_submitted: a verified exit keeps its booking; otherwise the row, which may
\* fail, and then memory take the signature.
RecordExit ==
    LET s == call.sig IN
    /\ call.pc = "record" /\ Kind[s] = "exit"
    /\ IF round = "open"
       THEN /\ stored' \in {stored, (stored \ Exits) \cup {s}}
            /\ memory' = (memory \ Exits) \cup {s}
       ELSE UNCHANGED <<memory, stored>>
    /\ call' = [call EXCEPT !.pc = "enqueue"]
    /\ UNCHANGED <<chainVars, round, noted, partials, queue, abandoned, workVars,
                   outcomeVars, accepted, restarts>>

\* VerificationQueue::enqueue refuses a queued or abandoned signature.
Enqueued(q, s, item) ==
    IF s \in abandoned \/ q[s] # <<>> THEN q ELSE [q EXCEPT ![s] = <<item>>]

\* An entry and a full exit read their bound here, after the row names them.
EnqueueSubmitted ==
    LET s == call.sig IN
    /\ call.pc = "enqueue"
    /\ \E b \in IF s \in OnRow THEN {"none", "covers"} ELSE {noted[s]} :
          queue' = Enqueued(queue, s, Item(b))
    /\ accepted' = accepted \cup {s}
    /\ call' = IdleCall
    /\ UNCHANGED <<chainVars, rowVars, noted, abandoned, workVars, outcomeVars, restarts>>

-----------------------------------------------------------------------------
(* The operator writes the position off, with no mint lock. *)

\* publish_committed: memory adopts the row as stored; the pending sets are not on it.
Published(e) ==
    [e EXCEPT !.memory = (@ \ OnRow) \cup (e.stored \cap OnRow)]

ForceClose ==
    /\ round = "open"
    /\ round' = "writtenOff"
    /\ memory' = (memory \ OnRow) \cup (stored \cap OnRow)
    /\ UNCHANGED <<chainVars, call, stored, noted, partials, queue, abandoned, workVars,
                   outcomeVars, accepted, restarts>>

-----------------------------------------------------------------------------
(* Bookings, as the effects of a transition on the row and on the pending sets. *)

Now == [round |-> round, memory |-> memory, stored |-> stored, partials |-> partials,
        booked |-> FALSE, result |-> "ok"]

With(e, r) == [e EXCEPT !.result = r]

\* clear_pending_dca_swap, clear_pending_partial_exit: dropped from memory, and the set
\* is persisted as memory now holds it.
Cleared(e, s) ==
    LET same == OfKind(Kind[s])
        m == e.memory \ {s}
    IN IF s \in e.memory
       THEN [e EXCEPT !.memory = m, !.stored = (@ \ same) \cup (m \cap same)]
       ELSE e

\* Defect: a counter that falls below zero.
CounterBelowZero(e) == [e EXCEPT !.partials = @ - 1]

\* clear_partial_exit_pending: one down, and gone at zero.
CounterDown(e) == [e EXCEPT !.partials = IF @ > 0 THEN @ - 1 ELSE 0]

\* clear_exit_for_retry: a verified close refuses unless it is the write-off that left
\* this sale in flight, and another exit on the row stays.
clear_exit_for_retry(e, s) ==
    CASE e.round = "removed" -> e
      [] e.round = "writtenOff" /\ s \in e.stored ->
            Published([e EXCEPT !.stored = @ \ {s}])
      [] e.round \in {"closed", "writtenOff"} /\ ~(e.round = "writtenOff" /\ s \in e.stored) ->
            With(e, "drop")
      [] e.round = "open" /\ (e.stored \cap Exits) \ {s} # {} -> e
      [] OTHER -> Published([e EXCEPT !.stored = @ \ Exits])

\* The round after a fill is booked: a closed row may reopen, which clears its exit.
Rounds == IF round \in {"closed", "writtenOff"} THEN {round, "open"} ELSE {round}

Leg(s, r) ==
    Published([Now EXCEPT !.round = r, !.booked = TRUE,
                          !.stored = (IF r # round THEN @ \ Exits ELSE @)
                                     \ (OfKind("entry") \cap {s})])

\* Defect: the leg is booked without asking for the swap's record.
LegsUnrecorded(s) == {Leg(s, r) : r \in Rounds}

\* The record is written with the row, so a swap that has one is skipped.
Legs(s) == IF bookings[s] > 0 THEN {Now} ELSE {Leg(s, r) : r \in Rounds}

\* EntryVerified, DcaVerified, PartialExitVerified; a failed clear of the pending entry is
\* retried.
FillEffects(s) ==
    LET drop(e) == IF Kind[s] = "partial" THEN CounterDown(Cleared(e, s)) ELSE Cleared(e, s)
    IN CASE Kind[s] = "entry"              -> Legs(s)
         [] Kind[s] \in {"add", "partial"} -> {drop(e) : e \in Legs(s)}
                                              \cup {With(e, "retry") : e \in Legs(s)}
         [] OTHER                          -> {}

\* ExitVerified: the close is booked, on a closed row as a late fill.
CloseEffects(s) ==
    IF bookings[s] > 0 THEN {Now}
    ELSE {Published([Now EXCEPT !.round = r, !.booked = TRUE, !.stored = @ \ Exits]) :
             r \in IF round = "open" THEN {"closed"} ELSE {"closed", "open"}}

\* ExitResidualClearForRetry: the sale is booked as a partial exit, counter included,
\* and then the exit is cleared; a refused clear on a closed row ends it.
ResidualEffects(s) ==
    LET legs == {CounterDown(e) : e \in Legs(s)} IN
       {With(clear_exit_for_retry(e, s), "ok") : e \in legs}
       \cup {With(e, "retry") : e \in legs}

\* What applying the verdict of a landed swap may do.
BookingEffects(s) ==
    IF round = "removed" THEN {With(Now, "drop")}
    ELSE (IF Kind[s] = "exit" THEN CloseEffects(s) \cup ResidualEffects(s)
                              ELSE FillEffects(s))
         \cup {With(Now, "retry")}

\* Defect: the removal does not look for legs booked on the row.
EntryUnlandedOnly(s) == round = "open" /\ s \in stored

\* RemoveOrphanEntry deletes the row only while nothing but the unlanded entry is on it.
EntryUnlanded(s) ==
    /\ round = "open"
    /\ s \in stored
    /\ stored \cap Exits = {}
    /\ memory \ OnRow = {}
    /\ \A t \in Sigs : bookings[t] = 0

\* What settling a swap as failed or not landed may do.
FailureEffects(s) ==
    {With(Now, "retry")} \cup
    (CASE Kind[s] = "entry" ->
            IF EntryUnlanded(s)
            THEN {[Now EXCEPT !.round = "removed", !.memory = {}, !.stored = {}]}
            ELSE {With(Now, "drop")}
       [] Kind[s] = "add" -> {Cleared(Now, s)}
       [] Kind[s] = "partial" ->
            LET gone == [Now EXCEPT !.memory = @ \ OfKind("partial"), !.partials = 0] IN
            IF round = "removed" THEN {Now}
            ELSE {gone, [gone EXCEPT !.stored = @ \ OfKind("partial")]}
       [] Kind[s] = "exit" -> {clear_exit_for_retry(Now, s)})

\* The state after the effects e of a transition.
Take(e) ==
    /\ round' = e.round
    /\ memory' = e.memory
    /\ stored' = e.stored
    /\ partials' = e.partials

-----------------------------------------------------------------------------
(* The worker.  A cycle re-enqueues what memory names, assigns bounds, settles the   *)
(* queued items by their verdicts, then verifies a batch and settles what it gave up *)
(* on.  Items of different signatures do not meet, and an item that is not due is    *)
(* passed over, so a cycle is a series of passes, each over the items of one         *)
(* signature.                                                                        *)

\* The worker is done with the item at hand; a pass ends when none is left.
HandOff ==
    /\ hand' = Tail(hand)
    /\ IF Len(hand) = 1 THEN wpc' = "idle" /\ sig' = None ELSE UNCHANGED <<wpc, sig>>

\* reenqueue_missing_verifications: entries and exits the rows in memory still name.
ReenqueueMissing ==
    /\ wpc = "idle"
    /\ queue' = [s \in Sigs |->
                    IF s \in memory \cap OnRow THEN Enqueued(queue, s, Item("none"))[s]
                                               ELSE queue[s]]
    /\ accepted' = accepted \cup (memory \cap OnRow)
    /\ UNCHANGED <<chainVars, call, rowVars, noted, abandoned, workVars, outcomeVars,
                   restarts>>

Unbounded(item) == ~item.confirmed /\ item.bound = "none"

\* unbounded_signatures, then submission_expiry_bound.
ReadBound ==
    /\ wpc = "idle"
    /\ snap' = {s \in Sigs : \E k \in DOMAIN queue[s] : Unbounded(queue[s][k])}
    /\ snap' # {}
    /\ sentAtRead' = {s \in Sigs : fate[s] # "unsent"}
    /\ wpc' = "assign"
    /\ UNCHANGED <<chainVars, call, rowVars, noted, queue, abandoned, sig, hand,
                   unresolved, outcomeVars, accepted, restarts>>

\* assign_expiry_bound: only the signatures taken before the read get the bound.
AssignBound ==
    LET bound(s) == IF s \in sentAtRead THEN "covers" ELSE "early" IN
    /\ wpc = "assign"
    /\ queue' = [s \in Sigs |-> [k \in DOMAIN queue[s] |->
                    IF s \in snap /\ Unbounded(queue[s][k])
                    THEN [queue[s][k] EXCEPT !.bound = bound(s)]
                    ELSE queue[s][k]]]
    /\ wpc' = "idle" /\ snap' = {} /\ sentAtRead' = {}
    /\ UNCHANGED <<chainVars, call, rowVars, noted, abandoned, sig, hand, unresolved,
                   outcomeVars, accepted, restarts>>

\* SolanaSettlement::signature_verdicts: what a read may answer.  Without a status, only a
\* height past the bound and no transaction prove the swap absent; a node that does not
\* serve a landed or reverted swap answers the same, though not twice in a row.
Verdicts(s, b) ==
    {"pending"}
    \cup {v \in {"landed"} : fate[s] = "landed"}
    \cup {v \in {"reverted"} : fate[s] = "reverted"}
    \cup {v \in {"notLanded"} :
             /\ b # "none"
             /\ \/ fate[s] = "expired"
                \/ fate[s] = "flying" /\ b = "early"
                \/ fate[s] \in {"landed", "reverted"} /\ ~lagged[s]}

\* One batched read: the items of s with a verdict each.
Judged(s, items) ==
    {[n \in DOMAIN items |-> [item |-> items[n], verdict |-> v[n]]] :
        v \in {w \in [DOMAIN items -> {"pending", "landed", "reverted", "notLanded"}] :
                  \A n \in DOMAIN items : w[n] \in Verdicts(s, items[n].bound)}}

TakeVerdicts(s, items) ==
    /\ hand' \in Judged(s, items)
    /\ lagged' = [lagged EXCEPT ![s] =
          /\ fate[s] \in {"landed", "reverted"}
          /\ \E n \in DOMAIN hand' : hand'[n].verdict = "notLanded"]

\* Defect: an item once deferred is never read again.
awaits_first_settlement(item) == ~item.confirmed /\ item.bound # "none" /\ ~item.seen

awaits_settlement(item) == ~item.confirmed /\ item.bound # "none"

\* The places in q of due items that await settlement, in order.
settlement_candidates(q) ==
    {p \in UNION {[1..n -> DOMAIN q] : n \in 1..Len(q)} :
        /\ \A i, j \in DOMAIN p : i < j => p[i] < p[j]
        /\ \A i \in DOMAIN p : awaits_settlement(q[p[i]])}

\* settle_queued_signatures: the verdicts of the candidates.
ReadVerdicts(s) ==
    /\ wpc = "idle"
    /\ \E due \in settlement_candidates(queue[s]) :
          TakeVerdicts(s, [n \in DOMAIN due |-> queue[s][due[n]]])
    /\ wpc' = "settle" /\ sig' = s
    /\ UNCHANGED <<fate, call, rowVars, noted, queue, abandoned, snap, sentAtRead,
                   unresolved, outcomeVars, accepted, restarts>>

\* entry_attributable_is_dust (external balance): known to be dust only when the entry
\* brought nothing in, or what it brought was sold.
DustReadings(s) ==
    {FALSE} \cup {d \in {TRUE} :
        \/ fate[s] # "landed"
        \/ \E t \in Exits \cup OfKind("partial") : fate[t] = "landed"}

\* Defect: the first read that misses the swap settles it.
ProvedAtOnce(s, item, dust) == Kind[s] = "entry" => dust

\* A not-landed verdict counts on its second read in a row, and for an entry only when
\* nothing of it is held.
Proved(s, item, dust) == item.seen /\ (Kind[s] = "entry" => dust)

\* settle::disposition.
disposition(s, job, dust) ==
    CASE job.item.confirmed \/ job.verdict = "landed" -> "confirm"
      [] ~job.item.confirmed /\ job.verdict = "pending" -> "keep"
      [] ~job.item.confirmed /\ job.verdict = "reverted" -> "apply"
      [] ~job.item.confirmed /\ job.verdict = "notLanded" ->
            IF Proved(s, job.item, dust) THEN "apply" ELSE "defer"

\* mark_swap_confirmed, clear_not_landed, defer_settlement: all change the first queued
\* item of the signature.
First(s, item) == [queue EXCEPT ![s] = IF @ = <<>> THEN @ ELSE <<item>> \o Tail(@)]

\* apply_settlement on the queue q: a refusal a retry cannot change abandons the
\* signature, any other reads it again.
Settle(s, q, item) ==
    \E e \in FailureEffects(s) :
        /\ Take(e)
        /\ failed' = IF e.result = "ok" THEN failed \cup {s} ELSE failed
        /\ abandoned' = IF e.result = "drop" THEN abandoned \cup {s} ELSE abandoned
        /\ queue' = IF e.result = "retry"
                    THEN Enqueued(q, s, [item EXCEPT !.seen = TRUE]) ELSE q

\* The settlement of a queued item; it needs the mint lock, or defers.
SettleQueued ==
    /\ wpc = "settle"
    /\ HandOff
    /\ \E dust \in DustReadings(sig) :
       LET job == Head(hand)
           d == disposition(sig, job, dust)
           front == Head(queue[sig])
           locked == call.pc # "idle"
       IN
       \/ /\ d = "confirm"
          /\ queue' = First(sig, [front EXCEPT !.confirmed = TRUE])
          /\ UNCHANGED <<rowVars, abandoned, failed>>
       \/ /\ d = "keep"
          /\ queue' = IF job.item.seen THEN First(sig, [front EXCEPT !.seen = FALSE])
                                       ELSE queue
          /\ UNCHANGED <<rowVars, abandoned, failed>>
       \/ /\ d = "defer" \/ (d = "apply" /\ locked)
          /\ queue' = First(sig, [front EXCEPT !.seen = TRUE])
          /\ UNCHANGED <<rowVars, abandoned, failed>>
       \/ /\ d = "apply" /\ ~locked
          /\ IF queue[sig] = <<>>
             THEN UNCHANGED <<rowVars, queue, abandoned, failed>>
             ELSE Settle(sig, [queue EXCEPT ![sig] = Tail(@)], job.item)
    /\ UNCHANGED <<chainVars, call, noted, snap, sentAtRead, unresolved, bookings,
                   accepted, restarts>>

\* The orders the queue's sort may leave the items of one signature in.
Orders(q) ==
    {[k \in DOMAIN q |-> q[f[k]]] :
        f \in {g \in [DOMAIN q -> DOMAIN q] : \A i, j \in DOMAIN q : g[i] = g[j] => i = j}}

\* poll_batch: sorted with the due items first, of which a batch leaves the queue; the ones
\* beyond the batch limit stay in their new order.
Poll(s) ==
    /\ wpc = "idle"
    /\ \E order \in Orders(queue[s]), n \in 0..Len(queue[s]) :
          /\ hand' = [k \in 1..n |-> [item |-> order[k], verdict |-> "pending"]]
          /\ queue' = [queue EXCEPT ![s] = SubSeq(order, n + 1, Len(order))]
          /\ IF n = 0 THEN UNCHANGED <<wpc, sig>> ELSE wpc' = "verify" /\ sig' = s
    /\ UNCHANGED <<chainVars, call, rowVars, noted, abandoned, snap, sentAtRead,
                   unresolved, outcomeVars, accepted, restarts>>

\* Defect: past the give-up limits the item is forgotten.
RetryOrForget(item) ==
    \/ queue' = [queue EXCEPT ![sig] = Append(@, item)] /\ UNCHANGED unresolved
    \/ UNCHANGED <<queue, unresolved>>

\* requeue (which checks for no other item) or, past the give-up limits, settlement.
RetryOrGiveUp(item) ==
    \/ queue' = [queue EXCEPT ![sig] = Append(@, item)] /\ UNCHANGED unresolved
    \/ unresolved' = Append(unresolved, item) /\ UNCHANGED queue

\* The batch goes on to what it gave up on once it is through.
NextOfBatch ==
    /\ hand' = Tail(hand)
    /\ wpc' = CASE Len(hand) > 1 -> "verify"
                [] Len(hand) = 1 /\ unresolved' # <<>> -> "giveUp"
                [] OTHER -> "idle"
    /\ sig' = IF wpc' = "idle" THEN None ELSE sig

\* process_verification_item, not verified: the transaction is missing or unreadable.
VerifyLater ==
    /\ wpc = "verify"
    /\ RetryOrGiveUp(Head(hand).item)
    /\ NextOfBatch
    /\ UNCHANGED <<chainVars, call, rowVars, noted, abandoned, snap, sentAtRead,
                   outcomeVars, accepted, restarts>>

\* process_verification_item, verified: the transition is applied.
VerifyLanded ==
    /\ wpc = "verify"
    /\ fate[sig] = "landed"
    /\ \E e \in BookingEffects(sig) :
          /\ Take(e)
          /\ bookings' = IF e.booked THEN [bookings EXCEPT ![sig] = @ + 1] ELSE bookings
          /\ CASE e.result = "ok" ->
                    /\ queue' = [queue EXCEPT ![sig] = IF @ = <<>> THEN @ ELSE Tail(@)]
                    /\ UNCHANGED <<unresolved, abandoned>>
               [] e.result = "retry" ->
                    /\ RetryOrGiveUp([Head(hand).item EXCEPT !.confirmed = TRUE])
                    /\ UNCHANGED abandoned
               [] e.result = "drop" ->
                    /\ abandoned' = abandoned \cup {sig}
                    /\ UNCHANGED <<queue, unresolved>>
    /\ NextOfBatch
    /\ UNCHANGED <<chainVars, call, noted, snap, sentAtRead, failed, accepted, restarts>>

\* settle_unresolved: an unavailable read counts as pending for every item.
ReadUnresolved ==
    /\ wpc = "giveUp"
    /\ TakeVerdicts(sig, unresolved)
    /\ unresolved' = <<>>
    /\ wpc' = "renew"
    /\ UNCHANGED <<fate, call, rowVars, noted, queue, abandoned, sig, snap, sentAtRead,
                   outcomeVars, accepted, restarts>>

RenewUnresolved ==
    /\ wpc = "renew"
    /\ HandOff
    /\ \E dust \in DustReadings(sig) :
       LET job == Head(hand)
           d == disposition(sig, job, dust)
           locked == call.pc # "idle"
       IN
       \/ /\ d \in {"confirm", "keep"}
          /\ queue' = Enqueued(queue, sig, [job.item EXCEPT !.seen = FALSE,
                                               !.confirmed = @ \/ d = "confirm"])
          /\ UNCHANGED <<rowVars, abandoned, failed>>
       \/ /\ d = "defer" \/ (d = "apply" /\ locked)
          /\ queue' = Enqueued(queue, sig, [job.item EXCEPT !.seen = TRUE])
          /\ UNCHANGED <<rowVars, abandoned, failed>>
       \/ /\ d = "apply" /\ ~locked
          /\ Settle(sig, queue, job.item)
    /\ UNCHANGED <<chainVars, call, noted, snap, sentAtRead, unresolved, bookings,
                   accepted, restarts>>

-----------------------------------------------------------------------------
(* The process ends and initialize_positions_system rebuilds memory and the queue *)
(* from the store.                                                                *)

\* What startup reads of the store: a pending set whose read fails is logged and left out,
\* until the next persist of that set overwrites it.
ReadAtStartup == {stored, stored \ OfKind("add"), stored \ OfKind("partial"), stored \cap OnRow}

Restart ==
    /\ restarts < MaxRestarts
    /\ restarts' = restarts + 1
    /\ call' = IdleCall
    /\ \E read \in ReadAtStartup :
          /\ memory' = read
          /\ partials' = Cardinality(read \cap OfKind("partial"))
          /\ queue' = [s \in Sigs |->
                          IF s \notin read THEN <<>>
                          ELSE <<Item(IF s \in OnRow THEN "none" ELSE noted[s])>>]
          /\ accepted' = read
    /\ abandoned' = {}
    /\ wpc' = "idle" /\ snap' = {} /\ sentAtRead' = {}
    /\ sig' = None /\ hand' = <<>> /\ unresolved' = <<>>
    /\ UNCHANGED <<chainVars, round, stored, noted, bookings, failed>>

-----------------------------------------------------------------------------
CallStep ==
    \/ RecordEntry
    \/ RecordPending
    \/ RecordExit
    \/ EnqueueSubmitted

WorkerStep ==
    \/ ReenqueueMissing
    \/ ReadBound
    \/ AssignBound
    \/ \E s \in Sigs : ReadVerdicts(s) \/ Poll(s)
    \/ SettleQueued
    \/ VerifyLater
    \/ VerifyLanded
    \/ ReadUnresolved
    \/ RenewUnresolved

Next ==
    \/ \E s \in Sigs : ChainDecides(s) \/ SendSwap(s)
    \/ CallStep
    \/ ForceClose
    \/ WorkerStep
    \/ Restart

Spec == Init /\ [][Next]_vars

\* Every item of s that awaits settlement is due and read, as its backoff allows.
ReadAllVerdicts(s) ==
    /\ ReadVerdicts(s)
    /\ \A k \in DOMAIN queue[s] : awaits_settlement(queue[s][k]) => k <= Len(hand')

\* A verdict read answers what the chain holds.
Truthful ==
    wpc' \in {"settle", "renew"} /\ wpc # wpc' =>
        \A n \in DOMAIN hand' :
            hand'[n].item.bound # "none" =>
                hand'[n].verdict = CASE fate[sig'] = "landed"   -> "landed"
                                     [] fate[sig'] = "reverted" -> "reverted"
                                     [] fate[sig'] = "expired"  -> "notLanded"
                                     [] OTHER                   -> "pending"

\* The worker's loop and the calls go on, the chain decides within the blockhash's
\* validity, the backoff of every item runs out, a booking or settlement retried for ever
\* succeeds in the end, and the providers come to answer truthfully.
Fairness ==
    /\ \A s \in Sigs : /\ WF_vars(ChainDecides(s))
                       /\ SF_vars(ReadAllVerdicts(s))
                       /\ SF_vars(Poll(s) /\ wpc' = "verify")
    /\ WF_vars(CallStep)
    /\ SF_vars(ReadBound)
    /\ WF_vars(AssignBound)
    /\ WF_vars(SettleQueued) /\ SF_vars(SettleQueued /\ <<failed, abandoned>>' # <<failed, abandoned>>)
    /\ WF_vars(VerifyLater) /\ SF_vars(VerifyLanded /\ <<bookings, abandoned>>' # <<bookings, abandoned>>)
    /\ WF_vars(ReadUnresolved) /\ WF_vars(RenewUnresolved)
    /\ <>[][Truthful]_vars

FairSpec == Spec /\ Fairness

-----------------------------------------------------------------------------
(* Properties. *)

Items == [bound : Bounds, confirmed : BOOLEAN, seen : BOOLEAN]
Jobs == [item : Items, verdict : {"pending", "landed", "reverted", "notLanded"}]
UpTo2(S) == {<<>>} \cup (S \X S) \cup {<<x>> : x \in S}

\* Every variable has its type; a signature never has more than two items in one place,
\* though requeue checks for no other (the call's own enqueue is the only second source).
TypeOK ==
    /\ fate \in [Sigs -> {"unsent", "flying", "landed", "reverted", "expired"}]
    /\ lagged \in [Sigs -> BOOLEAN]
    /\ call \in [pc : {"idle", "record", "enqueue"}, sig : Sigs \cup {None}]
    /\ round \in {"none", "open", "closed", "writtenOff", "removed"}
    /\ memory \subseteq Sigs /\ stored \subseteq Sigs
    /\ noted \in [Sigs -> Bounds]
    /\ partials \in 0..Cardinality(Sigs)
    /\ queue \in [Sigs -> UpTo2(Items)]
    /\ sig \in Sigs \cup {None} /\ hand \in UpTo2(Jobs) /\ unresolved \in UpTo2(Items)
    /\ abandoned \subseteq Sigs
    /\ wpc \in {"idle", "assign", "settle", "verify", "giveUp", "renew"}
    /\ snap \subseteq Sigs /\ sentAtRead \subseteq Sigs
    /\ bookings \in [Sigs -> Nat]
    /\ failed \subseteq Sigs /\ accepted \subseteq Sigs
    /\ restarts \in 0..MaxRestarts

\* A swap is booked at most once, whatever copies of its item the queue holds and however
\* often a failed clear, a renewal or a restart verifies it again.
BookedOnce == \A s \in Sigs : bookings[s] <= 1

\* A pending add or partial exit is settled as failed only when the chain will never
\* execute it: no bound read before its send and no single lagging read decides it, across
\* retries, renewals and restarts.  (An entry or exit may have a second item: see
\* ConfirmedNeverFailed.)
FailedNeverLands ==
    \A s \in failed : s \notin OnRow => fate[s] \in {"reverted", "expired"}

\* The items of s the session still works on.
InWork(s) == queue[s] # <<>> \/ s = sig

\* No swap handed to verification is dropped undecided: until it is booked, settled or
\* abandoned for the session, some item of it is queued or in the worker's hands.
NothingDropped ==
    \A s \in accepted : bookings[s] > 0 \/ s \in failed \/ s \in abandoned \/ InWork(s)

\* A row removed as an unlanded entry never held a fill: the entry it was removed for
\* brought nothing in, and no other swap was booked on it.
RemovedHeldNothing ==
    round = "removed" => \A s \in Sigs : bookings[s] = 0

\* Every swap handed to verification is booked, settled as failed, or abandoned with its
\* reason for the session: no item circles between retries, deferrals and renewals for ever.
EventuallySettled ==
    \A s \in Sigs : s \in accepted ~> (bookings[s] > 0 \/ s \in failed \/ s \in abandoned)

\* What settle::disposition says: a swap the chain already confirmed is never settled as
\* not landed, whatever a later read finds.
ConfirmedNeverFailed ==
    [][\A s \in failed' \ failed :
          \A k \in DOMAIN queue[s] : ~queue[s][k].confirmed]_vars

\* What is_partial_exit_pending says: the counter serializes the partial exits of a mint,
\* so two are never unsettled at once.
PartialsSerialized == Cardinality(memory \cap OfKind("partial")) <= 1

\* What mark_exit_submitted says: memory takes the exit even when the row write fails, so
\* that the exit monitor does not sell again while the sale is unsettled.
OneExitInFlight ==
    Cardinality({s \in Exits : fate[s] # "unsent" /\ bookings[s] = 0
                               /\ s \notin failed \cup abandoned}) <= 1

=============================================================================
