---------------------------- MODULE PartialExits ----------------------------
(***************************************************************************)
(* Partial exits with their take-profit steps, and the holds that stand    *)
(* for sales nothing is known of                                           *)
(* (positions/operations/partial_close.rs, positions/state_pending.rs,     *)
(* positions/swap_hold.rs, positions/swap_hold/release.rs, and what        *)
(* positions/apply.rs and positions/worker.rs do with them).               *)
(*                                                                         *)
(* A step of the ladder is taken on the row before its sale is sent, and   *)
(* returned only when the sale provably sold nothing.  Between the two the *)
(* mint is kept from selling again by a counter in memory, by the pending  *)
(* details of a signed sale, or by a hold.  Details and holds are stored   *)
(* as whole sets: a persist copies the set in memory, then writes the      *)
(* copy, with no lock over the two, so writes of different positions may   *)
(* overtake each other, and each write may fail.  So may each read of them *)
(* at startup, which then goes on with an empty set in memory.             *)
(*                                                                         *)
(* Every position has a mint of its own.  A sale is <<p, i>>, the i-th of  *)
(* position p.  What the ladder does to sell is SwapSubmission; what a     *)
(* verdict is worth is SwapVerification: here a sale is settled as unsold  *)
(* only when it is dead.                                                   *)
(***************************************************************************)
EXTENDS Naturals, Sequences, FiniteSets

CONSTANTS
    Positions,
    Steps,         \* take-profit steps of the ladder
    MaxSales,      \* bound: sales of all positions together
    MaxRestarts,   \* bound: restarts explored
    StoreFails     \* whether a write to the store, or a read of it at startup, may fail

ASSUME PartialExitConstants ==
    /\ IsFiniteSet(Positions)
    /\ Steps \in Nat /\ MaxSales \in Nat /\ MaxRestarts \in Nat
    /\ StoreFails \in BOOLEAN

VARIABLES
    sales,      \* sales[p]: what became of every sale, and the step it takes (0: none)
    level,      \* level[p]: take_profit_level of the row
    marks,      \* PENDING_PARTIAL_EXITS, the counter of every mint
    details,    \* PENDING_PARTIAL_EXIT_DETAILS
    holds,      \* SWAP_HOLDS
    stored,     \* the two sets as the store has them
    queue,      \* sales with a verification item
    call,       \* call[p]: the partial_close_position of the mint, with its lock
    worker,     \* where the verification worker stands
    restarts,
    forgotten,  \* history: positions with a sale in flight no restart found recorded
    superseded  \* history: positions a restart gave a record whose step a later sale had taken

durable == <<sales, level, stored>>
memory == <<marks, details, holds, queue>>
history == <<restarts, forgotten, superseded>>
vars == <<durable, memory, call, worker, history>>

Refs == Positions \X (1 .. MaxSales)
Sale(r) == sales[r[1]][r[2]]
Sent == {r \in Refs : r[2] <= Len(sales[r[1]])}
Last(p) == <<p, Len(sales[p])>>
Of(p, set) == {r \in set : r[1] = p}

IdleCall == [pc |-> "idle", snap |-> {}]
IdleWorker == [pc |-> "idle", sale |-> <<>>, snap |-> {}]

TypeOK ==
    /\ sales \in [Positions -> Seq([fate : {"unsent", "flying", "landed", "dead"},
                                    step : 0 .. Steps])]
    /\ level \in [Positions -> 0 .. Steps]
    /\ marks \in [Positions -> 0 .. 1]
    /\ details \subseteq Sent /\ holds \subseteq Sent /\ queue \subseteq Sent
    /\ stored \in [details : SUBSET Sent, holds : SUBSET Sent]
    /\ call \in [Positions -> [pc : {"idle", "send", "ladder", "persist", "persist_hold"},
                              snap : SUBSET Sent]]
    /\ worker \in [pc : {"idle", "booked", "failed", "released"}, sale : Sent \cup {<<>>},
                   snap : SUBSET Sent]
    /\ worker.pc # "idle" => worker.sale \in Sent
    /\ restarts \in 0 .. MaxRestarts
    /\ forgotten \subseteq Positions /\ superseded \subseteq Positions

Init ==
    /\ sales = [p \in Positions |-> <<>>]
    /\ level = [p \in Positions |-> 0]
    /\ marks = [p \in Positions |-> 0]
    /\ details = {} /\ holds = {} /\ queue = {}
    /\ stored = [details |-> {}, holds |-> {}]
    /\ call = [p \in Positions |-> IdleCall]
    /\ worker = IdleWorker
    /\ restarts = 0 /\ forgotten = {} /\ superseded = {}

----------------------------------------------------------------------------
(* The registries *)

\* acquire_position_lock: one call or one settlement of a mint at a time.
LockFree(p) ==
    /\ call[p].pc = "idle"
    /\ ~ (worker.pc \in {"failed", "released"} /\ worker.sale[1] = p)

\* clear_partial_exit_pending
Lowered(p) == [marks EXCEPT ![p] = IF @ > 0 THEN @ - 1 ELSE 0]

\* Defect of is_partial_exit_pending: a held sale does not count.
only_counted_pending(p) == marks[p] > 0

\* A partial exit of the mint is in flight or held.
is_partial_exit_pending(p) == marks[p] > 0 \/ Of(p, holds) # {}

\* persist_pending_partial_exits and persist_swap_holds, once the copy is taken.
Persists(key, snap) ==
    \/ stored' = [stored EXCEPT ![key] = snap]
    \/ StoreFails /\ stored' = stored

\* TakeProfitLevelReleased: the step goes back only while it is the last one taken; a
\* failed write leaves it taken.
ReleaseStep(p, step) ==
    \/ step > 0 /\ level[p] = step /\ level' = [level EXCEPT ![p] = step - 1]
    \/ (StoreFails \/ step = 0 \/ level[p] # step) /\ level' = level

----------------------------------------------------------------------------
(* The call *)

At(p, pc, snap) == call' = [call EXCEPT ![p] = [pc |-> pc, snap |-> snap]]

\* Defect of StartSale: only the lock keeps sales apart.
StartSaleUnchecked(p) ==
    /\ LockFree(p)
    /\ Cardinality(Sent) < MaxSales
    /\ \E step \in {0, level[p] + 1} :
          /\ step <= Steps
          /\ level' = IF step = 0 THEN level ELSE [level EXCEPT ![p] = step]
          /\ sales' = [sales EXCEPT ![p] = Append(@, [fate |-> "unsent", step |-> step])]
    /\ marks' = [marks EXCEPT ![p] = @ + 1]
    /\ At(p, "send", {})
    /\ UNCHANGED <<stored, details, holds, queue, worker, history>>

\* The checks, the reservation of the next step when the sale takes one, and the mark.
StartSale(p) ==
    /\ LockFree(p)
    /\ ~ is_partial_exit_pending(p)
    /\ Cardinality(Sent) < MaxSales
    /\ \E step \in {0, level[p] + 1} :
          /\ step <= Steps
          /\ level' = IF step = 0 THEN level ELSE [level EXCEPT ![p] = step]
          /\ sales' = [sales EXCEPT ![p] = Append(@, [fate |-> "unsent", step |-> step])]
    /\ marks' = [marks EXCEPT ![p] = @ + 1]
    /\ At(p, "send", {})
    /\ UNCHANGED <<stored, details, holds, queue, worker, history>>

LadderSends(p) ==
    /\ call[p].pc = "send"
    /\ sales' = [sales EXCEPT ![p][Len(sales[p])].fate = "flying"]
    /\ At(p, "ladder", {})
    /\ UNCHANGED <<level, stored, memory, worker, history>>

\* ExitSwap::Failed: the step is returned, then the mark cleared.
LadderFails(p) ==
    /\ \/ call[p].pc = "send"
       \/ call[p].pc = "ladder" /\ Sale(Last(p)).fate = "dead"
    /\ sales' = [sales EXCEPT ![p][Len(sales[p])].fate = "dead"]
    /\ ReleaseStep(p, Sale(Last(p)).step)
    /\ marks' = Lowered(p)
    /\ At(p, "idle", {})
    /\ UNCHANGED <<stored, details, holds, queue, worker, history>>

\* ExitSwap::Executed and Submitted: register_pending_partial_exit, up to its copy.
LadderSigned(p) ==
    /\ call[p].pc = "ladder"
    /\ details' = details \cup {Last(p)}
    /\ At(p, "persist", details')
    /\ UNCHANGED <<durable, marks, holds, queue, worker, history>>

\* The write of the copy, and the item for verification.
EnqueueSale(p) ==
    /\ call[p].pc = "persist"
    /\ Persists("details", call[p].snap)
    /\ queue' = queue \cup {Last(p)}
    /\ At(p, "idle", {})
    /\ UNCHANGED <<sales, level, marks, details, holds, worker, history>>

\* ExitSwap::Unresolved: hold_swap, up to its copy.
LadderUnresolved(p) ==
    /\ call[p].pc = "ladder"
    /\ holds' = holds \cup {Last(p)}
    /\ At(p, "persist_hold", holds')
    /\ UNCHANGED <<durable, marks, details, queue, worker, history>>

\* The write of the copy; the mark goes only now that the hold stands for the sale.
HoldSale(p) ==
    /\ call[p].pc = "persist_hold"
    /\ Persists("holds", call[p].snap)
    /\ marks' = Lowered(p)
    /\ At(p, "idle", {})
    /\ UNCHANGED <<sales, level, details, holds, queue, worker, history>>

----------------------------------------------------------------------------
(* The worker, one task *)

Works(pc, r, snap) == worker' = [pc |-> pc, sale |-> r, snap |-> snap]

\* A signed sale that did not land, under the mint's lock: its step first, then the
\* details of the mint and its counter (clear_pending_partial_exits_for_mint).
SettleUnsold(r) ==
    LET p == r[1] IN
    /\ worker.pc = "idle" /\ r \in queue
    /\ Sale(r).fate = "dead" /\ LockFree(p)
    /\ ReleaseStep(p, Sale(r).step)
    /\ details' = details \ Of(p, details)
    /\ marks' = [marks EXCEPT ![p] = 0]
    /\ queue' = queue \ {r}
    /\ IF details' = details THEN UNCHANGED worker ELSE Works("failed", r, details')
    /\ UNCHANGED <<sales, stored, holds, call, history>>

\* A failed write of it is only logged.
PersistUnsold ==
    /\ worker.pc = "failed"
    /\ Persists("details", worker.snap)
    /\ worker' = IdleWorker
    /\ UNCHANGED <<sales, level, memory, call, history>>

\* PartialExitVerified, with no lock: the sale is booked, once, and its details cleared.
BookSold(r) ==
    /\ worker.pc = "idle" /\ r \in queue
    /\ Sale(r).fate = "landed"
    /\ details' = details \ {r}
    /\ \/ /\ r \in details
          /\ Works("booked", r, details')
          /\ UNCHANGED <<marks, queue>>
       \/ /\ r \notin details
          /\ marks' = Lowered(r[1]) /\ queue' = queue \ {r}
          /\ UNCHANGED worker
    /\ UNCHANGED <<durable, holds, call, history>>

\* Defect of PersistBooked: the counter stays when the details go.
PersistBookedCounted(ok) ==
    /\ worker.pc = "booked"
    /\ \/ /\ ok
          /\ stored' = [stored EXCEPT !.details = worker.snap]
          /\ queue' = queue \ {worker.sale}
          /\ UNCHANGED details
       \/ /\ ~ok /\ StoreFails
          /\ details' = details \cup {worker.sale}
          /\ UNCHANGED <<stored, queue>>
    /\ worker' = IdleWorker
    /\ UNCHANGED <<sales, level, marks, holds, call, history>>

\* The counter falls only with the details: after a failed write they are put back, and
\* the item is verified again.
PersistBooked(ok) ==
    /\ worker.pc = "booked"
    /\ \/ /\ ok
          /\ stored' = [stored EXCEPT !.details = worker.snap]
          /\ marks' = Lowered(worker.sale[1])
          /\ queue' = queue \ {worker.sale}
          /\ UNCHANGED details
       \/ /\ ~ok /\ StoreFails
          /\ details' = details \cup {worker.sale}
          /\ UNCHANGED <<stored, marks, queue>>
    /\ worker' = IdleWorker
    /\ UNCHANGED <<sales, level, holds, call, history>>

\* Defect of SettleHold: a hold without proof returns its step as well.
SettleHoldReleasing(r) ==
    LET p == r[1] IN
    /\ worker.pc = "idle" /\ r \in holds
    /\ Sale(r).fate # "flying" /\ LockFree(p)
    /\ ReleaseStep(p, Sale(r).step)
    /\ holds' = holds \ {r}
    /\ Works("released", r, holds')
    /\ UNCHANGED <<sales, stored, marks, details, queue, call, history>>

\* settle_swap_holds_on: the settled holding proves the sale unsold, which returns its
\* step, or sold, or proves nothing; in every case the hold leaves.  Past its bound, and
\* past UNPROVEN_HOLD_LIMIT, the sale is decided.
SettleHold(r) ==
    LET p == r[1] IN
    /\ worker.pc = "idle" /\ r \in holds
    /\ Sale(r).fate # "flying" /\ LockFree(p)
    /\ \/ Sale(r).fate = "dead" /\ ReleaseStep(p, Sale(r).step)
       \/ UNCHANGED level
    /\ holds' = holds \ {r}
    /\ Works("released", r, holds')
    /\ UNCHANGED <<sales, stored, marks, details, queue, call, history>>

PersistReleased ==
    /\ worker.pc = "released"
    /\ Persists("holds", worker.snap)
    /\ worker' = IdleWorker
    /\ UNCHANGED <<sales, level, memory, call, history>>

----------------------------------------------------------------------------
(* The chain, external, and the process *)

ChainDecides(r) ==
    /\ r \in Sent /\ Sale(r).fate = "flying"
    /\ \E f \in {"landed", "dead"} : sales' = [sales EXCEPT ![r[1]][r[2]].fate = f]
    /\ UNCHANGED <<level, stored, memory, call, worker, history>>

\* A later sale of the position took the same step, and may have sold it.
Retaken(r) ==
    \E i \in r[2] + 1 .. Len(sales[r[1]]) :
        /\ Sale(<<r[1], i>>).step = Sale(r).step
        /\ Sale(<<r[1], i>>).fate # "dead"

\* What startup makes of a stored set: a failed read is only logged.
Loaded(set) == {set} \cup (IF StoreFails THEN {{}} ELSE {})

\* The process ends anywhere, and the next one rehydrates the sets it can read.
Restart ==
    /\ restarts < MaxRestarts
    /\ restarts' = restarts + 1
    /\ sales' = [p \in Positions |-> [i \in DOMAIN sales[p] |->
                    IF sales[p][i].fate = "unsent" THEN [sales[p][i] EXCEPT !.fate = "dead"]
                    ELSE sales[p][i]]]
    /\ \E read \in Loaded(stored.details), held \in Loaded(stored.holds) :
          /\ details' = read /\ queue' = read /\ holds' = held
          /\ marks' = [p \in Positions |-> Cardinality(Of(p, read))]
          /\ LET kept == read \cup held IN
             /\ forgotten' = forgotten \cup
                   {p \in Positions : \E r \in Of(p, Sent) : Sale(r).fate = "flying" /\ r \notin kept}
             /\ superseded' = superseded \cup
                   {p \in Positions : \E r \in Of(p, kept) : Sale(r).step > 0 /\ Retaken(r)}
    /\ call' = [p \in Positions |-> IdleCall]
    /\ worker' = IdleWorker
    /\ UNCHANGED <<level, stored>>

CallStep(p) ==
    LadderSends(p) \/ LadderFails(p) \/ LadderSigned(p) \/ EnqueueSale(p)
    \/ LadderUnresolved(p) \/ HoldSale(p)

WorkerStep ==
    \/ \E r \in Refs : SettleUnsold(r) \/ BookSold(r) \/ SettleHold(r)
    \/ PersistUnsold \/ PersistReleased \/ \E ok \in BOOLEAN : PersistBooked(ok)

Next ==
    \/ \E p \in Positions : StartSale(p) \/ CallStep(p)
    \/ WorkerStep
    \/ \E r \in Refs : ChainDecides(r)
    \/ Restart

Spec == Init /\ [][Next]_vars

----------------------------------------------------------------------------
(* Properties *)

\* partial_close.rs, is_partial_exit_pending: a mint never has two sales in flight, across
\* calls, bookings, holds, failed writes and restarts, unless a restart found no record of
\* one in flight: none was stored, or it was not read.
SalesSerialized ==
    \A p \in Positions \ forgotten :
        Cardinality({r \in Of(p, Sent) : Sale(r).fate = "flying"}) <= 1

AtMostOnce(p) ==
    \A step \in 1 .. Steps :
        Cardinality({r \in Of(p, Sent) :
                        Sale(r).step = step /\ Sale(r).fate \in {"flying", "landed"}}) <= 1

\* reserve_take_profit_step, release_take_profit_step: a step is sold at most once, unless a
\* restart is given a stale record of it after a later sale has taken the step.
StepSoldOnce == \A p \in Positions \ superseded : AtMostOnce(p)

\* partial_close.rs: "The pending details make the partial exit durable across a restart":
\* what is queued for verification and still undecided is in the store.
PendingDurable ==
    \A r \in queue : Sale(r).fate = "flying" => r \in stored.details

\* PartialExitVerified, PartialExitFailed: "or the mint stays flagged ... and every later exit
\* for it is refused".  A mint is kept from selling only by what will free it: a call, a
\* sale in verification or a hold.  The counter leaks nowhere.
BlockedForCause ==
    \A p \in Positions :
        is_partial_exit_pending(p) =>
            call[p].pc # "idle" \/ Of(p, queue) # {} \/ Of(p, holds) # {}
=============================================================================
