--------------------------- MODULE PositionSlots ---------------------------
(***************************************************************************)
(* The trading slots of the positions system: the global semaphore that    *)
(* enforces max_open_positions, the registry of the positions that hold a  *)
(* slot, and every task that takes a slot or gives one back.               *)
(*                                                                         *)
(* Source: positions/state.rs (semaphore, SLOT_HOLDERS, reconcile),        *)
(* positions/operations/open.rs, positions/operations/force_close.rs,      *)
(* webserver/routes/positions/manage.rs, positions/apply.rs (the slot      *)
(* effects of a booked swap) and positions/ledger/sync.rs.                 *)
(*                                                                         *)
(* A row is the stored position; a task is split where the code awaits     *)
(* between the commit of the row and the slot operation that follows it,   *)
(* so the tasks interleave exactly there.  Prices, amounts and the swap    *)
(* itself are abstracted to the outcome the handler branches on.           *)
(***************************************************************************)
EXTENDS Naturals, FiniteSets

CONSTANTS
    Ids,        \* position ids the store may hand out
    Mints,      \* tokens
    Openers,    \* concurrent calls of open_position_impl
    Requests,   \* concurrent webserver requests on positions
    Worker,     \* the verification worker task
    Ledger,     \* the wallet-history sync task
    Limits,     \* values the user may configure for max_open_positions
    None        \* no id, no lock owner

Tasks == Requests \cup {Worker, Ledger}

ASSUME SlotConstants ==
    /\ IsFiniteSet(Ids) /\ IsFiniteSet(Openers)
    /\ Limits \subseteq Nat /\ Limits # {}
    /\ None \notin Ids \cup Openers \cup Tasks
    /\ Openers \cap Tasks = {}

VARIABLES
    row,        \* row[i]: the stored position i
    available,  \* permits of GLOBAL_POSITION_SEMAPHORE
    holders,    \* SLOT_HOLDERS
    maxOpen,    \* capacity the running process was started with
    excess,     \* history: holders registered at startup beyond the capacity
    opener,     \* opener[o]: where the open call o stands
    task,       \* task[t]: where the request or background task t stands
    lock,       \* POSITION_LOCKS: the owner of each mint's position lock
    pending     \* PENDING_OPEN_SWAPS: mints whose open may still land

vars == <<row, available, holders, maxOpen, excess, opener, task, lock, pending>>
slotVars == <<available, holders>>
procVars == <<maxOpen, excess>>

NoRow == [state |-> "free", mint |-> None, bot |-> TRUE,
          archived |-> FALSE, verified |-> FALSE]
IdleOpener == [pc |-> "idle", mint |-> None, id |-> None]
IdleTask == [pc |-> "idle", id |-> None, open |-> FALSE]

-----------------------------------------------------------------------------
(* Queries over the stored rows. *)

\* is_open_round: the round is not closed, archived or not.
is_open_round(i) == row[i].state = "open"

OpenRounds(m) == {i \in Ids : row[i].mint = m /\ is_open_round(i)}

\* get_capacity_consuming_positions: open, not archived, not wallet-derived.
CapacityConsuming ==
    {i \in Ids : is_open_round(i) /\ ~row[i].archived /\ row[i].bot}

Stored(i) == row[i].state \in {"open", "closed"}

\* Open calls that hold a semaphore permit not yet bound to a position.
InHand == {o \in Openers : opener[o].pc # "idle"}

\* mints_with_pending_swaps, the part an open call contributes: its swap is marked
\* in flight from before the send until the row is in memory.
SwapInFlight(m) == \E o \in Openers : opener[o].mint = m /\ opener[o].pc = "swap"

-----------------------------------------------------------------------------
(* The slot primitives of state.rs, as updates of <<available, holders>>. *)

\* Defect: a release that does not ask the registry.
release_unregistered(i) == available' = available + 1 /\ holders' = holders \ {i}

\* release_position_slot: frees the slot only when the registry still lists it.
release_position_slot(i) ==
    IF i \in holders
    THEN available' = available + 1 /\ holders' = holders \ {i}
    ELSE UNCHANGED slotVars

\* Defect: a reclaim that takes a permit the semaphore does not have.
reclaim_without_permit(i) ==
    IF row[i].bot /\ i \notin holders
    THEN available' = available - 1 /\ holders' = holders \cup {i}
    ELSE UNCHANGED slotVars

\* reclaim_position_slot: a holder keeps its slot, else a free permit is consumed.
reclaim_position_slot(i) ==
    IF row[i].bot /\ i \notin holders /\ available > 0
    THEN available' = available - 1 /\ holders' = holders \cup {i}
    ELSE UNCHANGED slotVars

-----------------------------------------------------------------------------
Init ==
    /\ row = [i \in Ids |-> NoRow]
    /\ maxOpen \in Limits
    /\ available = maxOpen
    /\ holders = {}
    /\ excess = 0
    /\ opener = [o \in Openers |-> IdleOpener]
    /\ task = [t \in Tasks |-> IdleTask]
    /\ lock = [m \in Mints |-> None]
    /\ pending = {}

-----------------------------------------------------------------------------
(* open_position_impl *)

\* The permit is taken before the mint lock and held across the whole call.
AcquirePermit(o, m) ==
    /\ opener[o].pc = "idle"
    /\ available > 0
    /\ available' = available - 1
    /\ opener' = [opener EXCEPT ![o] = [pc |-> "lock", mint |-> m, id |-> None]]
    /\ UNCHANGED <<row, holders, procVars, task, lock, pending>>

\* The early returns under the mint lock: AlreadyOpen, OpenPending, a token in
\* cooldown, no wallet, no quote.  The dropped permit returns to the semaphore and
\* the pending-open guard leaves no mark behind.
RefuseOpen(o) ==
    /\ opener[o].pc = "lock"
    /\ lock[opener[o].mint] = None
    /\ available' = available + 1
    /\ opener' = [opener EXCEPT ![o] = IdleOpener]
    /\ UNCHANGED <<row, holders, procVars, task, lock, pending>>

\* The mint has no open round and no open pending: mark it pending and send the swap.
SendOpen(o) ==
    LET m == opener[o].mint IN
    /\ opener[o].pc = "lock"
    /\ lock[m] = None
    /\ OpenRounds(m) = {}
    /\ m \notin pending
    /\ lock' = [lock EXCEPT ![m] = o]
    /\ pending' = pending \cup {m}
    /\ opener' = [opener EXCEPT ![o].pc = "swap"]
    /\ UNCHANGED <<row, slotVars, procVars, task>>

\* The call ends without a new position: the permit drops, the lock is released.
EndWithoutPosition(o) ==
    /\ available' = available + 1
    /\ lock' = [lock EXCEPT ![opener[o].mint] = None]
    /\ opener' = [opener EXCEPT ![o] = IdleOpener]
    /\ UNCHANGED <<row, holders, procVars, task>>

\* The swap failed.  Resendable proves nothing was bought and clears the mark; an
\* unresolved failure keeps it until its time limit.
SwapFailed(o) ==
    /\ opener[o].pc = "swap"
    /\ pending' \in {pending, pending \ {opener[o].mint}}
    /\ EndWithoutPosition(o)

\* persist_position_with_retry = Opened: the insert and the check that the mint has
\* no open row share one transaction.  add_position then publishes the row in memory
\* and clears the pending mark.
PersistOpened(o, i) ==
    LET m == opener[o].mint IN
    /\ opener[o].pc = "swap"
    /\ row[i].state = "free"
    /\ OpenRounds(m) = {}
    /\ row' = [row EXCEPT ![i] = [NoRow EXCEPT !.state = "open", !.mint = m]]
    /\ opener' = [opener EXCEPT ![o] = [pc |-> "register", mint |-> m, id |-> i]]
    /\ pending' = pending \ {m}
    /\ UNCHANGED <<slotVars, procVars, task, lock>>

\* Added: another row of the mint opened while the swap ran; the buy is booked as an
\* add on it and the pending mark is cleared.
PersistAdded(o) ==
    /\ opener[o].pc = "swap"
    /\ OpenRounds(opener[o].mint) # {}
    /\ pending' = pending \ {opener[o].mint}
    /\ EndWithoutPosition(o)

\* Unsaved: every write attempt failed; the pending mark stands until its limit.
PersistUnsaved(o) ==
    /\ opener[o].pc = "swap"
    /\ pending' = pending
    /\ EndWithoutPosition(o)

\* The permit is forgotten and the position registered as the holder of its slot.
RegisterSlot(o) ==
    LET m == opener[o].mint IN
    /\ opener[o].pc = "register"
    /\ holders' = holders \cup {opener[o].id}
    /\ pending' = pending \ {m}
    /\ lock' = [lock EXCEPT ![m] = None]
    /\ opener' = [opener EXCEPT ![o] = IdleOpener]
    /\ UNCHANGED <<row, available, procVars, task>>

\* A pending-open mark runs out (PENDING_OPEN_TTL_SECS).
PendingOpenExpires(m) ==
    /\ m \in pending
    /\ pending' = pending \ {m}
    /\ UNCHANGED <<row, slotVars, procVars, opener, task, lock>>

-----------------------------------------------------------------------------
(* Requests: archive, unarchive, force close, delete. *)

\* Task t goes on to its next step for row i.
Continue(t, step, i) ==
    task' = [task EXCEPT ![t] = [pc |-> step, id |-> i, open |-> FALSE]]

Finish(t) == task' = [task EXCEPT ![t] = IdleTask]

ArchiveRead(t, i) ==
    /\ t \in Requests /\ task[t].pc = "idle"
    /\ Stored(i) /\ ~row[i].archived
    /\ Continue(t, "archive", i)
    /\ UNCHANGED <<row, slotVars, procVars, opener, lock, pending>>

\* An open row whose entry is unverified refuses, and the write may fail; a row deleted
\* meanwhile matches nothing, and the handler still goes on to its release.
ArchiveWrite(t) ==
    LET i == task[t].id
        refused == row[i].state = "open" /\ ~row[i].verified
    IN
    /\ task[t].pc = "archive"
    /\ \E fails \in {refused, TRUE} :
          /\ row' = IF fails \/ ~Stored(i) THEN row ELSE [row EXCEPT ![i].archived = TRUE]
          /\ IF fails THEN Finish(t) ELSE Continue(t, "release", i)
    /\ UNCHANGED <<slotVars, procVars, opener, lock, pending>>

UnarchiveRead(t, i) ==
    /\ t \in Requests /\ task[t].pc = "idle"
    /\ Stored(i) /\ row[i].archived
    /\ task' = [task EXCEPT ![t] = [pc |-> "unarchive", id |-> i,
                                    open |-> is_open_round(i)]]
    /\ UNCHANGED <<row, slotVars, procVars, opener, lock, pending>>

\* A second active open round of the mint refuses, and the write may fail.  The slot is
\* reclaimed when the snapshot read before the write was open.
UnarchiveWrite(t) ==
    LET i == task[t].id
        refused == /\ is_open_round(i)
                   /\ \E j \in OpenRounds(row[i].mint) \ {i} : ~row[j].archived
    IN
    /\ task[t].pc = "unarchive"
    /\ \E fails \in {refused, TRUE} :
          /\ row' = IF fails \/ ~Stored(i) THEN row ELSE [row EXCEPT ![i].archived = FALSE]
          /\ IF ~fails /\ task[t].open THEN Continue(t, "reclaim", i) ELSE Finish(t)
    /\ UNCHANGED <<slotVars, procVars, opener, lock, pending>>

\* force_close_position takes no mint lock; its booking refuses a closed row.
ForceClose(t, i) ==
    /\ t \in Requests /\ task[t].pc = "idle"
    /\ is_open_round(i)
    /\ row' = [row EXCEPT ![i].state = "closed"]
    /\ Continue(t, "release", i)
    /\ UNCHANGED <<slotVars, procVars, opener, lock, pending>>

\* delete_position holds the mint lock from its read to its release.
DeleteRow(t, i) ==
    /\ t \in Requests /\ task[t].pc = "idle"
    /\ Stored(i)
    /\ lock[row[i].mint] = None
    /\ lock' = [lock EXCEPT ![row[i].mint] = t]
    /\ row' = [row EXCEPT ![i].state = "deleted"]
    /\ pending' = pending \ {row[i].mint}
    /\ Continue(t, "release", i)
    /\ UNCHANGED <<slotVars, procVars, opener>>

\* delete_all_archived frees no slot.
DeleteAllArchived(t) ==
    LET gone == {i \in Ids : Stored(i) /\ row[i].archived} IN
    /\ t \in Requests /\ task[t].pc = "idle"
    /\ gone # {}
    /\ row' = [i \in Ids |-> IF i \in gone THEN [row[i] EXCEPT !.state = "deleted"]
                                           ELSE row[i]]
    /\ pending' = pending \ {row[i].mint : i \in gone}
    /\ UNCHANGED <<slotVars, procVars, opener, task, lock>>

-----------------------------------------------------------------------------
(* The verification worker: the rows it books and the slot step that follows. *)

\* Also on a closed row: the late fill may leave it closed.
EntryVerified(i) ==
    /\ task[Worker].pc = "idle"
    /\ Stored(i) /\ row[i].bot /\ ~row[i].verified
    /\ row' = [row EXCEPT ![i].verified = TRUE]
    /\ UNCHANGED <<slotVars, procVars, opener, task, lock, pending>>

ExitVerified(i) ==
    /\ task[Worker].pc = "idle"
    /\ is_open_round(i)
    /\ row' = [row EXCEPT ![i].state = "closed"]
    /\ Continue(Worker, "release", i)
    /\ UNCHANGED <<slotVars, procVars, opener, lock, pending>>

\* The settlement that proved the entry never landed holds the mint lock until the
\* slot is released.
RemoveOrphanEntry(i) ==
    LET m == row[i].mint IN
    /\ task[Worker].pc = "idle"
    /\ is_open_round(i) /\ row[i].bot /\ ~row[i].verified
    /\ lock[m] = None
    /\ lock' = [lock EXCEPT ![m] = Worker]
    /\ row' = [row EXCEPT ![i].state = "deleted"]
    /\ pending' = pending \ {m}
    /\ Continue(Worker, "release", i)
    /\ UNCHANGED <<slotVars, procVars, opener>>

\* A buy booked on an open archived row brings it back and reclaims its slot: a
\* verified DCA, or the holding a closed row of the mint hands over.
BringBackFromArchive(i) ==
    /\ task[Worker].pc = "idle"
    /\ is_open_round(i) /\ row[i].archived
    /\ row' = [row EXCEPT ![i].archived = FALSE]
    /\ Continue(Worker, "reclaim", i)
    /\ UNCHANGED <<slotVars, procVars, opener, lock, pending>>

\* Defect: the reopen does not look for another open round of the mint.
ReopensBesideAnother(i) ==
    /\ task[Worker].pc = "idle"
    /\ row[i].state = "closed"
    /\ row' = [row EXCEPT ![i].state = "open", ![i].archived = FALSE]
    /\ Continue(Worker, "reclaim", i)
    /\ UNCHANGED <<slotVars, procVars, opener, lock, pending>>

\* A late buy reopens a closed row, archived or not, unless the mint has another
\* open round (the holding is handed over to that one instead).
LateFillReopens(i) ==
    /\ task[Worker].pc = "idle"
    /\ row[i].state = "closed"
    /\ OpenRounds(row[i].mint) = {}
    /\ \E v \in {TRUE, row[i].verified} :
          row' = [row EXCEPT ![i].state = "open", ![i].archived = FALSE,
                             ![i].verified = v]
    /\ Continue(Worker, "reclaim", i)
    /\ UNCHANGED <<slotVars, procVars, opener, lock, pending>>

-----------------------------------------------------------------------------
(* The wallet-history sync. *)

\* Slot step that follows the sync's write of row i; wallet-derived rows have none.
LedgerContinue(step, i) ==
    IF row[i].bot THEN Continue(Ledger, step, i) ELSE UNCHANGED task

LedgerCloses(i) ==
    /\ task[Ledger].pc = "idle"
    /\ is_open_round(i) /\ ~SwapInFlight(row[i].mint)
    /\ row' = [row EXCEPT ![i].state = "closed"]
    /\ LedgerContinue("release", i)
    /\ UNCHANGED <<slotVars, procVars, opener, lock, pending>>

\* A row the user archived stays as the user left it.
LedgerReopens(i) ==
    /\ task[Ledger].pc = "idle"
    /\ row[i].state = "closed" /\ ~row[i].archived
    /\ OpenRounds(row[i].mint) = {} /\ ~SwapInFlight(row[i].mint)
    /\ row' = [row EXCEPT ![i].state = "open"]
    /\ LedgerContinue("reclaim", i)
    /\ UNCHANGED <<slotVars, procVars, opener, lock, pending>>

\* A round of the wallet the bot did not trade is inserted as wallet-derived; adding
\* it to memory clears the mint's pending-open mark.
LedgerInserts(i, m) ==
    /\ task[Ledger].pc = "idle"
    /\ row[i].state = "free"
    /\ OpenRounds(m) = {} /\ ~SwapInFlight(m)
    /\ row' = [row EXCEPT ![i] = [NoRow EXCEPT !.state = "open", !.mint = m,
                                               !.bot = FALSE, !.verified = TRUE]]
    /\ pending' = pending \ {m}
    /\ UNCHANGED <<slotVars, procVars, opener, task, lock>>

-----------------------------------------------------------------------------
(* The slot steps the tasks end with. *)

\* Defect: the mint lock outlives the handler.
ReleaseKeepsLock(t) ==
    /\ task[t].pc = "release"
    /\ release_position_slot(task[t].id)
    /\ Finish(t)
    /\ UNCHANGED <<row, procVars, opener, lock, pending>>

ReleaseStep(t) ==
    /\ task[t].pc = "release"
    /\ release_position_slot(task[t].id)
    /\ lock' = [m \in Mints |-> IF lock[m] = t THEN None ELSE lock[m]]
    /\ Finish(t)
    /\ UNCHANGED <<row, procVars, opener, pending>>

ReclaimStep(t) ==
    /\ task[t].pc = "reclaim"
    /\ reclaim_position_slot(task[t].id)
    /\ Finish(t)
    /\ UNCHANGED <<row, procVars, opener, lock, pending>>

-----------------------------------------------------------------------------
(* The process ends, by a crash or in order, and starts again with the limit the  *)
(* configuration now holds: reconcile_global_position_semaphore consumes one      *)
(* permit per capacity-consuming row while permits last, and                      *)
(* rebuild_position_slot_holders registers every such row.                        *)
(* A start that cannot read the rows, and then knows none, is left out.           *)
Restart ==
    /\ maxOpen' \in Limits
    /\ holders' = CapacityConsuming
    /\ LET n == Cardinality(CapacityConsuming) IN
       IF n > maxOpen'
       THEN available' = 0 /\ excess' = n - maxOpen'
       ELSE available' = maxOpen' - n /\ excess' = 0
    /\ opener' = [o \in Openers |-> IdleOpener]
    /\ task' = [t \in Tasks |-> IdleTask]
    /\ lock' = [m \in Mints |-> None]
    /\ pending' = {}
    /\ UNCHANGED row

-----------------------------------------------------------------------------
OpenStep(o) ==
    \/ RefuseOpen(o)
    \/ SendOpen(o)
    \/ SwapFailed(o)
    \/ \E i \in Ids : PersistOpened(o, i)
    \/ PersistAdded(o)
    \/ PersistUnsaved(o)
    \/ RegisterSlot(o)

RequestStep(t, i) ==
    \/ ArchiveRead(t, i)
    \/ UnarchiveRead(t, i)
    \/ ForceClose(t, i)
    \/ DeleteRow(t, i)

TaskStep(t) ==
    \/ ArchiveWrite(t)
    \/ UnarchiveWrite(t)
    \/ ReleaseStep(t)
    \/ ReclaimStep(t)

WorkerStep(i) ==
    \/ EntryVerified(i)
    \/ ExitVerified(i)
    \/ RemoveOrphanEntry(i)
    \/ BringBackFromArchive(i)
    \/ LateFillReopens(i)

LedgerStep(i) ==
    \/ LedgerCloses(i)
    \/ LedgerReopens(i)
    \/ \E m \in Mints : LedgerInserts(i, m)

Next ==
    \/ \E o \in Openers, m \in Mints : AcquirePermit(o, m)
    \/ \E o \in Openers : OpenStep(o)
    \/ \E m \in Mints : PendingOpenExpires(m)
    \/ \E t \in Requests, i \in Ids : RequestStep(t, i)
    \/ \E t \in Requests : DeleteAllArchived(t)
    \/ \E t \in Tasks : TaskStep(t)
    \/ \E i \in Ids : WorkerStep(i) \/ LedgerStep(i)
    \/ Restart

Spec == Init /\ [][Next]_vars

\* A swap call and a database write end by their timeouts, and tokio's mutex is a
\* fair queue, so a call that waits for the mint lock gets it in the end.
Fairness ==
    /\ \A o \in Openers : SF_vars(OpenStep(o))
    /\ \A t \in Tasks : WF_vars(TaskStep(t))

FairSpec == Spec /\ Fairness

-----------------------------------------------------------------------------
(* Properties. *)

Rows == [state : {"free", "open", "closed", "deleted"}, mint : Mints \cup {None},
         bot : BOOLEAN, archived : BOOLEAN, verified : BOOLEAN]

OpenerStates == [pc : {"idle", "lock", "swap", "register"},
                 mint : Mints \cup {None}, id : Ids \cup {None}]

TaskStates == [pc : {"idle", "archive", "unarchive", "release", "reclaim"},
               id : Ids \cup {None}, open : BOOLEAN]

\* Every variable has its type; the semaphore never goes below zero.
TypeOK ==
    /\ row \in [Ids -> Rows]
    /\ available \in Nat
    /\ holders \subseteq Ids
    /\ maxOpen \in Limits
    /\ excess \in Nat
    /\ opener \in [Openers -> OpenerStates]
    /\ task \in [Tasks -> TaskStates]
    /\ lock \in [Mints -> Openers \cup Tasks \cup {None}]
    /\ pending \subseteq Mints

\* No slot is handed out twice: the permits free in the semaphore, those in the hand of
\* an open call and the registered holders never add up to more than the limit, however
\* many terminal paths run for one position (release_position_slot is idempotent).  The
\* only slots beyond the limit are the ones the last startup registered without a
\* permit.  The sum can fall below: a position that is closed and reopened before its
\* open call registers it takes a second permit for its one entry in the registry.
SlotAccounting ==
    available + Cardinality(InHand) + Cardinality(holders) <= maxOpen + excess

\* A mint has at most one open round, archived or not, while opens, late fills and the
\* wallet-history sync race to create it (the open-round index and the re-check of
\* persist_position_with_retry).
OneOpenRound ==
    \A i, j \in Ids :
        is_open_round(i) /\ is_open_round(j) /\ row[i].mint = row[j].mint => i = j

\* Every open call and every request or background task that started comes to an end:
\* no call waits for ever on a mint lock nobody releases.
OperationsEnd ==
    /\ \A o \in Openers : (opener[o].pc # "idle") ~> (opener[o].pc = "idle")
    /\ \A t \in Tasks : (task[t].pc # "idle") ~> (task[t].pc = "idle")

\* What worker.rs says of the startup: the registry matches the positions that
\* actually hold a slot, so a release never hands out a slot nobody held, and the
\* semaphore never offers more slots than max_open_positions.
NoSurplusSlot == available <= maxOpen

\* What open.rs says of the slot: every terminal path releases it, so with no call in
\* progress only open, active positions of the bot hold one.
SlotHolderIsActive ==
    (InHand = {} /\ \A t \in Tasks : task[t].pc = "idle") => holders \subseteq CapacityConsuming

=============================================================================
