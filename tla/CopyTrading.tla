---------------------------- MODULE CopyTrading ----------------------------
(* Copy tasks (trader/copy/): each follows one wallet and copies its buys,  *)
(* a live task into real positions, a paper task into the shared paper      *)
(* book.  Requests create, update (pause, resume) and delete tasks; the     *)
(* copy service receives the watched wallets' trades, and between them      *)
(* reconciles the tasks with their watch sources; a queue per task runs its *)
(* paper work one job at a time.  Every step is what happens between two    *)
(* awaits.  A task here mirrors the exits of its wallet (ExitMode::Mirror   *)
(* or Hybrid), keeps its mode, and is the only source of its watch target;  *)
(* a copy has size one.                                                     *)
EXTENDS Naturals, FiniteSets, Sequences

CONSTANTS
    Tasks,          \* copy tasks, each id used once
    LiveTasks,      \* the tasks armed for live; the others are in paper
    Existing,       \* the tasks stored at the start, paused by the user
    Requests,       \* concurrent requests
    Service,        \* the copy service
    None,
    MaxActive,      \* copy_trading.max_active_tasks
    Budget,         \* total_budget_native of a task, in copies
    QueueCapacity,  \* copy_trading.paper_queue_capacity
    MaxRequests,    \* bound: requests made
    MaxTrades,      \* bound: buys of the followed wallets
    MaxFaults       \* bound: dropped requests and restarts

ASSUME CopyConstants ==
    /\ LiveTasks \subseteq Existing /\ Existing \subseteq Tasks
    /\ IsFiniteSet(Tasks) /\ Service \notin Requests
    /\ None \notin Requests \cup {Service} \cup Tasks /\ "buy" \notin Requests \cup {None}
    /\ {MaxActive, Budget, QueueCapacity, MaxRequests, MaxTrades, MaxFaults} \subseteq Nat

VARIABLES
    task,      \* rows of copy_tasks
    fresh,     \* tasks written within SOURCE_SETTLE_SECS
    source,    \* a task's source in watch_targets: off, on, or stopped by the watcher
    slot,      \* holder of ACTIVE_SLOT
    actor,     \* requests and the service: what each is doing
    fifo,      \* paper jobs queued for a task: "buy", or the request that deletes it
    running,   \* paper job running for a task
    mail,      \* tasks whose wallet's buy is in the activity channel
    bought,    \* copies bought for a task
    open,      \* of those, still open
    recorded,  \* copy_spend of a live task
    revived,   \* history: enabled by a write that held no slot: of an older row, or a late one
    torn,      \* history: watch left behind by a failed call or a stopped one
    undone,    \* history: tasks whose create failed after they had copied a buy
    escaped,   \* history: live copies bought without a record of their spend
    requests, trades, faults

rowVars == <<task, fresh, revived>>
copyVars == <<bought, open, recorded, escaped>>
bounds == <<requests, trades, faults>>
vars == <<task, fresh, source, slot, actor, fifo, running, mail, bought, open, recorded,
          revived, torn, undone, escaped, requests, trades, faults>>

Actors == Requests \cup {Service}
Reasons == {"none", "user", "guard", "watch"}
Row == [st : {"none", "stored", "gone"}, enabled : BOOLEAN, reason : Reasons]
NoRow == [st |-> "none", enabled |-> FALSE, reason |-> "none"]
Gone == [st |-> "gone", enabled |-> FALSE, reason |-> "none"]
Paused(why) == [st |-> "stored", enabled |-> FALSE, reason |-> why]
Enabled == [st |-> "stored", enabled |-> TRUE, reason |-> "none"]

Idle == [pc |-> "idle", op |-> "none", t |-> None, orig |-> NoRow, row |-> NoRow]
NoJob == [pc |-> "idle", who |-> None]

Stored(t) == task[t].st = "stored"
Active == {t \in Tasks : task[t].enabled}

Init ==
    /\ task = [t \in Tasks |-> IF t \in Existing THEN Paused("user") ELSE NoRow]
    /\ fresh = {} /\ slot = None /\ mail = {}
    /\ source = [t \in Tasks |-> "off"]
    /\ actor = [a \in Actors |-> Idle]
    /\ fifo = [t \in Tasks |-> <<>>] /\ running = [t \in Tasks |-> NoJob]
    /\ bought = [t \in Tasks |-> 0] /\ open = bought /\ recorded = bought /\ escaped = bought
    /\ revived = {} /\ torn = {} /\ undone = {}
    /\ requests = 0 /\ trades = 0 /\ faults = 0

At(a, pc) == actor[a].pc = pc
Goto(a, pc) == actor' = [actor EXCEPT ![a].pc = pc]
Done(a) == actor' = [actor EXCEPT ![a] = Idle]

\* A write of the row of t.  Only a write that turns a paused or new task on counted
\* the active tasks, under ACTIVE_SLOT.
Store(t, row, counted) ==
    /\ task' = [task EXCEPT ![t] = row]
    /\ fresh' = fresh \cup {t}
    /\ revived' = IF ~ row.enabled THEN revived \ {t}
                  ELSE IF task[t].enabled \/ counted THEN revived ELSE revived \cup {t}

Erase(t) ==
    /\ task' = [task EXCEPT ![t] = Gone]
    /\ fresh' = fresh \ {t} /\ revived' = revived \ {t}

\* remove_copy_source.
Off(t) == source' = [source EXCEPT ![t] = "off"] /\ torn' = torn \ {t}

\* The source of a removed task is left as it is.
Left(t) == IF Stored(t) THEN torn ELSE torn \cup {t}

FreeSlot(a) == slot' = IF slot = a THEN None ELSE slot

\* Where a dropped request leaves behind a blocking write it has handed over.
LeftBehind(pc) ==
    CASE pc = "write" -> "late_write"
      [] pc = "attach" -> "late_attach"
      [] pc \in {"unwatch", "detach"} -> "late_detach"
      [] OTHER -> "idle"
LatePcs == {"late_write", "late_attach", "late_detach"}

-----------------------------------------------------------------------------
(* Requests: create_task, update_task and delete_task.                      *)

Begin(r, op, t, pc, row) ==
    /\ At(r, "idle") /\ requests < MaxRequests
    /\ requests' = requests + 1
    /\ actor' = [actor EXCEPT ![r] = [pc |-> pc, op |-> op, t |-> t, orig |-> task[t], row |-> row]]
    /\ UNCHANGED <<rowVars, source, slot, fifo, running, mail, copyVars, torn, undone, trades, faults>>

create_task(r, t) ==
    /\ task[t].st = "none" /\ \A s \in Requests : actor[s].t # t
    /\ \/ Begin(r, "create", t, "slot", Enabled)
       \/ Begin(r, "create", t, "write", Paused("none"))

\* The row is read here and written by a later step: nothing checks that it is still that row.
update_task(r, t, enable) ==
    LET row == IF enable THEN Enabled
               ELSE IF task[t].enabled THEN Paused("user") ELSE Paused(task[t].reason)
    IN  /\ Stored(t)
        /\ Begin(r, "update", t, IF enable /\ ~ task[t].enabled THEN "slot" ELSE "write", row)

\* While deleting t moves no money.
deletable_task(t) == Stored(t) /\ (t \in LiveTasks => ~ task[t].enabled /\ open[t] = 0)

delete_task(r, t) == deletable_task(t) /\ Begin(r, "delete", t, "unwatch", task[t])

TakeSlot(r) ==
    /\ At(r, "slot") /\ slot = None
    /\ slot' = r /\ Goto(r, "count")
    /\ UNCHANGED <<rowVars, source, fifo, running, mail, copyVars, torn, undone, bounds>>

\* Defect of ensure_active_slot: the lock is released with the count, before the write.
count_unlocked(r) ==
    /\ At(r, "count")
    /\ IF Cardinality(Active) >= MaxActive THEN Done(r) ELSE Goto(r, "write")
    /\ FreeSlot(r)
    /\ UNCHANGED <<rowVars, source, fifo, running, mail, copyVars, torn, undone, bounds>>

\* The lock is held until the row is written.
ensure_active_slot(r) ==
    /\ At(r, "count")
    /\ IF Cardinality(Active) >= MaxActive THEN Done(r) /\ FreeSlot(r)
       ELSE Goto(r, "write") /\ UNCHANGED slot
    /\ UNCHANGED <<rowVars, source, fifo, running, mail, copyVars, torn, undone, bounds>>

\* The insert of a new row, or the write of an update unless the row is gone.
WriteRow(r) ==
    LET a == actor[r]
    IN  /\ At(r, "write")
        /\ \/ /\ IF a.op = "create" THEN task[a.t].st = "none" ELSE Stored(a.t)
              /\ Store(a.t, a.row, ~ a.orig.enabled)
              /\ IF a.op = "update" THEN Goto(r, "sync")
                 ELSE IF a.row.enabled THEN Goto(r, "watch") ELSE Done(r)
           \/ Done(r) /\ UNCHANGED rowVars
        /\ FreeSlot(r)
        /\ UNCHANGED <<source, fifo, running, mail, copyVars, torn, undone, bounds>>

\* A new task attaches its source without a second look at its row; a failure removes
\* the row, if that works.
WatchNew(r) ==
    LET t == actor[r].t
    IN  /\ At(r, "watch")
        /\ \/ /\ source[t] # "stopped" /\ source' = [source EXCEPT ![t] = "on"]
              /\ torn' = Left(t)
              /\ UNCHANGED <<rowVars, undone>>
           \/ /\ Stored(t) /\ Erase(t)
              /\ torn' = IF source[t] # "off" THEN torn \cup {t} ELSE torn
              /\ undone' = IF open[t] > 0 \/ running[t].who = "buy" THEN undone \cup {t} ELSE undone
              /\ UNCHANGED source
           \/ UNCHANGED <<rowVars, source, torn, undone>>
        /\ Done(r)
        /\ UNCHANGED <<slot, fifo, running, mail, copyVars, bounds>>

\* sync_open_position_management: its failure writes the row read at the start back.
SyncPositions(r) ==
    /\ At(r, "positions")
    /\ \/ Done(r)
       \/ open[actor[r].t] > 0 /\ Goto(r, "undo")
    /\ UNCHANGED <<rowVars, source, slot, fifo, running, mail, copyVars, torn, undone, bounds>>

RollBack(r) ==
    LET a == actor[r]
    IN  /\ At(r, "undo")
        /\ \/ Stored(a.t) /\ Store(a.t, a.orig, FALSE)
           \/ UNCHANGED rowVars
        /\ Done(r)
        /\ UNCHANGED <<source, slot, fifo, running, mail, copyVars, torn, undone, bounds>>

\* The first detach of a delete; when it fails nothing was done.
Unwatch(r) ==
    /\ At(r, "unwatch")
    /\ \/ Off(actor[r].t) /\ Goto(r, "enqueue")
       \/ UNCHANGED <<source, torn>> /\ Done(r)
    /\ UNCHANGED <<rowVars, slot, fifo, running, mail, copyVars, undone, bounds>>

DeleteQueued(t) ==
    running[t].who \in Requests \/ \E i \in DOMAIN fifo[t] : fifo[t][i] \in Requests

\* Defect of EnqueueDelete: a second removal of the same task is accepted.
enqueue_again(r) ==
    LET t == actor[r].t
    IN  /\ At(r, "enqueue")
        /\ IF Len(fifo[t]) >= QueueCapacity
           THEN Goto(r, "restore") /\ UNCHANGED fifo
           ELSE Goto(r, "wait") /\ fifo' = [fifo EXCEPT ![t] = Append(@, r)]
        /\ UNCHANGED <<rowVars, source, slot, running, mail, copyVars, torn, undone, bounds>>

EnqueueDelete(r) ==
    LET t == actor[r].t
    IN  /\ At(r, "enqueue")
        /\ IF DeleteQueued(t) \/ Len(fifo[t]) >= QueueCapacity
           THEN Goto(r, "restore") /\ UNCHANGED fifo
           ELSE Goto(r, "wait") /\ fifo' = [fifo EXCEPT ![t] = Append(@, r)]
        /\ UNCHANGED <<rowVars, source, slot, running, mail, copyVars, torn, undone, bounds>>

\* The row is gone: whatever attached the source meanwhile is detached.
FinalDetach(r) ==
    LET t == actor[r].t
    IN  /\ At(r, "final")
        /\ \/ Off(t)
           \/ torn' = Left(t) /\ UNCHANGED source
        /\ Done(r)
        /\ UNCHANGED <<rowVars, slot, fifo, running, mail, copyVars, undone, bounds>>

\* The delete failed: the watch is attached again as the stored task needs it.
RestoreWatch(r) ==
    LET t == actor[r].t
    IN  /\ At(r, "restore")
        /\ \/ Stored(t) /\ actor' = [actor EXCEPT ![r].pc = "sync", ![r].row = task[t]]
           \/ Done(r)
        /\ UNCHANGED <<rowVars, source, slot, fifo, running, mail, copyVars, torn, undone, bounds>>

-----------------------------------------------------------------------------
(* sync_task_watch, run by a request or by the service on the row it has.   *)

wants_watch(row, t) == row.enabled \/ open[t] > 0

SyncEnds(a, ok) ==
    IF actor[a].op = "update" THEN Goto(a, IF ok THEN "positions" ELSE "undo") ELSE Done(a)

sync_task_watch(a) ==
    /\ At(a, "sync")
    /\ Goto(a, IF wants_watch(actor[a].row, actor[a].t) THEN "attach" ELSE "detach")
    /\ UNCHANGED <<rowVars, source, slot, fifo, running, mail, copyVars, torn, undone, bounds>>

\* upsert_source refuses a target its watcher stopped.
Attach(a) ==
    LET t == actor[a].t
    IN  /\ At(a, "attach")
        /\ \/ source[t] # "stopped" /\ source' = [source EXCEPT ![t] = "on"] /\ Goto(a, "recheck")
           \/ SyncEnds(a, FALSE) /\ UNCHANGED source
        /\ UNCHANGED <<rowVars, slot, fifo, running, mail, copyVars, torn, undone, bounds>>

\* Defect of attach_while_stored: the row is not looked at again.
attach_anyway(a) ==
    /\ At(a, "recheck")
    /\ SyncEnds(a, TRUE)
    /\ UNCHANGED <<rowVars, source, slot, fifo, running, mail, copyVars, torn, undone, bounds>>

\* The row is looked for once the source is attached; the read may fail.
attach_while_stored(a) ==
    LET t == actor[a].t
    IN  /\ At(a, "recheck")
        /\ \/ (IF Stored(t) THEN SyncEnds(a, TRUE) ELSE Goto(a, "detach")) /\ UNCHANGED torn
           \/ SyncEnds(a, FALSE) /\ torn' = Left(t)
        /\ UNCHANGED <<rowVars, source, slot, fifo, running, mail, copyVars, undone, bounds>>

Detach(a) ==
    LET t == actor[a].t
    IN  /\ At(a, "detach")
        /\ \/ Off(t) /\ SyncEnds(a, TRUE)
           \/ torn' = Left(t) /\ SyncEnds(a, FALSE) /\ UNCHANGED source
        /\ UNCHANGED <<rowVars, slot, fifo, running, mail, copyVars, undone, bounds>>

-----------------------------------------------------------------------------
(* The copy service: one trade or one reconciliation at a time.             *)

ServiceAt(pc) == At(Service, pc)
ServiceTask == actor[Service].t
Busy(op, t, pc) ==
    actor' = [actor EXCEPT ![Service] = [pc |-> pc, op |-> op, t |-> t, orig |-> NoRow, row |-> task[t]]]

\* The wallet of a watched task buys; a receiver that lags loses the trade.
Detect(t) ==
    /\ source[t] = "on" /\ trades < MaxTrades
    /\ trades' = trades + 1
    /\ mail' = mail \cup {t}
    /\ UNCHANGED <<rowVars, source, slot, actor, fifo, running, copyVars, torn, undone, requests, faults>>

\* process_activity reads the task; a paused one does not copy.
process_activity(t) ==
    /\ t \in mail /\ ServiceAt("idle")
    /\ mail' = mail \ {t}
    /\ IF task[t].enabled THEN Busy("copy", t, "copy") ELSE UNCHANGED actor
    /\ UNCHANGED <<rowVars, source, slot, fifo, running, copyVars, torn, undone, bounds>>

\* pause_task: the row as it is now, if still enabled.
pause_task(t, why) == IF task[t].enabled THEN Store(t, Paused(why), FALSE) ELSE UNCHANGED rowVars

apply_latency_kill_switch ==
    /\ ServiceAt("copy")
    /\ pause_task(ServiceTask, "guard")
    /\ IF task[ServiceTask].enabled
       THEN actor' = [actor EXCEPT ![Service].pc = "sync", ![Service].op = "guard", ![Service].row = Paused("guard")]
       ELSE Done(Service)
    /\ UNCHANGED <<source, slot, fifo, running, mail, copyVars, torn, undone, bounds>>

enqueue_paper ==
    LET t == ServiceTask
    IN  /\ ServiceAt("copy") /\ t \notin LiveTasks
        /\ fifo' = IF Len(fifo[t]) >= QueueCapacity THEN fifo ELSE [fifo EXCEPT ![t] = Append(@, "buy")]
        /\ Done(Service)
        /\ UNCHANGED <<rowVars, source, slot, running, mail, copyVars, torn, undone, bounds>>

\* Defect of prepare_entry: the budget is not looked at.
prepare_unbounded ==
    /\ ServiceAt("copy") /\ ServiceTask \in LiveTasks
    /\ Goto(Service, "submit")
    /\ UNCHANGED <<rowVars, source, slot, fifo, running, mail, copyVars, torn, undone, bounds>>

\* The plan of a live copy, within the spend recorded so far; the task is the one read before.
prepare_entry ==
    /\ ServiceAt("copy") /\ ServiceTask \in LiveTasks
    /\ IF recorded[ServiceTask] < Budget THEN Goto(Service, "submit") ELSE Done(Service)
    /\ UNCHANGED <<rowVars, source, slot, fifo, running, mail, copyVars, torn, undone, bounds>>

Buy(t) == bought' = [bought EXCEPT ![t] = @ + 1] /\ open' = [open EXCEPT ![t] = @ + 1]

\* The entry is refused or fails, opens a position, or fails although it lands.
execute_live ==
    LET t == ServiceTask
    IN  /\ ServiceAt("submit")
        /\ \/ Done(Service) /\ UNCHANGED copyVars
           \/ Buy(t) /\ Goto(Service, "record") /\ UNCHANGED <<recorded, escaped>>
           \/ Buy(t) /\ Done(Service) /\ escaped' = [escaped EXCEPT ![t] = @ + 1] /\ UNCHANGED recorded
        /\ UNCHANGED <<rowVars, source, slot, fifo, running, mail, torn, undone, bounds>>

\* record_outcome adds the spend with the decision, unless the write fails.
record_outcome ==
    LET t == ServiceTask
    IN  /\ ServiceAt("record")
        /\ \/ Stored(t) /\ recorded' = [recorded EXCEPT ![t] = @ + 1] /\ UNCHANGED escaped
           \/ escaped' = [escaped EXCEPT ![t] = @ + 1] /\ UNCHANGED recorded
        /\ Done(Service)
        /\ UNCHANGED <<rowVars, source, slot, fifo, running, mail, bought, open, torn, undone, bounds>>

\* A reconciliation takes up each task: pause_detached_tasks an enabled one,
\* sync_paused_watches a paused one that does not wait for its watch.
Reconcile(t) ==
    /\ ServiceAt("idle") /\ Stored(t)
    /\ \/ task[t].enabled /\ Busy("reconcile", t, "judge")
       \/ ~ task[t].enabled /\ task[t].reason # "watch" /\ Busy("reconcile", t, "follow")
    /\ UNCHANGED <<rowVars, source, slot, fifo, running, mail, copyVars, torn, undone, bounds>>

\* An enabled task whose target is not watched, unless it was just written and may still attach.
JudgeDetached ==
    LET t == ServiceTask
    IN  /\ ServiceAt("judge")
        /\ IF source[t] = "stopped" \/ (source[t] = "off" /\ t \notin fresh)
           THEN Goto(Service, "pause") ELSE Done(Service)
        /\ UNCHANGED <<rowVars, source, slot, fifo, running, mail, copyVars, torn, undone, bounds>>

PauseDetached ==
    /\ ServiceAt("pause")
    /\ pause_task(ServiceTask, "watch")
    /\ Done(Service)
    /\ UNCHANGED <<source, slot, fifo, running, mail, copyVars, torn, undone, bounds>>

sync_paused_watches ==
    LET t == ServiceTask
    IN  /\ ServiceAt("follow")
        /\ IF source[t] # "stopped" /\ (source[t] = "on") # wants_watch(actor[Service].row, t)
           THEN Goto(Service, "sync") ELSE Done(Service)
        /\ UNCHANGED <<rowVars, source, slot, fifo, running, mail, copyVars, torn, undone, bounds>>

-----------------------------------------------------------------------------
(* The paper queue of a task.                                               *)

Launch(t) ==
    /\ running[t] = NoJob /\ fifo[t] # <<>>
    /\ running' = [running EXCEPT ![t] = [pc |-> "start", who |-> Head(fifo[t])]]
    /\ fifo' = [fifo EXCEPT ![t] = Tail(@)]
    /\ UNCHANGED <<rowVars, source, slot, actor, mail, copyVars, torn, undone, bounds>>

Job(t, pc) == running' = [running EXCEPT ![t].pc = pc]
JobEnds(t) == running' = [running EXCEPT ![t] = NoJob]

\* The task as it is when the job runs, and its spend in the paper book.
execute_paper_entry(t) ==
    /\ running[t] = [pc |-> "start", who |-> "buy"]
    /\ IF task[t].enabled /\ bought[t] < Budget THEN Job(t, "fill") ELSE JobEnds(t)
    /\ UNCHANGED <<rowVars, source, slot, actor, fifo, mail, copyVars, torn, undone, bounds>>

\* The intent is read again right before booking.
paper_trade_wanted(t) ==
    /\ running[t].pc = "fill"
    /\ \/ task[t].enabled /\ Job(t, "book")
       \/ JobEnds(t)
    /\ UNCHANGED <<rowVars, source, slot, actor, fifo, mail, copyVars, torn, undone, bounds>>

book_buy(t) ==
    /\ running[t].pc = "book"
    /\ \/ Buy(t)
       \/ UNCHANGED <<bought, open>>
    /\ JobEnds(t)
    /\ UNCHANGED <<rowVars, source, slot, actor, fifo, mail, recorded, escaped, torn, undone, bounds>>

\* The answer of a delete's job; its request may be gone.
Answered(r, t, pc) ==
    actor' = IF actor[r].t = t /\ At(r, "wait") THEN [actor EXCEPT ![r].pc = pc] ELSE actor

CheckDelete(t) ==
    LET r == running[t].who
    IN  /\ running[t].pc = "start" /\ r \in Requests
        /\ IF deletable_task(t) THEN Job(t, "settle") /\ UNCHANGED actor
           ELSE JobEnds(t) /\ Answered(r, t, "restore")
        /\ UNCHANGED <<rowVars, source, slot, fifo, mail, copyVars, torn, undone, bounds>>

\* Defect of SettleRounds: the removal leaves the rounds to the user.
settle_nothing(t) ==
    /\ running[t].pc = "settle"
    /\ Job(t, "remove")
    /\ UNCHANGED <<rowVars, source, slot, actor, fifo, mail, copyVars, torn, undone, bounds>>

\* settle_rounds: the open paper rounds close at their mark.
SettleRounds(t) ==
    LET r == running[t].who
    IN  /\ running[t].pc = "settle"
        /\ \/ /\ open' = IF t \in LiveTasks THEN open ELSE [open EXCEPT ![t] = 0]
              /\ Job(t, "remove") /\ UNCHANGED actor
           \/ UNCHANGED open /\ JobEnds(t) /\ Answered(r, t, "restore")
        /\ UNCHANGED <<rowVars, source, slot, fifo, mail, bought, recorded, escaped, torn, undone, bounds>>

RemoveRow(t) ==
    LET r == running[t].who
    IN  /\ running[t].pc = "remove"
        /\ \/ /\ Stored(t) /\ Erase(t) /\ Answered(r, t, "final")
              /\ torn' = IF source[t] # "off" /\ ~ (actor[r].t = t /\ At(r, "wait")) THEN torn \cup {t} ELSE torn
           \/ Answered(r, t, "restore") /\ UNCHANGED <<rowVars, torn>>
        /\ JobEnds(t)
        /\ UNCHANGED <<source, slot, fifo, mail, copyVars, undone, bounds>>

-----------------------------------------------------------------------------
(* The surroundings.                                                        *)

\* Any exit of a copy: the wallet's sell, an exit rule, the user.
CloseCopy(t) ==
    /\ open[t] > 0
    /\ open' = [open EXCEPT ![t] = @ - 1]
    /\ UNCHANGED <<rowVars, source, slot, actor, fifo, running, mail, bought, recorded, escaped, torn, undone, bounds>>

\* SOURCE_SETTLE_SECS pass.
Settled(t) ==
    /\ t \in fresh /\ fresh' = fresh \ {t}
    /\ UNCHANGED <<task, revived, source, slot, actor, fifo, running, mail, copyVars, torn, undone, bounds>>

\* The watcher stops a saturated target; the user restores it.
WatcherStops(t) ==
    /\ source[t] = "on" /\ source' = [source EXCEPT ![t] = "stopped"]
    /\ UNCHANGED <<rowVars, slot, actor, fifo, running, mail, copyVars, torn, undone, bounds>>

UserRestores(t) ==
    /\ source[t] = "stopped" /\ source' = [source EXCEPT ![t] = "on"]
    /\ UNCHANGED <<rowVars, slot, actor, fifo, running, mail, copyVars, torn, undone, bounds>>

\* The client of a request goes away and its handler is dropped at an await, with the slot
\* it holds.  The blocking write it waits for goes on without it (spawn_blocking).  At the
\* last write of a request there is nothing to drop: its step ends the request either way.
DropRequest(r) ==
    LET rest == LeftBehind(actor[r].pc)
    IN  /\ actor[r].pc \notin {"idle", "watch", "undo", "final"} \cup LatePcs
        /\ faults < MaxFaults /\ faults' = faults + 1
        /\ torn' = IF At(r, "recheck") \/ At(r, "detach") THEN Left(actor[r].t) ELSE torn
        /\ IF rest = "idle" THEN Done(r) ELSE Goto(r, rest)
        /\ FreeSlot(r)
        /\ UNCHANGED <<rowVars, source, fifo, running, mail, copyVars, undone, requests, trades>>

\* The row a dropped request handed over is written, or fails; the slot it was counted
\* under is free since the drop.
LateWrite(r) ==
    LET a == actor[r]
    IN  /\ At(r, "late_write")
        /\ \/ /\ IF a.op = "create" THEN task[a.t].st = "none" ELSE Stored(a.t)
              /\ Store(a.t, a.row, FALSE)
           \/ UNCHANGED rowVars
        /\ Done(r)
        /\ UNCHANGED <<source, slot, fifo, running, mail, copyVars, torn, undone, bounds>>

\* The source a dropped request handed over is attached, or not; nobody looks for the row.
LateAttach(r) ==
    LET t == actor[r].t
    IN  /\ At(r, "late_attach")
        /\ \/ source[t] # "stopped" /\ source' = [source EXCEPT ![t] = "on"] /\ torn' = Left(t)
           \/ UNCHANGED <<source, torn>>
        /\ Done(r)
        /\ UNCHANGED <<rowVars, slot, fifo, running, mail, copyVars, undone, bounds>>

LateDetach(r) ==
    /\ At(r, "late_detach")
    /\ Off(actor[r].t) \/ UNCHANGED <<source, torn>>
    /\ Done(r)
    /\ UNCHANGED <<rowVars, slot, fifo, running, mail, copyVars, undone, bounds>>

\* The process ends; rows, sources and books are what the next one starts from.
Restart ==
    /\ faults < MaxFaults
    /\ faults' = faults + 1
    /\ torn' = torn \cup {t \in Tasks : task[t].st = "gone" /\ source[t] # "off"}
    /\ escaped' = IF ServiceAt("record") THEN [escaped EXCEPT ![ServiceTask] = @ + 1] ELSE escaped
    /\ slot' = None /\ mail' = {}
    /\ actor' = [a \in Actors |-> Idle]
    /\ fifo' = [t \in Tasks |-> <<>>] /\ running' = [t \in Tasks |-> NoJob]
    /\ UNCHANGED <<rowVars, source, bought, open, recorded, undone, requests, trades>>

-----------------------------------------------------------------------------
RequestStarts(r, t) ==
    \/ create_task(r, t) \/ delete_task(r, t)
    \/ \E enable \in BOOLEAN : update_task(r, t, enable)

SyncStep(a) == sync_task_watch(a) \/ Attach(a) \/ attach_while_stored(a) \/ Detach(a)

RequestStep(r) ==
    \/ TakeSlot(r) \/ ensure_active_slot(r) \/ WriteRow(r) \/ WatchNew(r)
    \/ SyncPositions(r) \/ RollBack(r)
    \/ Unwatch(r) \/ EnqueueDelete(r) \/ FinalDetach(r) \/ RestoreWatch(r)
    \/ LateWrite(r) \/ LateAttach(r) \/ LateDetach(r)

ServiceStep ==
    \/ apply_latency_kill_switch \/ enqueue_paper \/ prepare_entry \/ execute_live \/ record_outcome
    \/ JudgeDetached \/ PauseDetached \/ sync_paused_watches

QueueStep(t) ==
    \/ Launch(t) \/ execute_paper_entry(t) \/ paper_trade_wanted(t) \/ book_buy(t)
    \/ CheckDelete(t) \/ SettleRounds(t) \/ RemoveRow(t)

Next ==
    \/ \E r \in Requests, t \in Tasks : RequestStarts(r, t)
    \/ \E r \in Requests : RequestStep(r) \/ DropRequest(r)
    \/ \E a \in Actors : SyncStep(a)
    \/ \E t \in Tasks : process_activity(t) \/ Reconcile(t) \/ QueueStep(t) \/ Detect(t)
    \/ \E t \in Tasks : CloseCopy(t) \/ Settled(t) \/ WatcherStops(t) \/ UserRestores(t)
    \/ ServiceStep
    \/ Restart

\* Every started call goes on (tokio's mutex is fair), time passes, the service's
\* tick takes up every task again and again, and an attach tried for ever succeeds.
Fairness ==
    /\ \A r \in Requests : WF_vars(RequestStep(r)) /\ SF_vars(TakeSlot(r))
    /\ \A a \in Actors : WF_vars(SyncStep(a)) /\ SF_vars(Attach(a) /\ At(a, "recheck")')
    /\ WF_vars(ServiceStep)
    /\ \A t \in Tasks : WF_vars(QueueStep(t)) /\ WF_vars(Settled(t)) /\ SF_vars(Reconcile(t))

Spec == Init /\ [][Next]_vars /\ Fairness

-----------------------------------------------------------------------------
Pcs == {"idle", "slot", "count", "write", "watch", "positions", "undo", "unwatch", "enqueue", "wait",
        "final", "restore", "sync", "attach", "recheck", "detach", "copy", "submit", "record",
        "judge", "pause", "follow", "late_write", "late_attach", "late_detach"}

\* Types and bounds: a queue holds no more than its capacity, and a task has one
\* queued or running removal (delete_key).
TypeOK ==
    /\ task \in [Tasks -> Row]
    /\ source \in [Tasks -> {"off", "on", "stopped"}]
    /\ slot \in Requests \cup {None}
    /\ fresh \cup mail \cup revived \cup torn \cup undone \subseteq Tasks
    /\ actor \in [Actors -> [pc : Pcs, op : {"none", "create", "update", "delete", "copy", "guard", "reconcile"},
                             t : Tasks \cup {None}, orig : Row, row : Row]]
    /\ running \in [Tasks -> [pc : {"idle", "start", "fill", "book", "settle", "remove"},
                              who : Requests \cup {"buy", None}]]
    /\ \A t \in Tasks :
        /\ Len(fifo[t]) <= QueueCapacity
        /\ Cardinality({i \in DOMAIN fifo[t] : fifo[t][i] \in Requests})
             + (IF running[t].who \in Requests THEN 1 ELSE 0) <= 1
        /\ open[t] <= bought[t]

\* No more tasks are enabled than max_active_tasks allows (ACTIVE_SLOT in
\* control/tasks.rs), apart from those enabled by a write that held no slot: of an older
\* row, or of a request that was dropped before its write ran.
ActiveLimit == Cardinality(Active \ revived) <= MaxActive

\* The limit as the comment of ACTIVE_SLOT states it ("so two enables at the last free slot
\* never both count it free").  It does not hold: MCCopyDropped.cfg shows two creates, one of
\* them dropped, that both do.
EnabledWithinMax == Cardinality(Active) <= MaxActive

\* A removed paper task holds no copy: its rounds are settled on its own queue, and a
\* job that runs later finds it gone (delete_task, paper_trade_wanted).  The exception
\* is a create that failed after another request had already attached its task.
GoneHoldsNothing ==
    \A t \in Tasks \ LiveTasks : task[t].st = "gone" => open[t] = 0 \/ t \in undone

\* A removed task is not watched, or somebody is about to detach it
\* (attach_while_stored, delete_task), whichever of attach and delete comes last.
NoOrphanSource ==
    \A t \in Tasks : task[t].st = "gone" /\ source[t] # "off" =>
        \/ t \in torn
        \/ \E a \in Actors : actor[a].t = t /\ actor[a].pc \in {"recheck", "detach", "final"}

\* A task buys within its budget: paper copies because its queue runs one at a time
\* (spend is read from the book), live ones because the service does, apart from
\* those whose spend was never recorded (record_outcome).
BudgetKept == \A t \in Tasks : bought[t] <= Budget + escaped[t]

\* An enabled task whose wallet is not watched does not stay so: it is attached, or
\* paused with the reason (pause_detached_tasks), or removed.
EnabledWatched ==
    \A t \in Tasks : (task[t].enabled /\ source[t] # "on") ~> (source[t] = "on" \/ ~ task[t].enabled)

\* A paused task that still holds copies is watched, so that the wallet's sells close
\* them (sync_paused_watches), unless its watch waits for the user.
PausedFollowed ==
    \A t \in Tasks :
        (task[t] \in {Paused("user"), Paused("guard")} /\ open[t] > 0 /\ source[t] = "off")
          ~> (source[t] # "off" \/ open[t] = 0 \/ task[t] \notin {Paused("user"), Paused("guard")})

=============================================================================
