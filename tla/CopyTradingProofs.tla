------------------------- MODULE CopyTradingProofs -------------------------
(* The copy tasks of CopyTrading keep their limits for any number of tasks, *)
(* requests and queued jobs: the active tasks stay within max_active_tasks, *)
(* a task within its budget, a removed task holds no paper copy and its     *)
(* watch is detached.                                                       *)
EXTENDS CopyTrading, FiniteSetTheorems, TLAPS

Ops == {"none", "create", "update", "delete", "copy", "guard", "reconcile"}
ActorState == [pc : Pcs, op : Ops, t : Tasks \cup {None}, orig : Row, row : Row]
JobPcs == {"idle", "start", "fill", "book", "settle", "remove"}
JobState == [pc : JobPcs, who : Requests \cup {"buy", None}]

\* The state is well typed, and no more copies are open than were bought.
Types ==
    /\ task \in [Tasks -> Row]
    /\ source \in [Tasks -> {"off", "on", "stopped"}]
    /\ slot \in Requests \cup {None}
    /\ fresh \in SUBSET Tasks /\ mail \in SUBSET Tasks /\ revived \in SUBSET Tasks
    /\ torn \in SUBSET Tasks /\ undone \in SUBSET Tasks
    /\ actor \in [Actors -> ActorState]
    /\ running \in [Tasks -> JobState]
    /\ fifo \in [Tasks -> Seq(Requests \cup {"buy"})]
    /\ bought \in [Tasks -> Nat] /\ open \in [Tasks -> Nat]
    /\ recorded \in [Tasks -> Nat] /\ escaped \in [Tasks -> Nat]
    /\ \A t \in Tasks : open[t] <= bought[t]

\* What an actor carries fits the step it is at: a row it may store is a stored row.
ActorOK(a) ==
    /\ actor[a].pc # "idle" => actor[a].t \in Tasks
    /\ actor[a].pc \in {"slot", "count", "write", "late_write"} => actor[a].row.st = "stored"
    /\ actor[a].pc \in {"positions", "undo"} => actor[a].op = "update"
    /\ actor[a].op = "update" => actor[a].orig.st = "stored"
ActorInv == \A a \in Actors : ActorOK(a)

\* A job is at a step of its kind, and a task has one removal queued or running.
JobOK(t) ==
    /\ running[t].pc \in {"fill", "book"} => running[t].who = "buy"
    /\ running[t].pc \in {"settle", "remove"} => running[t].who \in Requests
    /\ Len(fifo[t]) <= QueueCapacity
    /\ running[t].who \in Requests => \A i \in DOMAIN fifo[t] : fifo[t][i] \notin Requests
    /\ \A i, j \in DOMAIN fifo[t] : fifo[t][i] \in Requests /\ fifo[t][j] \in Requests => i = j
JobInv == \A t \in Tasks : JobOK(t)

RowInv == \A t \in Tasks : task[t].enabled => task[t].st = "stored"

\* A request holds ACTIVE_SLOT from its count to the write it counted for.
SlotOK(r) ==
    /\ slot = r => actor[r].pc \in {"count", "write"}
    /\ actor[r].pc = "count" => slot = r
    /\ actor[r].pc = "write" /\ actor[r].row.enabled /\ ~ actor[r].orig.enabled => slot = r
SlotInv == \A r \in Requests : SlotOK(r)

Counted == Active \ revived
LimitInv ==
    /\ Cardinality(Counted) <= MaxActive
    /\ \A r \in Requests :
         slot = r /\ actor[r].pc = "write" => Cardinality(Counted) < MaxActive

\* The live copy whose spend is about to be recorded.
Unrecorded(t) == IF actor[Service].pc = "record" /\ actor[Service].t = t THEN 1 ELSE 0

LiveOK(t) ==
    /\ bought[t] = recorded[t] + escaped[t] + Unrecorded(t)
    /\ recorded[t] <= Budget
    /\ running[t].who # "buy"
    /\ \A i \in DOMAIN fifo[t] : fifo[t][i] # "buy"
PaperOK(t) ==
    /\ bought[t] <= Budget
    /\ running[t].pc \in {"fill", "book"} => bought[t] < Budget
SpendInv ==
    /\ \A t \in LiveTasks : LiveOK(t)
    /\ \A t \in Tasks \ LiveTasks : PaperOK(t)
    /\ actor[Service].pc \in {"submit", "record"} =>
         actor[Service].t \in LiveTasks /\ recorded[actor[Service].t] < Budget

\* A removed paper task runs no buy, and its removal runs only once its rounds are settled.
GoneOK(t) ==
    /\ task[t].st = "gone" /\ t \notin undone => open[t] = 0 /\ running[t].pc \notin {"fill", "book"}
    /\ running[t].pc = "remove" => open[t] = 0
GoneInv == \A t \in Tasks \ LiveTasks : GoneOK(t)

Inv ==
    /\ Types /\ ActorInv /\ JobInv /\ RowInv
    /\ SlotInv /\ LimitInv /\ SpendInv /\ GoneInv /\ NoOrphanSource

-----------------------------------------------------------------------------
(* What the small steps do, field by field.                                 *)

\* Actor a becomes the given record; the others stay as they are.
Becomes(a, pc, op, t, orig, row) ==
    /\ actor' \in [Actors -> ActorState]
    /\ actor'[a].pc = pc /\ actor'[a].op = op /\ actor'[a].t = t
    /\ actor'[a].orig = orig /\ actor'[a].row = row
    /\ \A b \in Actors : b # a => actor'[b] = actor[b]

\* The job of task t becomes the given one; the other queues run what they ran.
Runs(t, pc, who) ==
    /\ running' \in [Tasks -> JobState]
    /\ running'[t].pc = pc /\ running'[t].who = who
    /\ \A u \in Tasks : u # t => running'[u] = running[u]

\* A record built of typed fields is an actor's state.
LEMMA ActorFields ==
    ASSUME NEW pc \in Pcs, NEW op \in Ops, NEW t \in Tasks \cup {None}, NEW orig \in Row, NEW row \in Row
    PROVE  /\ [pc |-> pc, op |-> op, t |-> t, orig |-> orig, row |-> row] \in ActorState
           /\ [pc |-> pc, op |-> op, t |-> t, orig |-> orig, row |-> row].pc = pc
           /\ [pc |-> pc, op |-> op, t |-> t, orig |-> orig, row |-> row].op = op
           /\ [pc |-> pc, op |-> op, t |-> t, orig |-> orig, row |-> row].t = t
           /\ [pc |-> pc, op |-> op, t |-> t, orig |-> orig, row |-> row].orig = orig
           /\ [pc |-> pc, op |-> op, t |-> t, orig |-> orig, row |-> row].row = row
BY Zenon DEF ActorState

\* The fields of an actor's state.
LEMMA ActorTyped ==
    ASSUME NEW m \in ActorState
    PROVE  /\ m.pc \in Pcs /\ m.op \in Ops /\ m.t \in Tasks \cup {None} /\ m.orig \in Row /\ m.row \in Row
           /\ m = [pc |-> m.pc, op |-> m.op, t |-> m.t, orig |-> m.orig, row |-> m.row]
BY Zenon DEF ActorState

\* The rows a call writes, with their fields.
LEMMA RowFields ==
    ASSUME NEW st \in {"none", "stored", "gone"}, NEW enabled \in BOOLEAN, NEW reason \in Reasons
    PROVE  /\ [st |-> st, enabled |-> enabled, reason |-> reason] \in Row
           /\ [st |-> st, enabled |-> enabled, reason |-> reason].st = st
           /\ [st |-> st, enabled |-> enabled, reason |-> reason].enabled = enabled
BY Zenon DEF Row

\* NoRow, Gone, Enabled and the paused rows are rows, and only Enabled is enabled.
LEMMA Rows ==
    /\ NoRow \in Row /\ NoRow.st = "none" /\ NoRow.enabled = FALSE
    /\ Gone \in Row /\ Gone.st = "gone" /\ Gone.enabled = FALSE
    /\ Enabled \in Row /\ Enabled.st = "stored" /\ Enabled.enabled = TRUE
    /\ \A why \in Reasons : Paused(why) \in Row /\ Paused(why).st = "stored" /\ Paused(why).enabled = FALSE
<1>1. "none" \in Reasons /\ "stored" \in {"none", "stored", "gone"} /\ "none" \in {"none", "stored", "gone"}
      /\ "gone" \in {"none", "stored", "gone"} /\ TRUE \in BOOLEAN /\ FALSE \in BOOLEAN
    BY DEF Reasons
<1>2. NoRow \in Row /\ NoRow.st = "none" /\ NoRow.enabled = FALSE
    BY <1>1, RowFields, Zenon DEF NoRow
<1>3. Gone \in Row /\ Gone.st = "gone" /\ Gone.enabled = FALSE
    BY <1>1, RowFields, Zenon DEF Gone
<1>4. Enabled \in Row /\ Enabled.st = "stored" /\ Enabled.enabled = TRUE
    BY <1>1, RowFields, Zenon DEF Enabled
<1>5. \A why \in Reasons : Paused(why) \in Row /\ Paused(why).st = "stored" /\ Paused(why).enabled = FALSE
    BY <1>1, RowFields, Zenon DEF Paused
<1> QED
    BY <1>2, <1>3, <1>4, <1>5

\* The fields of a row.
LEMMA RowTyped ==
    ASSUME NEW row \in Row
    PROVE  row.st \in {"none", "stored", "gone"} /\ row.enabled \in BOOLEAN /\ row.reason \in Reasons
BY Zenon DEF Row

\* A step that also takes another row.
LEMMA RowChanged ==
    ASSUME NEW m \in ActorState, NEW pc \in Pcs, NEW row \in Row
    PROVE  [m EXCEPT !.pc = pc, !.row = row]
             = [pc |-> pc, op |-> m.op, t |-> m.t, orig |-> m.orig, row |-> row]
<1>1. PICK m1 : m1 = [m EXCEPT !.pc = pc]
    OBVIOUS
<1>2. m1 \in ActorState /\ m1.pc = pc /\ m1.op = m.op /\ m1.t = m.t /\ m1.orig = m.orig
    <2>1. m1 = [pc |-> pc, op |-> m.op, t |-> m.t, orig |-> m.orig, row |-> m.row]
        BY <1>1, ActorTyped DEF ActorState
    <2> QED
        BY <2>1, ActorTyped, ActorFields, Zenon
<1>3. [m1 EXCEPT !.row = row] = [pc |-> pc, op |-> m.op, t |-> m.t, orig |-> m.orig, row |-> row]
    BY <1>2, ActorTyped DEF ActorState
<1> QED
    BY <1>1, <1>3

\* A step that also takes another purpose and another row.
LEMMA PurposeChanged ==
    ASSUME NEW m \in ActorState, NEW pc \in Pcs, NEW op \in Ops, NEW row \in Row
    PROVE  [m EXCEPT !.pc = pc, !.op = op, !.row = row]
             = [pc |-> pc, op |-> op, t |-> m.t, orig |-> m.orig, row |-> row]
<1>1. PICK m1 : m1 = [m EXCEPT !.pc = pc]
    OBVIOUS
<1>2. m1 \in ActorState /\ m1.pc = pc /\ m1.op = m.op /\ m1.t = m.t /\ m1.orig = m.orig
    <2>1. m1 = [pc |-> pc, op |-> m.op, t |-> m.t, orig |-> m.orig, row |-> m.row]
        BY <1>1, ActorTyped DEF ActorState
    <2> QED
        BY <2>1, ActorTyped, ActorFields, Zenon
<1>3. PICK m2 : m2 = [m1 EXCEPT !.op = op]
    OBVIOUS
<1>4. m2 \in ActorState /\ m2.pc = pc /\ m2.op = op /\ m2.t = m.t /\ m2.orig = m.orig
    <2>1. m2 = [pc |-> m1.pc, op |-> op, t |-> m1.t, orig |-> m1.orig, row |-> m1.row]
        BY <1>2, <1>3, ActorTyped DEF ActorState
    <2>2. m2 \in ActorState /\ m2.pc = m1.pc /\ m2.op = op /\ m2.t = m1.t /\ m2.orig = m1.orig
        BY <1>2, <2>1, ActorTyped, ActorFields, Zenon
    <2> QED
        BY <1>2, <2>2
<1>5. [m2 EXCEPT !.row = row] = [pc |-> pc, op |-> op, t |-> m.t, orig |-> m.orig, row |-> row]
    BY <1>4, ActorTyped DEF ActorState
<1> QED
    BY <1>1, <1>3, <1>5

\* A record written over an actor's state.
LEMMA Assigned ==
    ASSUME Types, NEW a \in Actors, NEW m \in ActorState,
           actor' = [actor EXCEPT ![a] = m]
    PROVE  Becomes(a, m.pc, m.op, m.t, m.orig, m.row)
BY DEF Types, Becomes

\* Goto moves one actor and keeps what it carries.
LEMMA GotoBecomes ==
    ASSUME Types, NEW a \in Actors, NEW pc \in Pcs, Goto(a, pc)
    PROVE  Becomes(a, pc, actor[a].op, actor[a].t, actor[a].orig, actor[a].row)
<1>1. PICK m \in ActorState : m = actor[a]
    BY DEF Types
<1>2. PICK n : n = [pc |-> pc, op |-> m.op, t |-> m.t, orig |-> m.orig, row |-> m.row]
    OBVIOUS
<1>3. n \in ActorState /\ n.pc = pc /\ n.op = m.op /\ n.t = m.t /\ n.orig = m.orig /\ n.row = m.row
    BY <1>2, ActorTyped, ActorFields, Zenon
<1>4. [m EXCEPT !.pc = pc] = n
    BY <1>2, ActorTyped DEF ActorState
<1>5. actor' = [actor EXCEPT ![a] = n]
    BY <1>1, <1>4 DEF Goto, Types
<1> QED
    BY <1>1, <1>3, <1>5, Assigned

\* Done forgets what the actor carried.
LEMMA DoneBecomes ==
    ASSUME Types, NEW a \in Actors, Done(a)
    PROVE  Becomes(a, "idle", "none", None, NoRow, NoRow)
<1>1. "idle" \in Pcs /\ "none" \in Ops /\ None \in Tasks \cup {None} /\ NoRow \in Row
    BY Rows DEF Pcs, Ops
<1>2. /\ Idle \in ActorState
      /\ Idle.pc = "idle" /\ Idle.op = "none" /\ Idle.t = None /\ Idle.orig = NoRow /\ Idle.row = NoRow
    BY <1>1, ActorFields, Zenon DEF Idle
<1>3. Becomes(a, Idle.pc, Idle.op, Idle.t, Idle.orig, Idle.row)
    BY <1>2, Assigned DEF Done
<1> QED
    BY <1>2, <1>3

\* Begin starts an idle request on the row as it is.
LEMMA BeginBecomes ==
    ASSUME Types, NEW r \in Requests, NEW op \in Ops, NEW t \in Tasks, NEW pc \in Pcs, NEW row \in Row,
           Begin(r, op, t, pc, row)
    PROVE  Becomes(r, pc, op, t, task[t], row)
<1>1. task[t] \in Row /\ t \in Tasks \cup {None} /\ r \in Actors
    BY DEF Types, Actors
<1>2. PICK n : n = [pc |-> pc, op |-> op, t |-> t, orig |-> task[t], row |-> row]
    OBVIOUS
<1>3. n \in ActorState /\ n.pc = pc /\ n.op = op /\ n.t = t /\ n.orig = task[t] /\ n.row = row
    BY <1>1, <1>2, ActorFields, Zenon
<1>4. Becomes(r, n.pc, n.op, n.t, n.orig, n.row)
    BY <1>1, <1>2, <1>3, Assigned DEF Begin
<1> QED
    BY <1>3, <1>4

\* Busy takes the service to a task's row as it is.
LEMMA BusyBecomes ==
    ASSUME Types, NEW op \in Ops, NEW t \in Tasks, NEW pc \in Pcs, Busy(op, t, pc)
    PROVE  Becomes(Service, pc, op, t, NoRow, task[t])
<1>1. task[t] \in Row /\ NoRow \in Row /\ t \in Tasks \cup {None} /\ Service \in Actors
    BY Rows DEF Types, Actors
<1>2. PICK n : n = [pc |-> pc, op |-> op, t |-> t, orig |-> NoRow, row |-> task[t]]
    OBVIOUS
<1>3. n \in ActorState /\ n.pc = pc /\ n.op = op /\ n.t = t /\ n.orig = NoRow /\ n.row = task[t]
    BY <1>1, <1>2, ActorFields, Zenon
<1>4. Becomes(Service, n.pc, n.op, n.t, n.orig, n.row)
    BY <1>1, <1>2, <1>3, Assigned DEF Busy
<1> QED
    BY <1>3, <1>4

\* A job moves to its next step.
LEMMA JobRuns ==
    ASSUME Types, NEW t \in Tasks, NEW pc \in JobPcs, Job(t, pc)
    PROVE  Runs(t, pc, running[t].who)
BY DEF Types, Job, Runs, JobState

\* A job ends and its queue is free.
LEMMA EndRuns ==
    ASSUME Types, NEW t \in Tasks, JobEnds(t)
    PROVE  Runs(t, "idle", None)
BY DEF Types, JobEnds, Runs, JobState, JobPcs, NoJob

-----------------------------------------------------------------------------
(* The steps an actor takes.                                                *)

\* Actors go from a step of one set to a step of the other or stay, and carry what fits.
Moves(from, to) ==
    /\ actor' \in [Actors -> ActorState] /\ ActorInv'
    /\ \A b \in Actors : actor'[b] = actor[b] \/ (actor[b].pc \in from /\ actor'[b].pc \in to)

\* One actor moves, and what it carries fits its new step.
LEMMA ActorMoves ==
    ASSUME Types, ActorInv, NEW a \in Actors, NEW pc, NEW op, NEW t, NEW orig, NEW row,
           Becomes(a, pc, op, t, orig, row),
           NEW from, NEW to, actor[a].pc \in from, pc \in to,
           pc # "idle" => t \in Tasks,
           pc \in {"slot", "count", "write", "late_write"} => row.st = "stored",
           pc \in {"positions", "undo"} => op = "update",
           op = "update" => orig.st = "stored"
    PROVE  Moves(from, to)
<1>1. ActorOK(a)'
    BY DEF Becomes, ActorOK
<1>2. ASSUME NEW b \in Actors, b # a PROVE ActorOK(b)'
    BY <1>2 DEF Becomes, ActorOK, ActorInv
<1>3. ActorInv'
    BY <1>1, <1>2 DEF ActorInv
<1> QED
    BY <1>3 DEF Moves, Becomes

\* No actor moves.
LEMMA ActorStays ==
    ASSUME Types, ActorInv, UNCHANGED actor, NEW from, NEW to
    PROVE  Moves(from, to)
BY DEF Types, ActorInv, ActorOK, Moves

\* An actor at a step other than idle carries a task, and it carries the old row to undo to.
LEMMA Carried ==
    ASSUME Types, ActorInv, NEW a \in Actors
    PROVE  /\ actor[a].pc \in Pcs /\ actor[a].op \in Ops /\ actor[a].t \in Tasks \cup {None}
           /\ actor[a].orig \in Row /\ actor[a].row \in Row
           /\ actor[a].pc # "idle" => actor[a].t \in Tasks
           /\ actor[a].op = "update" => actor[a].orig.st = "stored"
           /\ actor[a].pc \in {"slot", "count", "write", "late_write"} => actor[a].row.st = "stored"
           /\ actor[a].pc \in {"positions", "undo"} => actor[a].op = "update"
<1>1. actor[a] \in ActorState
    BY DEF Types
<1> QED
    BY <1>1, ActorTyped DEF ActorInv, ActorOK

\* An actor that goes on keeps what it carries.
LEMMA GotoMoves ==
    ASSUME Types, ActorInv, NEW a \in Actors, NEW pc \in Pcs, Goto(a, pc),
           NEW from, NEW to, actor[a].pc \in from, pc \in to, actor[a].pc # "idle",
           pc \in {"slot", "count", "write", "late_write"} => actor[a].pc \in {"slot", "count", "write", "late_write"},
           pc \in {"positions", "undo"} => actor[a].op = "update"
    PROVE  Moves(from, to)
<1>1. Becomes(a, pc, actor[a].op, actor[a].t, actor[a].orig, actor[a].row)
    BY GotoBecomes
<1> QED
    BY <1>1, Carried, ActorMoves

\* An actor that is done carries nothing.
LEMMA DoneMoves ==
    ASSUME Types, ActorInv, NEW a \in Actors, Done(a), NEW from, NEW to, actor[a].pc \in from, "idle" \in to
    PROVE  Moves(from, to)
<1>1. Becomes(a, "idle", "none", None, NoRow, NoRow)
    BY DoneBecomes
<1> QED
    BY <1>1, ActorMoves

\* sync_task_watch has ended, well or not.
SyncEnded(a) == SyncEnds(a, TRUE) \/ SyncEnds(a, FALSE)

\* The end of sync_task_watch goes on with an update and ends any other call.
LEMMA SyncEndsMoves ==
    ASSUME Types, ActorInv, NEW a \in Actors, SyncEnded(a),
           NEW from, NEW to, actor[a].pc \in from, actor[a].pc # "idle",
           "idle" \in to, "positions" \in to, "undo" \in to
    PROVE  Moves(from, to)
<1>1. CASE actor[a].op = "update"
    <2>1. PICK pc \in {"positions", "undo"} : Goto(a, pc)
        BY <1>1 DEF SyncEnded, SyncEnds
    <2> QED
        BY <1>1, <2>1, GotoMoves DEF Pcs
<1>2. CASE actor[a].op # "update"
    BY <1>2, DoneMoves DEF SyncEnded, SyncEnds
<1> QED
    BY <1>1, <1>2

\* A request begins on a task's row.
LEMMA BeginMoves ==
    ASSUME Types, ActorInv, NEW r \in Requests, NEW op \in Ops, NEW t \in Tasks, NEW pc \in Pcs, NEW row \in Row,
           Begin(r, op, t, pc, row), NEW to, pc \in to,
           pc \in {"slot", "count", "write", "late_write"} => row.st = "stored",
           pc \notin {"positions", "undo"},
           op = "update" => task[t].st = "stored"
    PROVE  Moves({"idle"}, to)
<1>1. Becomes(r, pc, op, t, task[t], row)
    BY BeginBecomes
<1>2. actor[r].pc \in {"idle"} /\ r \in Actors
    BY DEF Begin, At, Actors
<1> QED
    BY <1>1, <1>2, ActorMoves

\* The service takes up a task.
LEMMA BusyMoves ==
    ASSUME Types, ActorInv, NEW op \in Ops \ {"update"}, NEW t \in Tasks, NEW pc \in {"copy", "judge", "follow"},
           Busy(op, t, pc), At(Service, "idle"), NEW to, pc \in to
    PROVE  Moves({"idle"}, to)
<1>1. Becomes(Service, pc, op, t, NoRow, task[t])
    BY BusyBecomes DEF Pcs
<1>2. actor[Service].pc \in {"idle"} /\ Service \in Actors
    BY DEF At, Actors
<1> QED
    BY <1>1, <1>2, ActorMoves

\* The answer of a removal moves its request if that still waits.
LEMMA AnsweredMoves ==
    ASSUME Types, ActorInv, NEW r \in Requests, NEW t, NEW pc \in {"restore", "final"}, Answered(r, t, pc),
           NEW to, pc \in to
    PROVE  Moves({"wait"}, to)
<1>1. CASE actor[r].t = t /\ At(r, "wait")
    <2>1. Goto(r, pc)
        BY <1>1 DEF Answered, Goto
    <2> QED
        BY <1>1, <2>1, GotoMoves DEF At, Actors, Pcs
<1>2. CASE ~ (actor[r].t = t /\ At(r, "wait"))
    BY <1>2, ActorStays DEF Answered
<1> QED
    BY <1>1, <1>2

-----------------------------------------------------------------------------
(* The actions, by the steps their actors come from and go to.              *)

\* A request starts.
LEMMA StartMoves ==
    ASSUME Types, ActorInv, CopyConstants, NEW r \in Requests, NEW t \in Tasks
    PROVE  /\ create_task(r, t) => Moves({"idle"}, {"slot", "write"})
           /\ \A enable \in BOOLEAN : update_task(r, t, enable) => Moves({"idle"}, {"slot", "write"})
           /\ delete_task(r, t) => Moves({"idle"}, {"unwatch"})
<1> USE Rows
<1>1. {"slot", "write", "unwatch"} \subseteq Pcs /\ {"create", "update", "delete"} \subseteq Ops
      /\ {"none", "user"} \subseteq Reasons
    BY DEF Pcs, Ops, Reasons
<1>2. task[t] \in Row /\ task[t].reason \in Reasons
    BY RowTyped DEF Types
<1>3. ASSUME create_task(r, t) PROVE Moves({"idle"}, {"slot", "write"})
    BY <1>1, <1>3, BeginMoves DEF create_task
<1>4. ASSUME NEW enable \in BOOLEAN, update_task(r, t, enable) PROVE Moves({"idle"}, {"slot", "write"})
    <2>1. PICK pc \in {"slot", "write"}, row \in Row : row.st = "stored" /\ Begin(r, "update", t, pc, row)
        <3>1. PICK row : row = IF enable THEN Enabled
                               ELSE IF task[t].enabled THEN Paused("user") ELSE Paused(task[t].reason)
            OBVIOUS
        <3>2. row \in Row /\ row.st = "stored"
            BY <1>1, <1>2, <3>1
        <3>3. PICK pc : pc = IF enable /\ ~ task[t].enabled THEN "slot" ELSE "write"
            OBVIOUS
        <3>4. Begin(r, "update", t, pc, row)
            BY <1>4, <3>1, <3>3 DEF update_task
        <3> QED
            BY <3>2, <3>3, <3>4
    <2>2. task[t].st = "stored"
        BY <1>4 DEF update_task, Stored
    <2> QED
        BY <1>1, <2>1, <2>2, BeginMoves
<1>5. ASSUME delete_task(r, t) PROVE Moves({"idle"}, {"unwatch"})
    BY <1>1, <1>2, <1>5, BeginMoves DEF delete_task
<1> QED
    BY <1>3, <1>4, <1>5

\* The restored watch is that of the row as it is stored now.
LEMMA RestoreMoves ==
    ASSUME Types, ActorInv, NEW r \in Requests, RestoreWatch(r)
    PROVE  Moves({"restore"}, {"sync", "idle"})
<1> DEFINE t == actor[r].t
<1>1. CASE Done(r)
    BY <1>1, DoneMoves DEF RestoreWatch, At, Actors
<1>2. CASE Stored(t) /\ actor' = [actor EXCEPT ![r].pc = "sync", ![r].row = task[t]]
    <2>1. t \in Tasks /\ r \in Actors /\ "sync" \in Pcs /\ "none" \in Ops
        BY Carried DEF RestoreWatch, Ops, Pcs, At, Actors
    <2>2. PICK m \in ActorState : m = actor[r]
        BY <2>1 DEF Types
    <2>3. PICK row \in Row : row = task[t]
        BY <2>1 DEF Types
    <2>10. PICK n : n = [pc |-> "sync", op |-> m.op, t |-> m.t, orig |-> m.orig, row |-> row]
        OBVIOUS
    <2>4. n \in ActorState /\ n.pc = "sync" /\ n.op = m.op /\ n.t = m.t /\ n.orig = m.orig /\ n.row = row
        BY <2>1, <2>10, ActorTyped, ActorFields, Zenon
    <2>11. n = [m EXCEPT !.pc = "sync", !.row = row]
        BY <2>1, <2>10, RowChanged, Zenon
    <2>5. actor' = [actor EXCEPT ![r] = n]
        BY <1>2, <2>1, <2>2, <2>3, <2>11 DEF Types
    <2>6. Becomes(r, n.pc, n.op, n.t, n.orig, n.row)
        BY <2>1, <2>4, <2>5, Assigned
    <2>7. actor[r].pc \in {"restore"} /\ n.pc \in {"sync", "idle"}
        BY <2>4 DEF RestoreWatch, At
    <2> QED
        BY <2>1, <2>2, <2>4, <2>6, <2>7, Carried, ActorMoves
<1> QED
    BY <1>1, <1>2 DEF RestoreWatch

\* The kill switch goes on with the row it paused.
LEMMA KillMoves ==
    ASSUME Types, ActorInv, apply_latency_kill_switch
    PROVE  Moves({"copy"}, {"sync", "idle"})
<1>1. CASE Done(Service)
    BY <1>1, DoneMoves DEF apply_latency_kill_switch, ServiceAt, At, Actors
<1>2. CASE actor' = [actor EXCEPT ![Service].pc = "sync", ![Service].op = "guard",
                                  ![Service].row = Paused("guard")]
    <2>1. Paused("guard") \in Row /\ Service \in Actors /\ "guard" \in Ops /\ "sync" \in Pcs
        BY Rows DEF Reasons, Actors, Ops, Pcs
    <2>2. PICK m \in ActorState : m = actor[Service]
        BY <2>1 DEF Types
    <2>3. PICK row \in Row : row = Paused("guard")
        BY <2>1
    <2>10. PICK n : n = [pc |-> "sync", op |-> "guard", t |-> m.t, orig |-> m.orig, row |-> row]
        OBVIOUS
    <2>4. n \in ActorState /\ n.pc = "sync" /\ n.op = "guard" /\ n.t = m.t /\ n.orig = m.orig /\ n.row = row
        BY <2>1, <2>10, ActorTyped, ActorFields, Zenon
    <2>11. n = [m EXCEPT !.pc = "sync", !.op = "guard", !.row = row]
        BY <2>1, <2>10, PurposeChanged, Zenon
    <2>5. actor' = [actor EXCEPT ![Service] = n]
        BY <1>2, <2>1, <2>2, <2>3, <2>11 DEF Types
    <2>6. Becomes(Service, n.pc, n.op, n.t, n.orig, n.row)
        BY <2>1, <2>4, <2>5, Assigned
    <2>7. actor[Service].pc \in {"copy"} /\ n.pc \in {"sync", "idle"} /\ n.t \in Tasks
        BY <2>1, <2>2, <2>4, Carried DEF apply_latency_kill_switch, ServiceAt, At
    <2> QED
        BY <2>1, <2>4, <2>6, <2>7, ActorMoves
<1> QED
    BY <1>1, <1>2 DEF apply_latency_kill_switch

\* A dropped request is gone, but for the write it handed over.
LEMMA DropMoves ==
    ASSUME Types, ActorInv, NEW r \in Requests, DropRequest(r)
    PROVE  Moves({actor[r].pc}, {"idle"} \cup LatePcs)
<1>1. r \in Actors /\ actor[r].pc # "idle"
    BY DEF DropRequest, Actors
<1>2. CASE Done(r)
    BY <1>1, <1>2, DoneMoves
<1>3. CASE LeftBehind(actor[r].pc) # "idle" /\ Goto(r, LeftBehind(actor[r].pc))
    <2>1. PICK pc : pc = LeftBehind(actor[r].pc)
        OBVIOUS
    <2>2. pc \in LatePcs /\ (pc = "late_write" => actor[r].pc = "write")
        BY <1>3, <2>1 DEF LeftBehind, LatePcs
    <2>3. /\ pc \in Pcs /\ pc \notin {"positions", "undo"}
          /\ pc \in {"slot", "count", "write", "late_write"} => actor[r].pc \in {"slot", "count", "write", "late_write"}
        BY <2>2 DEF Pcs, LatePcs
    <2>4. Goto(r, pc)
        BY <1>3, <2>1
    <2> QED
        <3>1. actor[r].pc \in {actor[r].pc} /\ pc \in {"idle"} \cup LatePcs
            BY <2>2
        <3> QED
            BY <1>1, <2>3, <2>4, <3>1, GotoMoves
<1> QED
    BY <1>2, <1>3 DEF DropRequest

\* What is left of it is a late step, or nothing.
LEMMA DropBecomes ==
    ASSUME Types, NEW r \in Requests, DropRequest(r)
    PROVE  \E pc, op, t, orig, row : pc \in {"idle"} \cup LatePcs /\ Becomes(r, pc, op, t, orig, row)
<1>1. CASE Done(r)
    BY <1>1, DoneBecomes DEF Actors
<1>2. CASE LeftBehind(actor[r].pc) # "idle" /\ Goto(r, LeftBehind(actor[r].pc))
    <2>1. PICK pc : pc = LeftBehind(actor[r].pc)
        OBVIOUS
    <2>2. pc \in LatePcs /\ pc \in Pcs /\ Goto(r, pc)
        BY <1>2, <2>1 DEF LeftBehind, LatePcs, Pcs
    <2>3. Becomes(r, pc, actor[r].op, actor[r].t, actor[r].orig, actor[r].row)
        BY <2>2, GotoBecomes DEF Actors
    <2> QED
        BY <2>2, <2>3
<1> QED
    BY <1>1, <1>2 DEF DropRequest

\* A request goes on, or is dropped.
LEMMA RequestMoves ==
    ASSUME Types, ActorInv, NEW r \in Requests
    PROVE  /\ TakeSlot(r) => Moves({"slot"}, {"count"})
           /\ ensure_active_slot(r) => Moves({"count"}, {"idle", "write"})
           /\ WriteRow(r) => Moves({"write"}, {"sync", "watch", "idle"})
           /\ WatchNew(r) => Moves({"watch"}, {"idle"})
           /\ SyncPositions(r) => Moves({"positions"}, {"idle", "undo"})
           /\ RollBack(r) => Moves({"undo"}, {"idle"})
           /\ Unwatch(r) => Moves({"unwatch"}, {"enqueue", "idle"})
           /\ EnqueueDelete(r) => Moves({"enqueue"}, {"restore", "wait"})
           /\ FinalDetach(r) => Moves({"final"}, {"idle"})
           /\ RestoreWatch(r) => Moves({"restore"}, {"sync", "idle"})
           /\ LateWrite(r) => Moves({"late_write"}, {"idle"})
           /\ LateAttach(r) => Moves({"late_attach"}, {"idle"})
           /\ LateDetach(r) => Moves({"late_detach"}, {"idle"})
           /\ DropRequest(r) => Moves({actor[r].pc}, {"idle"} \cup LatePcs)
<1> USE DoneMoves, GotoMoves, Carried DEF At, Actors
<1>0. {"count", "write", "sync", "watch", "undo", "enqueue", "restore", "wait", "sync"} \subseteq Pcs
    BY DEF Pcs
<1>1. ASSUME TakeSlot(r) PROVE Moves({"slot"}, {"count"})
    BY <1>0, <1>1 DEF TakeSlot
<1>2. ASSUME ensure_active_slot(r) PROVE Moves({"count"}, {"idle", "write"})
    BY <1>0, <1>2 DEF ensure_active_slot
<1>3. ASSUME WriteRow(r) PROVE Moves({"write"}, {"sync", "watch", "idle"})
    BY <1>0, <1>3 DEF WriteRow
<1>4. ASSUME WatchNew(r) PROVE Moves({"watch"}, {"idle"})
    BY <1>4 DEF WatchNew
<1>5. ASSUME SyncPositions(r) PROVE Moves({"positions"}, {"idle", "undo"})
    BY <1>0, <1>5 DEF SyncPositions
<1>6. ASSUME RollBack(r) PROVE Moves({"undo"}, {"idle"})
    BY <1>6 DEF RollBack
<1>7. ASSUME Unwatch(r) PROVE Moves({"unwatch"}, {"enqueue", "idle"})
    BY <1>0, <1>7 DEF Unwatch
<1>8. ASSUME EnqueueDelete(r) PROVE Moves({"enqueue"}, {"restore", "wait"})
    BY <1>0, <1>8 DEF EnqueueDelete
<1>9. ASSUME FinalDetach(r) PROVE Moves({"final"}, {"idle"})
    BY <1>9 DEF FinalDetach
<1>10. ASSUME RestoreWatch(r) PROVE Moves({"restore"}, {"sync", "idle"})
    BY <1>10, RestoreMoves
<1>11. ASSUME DropRequest(r) PROVE Moves({actor[r].pc}, {"idle"} \cup LatePcs)
    BY <1>11, DropMoves
<1>12. ASSUME LateWrite(r) PROVE Moves({"late_write"}, {"idle"})
    BY <1>12 DEF LateWrite
<1>13. ASSUME LateAttach(r) PROVE Moves({"late_attach"}, {"idle"})
    BY <1>13 DEF LateAttach
<1>14. ASSUME LateDetach(r) PROVE Moves({"late_detach"}, {"idle"})
    BY <1>14 DEF LateDetach
<1> QED
    BY <1>1, <1>2, <1>3, <1>4, <1>5, <1>6, <1>7, <1>8, <1>9, <1>10, <1>11, <1>12, <1>13, <1>14

\* sync_task_watch.
LEMMA SyncMoves ==
    ASSUME Types, ActorInv, NEW a \in Actors
    PROVE  /\ sync_task_watch(a) => Moves({"sync"}, {"attach", "detach"})
           /\ Attach(a) => Moves({"attach"}, {"recheck", "positions", "undo", "idle"})
           /\ attach_while_stored(a) => Moves({"recheck"}, {"detach", "positions", "undo", "idle"})
           /\ Detach(a) => Moves({"detach"}, {"positions", "undo", "idle"})
<1>0. {"attach", "recheck", "detach"} \subseteq Pcs
    BY DEF Pcs
<1>1. ASSUME sync_task_watch(a) PROVE Moves({"sync"}, {"attach", "detach"})
    <2>1. PICK pc \in {"attach", "detach"} : Goto(a, pc)
        BY <1>1 DEF sync_task_watch
    <2> QED
        BY <1>0, <1>1, <2>1, GotoMoves DEF sync_task_watch, At
<1>2. ASSUME Attach(a) PROVE Moves({"attach"}, {"recheck", "positions", "undo", "idle"})
    <2>1. actor[a].pc \in {"attach"} /\ actor[a].pc # "idle"
        BY <1>2 DEF Attach, At
    <2>2. CASE Goto(a, "recheck")
        BY <1>0, <2>1, <2>2, GotoMoves
    <2>3. CASE SyncEnded(a)
        BY <2>1, <2>3, SyncEndsMoves
    <2> QED
        BY <1>2, <2>2, <2>3 DEF Attach, SyncEnded
<1>3. ASSUME attach_while_stored(a) PROVE Moves({"recheck"}, {"detach", "positions", "undo", "idle"})
    <2>1. actor[a].pc \in {"recheck"} /\ actor[a].pc # "idle"
        BY <1>3 DEF attach_while_stored, At
    <2>2. CASE Goto(a, "detach")
        BY <1>0, <2>1, <2>2, GotoMoves
    <2>3. CASE SyncEnded(a)
        BY <2>1, <2>3, SyncEndsMoves
    <2> QED
        BY <1>3, <2>2, <2>3 DEF attach_while_stored, SyncEnded
<1>4. ASSUME Detach(a) PROVE Moves({"detach"}, {"positions", "undo", "idle"})
    <2>1. actor[a].pc \in {"detach"} /\ actor[a].pc # "idle"
        BY <1>4 DEF Detach, At
    <2>3. CASE SyncEnded(a)
        BY <2>1, <2>3, SyncEndsMoves
    <2> QED
        BY <1>4, <2>3 DEF Detach, SyncEnded
<1> QED
    BY <1>1, <1>2, <1>3, <1>4

\* The copy service.
LEMMA ServiceMoves ==
    ASSUME Types, ActorInv
    PROVE  /\ \A t \in Tasks : process_activity(t) => Moves({"idle"}, {"copy"})
           /\ \A t \in Tasks : Reconcile(t) => Moves({"idle"}, {"judge", "follow"})
           /\ apply_latency_kill_switch => Moves({"copy"}, {"sync", "idle"})
           /\ enqueue_paper => Moves({"copy"}, {"idle"})
           /\ prepare_entry => Moves({"copy"}, {"submit", "idle"})
           /\ execute_live => Moves({"submit"}, {"record", "idle"})
           /\ record_outcome => Moves({"record"}, {"idle"})
           /\ JudgeDetached => Moves({"judge"}, {"pause", "idle"})
           /\ PauseDetached => Moves({"pause"}, {"idle"})
           /\ sync_paused_watches => Moves({"follow"}, {"sync", "idle"})
<1> USE DoneMoves, GotoMoves, Carried DEF At, ServiceAt, Actors
<1>0. {"submit", "record", "pause", "sync"} \subseteq Pcs /\ {"copy", "guard", "reconcile"} \subseteq Ops \ {"update"}
    BY DEF Pcs, Ops
<1>1. ASSUME NEW t \in Tasks, process_activity(t) PROVE Moves({"idle"}, {"copy"})
    BY <1>0, <1>1, BusyMoves, ActorStays DEF process_activity
<1>2. ASSUME NEW t \in Tasks, Reconcile(t) PROVE Moves({"idle"}, {"judge", "follow"})
    BY <1>0, <1>2, BusyMoves DEF Reconcile
<1>3. ASSUME apply_latency_kill_switch PROVE Moves({"copy"}, {"sync", "idle"})
    BY <1>3, KillMoves
<1>4. ASSUME enqueue_paper PROVE Moves({"copy"}, {"idle"})
    BY <1>4 DEF enqueue_paper
<1>5. ASSUME prepare_entry PROVE Moves({"copy"}, {"submit", "idle"})
    BY <1>0, <1>5 DEF prepare_entry
<1>6. ASSUME execute_live PROVE Moves({"submit"}, {"record", "idle"})
    BY <1>0, <1>6 DEF execute_live
<1>7. ASSUME record_outcome PROVE Moves({"record"}, {"idle"})
    BY <1>7 DEF record_outcome
<1>8. ASSUME JudgeDetached PROVE Moves({"judge"}, {"pause", "idle"})
    BY <1>0, <1>8 DEF JudgeDetached
<1>9. ASSUME PauseDetached PROVE Moves({"pause"}, {"idle"})
    BY <1>9 DEF PauseDetached
<1>10. ASSUME sync_paused_watches PROVE Moves({"follow"}, {"sync", "idle"})
    BY <1>0, <1>10 DEF sync_paused_watches
<1> QED
    BY <1>1, <1>2, <1>3, <1>4, <1>5, <1>6, <1>7, <1>8, <1>9, <1>10

\* A task's queue moves at most the request that waits for its removal.
LEMMA QueueMoves ==
    ASSUME Types, ActorInv, JobInv, NEW t \in Tasks
    PROVE  /\ Launch(t) \/ execute_paper_entry(t) \/ paper_trade_wanted(t) \/ book_buy(t) => UNCHANGED actor
           /\ CheckDelete(t) => Moves({"wait"}, {"restore"})
           /\ SettleRounds(t) => Moves({"wait"}, {"restore"})
           /\ RemoveRow(t) => Moves({"wait"}, {"restore", "final"})
<1>1. ASSUME Launch(t) \/ execute_paper_entry(t) \/ paper_trade_wanted(t) \/ book_buy(t) PROVE UNCHANGED actor
    BY <1>1 DEF Launch, execute_paper_entry, paper_trade_wanted, book_buy
<1>2. ASSUME CheckDelete(t) PROVE Moves({"wait"}, {"restore"})
    BY <1>2, AnsweredMoves, ActorStays DEF CheckDelete
<1>3. ASSUME SettleRounds(t) PROVE Moves({"wait"}, {"restore"})
    <2>1. running[t].who \in Requests
        BY <1>3 DEF SettleRounds, JobInv, JobOK
    <2> QED
        BY <1>3, <2>1, AnsweredMoves, ActorStays DEF SettleRounds
<1>4. ASSUME RemoveRow(t) PROVE Moves({"wait"}, {"restore", "final"})
    <2>1. running[t].who \in Requests
        BY <1>4 DEF RemoveRow, JobInv, JobOK
    <2> QED
        BY <1>4, <2>1, AnsweredMoves DEF RemoveRow
<1> QED
    BY <1>1, <1>2, <1>3, <1>4

\* A restart leaves every actor idle.
LEMMA RestartMoves ==
    ASSUME Restart
    PROVE  /\ actor' \in [Actors -> ActorState] /\ ActorInv'
           /\ \A b \in Actors : actor'[b].pc = "idle"
<1>1. "idle" \in Pcs /\ "none" \in Ops /\ None \in Tasks \cup {None} /\ NoRow \in Row
    BY Rows DEF Pcs, Ops
<1>2. Idle \in ActorState /\ Idle.pc = "idle" /\ Idle.op = "none"
    BY <1>1, ActorFields, Zenon DEF Idle
<1>3. actor' \in [Actors -> ActorState] /\ \A b \in Actors : actor'[b] = Idle
    BY <1>2 DEF Restart
<1> QED
    BY <1>2, <1>3 DEF ActorInv, ActorOK

-----------------------------------------------------------------------------
(* The variables, by the actions that write them.                           *)

\* Which actions write rows.
LEMMA RowFrame ==
    ASSUME [Next]_vars
    PROVE  \/ UNCHANGED rowVars
           \/ \E r \in Requests : WriteRow(r) \/ WatchNew(r) \/ RollBack(r) \/ LateWrite(r)
           \/ apply_latency_kill_switch \/ PauseDetached
           \/ \E t \in Tasks : RemoveRow(t) \/ Settled(t)
<1> USE DEF vars, rowVars, copyVars, bounds
<1>1. CASE \E r \in Requests, t \in Tasks : RequestStarts(r, t)
    BY <1>1 DEF RequestStarts, create_task, delete_task, update_task, Begin
<1>2. CASE \E r \in Requests : RequestStep(r) \/ DropRequest(r)
    <2>1. PICK r \in Requests : RequestStep(r) \/ DropRequest(r)
        BY <1>2
    <2>2. CASE TakeSlot(r) \/ ensure_active_slot(r) \/ WriteRow(r) \/ WatchNew(r)
        BY <2>2 DEF TakeSlot, ensure_active_slot, WriteRow, WatchNew
    <2>3. CASE SyncPositions(r) \/ RollBack(r) \/ Unwatch(r) \/ EnqueueDelete(r)
        BY <2>3 DEF SyncPositions, RollBack, Unwatch, EnqueueDelete
    <2>4. CASE FinalDetach(r) \/ RestoreWatch(r) \/ LateWrite(r)
        BY <2>4 DEF FinalDetach, RestoreWatch, LateWrite
    <2>5. CASE LateAttach(r) \/ LateDetach(r) \/ DropRequest(r)
        BY <2>5 DEF LateAttach, LateDetach, DropRequest
    <2> QED
        BY <2>1, <2>2, <2>3, <2>4, <2>5, Zenon DEF RequestStep
<1>3. CASE \E a \in Actors : SyncStep(a)
    BY <1>3 DEF SyncStep, sync_task_watch, Attach, attach_while_stored, Detach
<1>4. CASE \E t \in Tasks : process_activity(t) \/ Reconcile(t) \/ QueueStep(t) \/ Detect(t)
    BY <1>4 DEF process_activity, Reconcile, Detect, QueueStep, Launch, execute_paper_entry, paper_trade_wanted, book_buy, CheckDelete, SettleRounds, RemoveRow
<1>5. CASE \E t \in Tasks : CloseCopy(t) \/ Settled(t) \/ WatcherStops(t) \/ UserRestores(t)
    BY <1>5 DEF CloseCopy, Settled, WatcherStops, UserRestores
<1>6. CASE ServiceStep
    BY <1>6 DEF ServiceStep, apply_latency_kill_switch, enqueue_paper, prepare_entry, execute_live, record_outcome, JudgeDetached, PauseDetached, sync_paused_watches
<1>7. CASE Restart
    BY <1>7 DEF Restart
<1>8. CASE UNCHANGED vars
    BY <1>8
<1> QED
    BY <1>1, <1>2, <1>3, <1>4, <1>5, <1>6, <1>7, <1>8 DEF Next

\* Which actions touch the queues.
LEMMA QueueFrame ==
    ASSUME [Next]_vars
    PROVE  \/ UNCHANGED <<fifo, running>>
           \/ \E r \in Requests : EnqueueDelete(r)
           \/ enqueue_paper
           \/ \E t \in Tasks : QueueStep(t)
           \/ Restart
<1> USE DEF vars, rowVars, copyVars, bounds
<1>1. CASE \E r \in Requests, t \in Tasks : RequestStarts(r, t)
    BY <1>1 DEF RequestStarts, create_task, delete_task, update_task, Begin
<1>2. CASE \E r \in Requests : RequestStep(r) \/ DropRequest(r)
    <2>1. PICK r \in Requests : RequestStep(r) \/ DropRequest(r)
        BY <1>2
    <2>2. CASE TakeSlot(r) \/ ensure_active_slot(r) \/ WriteRow(r) \/ WatchNew(r)
        BY <2>2 DEF TakeSlot, ensure_active_slot, WriteRow, WatchNew
    <2>3. CASE SyncPositions(r) \/ RollBack(r) \/ Unwatch(r) \/ EnqueueDelete(r)
        BY <2>3 DEF SyncPositions, RollBack, Unwatch, EnqueueDelete
    <2>4. CASE FinalDetach(r) \/ RestoreWatch(r) \/ LateWrite(r)
        BY <2>4 DEF FinalDetach, RestoreWatch, LateWrite
    <2>5. CASE LateAttach(r) \/ LateDetach(r) \/ DropRequest(r)
        BY <2>5 DEF LateAttach, LateDetach, DropRequest
    <2> QED
        BY <2>1, <2>2, <2>3, <2>4, <2>5, Zenon DEF RequestStep
<1>3. CASE \E a \in Actors : SyncStep(a)
    BY <1>3 DEF SyncStep, sync_task_watch, Attach, attach_while_stored, Detach
<1>4. CASE \E t \in Tasks : process_activity(t) \/ Reconcile(t) \/ QueueStep(t) \/ Detect(t)
    BY <1>4 DEF process_activity, Reconcile, Detect, QueueStep, Launch, execute_paper_entry, paper_trade_wanted, book_buy, CheckDelete, SettleRounds, RemoveRow
<1>5. CASE \E t \in Tasks : CloseCopy(t) \/ Settled(t) \/ WatcherStops(t) \/ UserRestores(t)
    BY <1>5 DEF CloseCopy, Settled, WatcherStops, UserRestores
<1>6. CASE ServiceStep
    BY <1>6 DEF ServiceStep, apply_latency_kill_switch, enqueue_paper, prepare_entry, execute_live, record_outcome, JudgeDetached, PauseDetached, sync_paused_watches
<1>7. CASE Restart
    BY <1>7 DEF Restart
<1>8. CASE UNCHANGED vars
    BY <1>8
<1> QED
    BY <1>1, <1>2, <1>3, <1>4, <1>5, <1>6, <1>7, <1>8 DEF Next

\* Which actions touch the books.
LEMMA BookFrame ==
    ASSUME [Next]_vars
    PROVE  \/ UNCHANGED copyVars
           \/ execute_live \/ record_outcome
           \/ \E t \in Tasks : book_buy(t) \/ SettleRounds(t) \/ CloseCopy(t)
           \/ Restart
<1> USE DEF vars, rowVars, copyVars, bounds
<1>1. CASE \E r \in Requests, t \in Tasks : RequestStarts(r, t)
    BY <1>1 DEF RequestStarts, create_task, delete_task, update_task, Begin
<1>2. CASE \E r \in Requests : RequestStep(r) \/ DropRequest(r)
    <2>1. PICK r \in Requests : RequestStep(r) \/ DropRequest(r)
        BY <1>2
    <2>2. CASE TakeSlot(r) \/ ensure_active_slot(r) \/ WriteRow(r) \/ WatchNew(r)
        BY <2>2 DEF TakeSlot, ensure_active_slot, WriteRow, WatchNew
    <2>3. CASE SyncPositions(r) \/ RollBack(r) \/ Unwatch(r) \/ EnqueueDelete(r)
        BY <2>3 DEF SyncPositions, RollBack, Unwatch, EnqueueDelete
    <2>4. CASE FinalDetach(r) \/ RestoreWatch(r) \/ LateWrite(r)
        BY <2>4 DEF FinalDetach, RestoreWatch, LateWrite
    <2>5. CASE LateAttach(r) \/ LateDetach(r) \/ DropRequest(r)
        BY <2>5 DEF LateAttach, LateDetach, DropRequest
    <2> QED
        BY <2>1, <2>2, <2>3, <2>4, <2>5, Zenon DEF RequestStep
<1>3. CASE \E a \in Actors : SyncStep(a)
    BY <1>3 DEF SyncStep, sync_task_watch, Attach, attach_while_stored, Detach
<1>4. CASE \E t \in Tasks : process_activity(t) \/ Reconcile(t) \/ QueueStep(t) \/ Detect(t)
    BY <1>4 DEF process_activity, Reconcile, Detect, QueueStep, Launch, execute_paper_entry, paper_trade_wanted, book_buy, CheckDelete, SettleRounds, RemoveRow
<1>5. CASE \E t \in Tasks : CloseCopy(t) \/ Settled(t) \/ WatcherStops(t) \/ UserRestores(t)
    BY <1>5 DEF CloseCopy, Settled, WatcherStops, UserRestores
<1>6. CASE ServiceStep
    BY <1>6 DEF ServiceStep, apply_latency_kill_switch, enqueue_paper, prepare_entry, execute_live, record_outcome, JudgeDetached, PauseDetached, sync_paused_watches
<1>7. CASE Restart
    BY <1>7 DEF Restart
<1>8. CASE UNCHANGED vars
    BY <1>8
<1> QED
    BY <1>1, <1>2, <1>3, <1>4, <1>5, <1>6, <1>7, <1>8 DEF Next

\* Which actions touch the sources and what is remembered of them.
LEMMA WatchFrame ==
    ASSUME [Next]_vars
    PROVE  \/ UNCHANGED <<source, torn, undone>>
           \/ \E r \in Requests : \/ WatchNew(r) \/ Unwatch(r) \/ FinalDetach(r)
                                \/ LateAttach(r) \/ LateDetach(r) \/ DropRequest(r)
           \/ \E a \in Actors : Attach(a) \/ attach_while_stored(a) \/ Detach(a)
           \/ \E t \in Tasks : RemoveRow(t) \/ WatcherStops(t) \/ UserRestores(t)
           \/ Restart
<1> USE DEF vars, rowVars, copyVars, bounds
<1>1. CASE \E r \in Requests, t \in Tasks : RequestStarts(r, t)
    BY <1>1 DEF RequestStarts, create_task, delete_task, update_task, Begin
<1>2. CASE \E r \in Requests : RequestStep(r) \/ DropRequest(r)
    <2>1. PICK r \in Requests : RequestStep(r) \/ DropRequest(r)
        BY <1>2
    <2>2. CASE TakeSlot(r) \/ ensure_active_slot(r) \/ WriteRow(r) \/ WatchNew(r)
        BY <2>2 DEF TakeSlot, ensure_active_slot, WriteRow, WatchNew
    <2>3. CASE SyncPositions(r) \/ RollBack(r) \/ Unwatch(r) \/ EnqueueDelete(r)
        BY <2>3 DEF SyncPositions, RollBack, Unwatch, EnqueueDelete
    <2>4. CASE FinalDetach(r) \/ RestoreWatch(r) \/ LateWrite(r)
        BY <2>4 DEF FinalDetach, RestoreWatch, LateWrite
    <2>5. CASE LateAttach(r) \/ LateDetach(r) \/ DropRequest(r)
        BY <2>5 DEF LateAttach, LateDetach, DropRequest
    <2> QED
        BY <2>1, <2>2, <2>3, <2>4, <2>5, Zenon DEF RequestStep
<1>3. CASE \E a \in Actors : SyncStep(a)
    BY <1>3 DEF SyncStep, sync_task_watch, Attach, attach_while_stored, Detach
<1>4. CASE \E t \in Tasks : process_activity(t) \/ Reconcile(t) \/ QueueStep(t) \/ Detect(t)
    BY <1>4 DEF process_activity, Reconcile, Detect, QueueStep, Launch, execute_paper_entry, paper_trade_wanted, book_buy, CheckDelete, SettleRounds, RemoveRow
<1>5. CASE \E t \in Tasks : CloseCopy(t) \/ Settled(t) \/ WatcherStops(t) \/ UserRestores(t)
    BY <1>5 DEF CloseCopy, Settled, WatcherStops, UserRestores
<1>6. CASE ServiceStep
    BY <1>6 DEF ServiceStep, apply_latency_kill_switch, enqueue_paper, prepare_entry, execute_live, record_outcome, JudgeDetached, PauseDetached, sync_paused_watches
<1>7. CASE Restart
    BY <1>7 DEF Restart
<1>8. CASE UNCHANGED vars
    BY <1>8
<1> QED
    BY <1>1, <1>2, <1>3, <1>4, <1>5, <1>6, <1>7, <1>8 DEF Next

\* Which actions touch ACTIVE_SLOT.
LEMMA SlotFrame ==
    ASSUME [Next]_vars
    PROVE  \/ UNCHANGED slot
           \/ \E r \in Requests : TakeSlot(r) \/ ensure_active_slot(r) \/ WriteRow(r) \/ DropRequest(r)
           \/ Restart
<1> USE DEF vars, rowVars, copyVars, bounds
<1>1. CASE \E r \in Requests, t \in Tasks : RequestStarts(r, t)
    BY <1>1 DEF RequestStarts, create_task, delete_task, update_task, Begin
<1>2. CASE \E r \in Requests : RequestStep(r) \/ DropRequest(r)
    <2>1. PICK r \in Requests : RequestStep(r) \/ DropRequest(r)
        BY <1>2
    <2>2. CASE TakeSlot(r) \/ ensure_active_slot(r) \/ WriteRow(r) \/ WatchNew(r)
        BY <2>2 DEF TakeSlot, ensure_active_slot, WriteRow, WatchNew
    <2>3. CASE SyncPositions(r) \/ RollBack(r) \/ Unwatch(r) \/ EnqueueDelete(r)
        BY <2>3 DEF SyncPositions, RollBack, Unwatch, EnqueueDelete
    <2>4. CASE FinalDetach(r) \/ RestoreWatch(r) \/ LateWrite(r)
        BY <2>4 DEF FinalDetach, RestoreWatch, LateWrite
    <2>5. CASE LateAttach(r) \/ LateDetach(r) \/ DropRequest(r)
        BY <2>5 DEF LateAttach, LateDetach, DropRequest
    <2> QED
        BY <2>1, <2>2, <2>3, <2>4, <2>5, Zenon DEF RequestStep
<1>3. CASE \E a \in Actors : SyncStep(a)
    BY <1>3 DEF SyncStep, sync_task_watch, Attach, attach_while_stored, Detach
<1>4. CASE \E t \in Tasks : process_activity(t) \/ Reconcile(t) \/ QueueStep(t) \/ Detect(t)
    BY <1>4 DEF process_activity, Reconcile, Detect, QueueStep, Launch, execute_paper_entry, paper_trade_wanted, book_buy, CheckDelete, SettleRounds, RemoveRow
<1>5. CASE \E t \in Tasks : CloseCopy(t) \/ Settled(t) \/ WatcherStops(t) \/ UserRestores(t)
    BY <1>5 DEF CloseCopy, Settled, WatcherStops, UserRestores
<1>6. CASE ServiceStep
    BY <1>6 DEF ServiceStep, apply_latency_kill_switch, enqueue_paper, prepare_entry, execute_live, record_outcome, JudgeDetached, PauseDetached, sync_paused_watches
<1>7. CASE Restart
    BY <1>7 DEF Restart
<1>8. CASE UNCHANGED vars
    BY <1>8
<1> QED
    BY <1>1, <1>2, <1>3, <1>4, <1>5, <1>6, <1>7, <1>8 DEF Next

\* Which actions touch the activity channel.
LEMMA MailFrame ==
    ASSUME [Next]_vars
    PROVE  \/ UNCHANGED mail
           \/ \E t \in Tasks : Detect(t) \/ process_activity(t)
           \/ Restart
<1> USE DEF vars, rowVars, copyVars, bounds
<1>1. CASE \E r \in Requests, t \in Tasks : RequestStarts(r, t)
    BY <1>1 DEF RequestStarts, create_task, delete_task, update_task, Begin
<1>2. CASE \E r \in Requests : RequestStep(r) \/ DropRequest(r)
    <2>1. PICK r \in Requests : RequestStep(r) \/ DropRequest(r)
        BY <1>2
    <2>2. CASE TakeSlot(r) \/ ensure_active_slot(r) \/ WriteRow(r) \/ WatchNew(r)
        BY <2>2 DEF TakeSlot, ensure_active_slot, WriteRow, WatchNew
    <2>3. CASE SyncPositions(r) \/ RollBack(r) \/ Unwatch(r) \/ EnqueueDelete(r)
        BY <2>3 DEF SyncPositions, RollBack, Unwatch, EnqueueDelete
    <2>4. CASE FinalDetach(r) \/ RestoreWatch(r) \/ LateWrite(r)
        BY <2>4 DEF FinalDetach, RestoreWatch, LateWrite
    <2>5. CASE LateAttach(r) \/ LateDetach(r) \/ DropRequest(r)
        BY <2>5 DEF LateAttach, LateDetach, DropRequest
    <2> QED
        BY <2>1, <2>2, <2>3, <2>4, <2>5, Zenon DEF RequestStep
<1>3. CASE \E a \in Actors : SyncStep(a)
    BY <1>3 DEF SyncStep, sync_task_watch, Attach, attach_while_stored, Detach
<1>4. CASE \E t \in Tasks : process_activity(t) \/ Reconcile(t) \/ QueueStep(t) \/ Detect(t)
    BY <1>4 DEF process_activity, Reconcile, Detect, QueueStep, Launch, execute_paper_entry, paper_trade_wanted, book_buy, CheckDelete, SettleRounds, RemoveRow
<1>5. CASE \E t \in Tasks : CloseCopy(t) \/ Settled(t) \/ WatcherStops(t) \/ UserRestores(t)
    BY <1>5 DEF CloseCopy, Settled, WatcherStops, UserRestores
<1>6. CASE ServiceStep
    BY <1>6 DEF ServiceStep, apply_latency_kill_switch, enqueue_paper, prepare_entry, execute_live, record_outcome, JudgeDetached, PauseDetached, sync_paused_watches
<1>7. CASE Restart
    BY <1>7 DEF Restart
<1>8. CASE UNCHANGED vars
    BY <1>8
<1> QED
    BY <1>1, <1>2, <1>3, <1>4, <1>5, <1>6, <1>7, <1>8 DEF Next

-----------------------------------------------------------------------------
(* The rows.                                                                *)

RowTypes == task \in [Tasks -> Row] /\ fresh \in SUBSET Tasks /\ revived \in SUBSET Tasks

\* A stored row is stored.
LEMMA StoreTyped ==
    ASSUME Types, RowInv, NEW t \in Tasks, NEW row \in Row, row.st = "stored", NEW counted, Store(t, row, counted)
    PROVE  RowTypes' /\ RowInv'
BY DEF Types, RowInv, RowTypes, Store

\* An erased row is gone.
LEMMA EraseTyped ==
    ASSUME Types, RowInv, NEW t \in Tasks, Erase(t)
    PROVE  RowTypes' /\ RowInv'
BY Rows DEF Types, RowInv, RowTypes, Erase

\* Only a stored row is enabled.
LEMMA RowStep ==
    ASSUME Types, ActorInv, JobInv, RowInv, [Next]_vars
    PROVE  RowTypes' /\ RowInv'
<1> USE Carried
<1>1. ASSUME NEW r \in Requests, WriteRow(r) \/ WatchNew(r) \/ RollBack(r) \/ LateWrite(r)
      PROVE  RowTypes' /\ RowInv'
    <2>1. CASE UNCHANGED rowVars
        BY <2>1 DEF Types, RowInv, RowTypes, rowVars
    <2>2. CASE WriteRow(r) /\ Store(actor[r].t, actor[r].row, ~ actor[r].orig.enabled)
        BY <2>2, StoreTyped DEF WriteRow, At, Actors
    <2>3. CASE WatchNew(r) /\ Erase(actor[r].t)
        BY <2>3, EraseTyped DEF WatchNew, At, Actors
    <2>4. CASE RollBack(r) /\ Store(actor[r].t, actor[r].orig, FALSE)
        BY <2>4, StoreTyped DEF RollBack, At, Actors
    <2>5. CASE LateWrite(r) /\ Store(actor[r].t, actor[r].row, FALSE)
        BY <2>5, StoreTyped DEF LateWrite, At, Actors
    <2> QED
        BY <1>1, <2>1, <2>2, <2>3, <2>4, <2>5 DEF WriteRow, WatchNew, RollBack, LateWrite
<1>2. ASSUME apply_latency_kill_switch \/ PauseDetached PROVE RowTypes' /\ RowInv'
    <2>1. CASE UNCHANGED rowVars
        BY <2>1 DEF Types, RowInv, RowTypes, rowVars
    <2>2. ASSUME NEW why \in {"guard", "watch"}, Store(ServiceTask, Paused(why), FALSE)
          PROVE  RowTypes' /\ RowInv'
        <3>1. ServiceTask \in Tasks
            BY <1>2 DEF apply_latency_kill_switch, PauseDetached, ServiceAt, ServiceTask, At, Actors
        <3>2. Paused(why) \in Row /\ Paused(why).st = "stored"
            BY Rows DEF Reasons
        <3> QED
            BY <2>2, <3>1, <3>2, StoreTyped
    <2> QED
        BY <1>2, <2>1, <2>2 DEF apply_latency_kill_switch, PauseDetached, pause_task
<1>3. ASSUME NEW t \in Tasks, RemoveRow(t) \/ Settled(t) PROVE RowTypes' /\ RowInv'
    <2>1. CASE UNCHANGED rowVars
        BY <2>1 DEF Types, RowInv, RowTypes, rowVars
    <2>2. CASE Settled(t)
        BY <2>2 DEF Settled, Types, RowInv, RowTypes
    <2>3. CASE Erase(t)
        BY <2>3, EraseTyped
    <2> QED
        BY <1>3, <2>1, <2>2, <2>3 DEF RemoveRow
<1>4. CASE UNCHANGED rowVars
    BY <1>4 DEF Types, RowInv, RowTypes, rowVars
<1> QED
    BY <1>1, <1>2, <1>3, <1>4, RowFrame

-----------------------------------------------------------------------------
(* The queues.                                                              *)

QueueTypes == fifo \in [Tasks -> Seq(Requests \cup {"buy"})] /\ running \in [Tasks -> JobState]

\* A job put at the end of a queue: a buy, or the only removal.
LEMMA Appended ==
    ASSUME Types, JobInv, NEW t \in Tasks, NEW who \in Requests \cup {"buy"},
           fifo' = [fifo EXCEPT ![t] = Append(@, who)], UNCHANGED running,
           Len(fifo[t]) < QueueCapacity, QueueCapacity \in Nat,
           who \in Requests => ~ DeleteQueued(t)
    PROVE  QueueTypes' /\ JobInv'
<1>1. PICK q \in Seq(Requests \cup {"buy"}) : q = fifo[t]
    BY DEF Types
<1>2. fifo'[t] = Append(q, who) /\ \A u \in Tasks : u # t => fifo'[u] = fifo[u]
    BY <1>1 DEF Types
<1>3. QueueTypes'
    <2>1. Append(q, who) \in Seq(Requests \cup {"buy"})
        BY <1>1
    <2>2. fifo' = [fifo EXCEPT ![t] = Append(q, who)]
        BY <1>1
    <2>3. fifo' \in [Tasks -> Seq(Requests \cup {"buy"})]
        BY <2>1, <2>2 DEF Types
    <2> QED
        BY <2>3 DEF Types, QueueTypes
<1>4. /\ Len(Append(q, who)) = Len(q) + 1 /\ DOMAIN Append(q, who) = 1 .. Len(q) + 1 /\ DOMAIN q = 1 .. Len(q)
      /\ Len(q) \in Nat
      /\ \A i \in 1 .. Len(q) : Append(q, who)[i] = q[i]
      /\ Append(q, who)[Len(q) + 1] = who
    BY <1>1
<1>5. JobOK(t)'
    <2>1. Len(fifo'[t]) <= QueueCapacity
        BY <1>1, <1>2, <1>4
    <2>2. ASSUME who \in Requests PROVE running[t].who \notin Requests /\ \A i \in 1 .. Len(q) : q[i] \notin Requests
        BY <1>1, <1>4, <2>2 DEF DeleteQueued
    <2>3. ASSUME running[t].who \in Requests, NEW i \in DOMAIN fifo'[t] PROVE fifo'[t][i] \notin Requests
        <3>1. CASE i \in 1 .. Len(q)
            BY <1>1, <1>2, <1>4, <2>3, <3>1 DEF JobInv, JobOK
        <3>2. CASE i = Len(q) + 1
            BY <1>2, <1>4, <2>2, <2>3, <3>2
        <3> QED
            BY <1>2, <1>4, <3>1, <3>2
    <2>4. ASSUME NEW i \in DOMAIN fifo'[t], NEW j \in DOMAIN fifo'[t], fifo'[t][i] \in Requests, fifo'[t][j] \in Requests
          PROVE  i = j
        <3>1. CASE i \in 1 .. Len(q) /\ j \in 1 .. Len(q)
            BY <1>1, <1>2, <1>4, <2>4, <3>1 DEF JobInv, JobOK
        <3>2. CASE i = Len(q) + 1 /\ j = Len(q) + 1
            BY <3>2
        <3>3. CASE i = Len(q) + 1 /\ j \in 1 .. Len(q)
            BY <1>2, <1>4, <2>2, <2>4, <3>3
        <3>4. CASE i \in 1 .. Len(q) /\ j = Len(q) + 1
            BY <1>2, <1>4, <2>2, <2>4, <3>4
        <3> QED
            BY <1>2, <1>4, <3>1, <3>2, <3>3, <3>4
    <2> QED
        BY <2>1, <2>3, <2>4 DEF JobInv, JobOK
<1>6. ASSUME NEW u \in Tasks, u # t PROVE JobOK(u)'
    BY <1>2, <1>6 DEF JobInv, JobOK
<1> QED
    BY <1>3, <1>5, <1>6 DEF JobInv

\* A job that moves on, or ends.
LEMMA JobMoved ==
    ASSUME Types, JobInv, NEW t \in Tasks, NEW pc, NEW who, Runs(t, pc, who), UNCHANGED fifo,
           pc \in {"fill", "book"} => who = "buy",
           pc \in {"settle", "remove"} => who \in Requests,
           who = running[t].who \/ who \notin Requests
    PROVE  QueueTypes' /\ JobInv'
<1>1. QueueTypes'
    BY DEF Runs, Types, QueueTypes
<1>2. JobOK(t)'
    BY DEF Runs, JobInv, JobOK
<1>3. ASSUME NEW u \in Tasks, u # t PROVE JobOK(u)'
    BY <1>3 DEF Runs, JobInv, JobOK
<1> QED
    BY <1>1, <1>2, <1>3 DEF JobInv

\* The next job of a queue runs.
LEMMA Launched ==
    ASSUME Types, JobInv, CopyConstants, NEW t \in Tasks, Launch(t)
    PROVE  /\ QueueTypes' /\ JobInv' /\ Runs(t, "start", Head(fifo[t]))
           /\ \A u \in Tasks : u # t => fifo'[u] = fifo[u]
           /\ \A i \in DOMAIN fifo'[t] : i + 1 \in DOMAIN fifo[t] /\ fifo'[t][i] = fifo[t][i + 1]
           /\ 1 \in DOMAIN fifo[t] /\ Head(fifo[t]) = fifo[t][1]
<1>1. PICK q \in Seq(Requests \cup {"buy"}) : q = fifo[t]
    BY DEF Types
<1>2. q # <<>> /\ fifo'[t] = Tail(q) /\ \A u \in Tasks : u # t => fifo'[u] = fifo[u]
    BY <1>1 DEF Launch, Types
<1>3. /\ Len(Tail(q)) = Len(q) - 1 /\ DOMAIN Tail(q) = 1 .. Len(q) - 1 /\ DOMAIN q = 1 .. Len(q)
      /\ Len(q) \in Nat /\ Len(q) >= 1 /\ Tail(q) \in Seq(Requests \cup {"buy"})
      /\ \A i \in 1 .. Len(q) - 1 : Tail(q)[i] = q[i + 1]
      /\ Head(q) = q[1] /\ q[1] \in Requests \cup {"buy"}
    BY <1>1, <1>2
<1>4. PICK who \in Requests \cup {"buy"} : who = Head(q)
    BY <1>3
<1>5. Runs(t, "start", who)
    <2>1. running' = [running EXCEPT ![t] = [pc |-> "start", who |-> who]]
        BY <1>1, <1>4 DEF Launch
    <2> QED
        BY <2>1 DEF Runs, Types, JobState, JobPcs
<1>6. QueueTypes'
    BY <1>1, <1>2, <1>3, <1>5 DEF Runs, Launch, Types, QueueTypes
<1>7. JobOK(t)'
    <2>1. Len(fifo'[t]) <= QueueCapacity
        BY <1>1, <1>2, <1>3 DEF JobInv, JobOK, CopyConstants
    <2>2. ASSUME NEW i \in DOMAIN fifo'[t], NEW j \in DOMAIN fifo'[t], fifo'[t][i] \in Requests, fifo'[t][j] \in Requests
          PROVE  i = j
        <3>1. i \in 1 .. Len(q) - 1 /\ j \in 1 .. Len(q) - 1 /\ i + 1 \in DOMAIN q /\ j + 1 \in DOMAIN q
            BY <1>2, <1>3
        <3>2. q[i + 1] \in Requests /\ q[j + 1] \in Requests
            BY <1>2, <1>3, <2>2, <3>1
        <3>3. i + 1 = j + 1
            BY <1>1, <3>1, <3>2 DEF JobInv, JobOK
        <3> QED
            BY <1>3, <3>1, <3>3
    <2>3. ASSUME who \in Requests, NEW i \in DOMAIN fifo'[t] PROVE fifo'[t][i] \notin Requests
        <3>1. i \in 1 .. Len(q) - 1 /\ i + 1 \in DOMAIN q /\ 1 \in DOMAIN q /\ i + 1 # 1
            BY <1>2, <1>3
        <3>2. q[1] \in Requests
            BY <1>3, <1>4, <2>3
        <3>3. q[i + 1] \notin Requests
            BY <1>1, <3>1, <3>2 DEF JobInv, JobOK
        <3> QED
            BY <1>2, <1>3, <3>1, <3>3
    <2> QED
        BY <1>5, <2>1, <2>2, <2>3 DEF Runs, JobOK
<1>8. ASSUME NEW u \in Tasks, u # t PROVE JobOK(u)'
    BY <1>2, <1>5, <1>8 DEF Runs, JobInv, JobOK
<1>9. \A i \in DOMAIN fifo'[t] : i + 1 \in DOMAIN fifo[t] /\ fifo'[t][i] = fifo[t][i + 1]
    BY <1>1, <1>2, <1>3
<1> QED
    BY <1>1, <1>2, <1>3, <1>4, <1>5, <1>6, <1>7, <1>8, <1>9 DEF JobInv

\* The steps of a running job, by where it was and where it goes.
LEMMA JobSteps ==
    ASSUME Types, JobInv, NEW t \in Tasks
    PROVE  /\ execute_paper_entry(t) => /\ running[t].pc = "start" /\ running[t].who = "buy"
                                        /\ \/ Runs(t, "fill", "buy") /\ task[t].enabled /\ bought[t] < Budget
                                           \/ Runs(t, "idle", None)
           /\ paper_trade_wanted(t) => /\ running[t].pc = "fill" /\ running[t].who = "buy"
                                       /\ Runs(t, "book", "buy") \/ Runs(t, "idle", None)
           /\ book_buy(t) => running[t].pc = "book" /\ running[t].who = "buy" /\ Runs(t, "idle", None)
           /\ CheckDelete(t) => /\ running[t].pc = "start" /\ running[t].who \in Requests
                                /\ Runs(t, "settle", running[t].who) \/ Runs(t, "idle", None)
           /\ SettleRounds(t) => /\ running[t].pc = "settle" /\ running[t].who \in Requests
                                 /\ Runs(t, "remove", running[t].who) \/ Runs(t, "idle", None)
           /\ RemoveRow(t) => running[t].pc = "remove" /\ running[t].who \in Requests /\ Runs(t, "idle", None)
<1> USE JobRuns, EndRuns DEF JobPcs
<1>1. ASSUME execute_paper_entry(t)
      PROVE  /\ running[t].pc = "start" /\ running[t].who = "buy"
             /\ \/ Runs(t, "fill", "buy") /\ task[t].enabled /\ bought[t] < Budget
                \/ Runs(t, "idle", None)
    <2>1. running[t].pc = "start" /\ running[t].who = "buy"
        BY <1>1 DEF execute_paper_entry
    <2> QED
        BY <1>1, <2>1 DEF execute_paper_entry
<1>2. ASSUME paper_trade_wanted(t)
      PROVE  /\ running[t].pc = "fill" /\ running[t].who = "buy"
             /\ Runs(t, "book", "buy") \/ Runs(t, "idle", None)
    <2>1. running[t].pc = "fill" /\ running[t].who = "buy"
        BY <1>2 DEF paper_trade_wanted, JobInv, JobOK
    <2> QED
        BY <1>2, <2>1 DEF paper_trade_wanted
<1>3. ASSUME book_buy(t) PROVE running[t].pc = "book" /\ running[t].who = "buy" /\ Runs(t, "idle", None)
    BY <1>3 DEF book_buy, JobInv, JobOK
<1>4. ASSUME CheckDelete(t)
      PROVE  /\ running[t].pc = "start" /\ running[t].who \in Requests
             /\ Runs(t, "settle", running[t].who) \/ Runs(t, "idle", None)
    BY <1>4 DEF CheckDelete
<1>5. ASSUME SettleRounds(t)
      PROVE  /\ running[t].pc = "settle" /\ running[t].who \in Requests
             /\ Runs(t, "remove", running[t].who) \/ Runs(t, "idle", None)
    BY <1>5 DEF SettleRounds, JobInv, JobOK
<1>6. ASSUME RemoveRow(t) PROVE running[t].pc = "remove" /\ running[t].who \in Requests /\ Runs(t, "idle", None)
    BY <1>6 DEF RemoveRow, JobInv, JobOK
<1> QED
    BY <1>1, <1>2, <1>3, <1>4, <1>5, <1>6

\* Queues keep their capacity and one removal a task.
LEMMA QueueStepTyped ==
    ASSUME Types, ActorInv, JobInv, CopyConstants, [Next]_vars
    PROVE  QueueTypes' /\ JobInv'
<1>1. ASSUME NEW r \in Requests, EnqueueDelete(r) PROVE QueueTypes' /\ JobInv'
    <2>1. actor[r].t \in Tasks
        BY <1>1, Carried DEF EnqueueDelete, At, Actors
    <2>2. CASE UNCHANGED fifo
        BY <1>1, <2>2 DEF EnqueueDelete, Types, QueueTypes, JobInv, JobOK
    <2>3. CASE /\ ~ DeleteQueued(actor[r].t) /\ ~ (Len(fifo[actor[r].t]) >= QueueCapacity)
               /\ fifo' = [fifo EXCEPT ![actor[r].t] = Append(@, r)]
        <3>1. Len(fifo[actor[r].t]) \in Nat /\ QueueCapacity \in Nat
            BY <2>1 DEF Types, CopyConstants
        <3>2. Len(fifo[actor[r].t]) < QueueCapacity
            BY <2>3, <3>1
        <3> QED
            BY <1>1, <2>1, <2>3, <3>1, <3>2, Appended DEF EnqueueDelete
    <2> QED
        BY <1>1, <2>2, <2>3 DEF EnqueueDelete
<1>2. ASSUME enqueue_paper PROVE QueueTypes' /\ JobInv'
    <2>1. ServiceTask \in Tasks
        BY <1>2, Carried DEF enqueue_paper, ServiceAt, ServiceTask, At, Actors
    <2>2. CASE UNCHANGED fifo
        BY <1>2, <2>2 DEF enqueue_paper, Types, QueueTypes, JobInv, JobOK
    <2>3. CASE /\ ~ (Len(fifo[ServiceTask]) >= QueueCapacity)
               /\ fifo' = [fifo EXCEPT ![ServiceTask] = Append(@, "buy")]
        <3>1. Len(fifo[ServiceTask]) \in Nat /\ QueueCapacity \in Nat /\ "buy" \notin Requests
            BY <2>1 DEF Types, CopyConstants
        <3>2. Len(fifo[ServiceTask]) < QueueCapacity
            BY <2>3, <3>1
        <3> QED
            BY <1>2, <2>1, <2>3, <3>1, <3>2, Appended DEF enqueue_paper
    <2> QED
        BY <1>2, <2>2, <2>3 DEF enqueue_paper
<1>3. ASSUME NEW t \in Tasks, QueueStep(t) PROVE QueueTypes' /\ JobInv'
    <2>1. CASE Launch(t)
        BY <2>1, Launched
    <2>2. CASE ~ Launch(t)
        <3>1. UNCHANGED fifo
            BY <1>3, <2>2 DEF QueueStep, execute_paper_entry, paper_trade_wanted, book_buy, CheckDelete,
                              SettleRounds, RemoveRow
        <3>2. None \notin Requests /\ "buy" \notin Requests
            BY DEF CopyConstants
        <3>3. CASE execute_paper_entry(t)
            BY <3>1, <3>2, <3>3, JobSteps, JobMoved
        <3>4. CASE paper_trade_wanted(t)
            BY <3>1, <3>2, <3>4, JobSteps, JobMoved
        <3>5. CASE book_buy(t)
            BY <3>1, <3>2, <3>5, JobSteps, JobMoved
        <3>6. CASE CheckDelete(t)
            BY <3>1, <3>2, <3>6, JobSteps, JobMoved
        <3>7. CASE SettleRounds(t)
            BY <3>1, <3>2, <3>7, JobSteps, JobMoved
        <3>8. CASE RemoveRow(t)
            BY <3>1, <3>2, <3>8, JobSteps, JobMoved
        <3> QED
            BY <1>3, <2>2, <3>3, <3>4, <3>5, <3>6, <3>7, <3>8 DEF QueueStep
    <2> QED
        BY <2>1, <2>2
<1>4. ASSUME Restart PROVE QueueTypes' /\ JobInv'
    <2>1. <<>> \in Seq(Requests \cup {"buy"}) /\ Len(<<>>) = 0 /\ DOMAIN <<>> = {}
        OBVIOUS
    <2>2. NoJob \in JobState /\ NoJob.pc = "idle" /\ NoJob.who = None
        BY DEF NoJob, JobState, JobPcs
    <2>3. fifo' = [t \in Tasks |-> <<>>] /\ running' = [t \in Tasks |-> NoJob]
        BY <1>4 DEF Restart
    <2>4. QueueTypes' /\ \A t \in Tasks : fifo'[t] = <<>> /\ running'[t] = NoJob
        BY <2>1, <2>2, <2>3 DEF QueueTypes
    <2>5. QueueCapacity \in Nat /\ None \notin Requests
        BY DEF CopyConstants
    <2> QED
        BY <2>1, <2>2, <2>4, <2>5 DEF JobInv, JobOK
<1>5. CASE UNCHANGED <<fifo, running>>
    BY <1>5 DEF Types, QueueTypes, JobInv, JobOK
<1> QED
    BY <1>1, <1>2, <1>3, <1>4, <1>5, QueueFrame

-----------------------------------------------------------------------------
(* The books, the sources, the slot and the channel.                        *)

BookTypes ==
    /\ bought \in [Tasks -> Nat] /\ open \in [Tasks -> Nat]
    /\ recorded \in [Tasks -> Nat] /\ escaped \in [Tasks -> Nat]
    /\ \A t \in Tasks : open[t] <= bought[t]

\* One more, for one task.
LEMMA CountedUp ==
    ASSUME NEW f \in [Tasks -> Nat], NEW t \in Tasks, NEW g, g = [f EXCEPT ![t] = @ + 1]
    PROVE  g \in [Tasks -> Nat] /\ g[t] = f[t] + 1 /\ \A u \in Tasks : u # t => g[u] = f[u]
OBVIOUS

\* A buy is one more copy bought and open.
LEMMA Bought ==
    ASSUME Types, NEW t \in Tasks, Buy(t)
    PROVE  /\ bought' \in [Tasks -> Nat] /\ open' \in [Tasks -> Nat]
           /\ bought'[t] = bought[t] + 1 /\ open'[t] = open[t] + 1
           /\ \A u \in Tasks : u # t => bought'[u] = bought[u] /\ open'[u] = open[u]
           /\ \A u \in Tasks : open'[u] <= bought'[u]
<1>1. /\ bought' \in [Tasks -> Nat] /\ bought'[t] = bought[t] + 1
      /\ \A u \in Tasks : u # t => bought'[u] = bought[u]
    BY CountedUp DEF Types, Buy
<1>2. /\ open' \in [Tasks -> Nat] /\ open'[t] = open[t] + 1
      /\ \A u \in Tasks : u # t => open'[u] = open[u]
    BY CountedUp DEF Types, Buy
<1>3. open[t] \in Nat /\ bought[t] \in Nat /\ open[t] <= bought[t] /\ \A u \in Tasks : open[u] <= bought[u]
    BY DEF Types
<1>4. open'[t] <= bought'[t]
    BY <1>1, <1>2, <1>3
<1> QED
    BY <1>1, <1>2, <1>3, <1>4

\* What the books of a task may do in a step.
LEMMA BookStep ==
    ASSUME Types, ActorInv, CopyConstants, [Next]_vars
    PROVE  BookTypes'
<1> USE DEF Types, BookTypes
<1>1. ASSUME execute_live \/ record_outcome PROVE BookTypes'
    <2>1. ServiceTask \in Tasks
        BY <1>1, Carried DEF execute_live, record_outcome, ServiceAt, ServiceTask, At, Actors
    <2>2. CASE execute_live
        <3>1. CASE UNCHANGED copyVars
            BY <3>1 DEF copyVars
        <3>2. CASE Buy(ServiceTask)
            <4>1. UNCHANGED recorded
                BY <2>2, <3>2 DEF execute_live, copyVars
            <4>2. escaped' \in [Tasks -> Nat]
                BY <2>1, <2>2, CountedUp DEF execute_live, copyVars
            <4> QED
                BY <2>1, <3>2, <4>1, <4>2, Bought
        <3> QED
            BY <2>2, <3>1, <3>2 DEF execute_live
    <2>3. CASE record_outcome
        <3>1. recorded' \in [Tasks -> Nat] /\ escaped' \in [Tasks -> Nat]
            BY <2>1, <2>3, CountedUp DEF record_outcome
        <3> QED
            BY <2>3, <3>1 DEF record_outcome
    <2> QED
        BY <1>1, <2>2, <2>3
<1>2. ASSUME NEW t \in Tasks, book_buy(t) \/ SettleRounds(t) \/ CloseCopy(t) PROVE BookTypes'
    <2>1. CASE book_buy(t)
        BY <2>1, Bought DEF book_buy
    <2>2. CASE SettleRounds(t)
        <3>1. UNCHANGED <<bought, recorded, escaped>>
            BY <2>2 DEF SettleRounds
        <3>2. CASE UNCHANGED open
            BY <3>1, <3>2
        <3>3. CASE open' = [open EXCEPT ![t] = 0]
            BY <3>1, <3>3
        <3> QED
            BY <2>2, <3>2, <3>3 DEF SettleRounds
    <2>3. CASE CloseCopy(t)
        <3>1. UNCHANGED <<bought, recorded, escaped>> /\ open[t] > 0 /\ open' = [open EXCEPT ![t] = @ - 1]
            BY <2>3 DEF CloseCopy
        <3>2. PICK n \in Nat : n = open[t] - 1
            BY <3>1
        <3>3. open' = [open EXCEPT ![t] = n] /\ open' \in [Tasks -> Nat]
            BY <3>1, <3>2
        <3>4. \A u \in Tasks : open'[u] <= bought[u]
            <4>1. n <= bought[t] /\ open'[t] = n
                BY <3>2, <3>3
            <4>2. \A u \in Tasks : u # t => open'[u] = open[u]
                BY <3>3
            <4> QED
                BY <4>1, <4>2
        <3> QED
            BY <3>1, <3>3, <3>4
    <2> QED
        BY <1>2, <2>1, <2>2, <2>3
<1>3. ASSUME Restart PROVE BookTypes'
    <2>1. ServiceAt("record") => ServiceTask \in Tasks
        BY Carried DEF ServiceAt, ServiceTask, At, Actors
    <2>2. escaped' \in [Tasks -> Nat]
        <3>1. CASE ServiceAt("record")
            <4>1. escaped' = [escaped EXCEPT ![ServiceTask] = @ + 1]
                BY <1>3, <3>1 DEF Restart
            <4> QED
                BY <2>1, <3>1, <4>1, CountedUp
        <3>2. CASE ~ ServiceAt("record")
            BY <1>3, <3>2 DEF Restart
        <3> QED
            BY <3>1, <3>2
    <2> QED
        BY <1>3, <2>2 DEF Restart
<1>4. CASE UNCHANGED copyVars
    BY <1>4 DEF copyVars
<1> QED
    BY <1>1, <1>2, <1>3, <1>4, BookFrame

WatchTypes ==
    source \in [Tasks -> {"off", "on", "stopped"}] /\ torn \in SUBSET Tasks /\ undone \in SUBSET Tasks

\* Sources and what is remembered of them stay those of tasks.
LEMMA WatchStep ==
    ASSUME Types, ActorInv, JobInv, [Next]_vars
    PROVE  WatchTypes'
<1> USE DEF Types, WatchTypes, Off, Left
<1>1. ASSUME NEW r \in Requests, \/ WatchNew(r) \/ Unwatch(r) \/ FinalDetach(r)
                                  \/ LateAttach(r) \/ LateDetach(r) \/ DropRequest(r)
      PROVE  WatchTypes'
    <2>1. actor[r].t \in Tasks
        BY <1>1, Carried DEF WatchNew, Unwatch, FinalDetach, LateAttach, LateDetach, DropRequest, At, Actors
    <2>2. CASE WatchNew(r)
        BY <2>1, <2>2 DEF WatchNew
    <2>3. CASE Unwatch(r)
        BY <2>1, <2>3 DEF Unwatch
    <2>4. CASE FinalDetach(r)
        BY <2>1, <2>4 DEF FinalDetach
    <2>5. CASE DropRequest(r)
        BY <2>1, <2>5 DEF DropRequest
    <2>6. CASE LateAttach(r)
        BY <2>1, <2>6 DEF LateAttach
    <2>7. CASE LateDetach(r)
        BY <2>1, <2>7 DEF LateDetach
    <2> QED
        BY <1>1, <2>2, <2>3, <2>4, <2>5, <2>6, <2>7
<1>2. ASSUME NEW a \in Actors, Attach(a) \/ attach_while_stored(a) \/ Detach(a) PROVE WatchTypes'
    <2>1. actor[a].t \in Tasks
        BY <1>2, Carried DEF Attach, attach_while_stored, Detach, At
    <2> QED
        BY <1>2, <2>1 DEF Attach, attach_while_stored, Detach
<1>3. ASSUME NEW t \in Tasks, RemoveRow(t) \/ WatcherStops(t) \/ UserRestores(t) PROVE WatchTypes'
    BY <1>3 DEF RemoveRow, WatcherStops, UserRestores
<1>4. ASSUME Restart PROVE WatchTypes'
    BY <1>4 DEF Restart
<1>5. CASE UNCHANGED <<source, torn, undone>>
    BY <1>5
<1> QED
    BY <1>1, <1>2, <1>3, <1>4, <1>5, WatchFrame

\* The slot is free or a request's, and mail is for tasks.
LEMMA SlotTyped ==
    ASSUME Types, [Next]_vars
    PROVE  slot' \in Requests \cup {None} /\ mail' \in SUBSET Tasks
<1>1. slot' \in Requests \cup {None}
    BY SlotFrame DEF Types, TakeSlot, ensure_active_slot, WriteRow, DropRequest, FreeSlot, Restart
<1>2. mail' \in SUBSET Tasks
    BY MailFrame DEF Types, Detect, process_activity, Restart
<1> QED
    BY <1>1, <1>2

\* What every actor does in a step, as typed states.
LEMMA ActorStep ==
    ASSUME Types, ActorInv, JobInv, CopyConstants, [Next]_vars
    PROVE  actor' \in [Actors -> ActorState] /\ ActorInv'
<1>1. ASSUME NEW r \in Requests, NEW t \in Tasks, RequestStarts(r, t)
      PROVE  actor' \in [Actors -> ActorState] /\ ActorInv'
    BY <1>1, StartMoves DEF RequestStarts, Moves
<1>2. ASSUME NEW r \in Requests, RequestStep(r) \/ DropRequest(r)
      PROVE  actor' \in [Actors -> ActorState] /\ ActorInv'
    BY <1>2, RequestMoves DEF RequestStep, Moves
<1>3. ASSUME NEW a \in Actors, SyncStep(a) PROVE actor' \in [Actors -> ActorState] /\ ActorInv'
    BY <1>3, SyncMoves DEF SyncStep, Moves
<1>4. ASSUME NEW t \in Tasks, process_activity(t) \/ Reconcile(t) \/ QueueStep(t)
      PROVE  actor' \in [Actors -> ActorState] /\ ActorInv'
    <2>1. CASE UNCHANGED actor
        BY <2>1 DEF Types, ActorInv, ActorOK
    <2> QED
        BY <1>4, <2>1, ServiceMoves, QueueMoves DEF QueueStep, Moves
<1>5. ASSUME ServiceStep PROVE actor' \in [Actors -> ActorState] /\ ActorInv'
    BY <1>5, ServiceMoves DEF ServiceStep, Moves
<1>6. CASE Restart
    BY <1>6, RestartMoves
<1>7. CASE UNCHANGED actor
    BY <1>7 DEF Types, ActorInv, ActorOK
<1>8. ASSUME NEW t \in Tasks, Detect(t) \/ CloseCopy(t) \/ Settled(t) \/ WatcherStops(t) \/ UserRestores(t)
      PROVE  UNCHANGED actor
    BY <1>8 DEF Detect, CloseCopy, Settled, WatcherStops, UserRestores
<1>9. UNCHANGED vars => UNCHANGED actor
    BY DEF vars
<1> QED
    BY <1>1, <1>2, <1>3, <1>4, <1>5, <1>6, <1>7, <1>8, <1>9 DEF Next

\* The structure of the state is kept by every step.
LEMMA Structure ==
    ASSUME Types, ActorInv, JobInv, RowInv, CopyConstants, [Next]_vars
    PROVE  Types' /\ ActorInv' /\ JobInv' /\ RowInv'
<1>1. RowTypes' /\ RowInv'
    BY RowStep
<1>2. QueueTypes' /\ JobInv'
    BY QueueStepTyped
<1>3. BookTypes' /\ WatchTypes'
    BY BookStep, WatchStep
<1>4. slot' \in Requests \cup {None} /\ mail' \in SUBSET Tasks
    BY SlotTyped
<1>5. actor' \in [Actors -> ActorState] /\ ActorInv'
    BY ActorStep
<1> QED
    BY <1>1, <1>2, <1>3, <1>4, <1>5 DEF Types, RowTypes, QueueTypes, BookTypes, WatchTypes

-----------------------------------------------------------------------------
(* The limit on active tasks.                                               *)

\* No actor enters, leaves or changes at a step of S.
Aside(S) == \A b \in Actors : actor'[b] = actor[b] \/ (actor[b].pc \notin S /\ actor'[b].pc \notin S)

\* Moves between other steps are aside.
LEMMA AsideMoves ==
    ASSUME NEW S, NEW from, NEW to, Moves(from, to),
           \A pc \in S : pc \notin from /\ pc \notin to
    PROVE  Aside(S)
BY DEF Moves, Aside

Holding == {"count", "write"}

\* The steps at which a request holds the slot are reached and left by few actions.
LEMMA HoldingFrame ==
    ASSUME Types, ActorInv, JobInv, CopyConstants, [Next]_vars
    PROVE  \/ Aside(Holding) /\ UNCHANGED slot
           \/ \E r \in Requests, t \in Tasks :
                create_task(r, t) \/ \E enable \in BOOLEAN : update_task(r, t, enable)
           \/ \E r \in Requests : TakeSlot(r) \/ ensure_active_slot(r) \/ WriteRow(r) \/ DropRequest(r)
           \/ Restart
<1> DEFINE Quiet == Aside(Holding) /\ UNCHANGED slot
<1> USE AsideMoves DEF Holding
<1>1. ASSUME NEW r \in Requests, NEW t \in Tasks, delete_task(r, t) PROVE Quiet
    BY <1>1, StartMoves DEF delete_task, Begin
<1>2. ASSUME NEW r \in Requests,
             \/ WatchNew(r) \/ SyncPositions(r) \/ RollBack(r) \/ Unwatch(r) \/ EnqueueDelete(r)
             \/ FinalDetach(r) \/ RestoreWatch(r) \/ LateWrite(r) \/ LateAttach(r) \/ LateDetach(r)
      PROVE  Quiet
    <2>1. UNCHANGED slot
        BY <1>2 DEF WatchNew, SyncPositions, RollBack, Unwatch, EnqueueDelete, FinalDetach, RestoreWatch,
                    LateWrite, LateAttach, LateDetach
    <2>2. ASSUME WatchNew(r) PROVE Aside(Holding)
        <3>1. Moves({"watch"}, {"idle"})
            BY <2>2, RequestMoves
        <3> QED
            BY <3>1
    <2>3. ASSUME SyncPositions(r) PROVE Aside(Holding)
        <3>1. Moves({"positions"}, {"idle", "undo"})
            BY <2>3, RequestMoves
        <3> QED
            BY <3>1
    <2>4. ASSUME RollBack(r) PROVE Aside(Holding)
        <3>1. Moves({"undo"}, {"idle"})
            BY <2>4, RequestMoves
        <3> QED
            BY <3>1
    <2>5. ASSUME Unwatch(r) PROVE Aside(Holding)
        <3>1. Moves({"unwatch"}, {"enqueue", "idle"})
            BY <2>5, RequestMoves
        <3> QED
            BY <3>1
    <2>6. ASSUME EnqueueDelete(r) PROVE Aside(Holding)
        <3>1. Moves({"enqueue"}, {"restore", "wait"})
            BY <2>6, RequestMoves
        <3> QED
            BY <3>1
    <2>7. ASSUME FinalDetach(r) PROVE Aside(Holding)
        <3>1. Moves({"final"}, {"idle"})
            BY <2>7, RequestMoves
        <3> QED
            BY <3>1
    <2>8. ASSUME RestoreWatch(r) PROVE Aside(Holding)
        <3>1. Moves({"restore"}, {"sync", "idle"})
            BY <2>8, RequestMoves
        <3> QED
            BY <3>1
    <2>9. ASSUME LateWrite(r) PROVE Aside(Holding)
        <3>1. Moves({"late_write"}, {"idle"})
            BY <2>9, RequestMoves
        <3> QED
            BY <3>1
    <2>10. ASSUME LateAttach(r) PROVE Aside(Holding)
        <3>1. Moves({"late_attach"}, {"idle"})
            BY <2>10, RequestMoves
        <3> QED
            BY <3>1
    <2>11. ASSUME LateDetach(r) PROVE Aside(Holding)
        <3>1. Moves({"late_detach"}, {"idle"})
            BY <2>11, RequestMoves
        <3> QED
            BY <3>1
    <2> QED
        BY <1>2, <2>1, <2>2, <2>3, <2>4, <2>5, <2>6, <2>7, <2>8, <2>9, <2>10, <2>11
<1>3. ASSUME NEW a \in Actors, SyncStep(a) PROVE Quiet
    <2>1. UNCHANGED slot
        BY <1>3 DEF SyncStep, sync_task_watch, Attach, attach_while_stored, Detach
    <2> QED
        BY <1>3, <2>1, SyncMoves DEF SyncStep
<1>4. ASSUME NEW t \in Tasks, process_activity(t) \/ Reconcile(t) \/ QueueStep(t) PROVE Quiet
    <2>1. UNCHANGED slot
        BY <1>4 DEF process_activity, Reconcile, QueueStep, Launch, execute_paper_entry, paper_trade_wanted,
                    book_buy, CheckDelete, SettleRounds, RemoveRow
    <2>2. CASE UNCHANGED actor
        BY <2>1, <2>2 DEF Aside
    <2> QED
        BY <1>4, <2>1, <2>2, ServiceMoves, QueueMoves DEF QueueStep
<1>5. ASSUME ServiceStep PROVE Quiet
    <2>1. UNCHANGED slot
        BY <1>5 DEF ServiceStep, apply_latency_kill_switch, enqueue_paper, prepare_entry, execute_live,
                    record_outcome, JudgeDetached, PauseDetached, sync_paused_watches
    <2> QED
        BY <1>5, <2>1, ServiceMoves DEF ServiceStep
<1>6. ASSUME NEW t \in Tasks, Detect(t) \/ CloseCopy(t) \/ Settled(t) \/ WatcherStops(t) \/ UserRestores(t)
      PROVE  Quiet
    BY <1>6 DEF Aside, Detect, CloseCopy, Settled, WatcherStops, UserRestores
<1>7. UNCHANGED vars => Quiet
    BY DEF vars, Aside
<1> HIDE DEF Quiet
<1>8. \/ Quiet
      \/ \E r \in Requests, t \in Tasks :
           create_task(r, t) \/ \E enable \in BOOLEAN : update_task(r, t, enable)
      \/ \E r \in Requests : TakeSlot(r) \/ ensure_active_slot(r) \/ WriteRow(r) \/ DropRequest(r)
      \/ Restart
    BY <1>1, <1>2, <1>3, <1>4, <1>5, <1>6, <1>7 DEF Next, RequestStarts, RequestStep
<1> QED
    BY <1>8 DEF Quiet

\* One request moves, and the slot is freed by it, taken by it or left alone.
LEMMA SlotOthers ==
    ASSUME SlotInv, CopyConstants, NEW r \in Requests,
           \A b \in Actors : b # r => actor'[b] = actor[b],
           FreeSlot(r) \/ UNCHANGED slot \/ (slot = None /\ slot' = r),
           SlotOK(r)'
    PROVE  SlotInv'
<1>1. ASSUME NEW q \in Requests, q # r PROVE SlotOK(q)'
    <2>1. q \in Actors /\ q # None
        BY DEF Actors, CopyConstants
    <2>2. actor'[q] = actor[q] /\ (slot' = q <=> slot = q)
        BY <1>1, <2>1 DEF FreeSlot
    <2> QED
        BY <2>2 DEF SlotInv, SlotOK
<1> QED
    BY <1>1 DEF SlotInv

\* A request that counts, and one that writes what it counted for, holds the slot.
LEMMA SlotKept ==
    ASSUME Types, ActorInv, JobInv, SlotInv, CopyConstants, [Next]_vars
    PROVE  SlotInv'
<1> USE DEF Holding
<1>1. CASE Aside(Holding) /\ UNCHANGED slot
    BY <1>1 DEF Aside, SlotInv, SlotOK, Actors
<1>2. ASSUME NEW r \in Requests, NEW t \in Tasks, NEW op \in Ops, NEW pc \in {"slot", "write"}, NEW row \in Row,
             Begin(r, op, t, pc, row), pc = "write" => ~ row.enabled \/ task[t].enabled
      PROVE  SlotInv'
    <2>1. Becomes(r, pc, op, t, task[t], row)
        BY <1>2, BeginBecomes DEF Pcs
    <2>2. actor[r].pc = "idle" /\ UNCHANGED slot
        BY <1>2 DEF Begin, At
    <2>3. slot # r
        BY <2>2 DEF SlotInv, SlotOK
    <2>4. SlotOK(r)'
        BY <1>2, <2>1, <2>2, <2>3 DEF Becomes, SlotOK
    <2> QED
        BY <2>1, <2>2, <2>4, SlotOthers DEF Becomes
<1>3. ASSUME NEW r \in Requests, NEW t \in Tasks, create_task(r, t) PROVE SlotInv'
    BY <1>2, <1>3, Rows DEF create_task, Ops, Reasons
<1>4. ASSUME NEW r \in Requests, NEW t \in Tasks, NEW enable \in BOOLEAN, update_task(r, t, enable) PROVE SlotInv'
    <2>1. PICK row : row = IF enable THEN Enabled
                           ELSE IF task[t].enabled THEN Paused("user") ELSE Paused(task[t].reason)
        OBVIOUS
    <2>2. "user" \in Reasons /\ task[t].reason \in Reasons
        BY RowTyped DEF Types, Reasons
    <2>3. row \in Row /\ (enable \/ ~ row.enabled)
        BY <2>1, <2>2, Rows
    <2>4. PICK pc : pc = IF enable /\ ~ task[t].enabled THEN "slot" ELSE "write"
        OBVIOUS
    <2>5. Begin(r, "update", t, pc, row)
        BY <1>4, <2>1, <2>4 DEF update_task
    <2>6. pc \in {"slot", "write"} /\ (pc = "write" => ~ row.enabled \/ task[t].enabled) /\ "update" \in Ops
        BY <2>3, <2>4 DEF Ops
    <2> QED
        BY <1>2, <2>3, <2>5, <2>6
<1>5. ASSUME NEW r \in Requests, TakeSlot(r) PROVE SlotInv'
    <2>1. Becomes(r, "count", actor[r].op, actor[r].t, actor[r].orig, actor[r].row)
        BY <1>5, GotoBecomes DEF TakeSlot, Actors, Pcs
    <2>2. SlotOK(r)'
        BY <1>5, <2>1 DEF TakeSlot, Becomes, SlotOK
    <2> QED
        BY <1>5, <2>1, <2>2, SlotOthers DEF TakeSlot, Becomes
<1>6. ASSUME NEW r \in Requests, ensure_active_slot(r) PROVE SlotInv'
    <2>1. slot = r
        BY <1>6 DEF ensure_active_slot, At, SlotInv, SlotOK
    <2>2. CASE Done(r) /\ FreeSlot(r)
        <3>1. Becomes(r, "idle", "none", None, NoRow, NoRow)
            BY <2>2, DoneBecomes DEF Actors
        <3>2. SlotOK(r)'
            BY <2>1, <2>2, <3>1 DEF Becomes, SlotOK, FreeSlot, CopyConstants
        <3> QED
            BY <2>2, <3>1, <3>2, SlotOthers DEF Becomes
    <2>3. CASE Goto(r, "write") /\ UNCHANGED slot
        <3>1. Becomes(r, "write", actor[r].op, actor[r].t, actor[r].orig, actor[r].row)
            BY <2>3, GotoBecomes DEF Actors, Pcs
        <3>2. SlotOK(r)'
            BY <2>1, <2>3, <3>1 DEF Becomes, SlotOK
        <3> QED
            BY <2>3, <3>1, <3>2, SlotOthers DEF Becomes
    <2> QED
        BY <1>6, <2>2, <2>3 DEF ensure_active_slot
<1>7. ASSUME NEW r \in Requests, WriteRow(r) \/ DropRequest(r) PROVE SlotInv'
    <2>1. PICK pc, op, t, orig, row :
             pc \in {"sync", "watch", "idle"} \cup LatePcs /\ Becomes(r, pc, op, t, orig, row)
        <3>1. CASE Done(r)
            BY <3>1, DoneBecomes DEF Actors
        <3>2. ASSUME NEW pc \in {"sync", "watch"}, Goto(r, pc)
              PROVE  Becomes(r, pc, actor[r].op, actor[r].t, actor[r].orig, actor[r].row)
            BY <3>2, GotoBecomes DEF Actors, Pcs
        <3> QED
            BY <1>7, <3>1, <3>2, DropBecomes DEF WriteRow
    <2>2. FreeSlot(r)
        BY <1>7 DEF WriteRow, DropRequest
    <2>3. SlotOK(r)'
        BY <2>1, <2>2 DEF Becomes, SlotOK, FreeSlot, CopyConstants, LatePcs
    <2> QED
        BY <2>1, <2>2, <2>3, SlotOthers DEF Becomes
<1>8. CASE Restart
    <2>1. \A b \in Actors : actor'[b].pc = "idle"
        BY <1>8, RestartMoves
    <2>2. slot' = None
        BY <1>8 DEF Restart
    <2> QED
        BY <2>1, <2>2 DEF SlotInv, SlotOK, Actors, CopyConstants
<1> QED
    BY <1>1, <1>3, <1>4, <1>5, <1>6, <1>7, <1>8, HoldingFrame

\* The counted tasks are finitely many: sets of them compare by their sizes.
LEMMA CountedFinite ==
    ASSUME CopyConstants
    PROVE  IsFiniteSet(Counted) /\ IsFiniteSet(Active) /\ Cardinality(Counted) \in Nat /\ Cardinality(Active) \in Nat
           /\ Cardinality(Counted) <= Cardinality(Active)
<1>1. IsFiniteSet(Tasks) /\ Active \subseteq Tasks /\ Counted \subseteq Active
    BY DEF CopyConstants, Active, Counted
<1>2. IsFiniteSet(Active)
    BY <1>1, FS_Subset
<1>3. IsFiniteSet(Counted) /\ Cardinality(Counted) <= Cardinality(Active)
    BY <1>1, <1>2, FS_Subset
<1> QED
    BY <1>2, <1>3, FS_CardinalityType

\* A stored row joins the counted tasks only when it was off and its writer counted.
LEMMA StoreCounted ==
    ASSUME Types, NEW t \in Tasks, NEW row \in Row, NEW counted, Store(t, row, counted)
    PROVE  /\ Counted' \subseteq Counted \cup {t}
           /\ ~ row.enabled \/ task[t].enabled \/ ~ counted => Counted' \subseteq Counted
<1>1. /\ \A u \in Tasks : u # t => task'[u] = task[u]
      /\ task'[t] = row
    BY DEF Types, Store
<1>2. ASSUME NEW u \in Tasks, u # t, u \in Counted' PROVE u \in Counted
    BY <1>1, <1>2 DEF Counted, Active, Store
<1>3. Counted' \subseteq Tasks
    BY DEF Counted, Active
<1>4. ~ row.enabled \/ task[t].enabled \/ ~ counted => (t \in Counted' => t \in Counted)
    BY <1>1 DEF Counted, Active, Store
<1> QED
    BY <1>2, <1>3, <1>4

\* Erasing a row counts nothing.
LEMMA EraseCounted ==
    ASSUME Types, NEW t \in Tasks, Erase(t)
    PROVE  Counted' \subseteq Counted
<1>1. \A u \in Tasks : u # t => task'[u] = task[u]
    BY DEF Types, Erase
<1>2. task'[t].enabled = FALSE
    BY Rows DEF Types, Erase
<1> QED
    BY <1>1, <1>2 DEF Counted, Active, Erase

\* Only the holder of the slot adds a counted task, and frees the slot with it.
LEMMA CountedStep ==
    ASSUME Types, ActorInv, SlotInv, CopyConstants, [Next]_vars
    PROVE  \/ Counted' \subseteq Counted
           \/ \E r \in Requests : /\ slot = r /\ actor[r].pc = "write" /\ slot' = None
                                  /\ \E t \in Tasks : Counted' \subseteq Counted \cup {t}
<1> USE Carried
<1>1. ASSUME NEW r \in Requests, WriteRow(r) \/ WatchNew(r) \/ RollBack(r) \/ LateWrite(r),
             ~ (Counted' \subseteq Counted)
      PROVE  /\ slot = r /\ actor[r].pc = "write" /\ slot' = None
             /\ \E t \in Tasks : Counted' \subseteq Counted \cup {t}
    <2>1. actor[r].t \in Tasks /\ actor[r].row \in Row /\ actor[r].orig \in Row
        BY <1>1 DEF WriteRow, WatchNew, RollBack, LateWrite, At, Actors
    <2>2. ~ UNCHANGED rowVars
        BY <1>1 DEF Counted, Active, rowVars
    <2>3. /\ ~ Erase(actor[r].t) /\ ~ Store(actor[r].t, actor[r].orig, FALSE)
          /\ ~ Store(actor[r].t, actor[r].row, FALSE)
        BY <1>1, <2>1, EraseCounted, StoreCounted
    <2>4. WriteRow(r) /\ Store(actor[r].t, actor[r].row, ~ actor[r].orig.enabled)
        BY <1>1, <2>2, <2>3 DEF WriteRow, WatchNew, RollBack, LateWrite
    <2>5. actor[r].row.enabled /\ ~ actor[r].orig.enabled /\ Counted' \subseteq Counted \cup {actor[r].t}
        BY <1>1, <2>1, <2>4, StoreCounted
    <2>6. actor[r].pc = "write" /\ slot = r
        BY <2>4, <2>5 DEF WriteRow, At, SlotInv, SlotOK
    <2>7. slot' = None
        BY <2>4, <2>6 DEF WriteRow, FreeSlot
    <2> QED
        BY <2>1, <2>5, <2>6, <2>7
<1>2. ASSUME apply_latency_kill_switch \/ PauseDetached PROVE Counted' \subseteq Counted
    <2>1. CASE UNCHANGED rowVars
        BY <2>1 DEF Counted, Active, rowVars
    <2>2. ASSUME NEW why \in {"guard", "watch"}, Store(ServiceTask, Paused(why), FALSE)
          PROVE  Counted' \subseteq Counted
        <3>1. ServiceTask \in Tasks
            BY <1>2 DEF apply_latency_kill_switch, PauseDetached, ServiceAt, ServiceTask, At, Actors
        <3>2. Paused(why) \in Row /\ ~ Paused(why).enabled
            BY Rows DEF Reasons
        <3> QED
            BY <2>2, <3>1, <3>2, StoreCounted
    <2> QED
        BY <1>2, <2>1, <2>2 DEF apply_latency_kill_switch, PauseDetached, pause_task
<1>3. ASSUME NEW t \in Tasks, RemoveRow(t) \/ Settled(t) PROVE Counted' \subseteq Counted
    <2>1. CASE UNCHANGED <<task, revived>>
        BY <2>1 DEF Counted, Active
    <2>2. CASE Erase(t)
        BY <2>2, EraseCounted
    <2> QED
        BY <1>3, <2>1, <2>2 DEF RemoveRow, Settled, rowVars
<1>4. CASE UNCHANGED rowVars
    BY <1>4 DEF Counted, Active, rowVars
<1> QED
    BY <1>1, <1>2, <1>3, <1>4, RowFrame

\* A request that holds the slot gets to its write only by a count that left room.
LEMMA IntoWrite ==
    ASSUME Types, ActorInv, JobInv, SlotInv, CopyConstants, [Next]_vars,
           NEW r \in Requests, slot' = r, actor'[r].pc = "write"
    PROVE  \/ slot = r /\ actor[r].pc = "write"
           \/ Cardinality(Active) < MaxActive /\ UNCHANGED rowVars
<1> USE DEF Holding
<1>1. r \in Actors /\ r # None
    BY DEF Actors, CopyConstants
<1>2. CASE Aside(Holding) /\ UNCHANGED slot
    BY <1>1, <1>2 DEF Aside
<1>3. ASSUME NEW q \in Requests, NEW t \in Tasks,
             create_task(q, t) \/ \E enable \in BOOLEAN : update_task(q, t, enable)
      PROVE  slot = r /\ actor[r].pc = "write"
    <2>1. Moves({"idle"}, {"slot", "write"}) /\ UNCHANGED slot
        BY <1>3, StartMoves DEF create_task, update_task, Begin
    <2>2. actor[r].pc \in {"count", "write"}
        BY <2>1 DEF SlotInv, SlotOK
    <2> QED
        BY <1>1, <2>1, <2>2 DEF Moves
<1>4. ASSUME NEW q \in Requests, TakeSlot(q) PROVE slot = r /\ actor[r].pc = "write"
    <2>1. Becomes(q, "count", actor[q].op, actor[q].t, actor[q].orig, actor[q].row)
        BY <1>4, GotoBecomes DEF TakeSlot, Actors, Pcs
    <2> QED
        BY <1>1, <1>4, <2>1 DEF TakeSlot, Becomes
<1>5. ASSUME NEW q \in Requests, ensure_active_slot(q)
      PROVE  \/ slot = r /\ actor[r].pc = "write"
             \/ Cardinality(Active) < MaxActive /\ UNCHANGED rowVars
    <2>1. slot = q
        BY <1>5 DEF ensure_active_slot, At, SlotInv, SlotOK
    <2>2. slot' = q /\ ~ (Cardinality(Active) >= MaxActive)
        BY <1>1, <1>5, <2>1 DEF ensure_active_slot, FreeSlot
    <2>3. MaxActive \in Nat /\ Cardinality(Active) \in Nat
        BY CountedFinite DEF CopyConstants
    <2>4. Cardinality(Active) < MaxActive
        BY <2>2, <2>3
    <2> QED
        BY <1>5, <2>4 DEF ensure_active_slot
<1>6. ASSUME NEW q \in Requests, WriteRow(q) \/ DropRequest(q) PROVE slot = r /\ actor[r].pc = "write"
    <2>1. slot = r /\ q # r
        BY <1>1, <1>6 DEF WriteRow, DropRequest, FreeSlot
    <2>2. Moves({actor[q].pc}, {"sync", "watch", "idle"} \cup LatePcs)
        BY <1>6, RequestMoves DEF WriteRow, At, Moves
    <2> QED
        BY <1>1, <2>1, <2>2 DEF Moves, LatePcs
<1>7. CASE Restart
    BY <1>1, <1>7 DEF Restart
<1> QED
    BY <1>2, <1>3, <1>4, <1>5, <1>6, <1>7, HoldingFrame

\* The tasks counted stay within max_active_tasks.
LEMMA LimitKept ==
    ASSUME Types, ActorInv, JobInv, SlotInv, LimitInv, CopyConstants, [Next]_vars
    PROVE  LimitInv'
<1>1. /\ IsFiniteSet(Counted) /\ Cardinality(Counted) \in Nat /\ Cardinality(Active) \in Nat
      /\ MaxActive \in Nat /\ Cardinality(Counted) <= Cardinality(Active)
    BY CountedFinite DEF CopyConstants
<1>2. CASE Counted' \subseteq Counted
    <2>1. IsFiniteSet(Counted') /\ Cardinality(Counted') <= Cardinality(Counted)
        BY <1>1, <1>2, FS_Subset
    <2>2. Cardinality(Counted') \in Nat
        BY <2>1, FS_CardinalityType
    <2>3. Cardinality(Counted') <= MaxActive
        BY <1>1, <2>1, <2>2 DEF LimitInv
    <2>4. ASSUME NEW r \in Requests, slot' = r, actor'[r].pc = "write" PROVE Cardinality(Counted') < MaxActive
        <3>1. CASE slot = r /\ actor[r].pc = "write"
            BY <1>1, <2>1, <2>2, <3>1 DEF LimitInv
        <3>2. CASE Cardinality(Active) < MaxActive
            BY <1>1, <2>1, <2>2, <3>2
        <3> QED
            BY <2>4, <3>1, <3>2, IntoWrite
    <2> QED
        BY <2>3, <2>4 DEF LimitInv
<1>3. ASSUME NEW r \in Requests, slot = r, actor[r].pc = "write", slot' = None,
             NEW t \in Tasks, Counted' \subseteq Counted \cup {t}
      PROVE  LimitInv'
    <2>1. Cardinality(Counted) < MaxActive
        BY <1>3 DEF LimitInv
    <2>2. IsFiniteSet(Counted \cup {t}) /\ Cardinality(Counted \cup {t}) <= Cardinality(Counted) + 1
        <3>1. CASE t \in Counted
            <4>1. Counted \cup {t} = Counted
                BY <3>1
            <4>2. IsFiniteSet(Counted \cup {t}) /\ Cardinality(Counted \cup {t}) = Cardinality(Counted)
                BY <1>1, <4>1, Zenon
            <4> QED
                BY <1>1, <4>2
        <3>2. CASE t \notin Counted
            <4>1. PICK C : C = Counted
                OBVIOUS
            <4>2. IsFiniteSet(C) /\ t \notin C
                BY <1>1, <3>2, <4>1
            <4>3. IsFiniteSet(C \cup {t}) /\ Cardinality(C \cup {t}) = Cardinality(C) + 1
                BY <4>2, FS_AddElement
            <4>4. IsFiniteSet(Counted \cup {t}) /\ Cardinality(Counted \cup {t}) = Cardinality(Counted) + 1
                BY <4>1, <4>3
            <4> QED
                BY <1>1, <4>4
        <3> QED
            BY <3>1, <3>2
    <2>3. IsFiniteSet(Counted') /\ Cardinality(Counted') <= Cardinality(Counted \cup {t})
        BY <1>3, <2>2, FS_Subset
    <2>4. Cardinality(Counted') \in Nat /\ Cardinality(Counted \cup {t}) \in Nat
        BY <2>2, <2>3, FS_CardinalityType
    <2>5. Cardinality(Counted') <= MaxActive
        BY <1>1, <2>1, <2>2, <2>3, <2>4
    <2> QED
        BY <1>3, <2>5 DEF LimitInv, CopyConstants
<1> QED
    BY <1>2, <1>3, CountedStep

-----------------------------------------------------------------------------
(* The budget.                                                              *)

Spending == {"submit", "record"}
ServiceAside ==
    actor'[Service] = actor[Service] \/ (actor[Service].pc \notin Spending /\ actor'[Service].pc \notin Spending)

\* Only the service's own steps take it to a purchase and away from one.
LEMMA SpendingFrame ==
    ASSUME Types, ActorInv, JobInv, CopyConstants, [Next]_vars
    PROVE  ServiceAside \/ prepare_entry \/ execute_live \/ record_outcome \/ Restart
<1> USE AsideMoves DEF Spending
<1>0. Service \in Actors /\ Service \notin Requests
    BY DEF Actors, CopyConstants
<1>1. Aside(Spending) => ServiceAside
    BY <1>0 DEF Aside, ServiceAside
<1>2. ASSUME NEW r \in Requests, NEW t \in Tasks, RequestStarts(r, t) PROVE Aside(Spending)
    BY <1>2, StartMoves DEF RequestStarts
<1>3. ASSUME NEW r \in Requests, RequestStep(r) PROVE Aside(Spending)
    <2>1. CASE TakeSlot(r)
        <3>1. Moves({"slot"}, {"count"})
            BY <2>1, RequestMoves
        <3> QED
            BY <3>1
    <2>2. CASE ensure_active_slot(r)
        <3>1. Moves({"count"}, {"idle", "write"})
            BY <2>2, RequestMoves
        <3> QED
            BY <3>1
    <2>3. CASE WriteRow(r)
        <3>1. Moves({"write"}, {"sync", "watch", "idle"})
            BY <2>3, RequestMoves
        <3> QED
            BY <3>1
    <2>4. CASE WatchNew(r)
        <3>1. Moves({"watch"}, {"idle"})
            BY <2>4, RequestMoves
        <3> QED
            BY <3>1
    <2>5. CASE SyncPositions(r)
        <3>1. Moves({"positions"}, {"idle", "undo"})
            BY <2>5, RequestMoves
        <3> QED
            BY <3>1
    <2>6. CASE RollBack(r)
        <3>1. Moves({"undo"}, {"idle"})
            BY <2>6, RequestMoves
        <3> QED
            BY <3>1
    <2>7. CASE Unwatch(r)
        <3>1. Moves({"unwatch"}, {"enqueue", "idle"})
            BY <2>7, RequestMoves
        <3> QED
            BY <3>1
    <2>8. CASE EnqueueDelete(r)
        <3>1. Moves({"enqueue"}, {"restore", "wait"})
            BY <2>8, RequestMoves
        <3> QED
            BY <3>1
    <2>9. CASE FinalDetach(r)
        <3>1. Moves({"final"}, {"idle"})
            BY <2>9, RequestMoves
        <3> QED
            BY <3>1
    <2>10. CASE RestoreWatch(r)
        <3>1. Moves({"restore"}, {"sync", "idle"})
            BY <2>10, RequestMoves
        <3> QED
            BY <3>1
    <2>11. CASE LateWrite(r)
        <3>1. Moves({"late_write"}, {"idle"})
            BY <2>11, RequestMoves
        <3> QED
            BY <3>1
    <2>12. CASE LateAttach(r)
        <3>1. Moves({"late_attach"}, {"idle"})
            BY <2>12, RequestMoves
        <3> QED
            BY <3>1
    <2>13. CASE LateDetach(r)
        <3>1. Moves({"late_detach"}, {"idle"})
            BY <2>13, RequestMoves
        <3> QED
            BY <3>1
    <2> QED
        BY <1>3, <2>1, <2>2, <2>3, <2>4, <2>5, <2>6, <2>7, <2>8, <2>9, <2>10, <2>11, <2>12, <2>13 DEF RequestStep
<1>4. ASSUME NEW r \in Requests, DropRequest(r) PROVE ServiceAside
    <2>1. PICK pc, op, t, orig, row : Becomes(r, pc, op, t, orig, row)
        BY <1>4, DropBecomes
    <2> QED
        BY <1>0, <2>1 DEF Becomes, ServiceAside
<1>5. ASSUME NEW a \in Actors, SyncStep(a) PROVE Aside(Spending)
    BY <1>5, SyncMoves DEF SyncStep
<1>6. ASSUME NEW t \in Tasks, process_activity(t) \/ Reconcile(t) \/ QueueStep(t) PROVE Aside(Spending)
    <2>1. CASE UNCHANGED actor
        BY <2>1 DEF Aside
    <2> QED
        BY <1>6, <2>1, ServiceMoves, QueueMoves DEF QueueStep
<1>7. ASSUME NEW t \in Tasks, Detect(t) \/ CloseCopy(t) \/ Settled(t) \/ WatcherStops(t) \/ UserRestores(t)
      PROVE  ServiceAside
    BY <1>7 DEF ServiceAside, Detect, CloseCopy, Settled, WatcherStops, UserRestores
<1>8. ASSUME apply_latency_kill_switch \/ enqueue_paper \/ JudgeDetached \/ PauseDetached \/ sync_paused_watches
      PROVE  Aside(Spending)
    BY <1>8, ServiceMoves
<1>9. UNCHANGED vars => ServiceAside
    BY DEF vars, ServiceAside
<1> QED
    BY <1>1, <1>2, <1>3, <1>4, <1>5, <1>6, <1>7, <1>8, <1>9 DEF Next, ServiceStep

\* What SpendInv says of the queues: no buy for a live task, and a buy under way has room.
BuysOK(t) ==
    /\ t \in LiveTasks => running[t].who # "buy" /\ \A i \in DOMAIN fifo[t] : fifo[t][i] # "buy"
    /\ t \notin LiveTasks => (running[t].pc \in {"fill", "book"} => bought[t] < Budget)

\* Queues take buys for paper tasks only, and a buy runs while there is room for it.
LEMMA BuysKept ==
    ASSUME Types, ActorInv, JobInv, SpendInv, CopyConstants, [Next]_vars, NEW t \in Tasks,
           bought'[t] = bought[t]
    PROVE  BuysOK(t)'
<1>0. BuysOK(t) /\ LiveTasks \subseteq Tasks /\ "buy" \notin Requests /\ None # "buy"
    BY DEF SpendInv, LiveOK, PaperOK, BuysOK, CopyConstants
<1>1. CASE fifo'[t] = fifo[t] /\ running'[t] = running[t]
    BY <1>0, <1>1 DEF BuysOK
<1>2. ASSUME NEW u \in Tasks, NEW who \in Requests \cup {"buy"},
             fifo' = [fifo EXCEPT ![u] = Append(@, who)], UNCHANGED running,
             who \in Requests \/ u \notin LiveTasks
      PROVE  BuysOK(t)'
    <2>1. CASE u # t
        BY <1>1, <1>2, <2>1 DEF Types
    <2>2. CASE u = t
        <3>1. PICK q \in Seq(Requests \cup {"buy"}) : q = fifo[t]
            BY DEF Types
        <3>2. fifo'[t] = Append(q, who)
            BY <1>2, <2>2, <3>1 DEF Types
        <3>3. /\ DOMAIN Append(q, who) = 1 .. Len(q) + 1 /\ DOMAIN q = 1 .. Len(q) /\ Len(q) \in Nat
              /\ \A i \in 1 .. Len(q) : Append(q, who)[i] = q[i]
              /\ Append(q, who)[Len(q) + 1] = who
            OBVIOUS
        <3>4. ASSUME t \in LiveTasks, NEW i \in DOMAIN fifo'[t] PROVE fifo'[t][i] # "buy"
            <4>1. CASE i \in 1 .. Len(q)
                BY <1>0, <3>1, <3>2, <3>3, <3>4, <4>1 DEF BuysOK
            <4>2. CASE i = Len(q) + 1
                BY <1>0, <1>2, <2>2, <3>2, <3>3, <3>4, <4>2
            <4> QED
                BY <3>2, <3>3, <4>1, <4>2
        <3> QED
            BY <1>0, <1>2, <3>4 DEF BuysOK
    <2> QED
        BY <2>1, <2>2
<1>3. ASSUME NEW r \in Requests, EnqueueDelete(r) PROVE BuysOK(t)'
    <2>1. actor[r].t \in Tasks
        BY <1>3, Carried DEF EnqueueDelete, At, Actors
    <2> QED
        BY <1>1, <1>2, <1>3, <2>1 DEF EnqueueDelete
<1>4. ASSUME enqueue_paper PROVE BuysOK(t)'
    <2>1. ServiceTask \in Tasks
        BY <1>4, Carried DEF enqueue_paper, ServiceAt, ServiceTask, At, Actors
    <2> QED
        BY <1>1, <1>2, <1>4, <2>1 DEF enqueue_paper
<1>5. ASSUME NEW u \in Tasks, QueueStep(u) PROVE BuysOK(t)'
    <2>1. CASE Launch(u)
        <3>1. /\ Runs(u, "start", Head(fifo[u]))
              /\ \A v \in Tasks : v # u => fifo'[v] = fifo[v]
              /\ \A i \in DOMAIN fifo'[u] : i + 1 \in DOMAIN fifo[u] /\ fifo'[u][i] = fifo[u][i + 1]
              /\ 1 \in DOMAIN fifo[u] /\ Head(fifo[u]) = fifo[u][1]
            BY <2>1, Launched
        <3>2. CASE u # t
            BY <1>1, <3>1, <3>2 DEF Runs
        <3>3. CASE u = t
            BY <1>0, <3>1, <3>3 DEF Runs, BuysOK
        <3> QED
            BY <3>2, <3>3
    <2>2. CASE ~ Launch(u)
        <3>1. UNCHANGED fifo
            BY <1>5, <2>2 DEF QueueStep, execute_paper_entry, paper_trade_wanted, book_buy, CheckDelete,
                              SettleRounds, RemoveRow
        <3>2. CASE u # t
            <4>1. running'[t] = running[t]
                BY <1>5, <2>2, <3>2, JobSteps DEF QueueStep, Runs
            <4> QED
                BY <1>1, <3>1, <4>1
        <3>3. CASE u = t
            <4> HIDE DEF BuysOK
            <4>1. ASSUME NEW pc, NEW who, Runs(t, pc, who), who # "buy", pc \notin {"fill", "book"}
                  PROVE  BuysOK(t)'
                BY <1>0, <3>1, <4>1 DEF Runs, BuysOK
            <4>2. CASE execute_paper_entry(t)
                BY <1>0, <3>1, <4>1, <4>2, JobSteps DEF Runs, BuysOK
            <4>3. CASE paper_trade_wanted(t)
                BY <1>0, <3>1, <4>1, <4>3, JobSteps DEF Runs, BuysOK
            <4>4. CASE book_buy(t)
                BY <1>0, <4>1, <4>4, JobSteps
            <4>5. CASE CheckDelete(t)
                BY <1>0, <4>1, <4>5, JobSteps
            <4>6. CASE SettleRounds(t)
                BY <1>0, <4>1, <4>6, JobSteps
            <4>7. CASE RemoveRow(t)
                BY <1>0, <4>1, <4>7, JobSteps
            <4> QED
                BY <1>5, <2>2, <3>3, <4>2, <4>3, <4>4, <4>5, <4>6, <4>7 DEF QueueStep
        <3> QED
            BY <3>2, <3>3
    <2> QED
        BY <2>1, <2>2
<1>6. ASSUME Restart PROVE BuysOK(t)'
    <2>1. fifo'[t] = <<>> /\ running'[t] = NoJob /\ NoJob.who = None /\ NoJob.pc = "idle"
        BY <1>6 DEF Restart, NoJob
    <2> QED
        BY <1>0, <2>1 DEF BuysOK
<1>7. CASE UNCHANGED <<fifo, running>>
    BY <1>1, <1>7
<1> QED
    BY <1>3, <1>4, <1>5, <1>6, <1>7, QueueFrame

\* What SpendInv says of the books, and of the copy the service is buying.
BooksOK(t) ==
    /\ t \in LiveTasks => bought[t] = recorded[t] + escaped[t] + Unrecorded(t) /\ recorded[t] <= Budget
    /\ t \notin LiveTasks => bought[t] <= Budget
BuyingOK ==
    actor[Service].pc \in Spending =>
        actor[Service].t \in LiveTasks /\ recorded[actor[Service].t] < Budget

\* SpendInv, task by task.
LEMMA SpendParts ==
    ASSUME CopyConstants
    PROVE  /\ SpendInv <=> BuyingOK /\ \A t \in Tasks : BooksOK(t) /\ BuysOK(t)
           /\ SpendInv' <=> BuyingOK' /\ \A t \in Tasks : BooksOK(t)' /\ BuysOK(t)'
BY DEF CopyConstants, SpendInv, LiveOK, PaperOK, BooksOK, BuysOK, BuyingOK, Spending

\* The spend of every task is accounted for and stays within its budget.
LEMMA SpendKept ==
    ASSUME Types, ActorInv, JobInv, SpendInv, CopyConstants, [Next]_vars, Types'
    PROVE  SpendInv'
<1>0. /\ Service \in Actors /\ Budget \in Nat /\ LiveTasks \subseteq Tasks
      /\ BuyingOK /\ \A t \in Tasks : BooksOK(t) /\ BuysOK(t)
    BY SpendParts DEF Actors, CopyConstants
<1>1. \A t \in Tasks : /\ bought[t] \in Nat /\ recorded[t] \in Nat /\ escaped[t] \in Nat
                       /\ Unrecorded(t) \in {0, 1}
    BY DEF Types, Unrecorded
<1>2. ASSUME NEW t \in Tasks, bought'[t] = bought[t], BooksOK(t)' PROVE BooksOK(t)' /\ BuysOK(t)'
    BY <1>2, BuysKept
<1>3. CASE ServiceAside /\ UNCHANGED <<recorded, escaped>> /\ ~ execute_live
    <2>1. BuyingOK'
        BY <1>0, <1>3 DEF BuyingOK, ServiceAside, Spending
    <2>2. \A t \in Tasks : Unrecorded(t)' = Unrecorded(t)
        BY <1>3 DEF Unrecorded, ServiceAside, Spending
    <2>3. ASSUME NEW t \in Tasks, bought'[t] = bought[t] PROVE BooksOK(t)' /\ BuysOK(t)'
        <3>1. BooksOK(t)'
            BY <1>0, <1>3, <2>2, <2>3 DEF BooksOK
        <3> QED
            BY <1>2, <2>3, <3>1
    <2>4. ASSUME NEW t \in Tasks, book_buy(t) PROVE SpendInv'
        <3>1. running[t].pc = "book" /\ running[t].who = "buy" /\ Runs(t, "idle", None) /\ UNCHANGED fifo
            BY <2>4, JobSteps DEF book_buy
        <3>2. t \notin LiveTasks /\ bought[t] < Budget
            BY <1>0, <3>1 DEF BuysOK
        <3>3. \A u \in Tasks : u # t => bought'[u] = bought[u]
            BY <2>4 DEF book_buy, Buy, Types
        <3>4. bought'[t] = bought[t] \/ bought'[t] = bought[t] + 1
            BY <2>4, Bought DEF book_buy
        <3>5. BooksOK(t)'
            BY <1>0, <1>1, <3>2, <3>4 DEF BooksOK
        <3>6. BuysOK(t)'
            BY <3>1, <3>2 DEF BuysOK, Runs
        <3>7. \A u \in Tasks : BooksOK(u)' /\ BuysOK(u)'
            BY <2>3, <3>3, <3>5, <3>6
        <3> QED
            BY <2>1, <3>7, SpendParts
    <2>5. CASE UNCHANGED bought
        <3>1. \A t \in Tasks : BooksOK(t)' /\ BuysOK(t)'
            BY <2>3, <2>5
        <3> QED
            BY <2>1, <3>1, SpendParts
    <2>6. UNCHANGED bought \/ \E t \in Tasks : book_buy(t)
        BY <1>3, BookFrame DEF copyVars, record_outcome, SettleRounds, CloseCopy, Restart
    <2> QED
        BY <2>4, <2>5, <2>6
<1>4. ASSUME prepare_entry PROVE SpendInv'
    <2>1. /\ UNCHANGED <<bought, recorded, escaped>> /\ actor[Service].pc = "copy"
          /\ actor[Service].t \in LiveTasks
          /\ \/ Goto(Service, "submit") /\ recorded[actor[Service].t] < Budget
             \/ Done(Service)
        BY <1>4 DEF prepare_entry, ServiceAt, At, ServiceTask, copyVars
    <2>2. \/ actor'[Service].pc = "submit" /\ actor'[Service].t = actor[Service].t /\ recorded[actor[Service].t] < Budget
          \/ actor'[Service].pc = "idle"
        BY <1>0, <2>1, GotoBecomes, DoneBecomes DEF Becomes, Pcs
    <2>3. BuyingOK'
        BY <2>1, <2>2 DEF BuyingOK, Spending
    <2>4. \A t \in Tasks : Unrecorded(t)' = 0 /\ Unrecorded(t) = 0
        BY <2>1, <2>2 DEF Unrecorded
    <2>5. ASSUME NEW t \in Tasks PROVE BooksOK(t)' /\ BuysOK(t)'
        BY <1>0, <1>2, <2>1, <2>4 DEF BooksOK
    <2> QED
        BY <2>3, <2>5, SpendParts
<1>5. ASSUME execute_live PROVE SpendInv'
    <2>1. PICK t \in LiveTasks : t = actor[Service].t /\ recorded[t] < Budget /\ t \in Tasks
        BY <1>0, <1>5 DEF execute_live, ServiceAt, At, BuyingOK, Spending
    <2>2. /\ actor[Service].pc = "submit" /\ UNCHANGED <<fifo, running, recorded>>
          /\ \/ Done(Service) /\ UNCHANGED <<bought, escaped>>
             \/ Buy(t) /\ Goto(Service, "record") /\ UNCHANGED escaped
             \/ Buy(t) /\ Done(Service) /\ escaped' = [escaped EXCEPT ![t] = @ + 1]
        BY <1>5, <2>1 DEF execute_live, ServiceAt, At, ServiceTask, copyVars
    <2>3. \A u \in Tasks : Unrecorded(u) = 0
        BY <2>2 DEF Unrecorded
    <2>4. \A u \in Tasks : u # t => bought'[u] = bought[u] /\ escaped'[u] = escaped[u] /\ Unrecorded(u)' = 0
        <3>1. \A u \in Tasks : u # t => bought'[u] = bought[u]
            BY <2>1, <2>2, Bought
        <3>2. \A u \in Tasks : u # t => escaped'[u] = escaped[u]
            BY <2>1, <2>2 DEF Types
        <3>3. actor'[Service].pc = "idle" \/ actor'[Service].t = t
            BY <1>0, <2>1, <2>2, GotoBecomes, DoneBecomes DEF Becomes, Pcs
        <3> QED
            BY <3>1, <3>2, <3>3 DEF Unrecorded
    <2>5. \/ bought'[t] = bought[t] /\ escaped'[t] = escaped[t] /\ Unrecorded(t)' = 0
          \/ bought'[t] = bought[t] + 1 /\ escaped'[t] = escaped[t] /\ Unrecorded(t)' = 1
          \/ bought'[t] = bought[t] + 1 /\ escaped'[t] = escaped[t] + 1 /\ Unrecorded(t)' = 0
        <3>1. CASE Done(Service) /\ UNCHANGED <<bought, escaped>>
            BY <1>0, <3>1, DoneBecomes DEF Becomes, Unrecorded
        <3>2. CASE Buy(t) /\ Goto(Service, "record") /\ UNCHANGED escaped
            <4>1. actor'[Service].pc = "record" /\ actor'[Service].t = t
                BY <1>0, <2>1, <3>2, GotoBecomes DEF Becomes, Pcs
            <4> QED
                BY <2>1, <3>2, <4>1, Bought DEF Unrecorded
        <3>3. CASE Buy(t) /\ Done(Service) /\ escaped' = [escaped EXCEPT ![t] = @ + 1]
            <4>1. actor'[Service].pc = "idle"
                BY <1>0, <3>3, DoneBecomes DEF Becomes
            <4>2. escaped'[t] = escaped[t] + 1
                BY <2>1, <3>3, CountedUp DEF Types
            <4> QED
                BY <2>1, <3>3, <4>1, <4>2, Bought DEF Unrecorded
        <3> QED
            BY <2>2, <3>1, <3>2, <3>3
    <2>6. BooksOK(t)'
        BY <1>0, <1>1, <2>1, <2>2, <2>3, <2>5 DEF BooksOK
    <2>7. ASSUME NEW u \in Tasks, u # t PROVE BooksOK(u)'
        BY <1>0, <2>2, <2>3, <2>4, <2>7 DEF BooksOK
    <2>8. ASSUME NEW u \in Tasks PROVE BuysOK(u)'
        BY <1>0, <2>1, <2>2, <2>4 DEF BuysOK
    <2>9. BuyingOK'
        <3>1. actor'[Service].pc = "idle" \/ actor'[Service].t = t
            BY <1>0, <2>1, <2>2, GotoBecomes, DoneBecomes DEF Becomes, Pcs
        <3> QED
            BY <2>1, <2>2, <3>1 DEF BuyingOK, Spending
    <2> QED
        BY <2>6, <2>7, <2>8, <2>9, SpendParts
<1>6. ASSUME record_outcome PROVE SpendInv'
    <2>1. PICK t \in LiveTasks : t = actor[Service].t /\ recorded[t] < Budget /\ t \in Tasks
        BY <1>0, <1>6 DEF record_outcome, ServiceAt, At, BuyingOK, Spending
    <2>2. /\ actor[Service].pc = "record" /\ UNCHANGED bought /\ Done(Service)
          /\ \/ recorded' = [recorded EXCEPT ![t] = @ + 1] /\ UNCHANGED escaped
             \/ escaped' = [escaped EXCEPT ![t] = @ + 1] /\ UNCHANGED recorded
        BY <1>6, <2>1 DEF record_outcome, ServiceAt, At, ServiceTask
    <2>3. actor'[Service].pc = "idle"
        BY <1>0, <2>2, DoneBecomes DEF Becomes
    <2>4. Unrecorded(t) = 1 /\ Unrecorded(t)' = 0
        BY <2>1, <2>2, <2>3 DEF Unrecorded
    <2>5. \/ recorded'[t] = recorded[t] + 1 /\ escaped'[t] = escaped[t]
          \/ recorded'[t] = recorded[t] /\ escaped'[t] = escaped[t] + 1
        <3>1. CASE recorded' = [recorded EXCEPT ![t] = @ + 1] /\ UNCHANGED escaped
            BY <2>1, <3>1, CountedUp DEF Types
        <3>2. CASE escaped' = [escaped EXCEPT ![t] = @ + 1] /\ UNCHANGED recorded
            BY <2>1, <3>2, CountedUp DEF Types
        <3> QED
            BY <2>2, <3>1, <3>2
    <2>6. BooksOK(t)'
        BY <1>0, <1>1, <2>1, <2>2, <2>4, <2>5 DEF BooksOK
    <2>7. ASSUME NEW u \in Tasks, u # t PROVE BooksOK(u)'
        <3>1. recorded'[u] = recorded[u] /\ escaped'[u] = escaped[u] /\ Unrecorded(u) = 0 /\ Unrecorded(u)' = 0
            BY <2>1, <2>2, <2>3, <2>7 DEF Types, Unrecorded
        <3> QED
            BY <1>0, <2>2, <2>7, <3>1 DEF BooksOK
    <2>8. BuyingOK'
        BY <2>3 DEF BuyingOK, Spending
    <2>9. \A u \in Tasks : BooksOK(u)' /\ BuysOK(u)'
        BY <1>2, <2>2, <2>6, <2>7
    <2> QED
        BY <2>8, <2>9, SpendParts
<1>7. ASSUME Restart PROVE SpendInv'
    <2>1. actor'[Service].pc = "idle" /\ UNCHANGED <<bought, recorded>>
        BY <1>0, <1>7, RestartMoves DEF Restart
    <2>2. BuyingOK'
        BY <2>1 DEF BuyingOK, Spending
    <2>3. ASSUME NEW t \in Tasks PROVE BooksOK(t)'
        <3>1. escaped'[t] = escaped[t] + Unrecorded(t) /\ Unrecorded(t)' = 0
            <4>1. CASE ServiceAt("record")
                <5>1. actor[Service].pc = "record" /\ ServiceTask = actor[Service].t /\ ServiceTask \in Tasks
                    BY <1>0, <4>1, Carried DEF ServiceAt, At, ServiceTask
                <5>2. escaped' = [escaped EXCEPT ![ServiceTask] = @ + 1]
                    BY <1>7, <4>1 DEF Restart
                <5>3. CASE t = ServiceTask
                    BY <1>1, <2>1, <5>1, <5>2, <5>3, CountedUp DEF Types, Unrecorded
                <5>4. CASE t # ServiceTask
                    <6>1. escaped'[t] = escaped[t]
                        BY <5>1, <5>2, <5>4 DEF Types
                    <6>2. Unrecorded(t) = 0 /\ Unrecorded(t)' = 0
                        BY <2>1, <5>1, <5>4 DEF Unrecorded
                    <6> QED
                        BY <1>1, <6>1, <6>2
                <5> QED
                    BY <5>3, <5>4
            <4>2. CASE ~ ServiceAt("record")
                BY <1>1, <1>7, <2>1, <4>2 DEF Restart, ServiceAt, At, Unrecorded
            <4> QED
                BY <4>1, <4>2
        <3> QED
            BY <1>0, <1>1, <2>1, <3>1 DEF BooksOK
    <2>4. \A t \in Tasks : BooksOK(t)' /\ BuysOK(t)'
        BY <1>2, <2>1, <2>3
    <2> QED
        BY <2>2, <2>4, SpendParts
<1>8. ServiceAside /\ ~ execute_live /\ ~ record_outcome /\ ~ Restart => UNCHANGED <<recorded, escaped>>
    BY BookFrame DEF copyVars, book_buy, SettleRounds, CloseCopy
<1> QED
    BY <1>3, <1>4, <1>5, <1>6, <1>7, <1>8, SpendingFrame

-----------------------------------------------------------------------------
(* A removed task.                                                          *)

\* A row that is gone stays gone, and a task goes only by a failed create or a removal.
LEMMA GoneFrame ==
    ASSUME Types, ActorInv, RowInv, [Next]_vars, NEW t \in Tasks
    PROVE  \/ task'[t].st = "gone" <=> task[t].st = "gone"
           \/ \E r \in Requests : WatchNew(r) /\ actor[r].t = t /\ Erase(t)
           \/ RemoveRow(t) /\ Erase(t)
<1> USE Carried
<1>1. ASSUME NEW u \in Tasks, NEW row \in Row, row.st = "stored", NEW counted, Store(u, row, counted),
             task[u].st # "gone"
      PROVE  task'[t].st = "gone" <=> task[t].st = "gone"
    BY <1>1 DEF Store, Types
<1>2. ASSUME NEW u \in Tasks, Erase(u), u # t PROVE task'[t].st = "gone" <=> task[t].st = "gone"
    BY <1>2 DEF Erase, Types
<1>3. ASSUME NEW r \in Requests, WriteRow(r) \/ WatchNew(r) \/ RollBack(r) \/ LateWrite(r)
      PROVE  \/ task'[t].st = "gone" <=> task[t].st = "gone"
             \/ WatchNew(r) /\ actor[r].t = t /\ Erase(t)
    <2>1. CASE UNCHANGED rowVars
        BY <2>1 DEF rowVars
    <2>2. CASE WriteRow(r) /\ Store(actor[r].t, actor[r].row, ~ actor[r].orig.enabled) /\ task[actor[r].t].st # "gone"
        BY <1>1, <2>2 DEF WriteRow, At, Actors
    <2>3. CASE WatchNew(r) /\ Erase(actor[r].t)
        BY <1>2, <2>3 DEF WatchNew, At, Actors
    <2>4. CASE RollBack(r) /\ Store(actor[r].t, actor[r].orig, FALSE) /\ Stored(actor[r].t)
        BY <1>1, <2>4 DEF RollBack, At, Actors, Stored
    <2>5. CASE LateWrite(r) /\ Store(actor[r].t, actor[r].row, FALSE) /\ task[actor[r].t].st # "gone"
        BY <1>1, <2>5 DEF LateWrite, At, Actors
    <2> QED
        BY <1>3, <2>1, <2>2, <2>3, <2>4, <2>5 DEF WriteRow, WatchNew, RollBack, LateWrite, Stored
<1>4. ASSUME apply_latency_kill_switch \/ PauseDetached PROVE task'[t].st = "gone" <=> task[t].st = "gone"
    <2>1. CASE UNCHANGED rowVars
        BY <2>1 DEF rowVars
    <2>2. ASSUME NEW why \in {"guard", "watch"}, Store(ServiceTask, Paused(why), FALSE), task[ServiceTask].enabled
          PROVE  task'[t].st = "gone" <=> task[t].st = "gone"
        <3>1. ServiceTask \in Tasks
            BY <1>4 DEF apply_latency_kill_switch, PauseDetached, ServiceAt, ServiceTask, At, Actors
        <3>2. Paused(why) \in Row /\ Paused(why).st = "stored"
            BY Rows DEF Reasons
        <3>3. task[ServiceTask].st # "gone"
            BY <2>2, <3>1 DEF RowInv
        <3> QED
            BY <1>1, <2>2, <3>1, <3>2, <3>3
    <2> QED
        BY <1>4, <2>1, <2>2 DEF apply_latency_kill_switch, PauseDetached, pause_task
<1>5. ASSUME NEW u \in Tasks, RemoveRow(u) \/ Settled(u)
      PROVE  (task'[t].st = "gone" <=> task[t].st = "gone") \/ (RemoveRow(t) /\ Erase(t))
    <2>1. CASE UNCHANGED task
        BY <2>1
    <2>2. CASE RemoveRow(u) /\ Erase(u)
        BY <1>2, <2>2
    <2> QED
        BY <1>5, <2>1, <2>2 DEF RemoveRow, Settled, rowVars
<1>6. CASE UNCHANGED rowVars
    BY <1>6 DEF rowVars
<1> QED
    BY <1>3, <1>4, <1>5, <1>6, RowFrame

\* A paper task's open copies grow only by its own queue's booking.
LEMMA OpenGrows ==
    ASSUME Types, ActorInv, SpendInv, CopyConstants, [Next]_vars, NEW t \in Tasks \ LiveTasks
    PROVE  open'[t] <= open[t] \/ book_buy(t)
<1>0. /\ \A u \in Tasks : open[u] \in Nat
      /\ LiveTasks \subseteq Tasks
    BY DEF Types, CopyConstants
<1>1. ASSUME execute_live PROVE open'[t] = open[t]
    <2>1. ServiceTask \in LiveTasks
        BY <1>1 DEF execute_live, ServiceAt, At, ServiceTask, SpendInv
    <2> QED
        BY <1>0, <1>1, <2>1, Bought DEF execute_live, copyVars
<1>2. ASSUME NEW u \in Tasks, book_buy(u), u # t PROVE open'[t] = open[t]
    BY <1>2, Bought DEF book_buy
<1>3. ASSUME NEW u \in Tasks, SettleRounds(u) PROVE open'[t] <= open[t]
    <2>1. CASE open' = [open EXCEPT ![u] = 0]
        BY <1>0, <2>1 DEF Types
    <2>2. CASE UNCHANGED open
        BY <1>0, <2>2
    <2> QED
        BY <1>3, <2>1, <2>2 DEF SettleRounds
<1>4. ASSUME NEW u \in Tasks, CloseCopy(u) PROVE open'[t] <= open[t]
    <2>1. open \in [Tasks -> Nat] /\ open[u] > 0 /\ open' = [open EXCEPT ![u] = @ - 1]
        BY <1>4 DEF CloseCopy, Types
    <2>2. CASE u = t
        BY <1>0, <2>1, <2>2
    <2>3. CASE u # t
        BY <1>0, <2>1, <2>3
    <2> QED
        BY <2>2, <2>3
<1>5. UNCHANGED copyVars \/ record_outcome \/ Restart => open'[t] = open[t]
    BY DEF copyVars, record_outcome, Restart
<1>6. open'[t] = open[t] => open'[t] <= open[t]
    BY <1>0
<1> QED
    BY <1>1, <1>2, <1>3, <1>4, <1>5, <1>6, BookFrame

\* What a queue runs changes only by its own steps.
LEMMA RunningFrame ==
    ASSUME Types, JobInv, CopyConstants, [Next]_vars, NEW t \in Tasks
    PROVE  running'[t] = running[t] \/ QueueStep(t) \/ Restart
<1>1. ASSUME NEW u \in Tasks, QueueStep(u), u # t PROVE running'[t] = running[t]
    <2>1. CASE Launch(u)
        BY <1>1, <2>1, Launched DEF Runs
    <2>2. CASE ~ Launch(u)
        BY <1>1, <2>2, JobSteps DEF QueueStep, Runs
    <2> QED
        BY <2>1, <2>2
<1> QED
    BY <1>1, QueueFrame DEF EnqueueDelete, enqueue_paper

\* A paper task that is gone holds nothing, whatever its queue still runs.
LEMMA GoneKept ==
    ASSUME Types, ActorInv, JobInv, RowInv, SpendInv, GoneInv, CopyConstants, [Next]_vars, Types'
    PROVE  GoneInv'
<1> SUFFICES ASSUME NEW t \in Tasks \ LiveTasks PROVE GoneOK(t)'
    BY DEF GoneInv
<1>0. GoneOK(t) /\ open[t] \in Nat /\ open'[t] \in Nat
    BY DEF GoneInv, Types
<1>1. t \in undone => t \in undone'
    <2>1. UNCHANGED undone \/ \E r \in Requests : WatchNew(r)
        BY WatchFrame DEF Unwatch, FinalDetach, LateAttach, LateDetach, DropRequest, Attach,
                          attach_while_stored, Detach, RemoveRow, WatcherStops, UserRestores, Restart
    <2> QED
        BY <2>1 DEF WatchNew
<1>2. CASE task'[t].st = "gone" <=> task[t].st = "gone"
    <2>1. CASE running'[t] = running[t] /\ open'[t] <= open[t]
        BY <1>0, <1>1, <1>2, <2>1 DEF GoneOK
    <2>2. CASE QueueStep(t)
        <3>1. CASE Launch(t)
            <4>1. Runs(t, "start", Head(fifo[t])) /\ UNCHANGED open
                BY <3>1, Launched DEF Launch, copyVars
            <4> QED
                BY <1>0, <1>1, <1>2, <4>1 DEF GoneOK, Runs
        <3>2. CASE execute_paper_entry(t)
            <4>1. UNCHANGED open /\ task[t] = task'[t]
                BY <3>2 DEF execute_paper_entry, copyVars, rowVars
            <4>2. CASE Runs(t, "fill", "buy") /\ task[t].enabled
                BY <4>1, <4>2 DEF GoneOK, Runs, RowInv
            <4>3. CASE Runs(t, "idle", None)
                BY <1>0, <1>1, <1>2, <4>1, <4>3 DEF GoneOK, Runs
            <4> QED
                BY <3>2, <4>2, <4>3, JobSteps
        <3>3. CASE paper_trade_wanted(t)
            <4>1. UNCHANGED open /\ running[t].pc = "fill" /\ (Runs(t, "book", "buy") \/ Runs(t, "idle", None))
                BY <3>3, JobSteps DEF paper_trade_wanted, copyVars
            <4> QED
                BY <1>0, <1>1, <1>2, <4>1 DEF GoneOK, Runs
        <3>4. CASE book_buy(t)
            <4>1. running[t].pc = "book" /\ Runs(t, "idle", None)
                BY <3>4, JobSteps
            <4> QED
                BY <1>0, <1>1, <1>2, <4>1 DEF GoneOK, Runs
        <3>5. CASE CheckDelete(t)
            <4>1. UNCHANGED open /\ (Runs(t, "settle", running[t].who) \/ Runs(t, "idle", None))
                BY <3>5, JobSteps DEF CheckDelete, copyVars
            <4> QED
                BY <1>0, <1>1, <1>2, <4>1 DEF GoneOK, Runs
        <3>6. CASE SettleRounds(t)
            <4>1. CASE open' = [open EXCEPT ![t] = 0] /\ Job(t, "remove")
                <5>1. open'[t] = 0 /\ Runs(t, "remove", running[t].who)
                    BY <4>1, JobRuns DEF Types, JobPcs
                <5> QED
                    BY <5>1 DEF GoneOK, Runs
            <4>2. CASE UNCHANGED open /\ JobEnds(t)
                <5>1. Runs(t, "idle", None)
                    BY <4>2, EndRuns
                <5> QED
                    BY <1>0, <1>1, <1>2, <4>2, <5>1 DEF GoneOK, Runs
            <4> QED
                BY <3>6, <4>1, <4>2 DEF SettleRounds
        <3>7. CASE RemoveRow(t)
            <4>1. UNCHANGED open /\ Runs(t, "idle", None)
                BY <3>7, JobSteps DEF RemoveRow, copyVars
            <4> QED
                BY <1>0, <1>1, <1>2, <4>1 DEF GoneOK, Runs
        <3> QED
            BY <2>2, <3>1, <3>2, <3>3, <3>4, <3>5, <3>6, <3>7 DEF QueueStep
    <2>3. CASE Restart
        <3>1. UNCHANGED open /\ running'[t] = NoJob /\ NoJob.pc = "idle"
            BY <2>3 DEF Restart, NoJob
        <3> QED
            BY <1>0, <1>1, <1>2, <3>1 DEF GoneOK
    <2>4. book_buy(t) => QueueStep(t)
        BY DEF QueueStep
    <2> QED
        BY <2>1, <2>2, <2>3, <2>4, OpenGrows, RunningFrame
<1>3. ASSUME NEW r \in Requests, WatchNew(r), actor[r].t = t, Erase(t), task[t].st # "gone" PROVE GoneOK(t)'
    <2>1. UNCHANGED <<open, running>>
        BY <1>3 DEF WatchNew, copyVars
    <2>2. (open[t] = 0 /\ running[t].who # "buy") \/ t \in undone'
        <3>1. task'[t].st = "gone"
            BY <1>3, Rows DEF Erase, Types
        <3>2. ~ UNCHANGED task
            BY <1>3, <3>1
        <3>3. undone' = IF open[t] > 0 \/ running[t].who = "buy" THEN undone \cup {t} ELSE undone
            BY <1>3, <3>2 DEF WatchNew, rowVars
        <3> QED
            BY <1>0, <3>3
    <2>3. running[t].who # "buy" => running[t].pc \notin {"fill", "book"}
        BY DEF JobInv, JobOK
    <2> QED
        BY <1>0, <2>1, <2>2, <2>3 DEF GoneOK
<1>4. CASE RemoveRow(t)
    <2>1. UNCHANGED open /\ running[t].pc = "remove" /\ Runs(t, "idle", None)
        BY <1>4, JobSteps DEF RemoveRow, copyVars
    <2> QED
        BY <1>0, <2>1 DEF GoneOK, Runs
<1>5. Erase(t) => task'[t].st = "gone"
    BY Rows DEF Erase, Types
<1> QED
    BY <1>2, <1>3, <1>4, <1>5, GoneFrame

-----------------------------------------------------------------------------
(* The source of a removed task.                                            *)

Detaching == {"recheck", "detach", "final"}
OrphanOK(t) ==
    task[t].st = "gone" /\ source[t] # "off" =>
        t \in torn \/ \E a \in Actors : actor[a].t = t /\ actor[a].pc \in Detaching

\* The steps at which an actor is about to look at the row or detach it, and who moves there.
LEMMA DetachingFrame ==
    ASSUME Types, ActorInv, JobInv, CopyConstants, [Next]_vars
    PROVE  \/ Aside(Detaching)
           \/ \E r \in Requests : FinalDetach(r) \/ DropRequest(r)
           \/ \E a \in Actors : SyncStep(a)
           \/ \E t \in Tasks : RemoveRow(t)
           \/ Restart
<1> USE AsideMoves DEF Detaching
<1>1. ASSUME NEW r \in Requests, NEW t \in Tasks, RequestStarts(r, t) PROVE Aside(Detaching)
    BY <1>1, StartMoves DEF RequestStarts
<1>2. ASSUME NEW r \in Requests, TakeSlot(r) \/ ensure_active_slot(r) \/ WriteRow(r) PROVE Aside(Detaching)
    <2>1. CASE TakeSlot(r)
        <3>1. Moves({"slot"}, {"count"})
            BY <2>1, RequestMoves
        <3> QED
            BY <3>1
    <2>2. CASE ensure_active_slot(r)
        <3>1. Moves({"count"}, {"idle", "write"})
            BY <2>2, RequestMoves
        <3> QED
            BY <3>1
    <2>3. CASE WriteRow(r)
        <3>1. Moves({"write"}, {"sync", "watch", "idle"})
            BY <2>3, RequestMoves
        <3> QED
            BY <3>1
    <2> QED
        BY <1>2, <2>1, <2>2, <2>3
<1>3. ASSUME NEW r \in Requests, WatchNew(r) \/ SyncPositions(r) \/ RollBack(r) PROVE Aside(Detaching)
    <2>1. CASE WatchNew(r)
        <3>1. Moves({"watch"}, {"idle"})
            BY <2>1, RequestMoves
        <3> QED
            BY <3>1
    <2>2. CASE SyncPositions(r)
        <3>1. Moves({"positions"}, {"idle", "undo"})
            BY <2>2, RequestMoves
        <3> QED
            BY <3>1
    <2>3. CASE RollBack(r)
        <3>1. Moves({"undo"}, {"idle"})
            BY <2>3, RequestMoves
        <3> QED
            BY <3>1
    <2> QED
        BY <1>3, <2>1, <2>2, <2>3
<1>4. ASSUME NEW r \in Requests, Unwatch(r) \/ EnqueueDelete(r) \/ RestoreWatch(r) PROVE Aside(Detaching)
    <2>1. CASE Unwatch(r)
        <3>1. Moves({"unwatch"}, {"enqueue", "idle"})
            BY <2>1, RequestMoves
        <3> QED
            BY <3>1
    <2>2. CASE EnqueueDelete(r)
        <3>1. Moves({"enqueue"}, {"restore", "wait"})
            BY <2>2, RequestMoves
        <3> QED
            BY <3>1
    <2>3. CASE RestoreWatch(r)
        <3>1. Moves({"restore"}, {"sync", "idle"})
            BY <2>3, RequestMoves
        <3> QED
            BY <3>1
    <2> QED
        BY <1>4, <2>1, <2>2, <2>3
<1>10. ASSUME NEW r \in Requests, LateWrite(r) \/ LateAttach(r) \/ LateDetach(r) PROVE Aside(Detaching)
    <2>1. CASE LateWrite(r)
        <3>1. Moves({"late_write"}, {"idle"})
            BY <2>1, RequestMoves
        <3> QED
            BY <3>1
    <2>2. CASE LateAttach(r)
        <3>1. Moves({"late_attach"}, {"idle"})
            BY <2>2, RequestMoves
        <3> QED
            BY <3>1
    <2>3. CASE LateDetach(r)
        <3>1. Moves({"late_detach"}, {"idle"})
            BY <2>3, RequestMoves
        <3> QED
            BY <3>1
    <2> QED
        BY <1>10, <2>1, <2>2, <2>3
<1>5. ASSUME NEW t \in Tasks, process_activity(t) \/ Reconcile(t) PROVE Aside(Detaching)
    BY <1>5, ServiceMoves
<1>6. ASSUME NEW t \in Tasks, QueueStep(t), ~ RemoveRow(t) PROVE Aside(Detaching)
    <2>1. CASE UNCHANGED actor
        BY <2>1 DEF Aside
    <2> QED
        BY <1>6, <2>1, QueueMoves DEF QueueStep
<1>7. ASSUME NEW t \in Tasks, Detect(t) \/ CloseCopy(t) \/ Settled(t) \/ WatcherStops(t) \/ UserRestores(t)
      PROVE  Aside(Detaching)
    BY <1>7 DEF Aside, Detect, CloseCopy, Settled, WatcherStops, UserRestores
<1>8. ASSUME ServiceStep PROVE Aside(Detaching)
    <2>1. CASE apply_latency_kill_switch \/ enqueue_paper \/ prepare_entry \/ execute_live
        BY <2>1, ServiceMoves
    <2>2. CASE record_outcome \/ JudgeDetached \/ PauseDetached \/ sync_paused_watches
        BY <2>2, ServiceMoves
    <2> QED
        BY <1>8, <2>1, <2>2 DEF ServiceStep
<1>9. UNCHANGED vars => Aside(Detaching)
    BY DEF vars, Aside
<1> QED
    BY <1>1, <1>2, <1>3, <1>4, <1>5, <1>6, <1>7, <1>8, <1>9, <1>10 DEF Next, RequestStep

\* An actor other than those that detach t is still where it was.
LEMMA StillDetaching ==
    ASSUME NEW t \in Tasks, OrphanOK(t), t \in torn => t \in torn',
           task'[t].st = "gone" => task[t].st = "gone",
           source'[t] # "off" => source[t] # "off",
           \A b \in Actors : actor[b].t = t /\ actor[b].pc \in Detaching =>
               \/ actor'[b].t = t /\ actor'[b].pc \in Detaching
               \/ t \in torn'
    PROVE  OrphanOK(t)'
BY DEF OrphanOK

\* A removed task is not watched, or somebody is about to detach it.
LEMMA OrphanKept ==
    ASSUME Types, ActorInv, JobInv, RowInv, NoOrphanSource, CopyConstants, [Next]_vars, Types'
    PROVE  NoOrphanSource'
<1> SUFFICES ASSUME NEW t \in Tasks PROVE OrphanOK(t)'
    BY DEF NoOrphanSource, OrphanOK, Detaching
<1>0. OrphanOK(t)
    BY DEF NoOrphanSource, OrphanOK, Detaching
<1>1. CASE source'[t] = "off" \/ t \in torn' \/ task'[t].st # "gone"
    BY <1>1 DEF OrphanOK
<1>2. ASSUME NEW r \in Requests, WatchNew(r) PROVE OrphanOK(t)'
    <2>1. actor[r].t \in Tasks /\ Aside(Detaching)
        BY <1>2, Carried, RequestMoves, AsideMoves DEF WatchNew, At, Actors, Detaching
    <2>2. CASE actor[r].t # t
        <3>1. /\ source'[t] = source[t] /\ (t \in torn => t \in torn')
              /\ task'[t] = task[t]
            BY <1>2, <2>1, <2>2 DEF WatchNew, Left, Erase, Types, rowVars
        <3> QED
            BY <1>0, <2>1, <3>1, StillDetaching DEF Aside
    <2>3. CASE actor[r].t = t
        <3>1. CASE UNCHANGED <<rowVars, source, torn>>
            BY <1>0, <2>1, <3>1, StillDetaching DEF Aside, rowVars
        <3>2. CASE torn' = Left(t) /\ UNCHANGED rowVars
            BY <1>1, <3>2 DEF Left, Stored, rowVars
        <3>3. CASE torn' = (IF source[t] # "off" THEN torn \cup {t} ELSE torn) /\ UNCHANGED source
            BY <1>1, <3>3
        <3> QED
            BY <1>2, <2>3, <3>1, <3>2, <3>3 DEF WatchNew
    <2> QED
        BY <2>2, <2>3
<1>3. ASSUME RemoveRow(t) PROVE OrphanOK(t)'
    <2>1. running[t].who \in Requests /\ running[t].who \in Actors
        BY <1>3, JobSteps DEF Actors
    <2>2. PICK r \in Requests : r = running[t].who /\ r \in Actors
        BY <2>1
    <2>3. UNCHANGED source
        BY <1>3 DEF RemoveRow
    <2>4. CASE Stored(t) /\ Answered(r, t, "final") /\ ~ (actor[r].t = t /\ At(r, "wait"))
               /\ torn' = IF source[t] # "off" /\ ~ (actor[r].t = t /\ At(r, "wait")) THEN torn \cup {t} ELSE torn
        BY <1>1, <2>3, <2>4
    <2>5. CASE Answered(r, t, "final") /\ actor[r].t = t /\ At(r, "wait")
        <3>1. Goto(r, "final")
            BY <2>5 DEF Answered, Goto
        <3>2. actor'[r].t = t /\ actor'[r].pc = "final"
            BY <2>2, <2>5, <3>1, GotoBecomes DEF Becomes, Pcs
        <3> QED
            BY <2>2, <3>2 DEF OrphanOK, Detaching
    <2>6. CASE Answered(r, t, "restore") /\ UNCHANGED <<rowVars, torn>>
        <3>1. Moves({"wait"}, {"restore"})
            BY <2>2, <2>6, AnsweredMoves
        <3>2. Aside(Detaching)
            BY <3>1, AsideMoves DEF Detaching
        <3> QED
            BY <1>0, <2>3, <2>6, <3>2, StillDetaching DEF Aside, rowVars
    <2> QED
        BY <1>3, <2>2, <2>4, <2>5, <2>6 DEF RemoveRow
<1>4. ASSUME NEW u \in Tasks, RemoveRow(u), u # t PROVE OrphanOK(t)'
    <2>1. UNCHANGED source /\ task'[t] = task[t] /\ (t \in torn => t \in torn')
        BY <1>4 DEF RemoveRow, Erase, Types, rowVars
    <2>2. Moves({"wait"}, {"restore", "final"})
        BY <1>4, QueueMoves
    <2>3. \A b \in Actors : actor[b].pc \in Detaching => actor'[b] = actor[b]
        BY <2>2 DEF Moves, Detaching
    <2> QED
        BY <1>0, <2>1, <2>3, StillDetaching
<1>5. ASSUME NEW a \in Actors, SyncStep(a) \/ FinalDetach(a) PROVE OrphanOK(t)'
    <2>1. PICK u \in Tasks : u = actor[a].t
        BY <1>5, Carried DEF SyncStep, sync_task_watch, Attach, attach_while_stored, Detach, FinalDetach, At
    <2>2. UNCHANGED rowVars
        BY <1>5 DEF SyncStep, sync_task_watch, Attach, attach_while_stored, Detach, FinalDetach
    <2>3. ASSUME torn' = Left(u) PROVE u = t => OrphanOK(t)'
        BY <1>1, <2>2, <2>3 DEF Left, Stored, rowVars
    <2>4. ASSUME Off(u) PROVE u = t => OrphanOK(t)'
        BY <1>1, <2>4 DEF Off, Types
    <2>5. /\ \A b \in Actors : b # a => actor'[b] = actor[b]
          /\ sync_task_watch(a) => actor[a].pc \notin Detaching
          /\ Attach(a) => \/ actor'[a].t = u /\ actor'[a].pc = "recheck"
                          \/ UNCHANGED source
        <3>1. ASSUME NEW pc \in Pcs, Goto(a, pc) PROVE \A b \in Actors : b # a => actor'[b] = actor[b]
            BY <3>1, GotoBecomes DEF Becomes
        <3>2. ASSUME Done(a) PROVE \A b \in Actors : b # a => actor'[b] = actor[b]
            BY <3>2, DoneBecomes DEF Becomes
        <3>3. SyncEnded(a) => \A b \in Actors : b # a => actor'[b] = actor[b]
            BY <3>1, <3>2 DEF SyncEnded, SyncEnds, Pcs
        <3>4. \A b \in Actors : b # a => actor'[b] = actor[b]
            <4>1. CASE sync_task_watch(a)
                BY <3>1, <4>1 DEF sync_task_watch, Pcs
            <4>2. CASE Attach(a)
                BY <3>1, <3>3, <4>2 DEF Attach, Pcs, SyncEnded
            <4>3. CASE attach_while_stored(a)
                BY <3>1, <3>3, <4>3 DEF attach_while_stored, Pcs, SyncEnded
            <4>4. CASE Detach(a)
                BY <3>3, <4>4 DEF Detach, SyncEnded
            <4>5. CASE FinalDetach(a)
                BY <3>2, <4>5 DEF FinalDetach
            <4> QED
                BY <1>5, <4>1, <4>2, <4>3, <4>4, <4>5 DEF SyncStep
        <3>5. Goto(a, "recheck") => actor'[a].t = u /\ actor'[a].pc = "recheck"
            BY <2>1, GotoBecomes DEF Becomes, Pcs
        <3> QED
            BY <3>4, <3>5 DEF sync_task_watch, Attach, At, Detaching
    <2>6. CASE u # t
        <3>1. source'[t] = source[t] /\ (t \in torn => t \in torn')
            BY <1>5, <2>1, <2>6 DEF SyncStep, sync_task_watch, Attach, attach_while_stored, Detach, FinalDetach,
                                    Off, Left, Types
        <3> QED
            BY <1>0, <2>1, <2>2, <2>5, <2>6, <3>1, StillDetaching DEF rowVars
    <2>7. CASE u = t
        <3>1. CASE sync_task_watch(a)
            BY <1>0, <2>2, <2>5, <3>1, StillDetaching DEF sync_task_watch, rowVars
        <3>2. CASE Attach(a)
            <4>1. CASE actor'[a].t = u /\ actor'[a].pc = "recheck"
                BY <2>7, <4>1 DEF OrphanOK, Detaching
            <4>2. CASE UNCHANGED source
                <5>1. actor[a].pc \notin Detaching /\ UNCHANGED torn
                    BY <3>2 DEF Attach, At, Detaching
                <5> QED
                    BY <1>0, <2>2, <2>5, <4>2, <5>1, StillDetaching DEF rowVars
            <4> QED
                BY <2>5, <3>2, <4>1, <4>2
        <3>3. CASE attach_while_stored(a)
            <4>1. CASE torn' = Left(u)
                BY <2>3, <2>7, <4>1
            <4>2. CASE Stored(u)
                BY <1>1, <2>2, <2>7, <4>2 DEF Stored, rowVars
            <4>3. CASE ~ Stored(u) /\ Goto(a, "detach")
                <5>1. actor'[a].t = u /\ actor'[a].pc = "detach"
                    BY <2>1, <4>3, GotoBecomes DEF Becomes, Pcs
                <5> QED
                    BY <2>7, <5>1 DEF OrphanOK, Detaching
            <4> QED
                BY <2>1, <3>3, <4>1, <4>2, <4>3 DEF attach_while_stored
        <3>4. CASE Detach(a) \/ FinalDetach(a)
            BY <2>1, <2>3, <2>4, <2>7, <3>4 DEF Detach, FinalDetach
        <3> QED
            BY <1>5, <3>1, <3>2, <3>3, <3>4 DEF SyncStep
    <2> QED
        BY <2>6, <2>7
<1>6. ASSUME NEW r \in Requests, DropRequest(r) PROVE OrphanOK(t)'
    <2>1. PICK pc, op, u, orig, row : r \in Actors /\ Becomes(r, pc, op, u, orig, row)
        BY <1>6, DropBecomes DEF Actors
    <2>2. UNCHANGED <<task, source>> /\ (t \in torn => t \in torn')
        BY <1>6 DEF DropRequest, Left, rowVars
    <2>3. actor[r].t = t /\ actor[r].pc \in Detaching => t \in torn' \/ task'[t].st = "stored"
        BY <1>6, <2>2 DEF DropRequest, Left, Stored, At, Detaching
    <2>4. CASE task'[t].st = "stored"
        BY <1>1, <2>4
    <2> QED
        BY <1>0, <2>1, <2>2, <2>3, <2>4, StillDetaching DEF Becomes
<1>7. ASSUME Restart PROVE OrphanOK(t)'
    BY <1>7 DEF Restart, OrphanOK, rowVars
<1>8. CASE /\ Aside(Detaching)
           /\ \A r \in Requests : ~ WatchNew(r)
           /\ ~ RemoveRow(t) /\ ~ Restart
           /\ \A a \in Actors : ~ SyncStep(a) /\ ~ FinalDetach(a)
           /\ \A r \in Requests : ~ DropRequest(r) /\ ~ LateAttach(r)
    <2>1. task'[t].st = "gone" <=> task[t].st = "gone"
        BY <1>8, GoneFrame
    <2>2. CASE \E r \in Requests : actor[r].t = t /\ Off(t)
        BY <1>1, <2>2 DEF Off, Types
    <2>3. CASE (source'[t] # "off" => source[t] # "off") /\ (t \in torn => t \in torn')
        BY <1>0, <1>8, <2>1, <2>3, StillDetaching DEF Aside
    <2>4. ASSUME NEW r \in Requests, Unwatch(r) \/ LateDetach(r), ~ (actor[r].t = t /\ Off(t))
          PROVE  source'[t] = source[t] /\ (t \in torn => t \in torn')
        <3>1. actor[r].t \in Tasks
            BY <2>4, Carried DEF Unwatch, LateDetach, At, Actors
        <3> QED
            BY <2>4, <3>1 DEF Unwatch, LateDetach, Off, Types
    <2>5. ASSUME NEW u \in Tasks, RemoveRow(u) \/ WatcherStops(u) \/ UserRestores(u)
          PROVE  (source'[t] # "off" => source[t] # "off") /\ (t \in torn => t \in torn')
        BY <2>5 DEF RemoveRow, WatcherStops, UserRestores, Types
    <2>6. \A r \in Requests : ~ FinalDetach(r)
        BY <1>8 DEF Actors
    <2>7. \A a \in Actors : ~ Attach(a) /\ ~ attach_while_stored(a) /\ ~ Detach(a)
        BY <1>8 DEF SyncStep
    <2>8. UNCHANGED <<source, torn>> => (source'[t] # "off" => source[t] # "off") /\ (t \in torn => t \in torn')
        OBVIOUS
    <2> QED
        BY <1>8, <2>2, <2>3, <2>4, <2>5, <2>6, <2>7, <2>8, WatchFrame
<1>9. ASSUME NEW r \in Requests, LateAttach(r) PROVE OrphanOK(t)'
    <2>1. actor[r].t \in Tasks /\ Aside(Detaching) /\ UNCHANGED task
        <3>1. Moves({"late_attach"}, {"idle"})
            BY <1>9, RequestMoves
        <3>2. Aside(Detaching)
            BY <3>1, AsideMoves DEF Detaching
        <3> QED
            BY <1>9, <3>2, Carried DEF LateAttach, At, Actors, rowVars
    <2>2. PICK u \in Tasks : u = actor[r].t
        BY <2>1
    <2>3. CASE source'[t] = source[t] /\ (t \in torn => t \in torn')
        BY <1>0, <2>1, <2>3, StillDetaching DEF Aside
    <2>4. CASE source' = [source EXCEPT ![u] = "on"] /\ torn' = Left(u)
        <3>1. CASE u = t
            BY <1>1, <2>1, <2>4, <3>1 DEF Left, Stored
        <3>2. CASE u # t
            BY <2>3, <2>4, <3>2 DEF Left, Types
        <3> QED
            BY <3>1, <3>2
    <2>5. CASE UNCHANGED <<source, torn>>
        BY <2>3, <2>5
    <2> QED
        BY <1>9, <2>2, <2>4, <2>5 DEF LateAttach
<1> QED
    BY <1>2, <1>3, <1>4, <1>5, <1>6, <1>7, <1>8, <1>9, DetachingFrame DEF Actors

-----------------------------------------------------------------------------
(* The invariant and what follows from it.                                  *)

\* The stored tasks of the start are paused, and nothing is under way.
LEMMA Initially ==
    ASSUME Init
    PROVE  Inv
<1> USE CopyConstants
<1>0. /\ NoRow \in Row /\ NoRow.st = "none" /\ NoRow.enabled = FALSE
      /\ Paused("user") \in Row /\ Paused("user").st = "stored" /\ Paused("user").enabled = FALSE
    BY Rows DEF Reasons
<1>1. /\ Idle \in ActorState /\ Idle.pc = "idle" /\ Idle.op = "none"
    <2>1. "idle" \in Pcs /\ "none" \in Ops /\ None \in Tasks \cup {None}
        BY DEF Pcs, Ops
    <2> QED
        BY <1>0, <2>1, ActorFields, Zenon DEF Idle
<1>2. NoJob \in JobState /\ NoJob.pc = "idle" /\ NoJob.who = None
    BY DEF NoJob, JobState, JobPcs
<1>3. /\ \A a \in Actors : actor[a] = Idle
      /\ actor \in [Actors -> ActorState]
    BY <1>1 DEF Init
<1>4. /\ \A t \in Tasks : running[t] = NoJob /\ fifo[t] = <<>>
      /\ running \in [Tasks -> JobState] /\ fifo \in [Tasks -> Seq(Requests \cup {"buy"})]
    BY <1>2 DEF Init
<1>5. /\ task \in [Tasks -> Row]
      /\ \A t \in Tasks : ~ task[t].enabled /\ task[t].st # "gone"
    BY <1>0 DEF Init
<1>6. /\ bought \in [Tasks -> Nat] /\ open \in [Tasks -> Nat] /\ recorded \in [Tasks -> Nat] /\ escaped \in [Tasks -> Nat]
      /\ \A t \in Tasks : bought[t] = 0 /\ open[t] = 0 /\ recorded[t] = 0 /\ escaped[t] = 0
    BY DEF Init
<1>7. Types
    BY <1>3, <1>4, <1>5, <1>6 DEF Init, Types
<1>8. ActorInv
    BY <1>1, <1>3 DEF ActorInv, ActorOK
<1>9. JobInv
    BY <1>2, <1>4 DEF JobInv, JobOK, CopyConstants
<1>10. RowInv
    BY <1>5 DEF RowInv
<1>11. SlotInv
    BY <1>1, <1>3 DEF Init, SlotInv, SlotOK, CopyConstants, Actors
<1>12. LimitInv
    <2>1. Counted = {}
        BY <1>5 DEF Counted, Active
    <2>2. Cardinality(Counted) = 0
        BY <2>1, FS_EmptySet
    <2> QED
        BY <2>2 DEF Init, LimitInv, CopyConstants
<1>13. SpendInv
    <2>1. Service \in Actors /\ actor[Service].pc = "idle" /\ LiveTasks \subseteq Tasks /\ Budget \in Nat
        BY <1>1, <1>3 DEF Actors, CopyConstants
    <2>2. \A t \in Tasks : Unrecorded(t) = 0
        BY <2>1 DEF Unrecorded
    <2> QED
        BY <1>2, <1>4, <1>6, <2>1, <2>2 DEF SpendInv, LiveOK, PaperOK, CopyConstants
<1>14. GoneInv
    BY <1>2, <1>4, <1>5 DEF GoneInv, GoneOK
<1>15. NoOrphanSource
    BY <1>5 DEF NoOrphanSource
<1> QED
    BY <1>7, <1>8, <1>9, <1>10, <1>11, <1>12, <1>13, <1>14, <1>15 DEF Inv

\* Every step keeps the invariant.
LEMMA Inductive ==
    ASSUME Inv, [Next]_vars
    PROVE  Inv'
<1>1. Types' /\ ActorInv' /\ JobInv' /\ RowInv'
    BY Structure, CopyConstants DEF Inv
<1>2. SlotInv'
    BY SlotKept, CopyConstants DEF Inv
<1>3. LimitInv'
    BY LimitKept, CopyConstants DEF Inv
<1>4. SpendInv'
    BY <1>1, SpendKept, CopyConstants DEF Inv
<1>5. GoneInv'
    BY <1>1, GoneKept, CopyConstants DEF Inv
<1>6. NoOrphanSource'
    BY <1>1, OrphanKept, CopyConstants DEF Inv
<1> QED
    BY <1>1, <1>2, <1>3, <1>4, <1>5, <1>6 DEF Inv

\* The invariant holds throughout.
LEMMA Invariant == Spec => []Inv
BY Initially, Inductive, PTL DEF Spec

\* One removal a task, as a count.
LEMMA InvTyped ==
    ASSUME Inv
    PROVE  TypeOK
<1>1. Types /\ JobInv
    BY DEF Inv
<1>2. ASSUME NEW t \in Tasks
      PROVE  Cardinality({i \in DOMAIN fifo[t] : fifo[t][i] \in Requests})
               + (IF running[t].who \in Requests THEN 1 ELSE 0) <= 1
    <2> DEFINE D == {i \in DOMAIN fifo[t] : fifo[t][i] \in Requests}
    <2>1. /\ running[t].who \in Requests => D = {}
          /\ \A i, j \in D : i = j
        BY <1>1 DEF JobInv, JobOK
    <2> HIDE DEF D
    <2>2. Cardinality(D) \in {0, 1} /\ (running[t].who \in Requests => Cardinality(D) = 0)
        <3>1. CASE D = {}
            BY <3>1, FS_EmptySet
        <3>2. CASE D # {}
            <4>0. PICK i : i \in D
                BY <3>2
            <4>1. D = {i}
                BY <2>1, <4>0
            <4>2. Cardinality(D) = 1
                BY <4>1, FS_Singleton
            <4> QED
                BY <2>1, <3>2, <4>2
        <3> QED
            BY <3>1, <3>2
    <2>3. Cardinality(D) + (IF running[t].who \in Requests THEN 1 ELSE 0) <= 1
        BY <2>2
    <2> QED
        BY <2>3 DEF D
<1>3. actor \in [Actors -> [pc : Pcs, op : {"none", "create", "update", "delete", "copy", "guard", "reconcile"},
                            t : Tasks \cup {None}, orig : Row, row : Row]]
    BY <1>1 DEF Types, ActorState, Ops
<1>4. running \in [Tasks -> [pc : {"idle", "start", "fill", "book", "settle", "remove"},
                             who : Requests \cup {"buy", None}]]
    BY <1>1 DEF Types, JobState, JobPcs
<1>5. \A t \in Tasks : Len(fifo[t]) <= QueueCapacity /\ open[t] <= bought[t]
    BY <1>1 DEF Types, JobInv, JobOK
<1>6. fresh \cup mail \cup revived \cup torn \cup undone \subseteq Tasks
    BY <1>1 DEF Types
<1> QED
    BY <1>1, <1>2, <1>3, <1>4, <1>5, <1>6 DEF TypeOK, Types

\* The state of copy trading is well typed, a queue of paper jobs stays within
\* paper_queue_capacity and a task has one removal queued or running (delete_key),
\* for any number of tasks and requests.
THEOREM CopyTyped == Spec => []TypeOK
BY Invariant, InvTyped, PTL

\* Never are more tasks enabled than max_active_tasks, apart from those that a write of
\* an older row enabled again: ACTIVE_SLOT covers the count and the write (control/tasks.rs).
THEOREM LimitHolds == Spec => []ActiveLimit
<1>1. Inv => ActiveLimit
    BY DEF Inv, LimitInv, ActiveLimit, Counted
<1> QED
    BY <1>1, Invariant, PTL

\* A task never buys beyond its budget, but for live copies whose spend was never recorded.
THEOREM BudgetHolds == Spec => []BudgetKept
<1>1. ASSUME Inv PROVE BudgetKept
    <2>1. Types /\ SpendInv /\ Budget \in Nat
        BY <1>1, CopyConstants DEF Inv, CopyConstants
    <2>2. ASSUME NEW t \in Tasks PROVE bought[t] <= Budget + escaped[t]
        <3>1. bought[t] \in Nat /\ escaped[t] \in Nat /\ recorded[t] \in Nat
            BY <2>1 DEF Types
        <3>2. CASE t \notin LiveTasks
            BY <2>1, <3>1, <3>2 DEF SpendInv, PaperOK
        <3>3. CASE t \in LiveTasks
            <4>1. bought[t] = recorded[t] + escaped[t] + Unrecorded(t) /\ recorded[t] <= Budget
                BY <2>1, <3>3 DEF SpendInv, LiveOK
            <4>2. \/ Unrecorded(t) = 0
                  \/ Unrecorded(t) = 1 /\ recorded[t] < Budget
                BY <2>1 DEF SpendInv, Unrecorded
            <4> QED
                BY <2>1, <3>1, <4>1, <4>2
        <3> QED
            BY <3>2, <3>3
    <2> QED
        BY <2>2 DEF BudgetKept
<1> QED
    BY <1>1, Invariant, PTL

\* A removed paper task holds no copy: its rounds are settled on its own queue, and a job
\* that runs later finds the task gone (delete_task, paper_trade_wanted).
THEOREM RemovedHoldNothing == Spec => []GoneHoldsNothing
<1>1. Inv => GoneHoldsNothing
    BY DEF Inv, GoneInv, GoneOK, GoneHoldsNothing
<1> QED
    BY <1>1, Invariant, PTL

\* A removed task is not watched, or somebody is about to detach it, whichever of attach
\* and delete comes last (attach_while_stored, delete_task).
THEOREM RemovedNotWatched == Spec => []NoOrphanSource
<1>1. Inv => NoOrphanSource
    BY DEF Inv
<1> QED
    BY <1>1, Invariant, PTL

=============================================================================
