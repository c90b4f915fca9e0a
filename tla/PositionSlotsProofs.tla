------------------------ MODULE PositionSlotsProofs ------------------------
(***************************************************************************)
(* Proofs about PositionSlots, for every number of positions, open calls,  *)
(* requests and every limit: the types, and that no trading slot is ever   *)
(* handed out twice.                                                       *)
(***************************************************************************)
EXTENDS PositionSlots, FiniteSetTheorems, TLAPS

\* A call that reached its slot step names a position: what makes the registry a set
\* of position ids.
StepNamesPosition ==
    /\ \A o \in Openers : opener[o].pc = "register" => opener[o].id \in Ids
    /\ \A t \in Tasks : task[t].pc # "idle" => task[t].id \in Ids

IndInv == TypeOK /\ StepNamesPosition

AccountingInv == IndInv /\ SlotAccounting

-----------------------------------------------------------------------------
(* Finite sets of open calls and holders. *)

\* The open calls holding a permit, and the registered holders, can be counted.
LEMMA CountsAreNat ==
    ASSUME TypeOK
    PROVE  /\ IsFiniteSet(InHand) /\ Cardinality(InHand) \in Nat
           /\ IsFiniteSet(holders) /\ Cardinality(holders) \in Nat
           /\ IsFiniteSet(CapacityConsuming) /\ Cardinality(CapacityConsuming) \in Nat
<1>1. InHand \subseteq Openers /\ CapacityConsuming \subseteq Ids
  BY DEF InHand, CapacityConsuming
<1>2. holders \subseteq Ids
  BY DEF TypeOK
<1>3. IsFiniteSet(InHand) /\ IsFiniteSet(holders) /\ IsFiniteSet(CapacityConsuming)
  BY <1>1, <1>2, SlotConstants, FS_Subset
<1>. QED
  BY <1>3, FS_CardinalityType

\* An open call that takes its permit adds one to those in hand.
LEMMA TakingInHand ==
    ASSUME TypeOK, NEW o \in Openers, opener[o].pc = "idle",
           NEW r, r.pc # "idle", opener' = [opener EXCEPT ![o] = r]
    PROVE  Cardinality(InHand') = Cardinality(InHand) + 1
<1>1. InHand' = InHand \cup {o} /\ o \notin InHand
  BY DEF InHand, TypeOK
<1>. QED
  BY <1>1, CountsAreNat, FS_AddElement

\* An open call that ends removes one from those in hand.
LEMMA LeavingInHand ==
    ASSUME TypeOK, NEW o \in Openers, opener[o].pc # "idle",
           opener' = [opener EXCEPT ![o] = IdleOpener]
    PROVE  Cardinality(InHand') = Cardinality(InHand) - 1
<1>1. InHand' = InHand \ {o} /\ o \in InHand
  BY DEF InHand, TypeOK, IdleOpener
<1>. QED
  BY <1>1, CountsAreNat, FS_RemoveElement

\* Registering a position adds at most one holder.
LEMMA HolderAdded ==
    ASSUME TypeOK, NEW i, holders' = holders \cup {i}
    PROVE  /\ Cardinality(holders') \in Nat
           /\ Cardinality(holders') <= Cardinality(holders) + 1
<1>1. CASE i \in holders
  <2>1. holders' = holders
    BY <1>1
  <2>2. Cardinality(holders') = Cardinality(holders)
    BY <2>1
  <2>3. Cardinality(holders) \in Nat
    BY CountsAreNat
  <2>. QED
    BY <2>2, <2>3
<1>2. CASE i \notin holders
  <2>1. Cardinality(holders') = Cardinality(holders) + 1
    BY <1>2, CountsAreNat, FS_AddElement
  <2>. QED
    BY <2>1, CountsAreNat
<1>. QED
  BY <1>1, <1>2

\* release_position_slot keeps the sum of free and registered slots.
LEMMA ReleaseKeepsSum ==
    ASSUME TypeOK, NEW i, release_position_slot(i)
    PROVE  /\ available' \in Nat /\ holders' \subseteq Ids
           /\ Cardinality(holders') \in Nat
           /\ available' + Cardinality(holders') = available + Cardinality(holders)
<1>1. CASE i \in holders
  <2>1. available' = available + 1 /\ holders' = holders \ {i}
    BY <1>1 DEF release_position_slot
  <2>2. Cardinality(holders') = Cardinality(holders) - 1 /\ IsFiniteSet(holders')
    BY <1>1, <2>1, CountsAreNat, FS_RemoveElement
  <2>3. Cardinality(holders') \in Nat
    BY <2>2, FS_CardinalityType
  <2>. QED
    BY <2>1, <2>2, <2>3, CountsAreNat DEF TypeOK
<1>2. CASE i \notin holders
  BY <1>2, CountsAreNat DEF release_position_slot, slotVars, TypeOK
<1>. QED
  BY <1>1, <1>2

\* reclaim_position_slot keeps the sum of free and registered slots.
LEMMA ReclaimKeepsSum ==
    ASSUME TypeOK, NEW i \in Ids, reclaim_position_slot(i)
    PROVE  /\ available' \in Nat /\ holders' \subseteq Ids
           /\ Cardinality(holders') \in Nat
           /\ available' + Cardinality(holders') = available + Cardinality(holders)
<1>1. CASE row[i].bot /\ i \notin holders /\ available > 0
  <2>1. available' = available - 1 /\ holders' = holders \cup {i}
    BY <1>1 DEF reclaim_position_slot
  <2>2. Cardinality(holders') = Cardinality(holders) + 1
    BY <1>1, <2>1, CountsAreNat, FS_AddElement
  <2>. QED
    BY <1>1, <2>1, <2>2, CountsAreNat DEF TypeOK
<1>2. CASE ~(row[i].bot /\ i \notin holders /\ available > 0)
  BY <1>2, CountsAreNat DEF reclaim_position_slot, slotVars, TypeOK
<1>. QED
  BY <1>1, <1>2

-----------------------------------------------------------------------------
(* Type correctness. *)

\* The edits of one row stay within the type of rows.
LEMMA RowEdits ==
    ASSUME NEW r \in Rows, NEW b \in BOOLEAN, NEW c \in BOOLEAN
    PROVE  /\ [r EXCEPT !.archived = b] \in Rows
           /\ [r EXCEPT !.verified = b] \in Rows
           /\ [r EXCEPT !.state = "open", !.archived = b, !.verified = c] \in Rows
           /\ \A m \in Mints : [NoRow EXCEPT !.state = "open", !.mint = m] \in Rows
<1>1. [r EXCEPT !.archived = b] \in Rows
  BY DEF Rows
<1>2. [r EXCEPT !.verified = b] \in Rows
  BY DEF Rows
<1>3. [r EXCEPT !.state = "open", !.archived = b, !.verified = c] \in Rows
  BY DEF Rows
<1>4. \A m \in Mints : [NoRow EXCEPT !.state = "open", !.mint = m] \in Rows
  BY DEF Rows, NoRow
<1>. QED
  BY <1>1, <1>2, <1>3, <1>4

\* Replacing one row by an edit of it keeps the type of the store.
LEMMA RowTyped ==
    ASSUME TypeOK, NEW i \in Ids, NEW b \in BOOLEAN, NEW c \in BOOLEAN,
           \/ row' = [row EXCEPT ![i].archived = b]
           \/ row' = [row EXCEPT ![i].verified = b]
           \/ row' = [row EXCEPT ![i].state = "open", ![i].archived = b, ![i].verified = c]
    PROVE  row' \in [Ids -> Rows]
<1>1. row \in [Ids -> Rows] /\ row[i] \in Rows
  BY DEF TypeOK
<1>2. /\ [row[i] EXCEPT !.archived = b] \in Rows
      /\ [row[i] EXCEPT !.verified = b] \in Rows
      /\ [row[i] EXCEPT !.state = "open", !.archived = b, !.verified = c] \in Rows
  BY <1>1, RowEdits
<1>3. CASE row' = [row EXCEPT ![i].archived = b]
  BY <1>1, <1>2, <1>3
<1>4. CASE row' = [row EXCEPT ![i].verified = b]
  BY <1>1, <1>2, <1>4
<1>5. CASE row' = [row EXCEPT ![i].state = "open", ![i].archived = b, ![i].verified = c]
  BY <1>1, <1>2, <1>5
<1>. QED
  BY <1>3, <1>4, <1>5

\* A task sent to its next step keeps the types of the tasks.
LEMMA ContinueTyped ==
    ASSUME IndInv, NEW t \in Tasks, NEW i \in Ids, NEW step,
           step \in {"archive", "unarchive", "release", "reclaim"},
           Continue(t, step, i)
    PROVE  /\ task' \in [Tasks -> TaskStates]
           /\ \A u \in Tasks : task'[u].pc # "idle" => task'[u].id \in Ids
<1>. QED
  BY DEF Continue, IndInv, TypeOK, StepNamesPosition, TaskStates

\* A task that ends keeps the types of the tasks.
LEMMA FinishTyped ==
    ASSUME IndInv, NEW t \in Tasks, Finish(t)
    PROVE  /\ task' \in [Tasks -> TaskStates]
           /\ \A u \in Tasks : task'[u].pc # "idle" => task'[u].id \in Ids
<1>. QED
  BY DEF Finish, IndInv, TypeOK, StepNamesPosition, TaskStates, IdleTask

\* Every step keeps the types and names a position wherever a slot step needs one.
LEMMA IndInvStep == IndInv /\ [Next]_vars => IndInv'
<1>. SUFFICES ASSUME IndInv, [Next]_vars PROVE IndInv'
  OBVIOUS
<1>. USE DEF IndInv, TypeOK, StepNamesPosition, Rows, OpenerStates, TaskStates,
             NoRow, IdleOpener, IdleTask, slotVars, procVars
<1>1. ASSUME NEW o \in Openers, NEW m \in Mints, AcquirePermit(o, m) PROVE IndInv'
  BY <1>1 DEF AcquirePermit
<1>2. ASSUME NEW o \in Openers, OpenStep(o) PROVE IndInv'
  <2>1. CASE RefuseOpen(o)
    BY <2>1 DEF RefuseOpen
  <2>2. CASE SendOpen(o)
    <3>1. /\ opener' \in [Openers -> OpenerStates]
          /\ \A q \in Openers : opener'[q].pc = "register" => opener'[q].id \in Ids
      BY <2>2 DEF SendOpen
    <3>2. lock' \in [Mints -> Openers \cup Tasks \cup {None}]
      BY <2>2 DEF SendOpen
    <3>. QED
      BY <2>2, <3>1, <3>2 DEF SendOpen
  <2>3. CASE SwapFailed(o)
    <3>1. /\ opener' \in [Openers -> OpenerStates]
          /\ \A q \in Openers : opener'[q].pc = "register" => opener'[q].id \in Ids
      BY <2>3 DEF SwapFailed, EndWithoutPosition
    <3>2. lock' \in [Mints -> Openers \cup Tasks \cup {None}]
      BY <2>3 DEF SwapFailed, EndWithoutPosition
    <3>. QED
      BY <2>3, <3>1, <3>2 DEF SwapFailed, EndWithoutPosition
  <2>4. ASSUME NEW i \in Ids, PersistOpened(o, i) PROVE IndInv'
    <3>1. row' \in [Ids -> Rows]
      BY <2>4 DEF PersistOpened
    <3>2. /\ opener' \in [Openers -> OpenerStates]
          /\ \A q \in Openers : opener'[q].pc = "register" => opener'[q].id \in Ids
      BY <2>4 DEF PersistOpened
    <3>. QED
      BY <2>4, <3>1, <3>2 DEF PersistOpened
  <2>5. CASE PersistAdded(o)
    <3>1. /\ opener' \in [Openers -> OpenerStates]
          /\ \A q \in Openers : opener'[q].pc = "register" => opener'[q].id \in Ids
      BY <2>5 DEF PersistAdded, EndWithoutPosition
    <3>2. lock' \in [Mints -> Openers \cup Tasks \cup {None}]
      BY <2>5 DEF PersistAdded, EndWithoutPosition
    <3>. QED
      BY <2>5, <3>1, <3>2 DEF PersistAdded, EndWithoutPosition
  <2>6. CASE PersistUnsaved(o)
    <3>1. /\ opener' \in [Openers -> OpenerStates]
          /\ \A q \in Openers : opener'[q].pc = "register" => opener'[q].id \in Ids
      BY <2>6 DEF PersistUnsaved, EndWithoutPosition
    <3>2. lock' \in [Mints -> Openers \cup Tasks \cup {None}]
      BY <2>6 DEF PersistUnsaved, EndWithoutPosition
    <3>. QED
      BY <2>6, <3>1, <3>2 DEF PersistUnsaved, EndWithoutPosition
  <2>7. CASE RegisterSlot(o)
    BY <2>7 DEF RegisterSlot
  <2>. QED
    BY <1>2, <2>1, <2>2, <2>3, <2>4, <2>5, <2>6, <2>7 DEF OpenStep
<1>3. ASSUME NEW m \in Mints, PendingOpenExpires(m) PROVE IndInv'
  BY <1>3 DEF PendingOpenExpires
<1>4. ASSUME NEW t \in Requests, NEW i \in Ids, RequestStep(t, i) PROVE IndInv'
  <2>. t \in Tasks
    BY DEF Tasks
  <2>1. CASE ArchiveRead(t, i)
    BY <2>1 DEF ArchiveRead, Continue
  <2>2. CASE UnarchiveRead(t, i)
    BY <2>2 DEF UnarchiveRead, is_open_round
  <2>3. CASE ForceClose(t, i)
    <3>1. row' \in [Ids -> Rows]
      BY <2>3 DEF ForceClose
    <3>2. /\ task' \in [Tasks -> TaskStates]
          /\ \A u \in Tasks : task'[u].pc # "idle" => task'[u].id \in Ids
      BY <2>3, ContinueTyped DEF ForceClose
    <3>. QED
      BY <2>3, <3>1, <3>2 DEF ForceClose
  <2>4. CASE DeleteRow(t, i)
    <3>1. row' \in [Ids -> Rows]
      BY <2>4 DEF DeleteRow
    <3>2. /\ task' \in [Tasks -> TaskStates]
          /\ \A u \in Tasks : task'[u].pc # "idle" => task'[u].id \in Ids
      BY <2>4, ContinueTyped DEF DeleteRow
    <3>. QED
      BY <2>4, <3>1, <3>2 DEF DeleteRow
  <2>. QED
    BY <1>4, <2>1, <2>2, <2>3, <2>4 DEF RequestStep
<1>5. ASSUME NEW t \in Requests, DeleteAllArchived(t) PROVE IndInv'
  <2>1. row' \in [Ids -> Rows]
    <3>1. \A i \in Ids : [row[i] EXCEPT !.state = "deleted"] \in Rows
      OBVIOUS
    <3>. QED
      BY <1>5, <3>1 DEF DeleteAllArchived
  <2>. QED
    BY <1>5, <2>1 DEF DeleteAllArchived
<1>6. ASSUME NEW t \in Tasks, TaskStep(t) PROVE IndInv'
  <2>1. CASE ArchiveWrite(t)
    <3>1. row' \in [Ids -> Rows]
      <4>1. PICK i \in Ids : i = task[t].id
        BY <2>1 DEF ArchiveWrite
      <4>. QED
        BY <2>1, <4>1, RowTyped DEF ArchiveWrite
    <3>2. /\ task' \in [Tasks -> TaskStates]
          /\ \A u \in Tasks : task'[u].pc # "idle" => task'[u].id \in Ids
      BY <2>1, ContinueTyped, FinishTyped DEF ArchiveWrite
    <3>. QED
      BY <2>1, <3>1, <3>2 DEF ArchiveWrite
  <2>2. CASE UnarchiveWrite(t)
    <3>1. row' \in [Ids -> Rows]
      <4>1. PICK i \in Ids : i = task[t].id
        BY <2>2 DEF UnarchiveWrite
      <4>. QED
        BY <2>2, <4>1, RowTyped DEF UnarchiveWrite
    <3>2. /\ task' \in [Tasks -> TaskStates]
          /\ \A u \in Tasks : task'[u].pc # "idle" => task'[u].id \in Ids
      BY <2>2, ContinueTyped, FinishTyped DEF UnarchiveWrite
    <3>. QED
      BY <2>2, <3>1, <3>2 DEF UnarchiveWrite
  <2>3. CASE ReleaseStep(t)
    <3>1. PICK i \in Ids : i = task[t].id
      BY <2>3 DEF ReleaseStep
    <3>2. available' \in Nat /\ holders' \subseteq Ids
      BY <2>3, <3>1, ReleaseKeepsSum DEF ReleaseStep
    <3>. QED
      BY <2>3, <3>2 DEF ReleaseStep, Finish
  <2>4. CASE ReclaimStep(t)
    <3>1. PICK i \in Ids : i = task[t].id
      BY <2>4 DEF ReclaimStep
    <3>2. available' \in Nat /\ holders' \subseteq Ids
      BY <2>4, <3>1, ReclaimKeepsSum DEF ReclaimStep
    <3>. QED
      BY <2>4, <3>2 DEF ReclaimStep, Finish
  <2>. QED
    BY <1>6, <2>1, <2>2, <2>3, <2>4 DEF TaskStep
<1>7. ASSUME NEW i \in Ids, WorkerStep(i) PROVE IndInv'
  <2>. Worker \in Tasks
    BY DEF Tasks
  <2>1. CASE EntryVerified(i)
    <3>1. row' \in [Ids -> Rows]
      BY <2>1, RowTyped DEF EntryVerified
    <3>. QED
      BY <2>1, <3>1 DEF EntryVerified
  <2>2. CASE ExitVerified(i)
    <3>1. row' \in [Ids -> Rows]
      BY <2>2 DEF ExitVerified
    <3>2. /\ task' \in [Tasks -> TaskStates]
          /\ \A u \in Tasks : task'[u].pc # "idle" => task'[u].id \in Ids
      BY <2>2, ContinueTyped DEF ExitVerified
    <3>. QED
      BY <2>2, <3>1, <3>2 DEF ExitVerified
  <2>3. CASE RemoveOrphanEntry(i)
    <3>1. row' \in [Ids -> Rows]
      BY <2>3 DEF RemoveOrphanEntry
    <3>2. /\ task' \in [Tasks -> TaskStates]
          /\ \A u \in Tasks : task'[u].pc # "idle" => task'[u].id \in Ids
      BY <2>3, ContinueTyped DEF RemoveOrphanEntry
    <3>. QED
      BY <2>3, <3>1, <3>2 DEF RemoveOrphanEntry
  <2>4. CASE BringBackFromArchive(i)
    <3>1. row' \in [Ids -> Rows]
      BY <2>4, RowTyped DEF BringBackFromArchive
    <3>2. /\ task' \in [Tasks -> TaskStates]
          /\ \A u \in Tasks : task'[u].pc # "idle" => task'[u].id \in Ids
      BY <2>4, ContinueTyped DEF BringBackFromArchive
    <3>. QED
      BY <2>4, <3>1, <3>2 DEF BringBackFromArchive
  <2>5. CASE LateFillReopens(i)
    <3>1. row' \in [Ids -> Rows]
      <4>1. row[i].verified \in BOOLEAN
        OBVIOUS
      <4>. QED
        BY <2>5, <4>1, RowTyped DEF LateFillReopens
    <3>2. /\ task' \in [Tasks -> TaskStates]
          /\ \A u \in Tasks : task'[u].pc # "idle" => task'[u].id \in Ids
      BY <2>5, ContinueTyped DEF LateFillReopens
    <3>. QED
      BY <2>5, <3>1, <3>2 DEF LateFillReopens
  <2>. QED
    BY <1>7, <2>1, <2>2, <2>3, <2>4, <2>5 DEF WorkerStep
<1>8. ASSUME NEW i \in Ids, LedgerStep(i) PROVE IndInv'
  <2>. Ledger \in Tasks
    BY DEF Tasks
  <2>1. CASE LedgerCloses(i)
    <3>1. row' \in [Ids -> Rows]
      BY <2>1 DEF LedgerCloses, LedgerContinue
    <3>2. /\ task' \in [Tasks -> TaskStates]
          /\ \A u \in Tasks : task'[u].pc # "idle" => task'[u].id \in Ids
      BY <2>1, ContinueTyped DEF LedgerCloses, LedgerContinue
    <3>. QED
      BY <2>1, <3>1, <3>2 DEF LedgerCloses, LedgerContinue
  <2>2. CASE LedgerReopens(i)
    <3>1. row' \in [Ids -> Rows]
      BY <2>2 DEF LedgerReopens, LedgerContinue
    <3>2. /\ task' \in [Tasks -> TaskStates]
          /\ \A u \in Tasks : task'[u].pc # "idle" => task'[u].id \in Ids
      BY <2>2, ContinueTyped DEF LedgerReopens, LedgerContinue
    <3>. QED
      BY <2>2, <3>1, <3>2 DEF LedgerReopens, LedgerContinue
  <2>3. ASSUME NEW m \in Mints, LedgerInserts(i, m) PROVE IndInv'
    BY <2>3 DEF LedgerInserts
  <2>. QED
    BY <1>8, <2>1, <2>2, <2>3 DEF LedgerStep
<1>9. CASE Restart
  <2>1. Cardinality(CapacityConsuming) \in Nat /\ CapacityConsuming \subseteq Ids
    BY CountsAreNat DEF CapacityConsuming
  <2>2. available' \in Nat /\ excess' \in Nat /\ maxOpen' \in Limits
    BY <1>9, <2>1, SlotConstants DEF Restart
  <2>. QED
    BY <1>9, <2>1, <2>2 DEF Restart
<1>10. CASE UNCHANGED vars
  BY <1>10 DEF vars
<1>. QED
  BY <1>1, <1>2, <1>3, <1>4, <1>5, <1>6, <1>7, <1>8, <1>9, <1>10 DEF Next

\* The types hold in every reachable state.
THEOREM TypeCorrect == Spec => []TypeOK
<1>1. Init => IndInv
  BY SlotConstants DEF Init, IndInv, TypeOK, StepNamesPosition, Rows, OpenerStates,
        TaskStates, NoRow, IdleOpener, IdleTask
<1>2. IndInv => TypeOK
  BY DEF IndInv
<1>. QED
  BY <1>1, <1>2, IndInvStep, PTL DEF Spec

-----------------------------------------------------------------------------
(* No slot is handed out twice. *)

\* A step that leaves the open calls, the semaphore and the registry alone keeps the sum.
LEMMA SumUnchanged ==
    ASSUME SlotAccounting, UNCHANGED <<available, holders, maxOpen, excess>>,
           Cardinality(InHand') = Cardinality(InHand)
    PROVE  SlotAccounting'
<1>. QED
  BY DEF SlotAccounting

\* Every step keeps the sum of free, in-hand and registered slots within the limit.
LEMMA AccountingStep == AccountingInv /\ [Next]_vars => SlotAccounting'
<1>. SUFFICES ASSUME IndInv, SlotAccounting, [Next]_vars PROVE SlotAccounting'
  BY DEF AccountingInv
<1>. TypeOK
  BY DEF IndInv
<1>t. /\ available \in Nat /\ maxOpen \in Nat /\ excess \in Nat
      /\ Cardinality(InHand) \in Nat /\ Cardinality(holders) \in Nat
      /\ available + Cardinality(InHand) + Cardinality(holders) <= maxOpen + excess
  BY CountsAreNat, SlotConstants DEF TypeOK, SlotAccounting
<1>u. ASSUME UNCHANGED <<available, holders, maxOpen, excess, opener>>
      PROVE  SlotAccounting'
  BY <1>u DEF SlotAccounting, InHand
<1>1. ASSUME NEW o \in Openers, NEW m \in Mints, AcquirePermit(o, m)
      PROVE  SlotAccounting'
  <2>1. Cardinality(InHand') = Cardinality(InHand) + 1
    BY <1>1, TakingInHand DEF AcquirePermit
  <2>2. available' = available - 1 /\ UNCHANGED <<holders, maxOpen, excess>>
    BY <1>1 DEF AcquirePermit, procVars
  <2>. QED
    BY <1>t, <2>1, <2>2 DEF SlotAccounting
<1>2. ASSUME NEW o \in Openers, OpenStep(o) PROVE SlotAccounting'
  <2>1. CASE RefuseOpen(o)
    <3>1. Cardinality(InHand') = Cardinality(InHand) - 1
      BY <2>1, LeavingInHand DEF RefuseOpen
    <3>2. available' = available + 1 /\ UNCHANGED <<holders, maxOpen, excess>>
      BY <2>1 DEF RefuseOpen, procVars
    <3>. QED
      BY <1>t, <3>1, <3>2 DEF SlotAccounting
  <2>2. CASE SendOpen(o)
    <3>1. InHand' = InHand
      BY <2>2 DEF SendOpen, InHand, TypeOK
    <3>. QED
      BY <2>2, <3>1, SumUnchanged DEF SendOpen, slotVars, procVars
  <2>3. CASE opener[o].pc = "swap" /\ EndWithoutPosition(o)
    <3>1. Cardinality(InHand') = Cardinality(InHand) - 1
      BY <2>3, LeavingInHand DEF EndWithoutPosition
    <3>2. available' = available + 1 /\ UNCHANGED <<holders, maxOpen, excess>>
      BY <2>3 DEF EndWithoutPosition, procVars
    <3>. QED
      BY <1>t, <3>1, <3>2 DEF SlotAccounting
  <2>4. ASSUME NEW i \in Ids, PersistOpened(o, i) PROVE SlotAccounting'
    <3>1. InHand' = InHand
      BY <2>4 DEF PersistOpened, InHand, TypeOK
    <3>. QED
      BY <2>4, <3>1, SumUnchanged DEF PersistOpened, slotVars, procVars
  <2>5. CASE RegisterSlot(o)
    <3>1. Cardinality(InHand') = Cardinality(InHand) - 1
      BY <2>5, LeavingInHand DEF RegisterSlot
    <3>2. PICK i : i = opener[o].id
      OBVIOUS
    <3>3. /\ Cardinality(holders') \in Nat
          /\ Cardinality(holders') <= Cardinality(holders) + 1
      BY <2>5, <3>2, HolderAdded DEF RegisterSlot
    <3>4. UNCHANGED <<available, maxOpen, excess>>
      BY <2>5 DEF RegisterSlot, procVars
    <3>. QED
      BY <1>t, <3>1, <3>3, <3>4 DEF SlotAccounting
  <2>. QED
    BY <1>2, <2>1, <2>2, <2>3, <2>4, <2>5
       DEF OpenStep, SwapFailed, PersistAdded, PersistUnsaved
<1>3. ASSUME NEW t \in Tasks, TaskStep(t) PROVE SlotAccounting'
  <2>1. CASE ArchiveWrite(t)
    BY <2>1, <1>u DEF ArchiveWrite, slotVars, procVars
  <2>2. CASE UnarchiveWrite(t)
    BY <2>2, <1>u DEF UnarchiveWrite, slotVars, procVars
  <2>3. ASSUME \/ ReleaseStep(t) \/ ReclaimStep(t) PROVE SlotAccounting'
    <3>1. PICK i \in Ids : i = task[t].id
      BY <2>3 DEF ReleaseStep, ReclaimStep, IndInv, StepNamesPosition
    <3>2. release_position_slot(i) \/ reclaim_position_slot(i)
      BY <2>3, <3>1 DEF ReleaseStep, ReclaimStep
    <3>3. /\ available' \in Nat /\ Cardinality(holders') \in Nat
          /\ available' + Cardinality(holders') = available + Cardinality(holders)
      BY <3>2, ReleaseKeepsSum, ReclaimKeepsSum
    <3>4. UNCHANGED <<opener, maxOpen, excess>>
      BY <2>3 DEF ReleaseStep, ReclaimStep, procVars
    <3>5. InHand' = InHand
      BY <3>4 DEF InHand
    <3>. QED
      BY <1>t, <3>3, <3>4, <3>5 DEF SlotAccounting
  <2>. QED
    BY <1>3, <2>1, <2>2, <2>3 DEF TaskStep
<1>4. CASE Restart
  <2>1. Cardinality(CapacityConsuming) \in Nat
    BY CountsAreNat
  <2>2. InHand' = {}
    BY <1>4 DEF Restart, InHand, IdleOpener
  <2>3. Cardinality(InHand') = 0
    BY <2>2, FS_EmptySet
  <2>4. maxOpen' \in Nat /\ holders' = CapacityConsuming
    BY <1>4, SlotConstants DEF Restart
  <2>5. available' + Cardinality(CapacityConsuming) = maxOpen' + excess'
    BY <1>4, <2>1, <2>4 DEF Restart
  <2>6. available' \in Nat /\ excess' \in Nat
    BY <1>4, <2>1, <2>4 DEF Restart
  <2>. QED
    BY <2>1, <2>3, <2>4, <2>5, <2>6 DEF SlotAccounting
<1>5. ASSUME NEW m \in Mints, PendingOpenExpires(m) PROVE SlotAccounting'
  BY <1>5, <1>u DEF PendingOpenExpires, slotVars, procVars
<1>6. ASSUME NEW t \in Requests, NEW i \in Ids, RequestStep(t, i) PROVE SlotAccounting'
  BY <1>6, <1>u DEF RequestStep, ArchiveRead, UnarchiveRead, ForceClose, DeleteRow,
                    slotVars, procVars
<1>7. ASSUME NEW t \in Requests, DeleteAllArchived(t) PROVE SlotAccounting'
  BY <1>7, <1>u DEF DeleteAllArchived, slotVars, procVars
<1>8. ASSUME NEW i \in Ids, WorkerStep(i) \/ LedgerStep(i) PROVE SlotAccounting'
  BY <1>8, <1>u DEF WorkerStep, EntryVerified, ExitVerified, RemoveOrphanEntry,
                    BringBackFromArchive, LateFillReopens, LedgerStep, LedgerCloses,
                    LedgerReopens, LedgerInserts, slotVars, procVars
<1>9. CASE UNCHANGED vars
  BY <1>9, <1>u DEF vars
<1>. QED
  BY <1>1, <1>2, <1>3, <1>4, <1>5, <1>6, <1>7, <1>8, <1>9 DEF Next

\* No slot is handed out twice, for every limit and every number of positions, open
\* calls and requests: release_position_slot, reclaim_position_slot and the permit of
\* open_position_impl together never create a slot.
THEOREM SlotsNeverDuplicated == Spec => []SlotAccounting
<1>1. Init => AccountingInv
  <2>1. ASSUME Init PROVE IndInv
    BY <2>1, SlotConstants DEF Init, IndInv, TypeOK, StepNamesPosition, Rows,
          OpenerStates, TaskStates, NoRow, IdleOpener, IdleTask
  <2>2. ASSUME Init PROVE SlotAccounting
    <3>1. InHand = {}
      BY <2>2 DEF Init, InHand, IdleOpener
    <3>2. Cardinality(InHand) = 0 /\ Cardinality(holders) = 0
      BY <2>2, <3>1, FS_EmptySet DEF Init
    <3>. QED
      BY <2>2, <3>2, SlotConstants DEF Init, SlotAccounting
  <2>. QED
    BY <2>1, <2>2 DEF AccountingInv
<1>2. AccountingInv /\ [Next]_vars => AccountingInv'
  BY IndInvStep, AccountingStep DEF AccountingInv
<1>3. AccountingInv => SlotAccounting
  BY DEF AccountingInv
<1>. QED
  BY <1>1, <1>2, <1>3, PTL DEF Spec

-----------------------------------------------------------------------------
(* One open round per mint. *)

\* Opening row i for mint m, when the mint has no open round, keeps one per mint.
LEMMA OpensOneRound ==
    ASSUME TypeOK, OneOpenRound, NEW i \in Ids, NEW m, OpenRounds(m) = {},
           row'[i].mint = m, \A j \in Ids \ {i} : row'[j] = row[j]
    PROVE  OneOpenRound'
<1>1. \A j \in Ids : row[j].state = "open" => row[j].mint # m
  BY DEF OpenRounds, is_open_round
<1>. QED
  BY <1>1 DEF OneOpenRound, is_open_round

\* A step that opens no row and moves no row to another mint keeps one per mint.
LEMMA OpensNoRound ==
    ASSUME OneOpenRound,
           \A j \in Ids : row'[j].state = "open" =>
               row[j].state = "open" /\ row'[j].mint = row[j].mint
    PROVE  OneOpenRound'
<1>. QED
  BY DEF OneOpenRound, is_open_round

\* Every step keeps one open round per mint.
LEMMA OneOpenRoundStep == IndInv /\ OneOpenRound /\ [Next]_vars => OneOpenRound'
<1>. SUFFICES ASSUME IndInv, OneOpenRound, [Next]_vars PROVE OneOpenRound'
  OBVIOUS
<1>. TypeOK
  BY DEF IndInv
<1>r. row \in [Ids -> Rows]
  BY DEF TypeOK
<1>u. ASSUME UNCHANGED row PROVE OneOpenRound'
  BY <1>u, OpensNoRound
<1>1. ASSUME NEW o \in Openers, NEW m \in Mints, AcquirePermit(o, m) PROVE OneOpenRound'
  BY <1>1, <1>u DEF AcquirePermit
<1>2. ASSUME NEW o \in Openers, OpenStep(o) PROVE OneOpenRound'
  <2>1. ASSUME NEW i \in Ids, PersistOpened(o, i) PROVE OneOpenRound'
    <3>1. PICK m : m = opener[o].mint
      OBVIOUS
    <3>2. OpenRounds(m) = {} /\ row'[i].mint = m /\ \A j \in Ids \ {i} : row'[j] = row[j]
      BY <2>1, <3>1, <1>r DEF PersistOpened, NoRow
    <3>. QED
      BY <3>2, OpensOneRound
  <2>2. CASE ~ \E i \in Ids : PersistOpened(o, i)
    BY <1>2, <2>2, <1>u DEF OpenStep, RefuseOpen, SendOpen, SwapFailed, PersistAdded,
                            PersistUnsaved, EndWithoutPosition, RegisterSlot
  <2>. QED
    BY <2>1, <2>2
<1>3. ASSUME NEW t \in Requests, NEW i \in Ids, RequestStep(t, i) PROVE OneOpenRound'
  <2>1. CASE ArchiveRead(t, i) \/ UnarchiveRead(t, i)
    BY <2>1, <1>u DEF ArchiveRead, UnarchiveRead
  <2>2. CASE ForceClose(t, i)
    BY <2>2, <1>r, OpensNoRound DEF ForceClose
  <2>3. CASE DeleteRow(t, i)
    BY <2>3, <1>r, OpensNoRound DEF DeleteRow
  <2>. QED
    BY <1>3, <2>1, <2>2, <2>3 DEF RequestStep
<1>4. ASSUME NEW t \in Requests, DeleteAllArchived(t) PROVE OneOpenRound'
  BY <1>4, <1>r, OpensNoRound DEF DeleteAllArchived, Rows
<1>5. ASSUME NEW t \in Tasks, TaskStep(t) PROVE OneOpenRound'
  <2>1. CASE ArchiveWrite(t)
    BY <2>1, <1>r, OpensNoRound DEF ArchiveWrite, Rows
  <2>2. CASE UnarchiveWrite(t)
    BY <2>2, <1>r, OpensNoRound DEF UnarchiveWrite, Rows
  <2>3. CASE ReleaseStep(t) \/ ReclaimStep(t)
    BY <2>3, <1>u DEF ReleaseStep, ReclaimStep
  <2>. QED
    BY <1>5, <2>1, <2>2, <2>3 DEF TaskStep
<1>6. ASSUME NEW i \in Ids, WorkerStep(i) PROVE OneOpenRound'
  <2>1. CASE EntryVerified(i)
    BY <2>1, <1>r, OpensNoRound DEF EntryVerified, Rows
  <2>2. CASE ExitVerified(i)
    BY <2>2, <1>r, OpensNoRound DEF ExitVerified
  <2>3. CASE RemoveOrphanEntry(i)
    BY <2>3, <1>r, OpensNoRound DEF RemoveOrphanEntry
  <2>4. CASE BringBackFromArchive(i)
    BY <2>4, <1>r, OpensNoRound DEF BringBackFromArchive, Rows
  <2>5. CASE LateFillReopens(i)
    <3>1. PICK m : m = row[i].mint
      OBVIOUS
    <3>2. OpenRounds(m) = {} /\ row'[i].mint = m /\ \A j \in Ids \ {i} : row'[j] = row[j]
      BY <2>5, <3>1, <1>r DEF LateFillReopens, Rows
    <3>. QED
      BY <3>2, OpensOneRound
  <2>. QED
    BY <1>6, <2>1, <2>2, <2>3, <2>4, <2>5 DEF WorkerStep
<1>7. ASSUME NEW i \in Ids, LedgerStep(i) PROVE OneOpenRound'
  <2>1. CASE LedgerCloses(i)
    BY <2>1, <1>r, OpensNoRound DEF LedgerCloses
  <2>2. CASE LedgerReopens(i)
    <3>1. PICK m : m = row[i].mint
      OBVIOUS
    <3>2. OpenRounds(m) = {} /\ row'[i].mint = m /\ \A j \in Ids \ {i} : row'[j] = row[j]
      BY <2>2, <3>1, <1>r DEF LedgerReopens, Rows
    <3>. QED
      BY <3>2, OpensOneRound
  <2>3. ASSUME NEW m \in Mints, LedgerInserts(i, m) PROVE OneOpenRound'
    <3>1. OpenRounds(m) = {} /\ row'[i].mint = m /\ \A j \in Ids \ {i} : row'[j] = row[j]
      BY <2>3, <1>r DEF LedgerInserts, NoRow
    <3>. QED
      BY <3>1, OpensOneRound
  <2>. QED
    BY <1>7, <2>1, <2>2, <2>3 DEF LedgerStep
<1>8. CASE Restart
  BY <1>8, <1>u DEF Restart
<1>9. ASSUME NEW m \in Mints, PendingOpenExpires(m) PROVE OneOpenRound'
  BY <1>9, <1>u DEF PendingOpenExpires
<1>10. CASE UNCHANGED vars
  BY <1>10, <1>u DEF vars
<1>. QED
  BY <1>1, <1>2, <1>3, <1>4, <1>5, <1>6, <1>7, <1>8, <1>9, <1>10 DEF Next

\* A mint never has two open rounds, whichever of open calls, late fills and the
\* wallet-history sync race for it.
THEOREM OneRoundPerMint == Spec => []OneOpenRound
<1>1. Init => IndInv /\ OneOpenRound
  BY SlotConstants DEF Init, IndInv, TypeOK, StepNamesPosition, Rows, OpenerStates,
        TaskStates, NoRow, IdleOpener, IdleTask, OneOpenRound, is_open_round
<1>. QED
  BY <1>1, IndInvStep, OneOpenRoundStep, PTL DEF Spec

=============================================================================
