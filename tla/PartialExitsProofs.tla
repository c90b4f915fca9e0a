-------------------------- MODULE PartialExitsProofs --------------------------
(***************************************************************************)
(* That the partial exits of a mint come one after the other, that a step  *)
(* of the ladder is sold at most once and that a mint is kept from selling *)
(* only by what will free it, for any positions, ladder, number of sales   *)
(* and restarts, and whether or not writes to the store fail.              *)
(*                                                                         *)
(* The counter of a mint is tied to its records: while a call runs it is   *)
(* one and only the sale of the call is recorded, and with no call it is   *)
(* the number of sales in verification, which is at most one, in memory,   *)
(* in the store and in every copy on its way there.  So a sale starts only *)
(* when nothing of the mint is in flight, and a step is taken again only   *)
(* when every sale that took it before is dead.                            *)
(***************************************************************************)
EXTENDS PartialExits, SequenceTheorems, FiniteSetTheorems, TLAPS

\* At most one record a position.
Single(set) == \A r, s \in set : r[1] = s[1] => r = s

\* The records, in memory, in the store and in the copies on their way there.
RecordsInv ==
    /\ Single(details) /\ Single(queue) /\ Single(stored.details)
    /\ \A p \in Positions : call[p].pc = "persist" => Single(call[p].snap)
    /\ worker.pc \in {"booked", "failed"} => Single(worker.snap)

\* A position with a call: the sale of the call is all there is of it.
CallFor(p) ==
    call[p].pc # "idle" =>
       /\ Len(sales[p]) > 0 /\ marks[p] = 1 /\ \A r \in queue : r[1] # p
       /\ worker.pc # "idle" => worker.sale[1] # p
       /\ call[p].pc = "send" => Sale(Last(p)).fate = "unsent"
       /\ \A r \in details : r[1] = p => call[p].pc = "persist" /\ r = Last(p)
       /\ \A r \in holds : r[1] = p => call[p].pc = "persist_hold" /\ r = Last(p)
       /\ call[p].pc = "persist" => Last(p) \in details

\* A position without one: the counter stands for what is in verification.
IdleFor(p) ==
    call[p].pc = "idle" =>
       /\ \A r \in details : r[1] = p => r \in queue
       /\ \A r \in queue : r[1] = p => r \in details \/ (worker.pc = "booked" /\ worker.sale = r)
       /\ marks[p] = IF \E r \in queue : r[1] = p THEN 1 ELSE 0

CountInv ==
    /\ \A p \in Positions : CallFor(p) /\ IdleFor(p)
    /\ worker.pc = "booked" => worker.sale \in queue \ details

\* A sale in flight is the one of the call, or recorded.
FlyingInv ==
    \A p \in Positions \ forgotten : \A r \in Of(p, Sent) : Sale(r).fate = "flying" =>
       /\ r \in details \cup holds \/ (call[p].pc = "ladder" /\ r = Last(p))
       /\ call[p].pc # "idle" => r = Last(p)
       /\ \A s \in Of(p, Sent) : Sale(s).fate = "flying" => s = r

\* The sales that took a step: all but the last are dead, all are when the step is free
\* again, and what may still free it is the last.
StepInv ==
    \A p \in Positions \ superseded : \A r \in Of(p, Sent) : Sale(r).step > 0 =>
       /\ \A s \in Of(p, Sent) : r[2] < s[2] /\ Sale(s).step = Sale(r).step => Sale(r).fate = "dead"
       /\ Sale(r).step > level[p] => Sale(r).fate = "dead"
       /\ r \in queue \cup details \cup holds => ~ Retaken(r)

Bounded == \A p \in Positions : Len(sales[p]) <= MaxSales

Inv == TypeOK /\ Bounded /\ RecordsInv /\ CountInv /\ FlyingInv /\ StepInv

Fates == {"unsent", "flying", "landed", "dead"}
Entries == [fate : Fates, step : 0 .. Steps]
CallRecords == [pc : {"idle", "send", "ladder", "persist", "persist_hold"}, snap : SUBSET Sent]
WorkerRecords == [pc : {"idle", "booked", "failed", "released"}, sale : Sent \cup {<<>>},
                  snap : SUBSET Sent]

----------------------------------------------------------------------------
(* The sales *)

\* The parts of the type invariant.
LEMMA Typed ==
    ASSUME TypeOK
    PROVE  /\ sales \in [Positions -> Seq(Entries)] /\ level \in [Positions -> 0 .. Steps]
           /\ marks \in [Positions -> 0 .. 1]
           /\ details \subseteq Sent /\ holds \subseteq Sent /\ queue \subseteq Sent
           /\ stored \in [details : SUBSET Sent, holds : SUBSET Sent]
           /\ stored.details \subseteq Sent /\ stored.holds \subseteq Sent
           /\ call \in [Positions -> CallRecords] /\ worker \in WorkerRecords
           /\ worker.pc # "idle" => worker.sale \in Sent
           /\ worker.snap \subseteq Sent
           /\ Steps \in Nat /\ MaxSales \in Nat /\ MaxRestarts \in Nat
           /\ restarts \in 0 .. MaxRestarts
           /\ forgotten \subseteq Positions /\ superseded \subseteq Positions
BY PartialExitConstants DEF TypeOK, Entries, Fates, CallRecords, WorkerRecords

\* A sale that was sent, by its position and its number.
LEMMA Shape ==
    ASSUME TypeOK
    PROVE  /\ \A p \in Positions : Len(sales[p]) \in Nat
           /\ \A r \in Sent : /\ r[1] \in Positions /\ r[2] \in 1 .. Len(sales[r[1]])
                             /\ r = <<r[1], r[2]>> /\ r[2] \in 1 .. MaxSales
                             /\ Sale(r) \in Entries
           /\ \A p \in Positions : \A i \in 1 .. MaxSales :
                 i <= Len(sales[p]) => <<p, i>> \in Sent /\ <<p, i>>[1] = p /\ <<p, i>>[2] = i
<1>1. sales \in [Positions -> Seq(Entries)] /\ MaxSales \in Nat
  BY Typed
<1>2. \A p \in Positions : sales[p] \in Seq(Entries) /\ Len(sales[p]) \in Nat
  BY <1>1
<1>3. ASSUME NEW r \in Sent
      PROVE  /\ r[1] \in Positions /\ r[2] \in 1 .. Len(sales[r[1]])
             /\ r = <<r[1], r[2]>> /\ r[2] \in 1 .. MaxSales /\ Sale(r) \in Entries
  <2>1. r[1] \in Positions /\ r[2] \in 1 .. MaxSales /\ r = <<r[1], r[2]>> /\ r[2] <= Len(sales[r[1]])
    BY DEF Sent, Refs
  <2>2. r[2] \in 1 .. Len(sales[r[1]])
    BY <1>1, <1>2, <2>1
  <2>3. Sale(r) \in Entries
    BY <1>2, <2>1, <2>2 DEF Sale
  <2> QED
    BY <2>1, <2>2, <2>3
<1>4. ASSUME NEW p \in Positions, NEW i \in 1 .. MaxSales, i <= Len(sales[p])
      PROVE  <<p, i>> \in Sent
  BY <1>4 DEF Sent, Refs
<1> QED
  BY <1>2, <1>3, <1>4

\* A step that was taken again, in terms of the sales that were sent.
LEMMA RetakenBy ==
    ASSUME TypeOK, Bounded, NEW r \in Sent
    PROVE  Retaken(r) <=> \E s \in Of(r[1], Sent) :
              r[2] < s[2] /\ Sale(s).step = Sale(r).step /\ Sale(s).fate # "dead"
<1>1. /\ r[1] \in Positions /\ r[2] \in Nat /\ Len(sales[r[1]]) \in Nat /\ MaxSales \in Nat
      /\ r[2] >= 1 /\ Len(sales[r[1]]) <= MaxSales
  BY Shape, Typed DEF Bounded
<1>2. ASSUME NEW i \in r[2] + 1 .. Len(sales[r[1]])
      PROVE  <<r[1], i>> \in Of(r[1], Sent) /\ r[2] < i /\ <<r[1], i>>[2] = i
  <2>1. i \in 1 .. MaxSales /\ i <= Len(sales[r[1]]) /\ r[2] < i
    BY <1>1
  <2> QED
    BY <1>1, <2>1, Shape DEF Of
<1>3. ASSUME NEW s \in Of(r[1], Sent), r[2] < s[2]
      PROVE  s[2] \in r[2] + 1 .. Len(sales[r[1]]) /\ s = <<r[1], s[2]>>
  <2>1. s \in Sent /\ s[1] = r[1] /\ s = <<s[1], s[2]>> /\ s[2] \in 1 .. Len(sales[r[1]])
    BY Shape DEF Of
  <2> QED
    BY <1>1, <1>3, <2>1
<1>4. ASSUME Retaken(r)
      PROVE  \E s \in Of(r[1], Sent) :
                r[2] < s[2] /\ Sale(s).step = Sale(r).step /\ Sale(s).fate # "dead"
  <2>1. PICK i \in r[2] + 1 .. Len(sales[r[1]]) :
           Sale(<<r[1], i>>).step = Sale(r).step /\ Sale(<<r[1], i>>).fate # "dead"
    BY <1>4 DEF Retaken
  <2> QED
    BY <1>2, <2>1
<1>5. ASSUME NEW s \in Of(r[1], Sent), r[2] < s[2], Sale(s).step = Sale(r).step,
             Sale(s).fate # "dead"
      PROVE  Retaken(r)
  BY <1>3, <1>5 DEF Retaken
<1> QED
  BY <1>4, <1>5

\* The last sale of a position.
LEMMA LastSale ==
    ASSUME TypeOK, Bounded, NEW p \in Positions, Len(sales[p]) > 0
    PROVE  /\ Last(p) \in Of(p, Sent) /\ Last(p)[1] = p /\ Last(p)[2] = Len(sales[p])
           /\ \A s \in Of(p, Sent) : s[2] <= Last(p)[2] /\ (s # Last(p) => s[2] < Last(p)[2])
<1>1. Len(sales[p]) \in 1 .. MaxSales /\ Len(sales[p]) <= Len(sales[p])
  BY Shape, Typed DEF Bounded
<1>2. Last(p) \in Of(p, Sent) /\ Last(p)[1] = p /\ Last(p)[2] = Len(sales[p])
  BY <1>1, Shape DEF Last, Of
<1>3. ASSUME NEW s \in Of(p, Sent)
      PROVE  s[2] <= Len(sales[p]) /\ (s # Last(p) => s[2] < Len(sales[p]))
  <2>1. s = <<p, s[2]>> /\ s[2] \in 1 .. Len(sales[p])
    BY Shape DEF Of
  <2> QED
    BY <1>1, <2>1 DEF Last
<1> QED
  BY <1>2, <1>3

\* Room for one more sale.
LEMMA Room ==
    ASSUME TypeOK, Bounded, NEW p \in Positions, Cardinality(Sent) < MaxSales
    PROVE  Len(sales[p]) < MaxSales
<1> DEFINE n == Len(sales[p])
           f == [i \in 1 .. n |-> <<p, i>>]
<1>1. n \in Nat /\ n <= MaxSales /\ MaxSales \in Nat
  BY Shape, Typed DEF Bounded
<1>2. IsFiniteSet(Sent)
  <2>1. IsFiniteSet(1 .. MaxSales)
    BY <1>1, FS_Interval
  <2>2. IsFiniteSet(Refs)
    BY <2>1, FS_Product, PartialExitConstants DEF Refs
  <2> QED
    BY <2>2, FS_Subset DEF Sent
<1>3. f \in Injection(1 .. n, Sent)
  <2>1. ASSUME NEW i \in 1 .. n PROVE f[i] \in Sent
    <3>1. i \in 1 .. MaxSales /\ i <= n
      BY <1>1
    <3> QED
      BY <3>1, Shape
  <2>2. \A i, j \in 1 .. n : f[i] = f[j] => i = j
    OBVIOUS
  <2> QED
    BY <2>1, <2>2 DEF Injection, IsInjective
<1>4. Cardinality(1 .. n) <= Cardinality(Sent)
  <2> HIDE DEF f
  <2> QED
    BY <1>2, <1>3, FS_Injection
<1>5. Cardinality(1 .. n) = n
  BY <1>1, FS_Interval
<1>6. Cardinality(Sent) \in Nat
  BY <1>2, FS_CardinalityType
<1> QED
  BY <1>1, <1>4, <1>5, <1>6

\* A new sale.
LEMMA Appended ==
    ASSUME TypeOK, Bounded, NEW p \in Positions, NEW e \in Entries, Len(sales[p]) < MaxSales,
           sales' = [sales EXCEPT ![p] = Append(@, e)],
           NEW new, new = <<p, Len(sales[p]) + 1>>
    PROVE  /\ sales' \in [Positions -> Seq(Entries)] /\ Bounded'
           /\ Sent' = Sent \cup {new} /\ new \notin Sent /\ new[1] = p
           /\ \A r \in Sent : Sale(r)' = Sale(r)
           /\ Sale(new)' = e
           /\ \A r \in Of(p, Sent) : r[2] < new[2]
           /\ Last(p)' = new /\ Len(sales'[p]) > 0
           /\ \A q \in Positions \ {p} : Last(q)' = Last(q) /\ Len(sales'[q]) = Len(sales[q])
<1>1. /\ sales \in [Positions -> Seq(Entries)] /\ Len(sales[p]) \in Nat /\ MaxSales \in Nat
      /\ sales[p] \in Seq(Entries)
  BY Typed, Shape
<1>2. /\ sales' \in [Positions -> Seq(Entries)] /\ sales'[p] = Append(sales[p], e)
      /\ \A q \in Positions \ {p} : sales'[q] = sales[q]
  BY <1>1
<1>3. /\ Len(sales'[p]) = Len(sales[p]) + 1 /\ sales'[p][Len(sales[p]) + 1] = e
      /\ \A i \in 1 .. Len(sales[p]) : sales'[p][i] = sales[p][i]
  BY <1>1, <1>2
<1>4. Bounded'
  BY <1>1, <1>2, <1>3, Shape DEF Bounded
<1>5. new \notin Sent /\ new[1] = p /\ new[2] = Len(sales[p]) + 1
  BY <1>1, Shape
<1>6. Sent' = Sent \cup {new}
  <2>1. \A r \in Refs : r[1] \in Positions /\ r[2] \in Nat /\ r = <<r[1], r[2]>>
    BY <1>1 DEF Refs
  <2>2. new \in Refs
    BY <1>1 DEF Refs
  <2>3. \A r \in Refs : r[2] <= Len(sales'[r[1]]) <=> r[2] <= Len(sales[r[1]]) \/ r = new
    BY <1>1, <1>2, <1>3, <1>5, <2>1
  <2> QED
    BY <2>2, <2>3 DEF Sent, Refs
<1>7. ASSUME NEW r \in Sent PROVE Sale(r)' = Sale(r)
  <2>1. r[1] \in Positions /\ r[2] \in 1 .. Len(sales[r[1]])
    BY Shape
  <2> QED
    BY <1>2, <1>3, <2>1 DEF Sale
<1>8. Sale(new)' = e
  BY <1>3, <1>5 DEF Sale
<1>9. \A r \in Of(p, Sent) : r[2] < new[2]
  BY <1>1, <1>5, Shape DEF Of
<1>10. Last(p)' = new /\ \A q \in Positions \ {p} : Last(q)' = Last(q)
  BY <1>2, <1>3 DEF Last
<1> QED
  BY <1>1, <1>2, <1>3, <1>4, <1>5, <1>6, <1>7, <1>8, <1>9, <1>10

\* The fate of a sale.
LEMMA Decided ==
    ASSUME TypeOK, Bounded, NEW r \in Sent, NEW f \in Fates,
           sales' = [sales EXCEPT ![r[1]][r[2]].fate = f]
    PROVE  /\ sales' \in [Positions -> Seq(Entries)] /\ Bounded' /\ Sent' = Sent
           /\ \A s \in Sent : /\ Sale(s)'.step = Sale(s).step
                             /\ Sale(s)'.fate = IF s = r THEN f ELSE Sale(s).fate
           /\ \A q \in Positions : Last(q)' = Last(q) /\ Len(sales'[q]) = Len(sales[q])
<1> DEFINE p == r[1]
           i == r[2]
<1>1. /\ sales \in [Positions -> Seq(Entries)] /\ p \in Positions /\ sales[p] \in Seq(Entries)
      /\ i \in 1 .. Len(sales[p]) /\ r = <<p, i>> /\ sales[p][i] \in Entries
  BY Typed, Shape DEF Sale
<1> DEFINE e == [sales[p][i] EXCEPT !.fate = f]
<1>2. e \in Entries /\ e.step = sales[p][i].step /\ e.fate = f
  BY <1>1 DEF Entries
<1>3. sales' = [sales EXCEPT ![p] = [sales[p] EXCEPT ![i] = e]]
  BY <1>1
<1> HIDE DEF e
<1>4. /\ [sales[p] EXCEPT ![i] = e] \in Seq(Entries)
      /\ Len([sales[p] EXCEPT ![i] = e]) = Len(sales[p])
  BY <1>1, <1>2, ExceptSeq
<1>5. /\ sales' \in [Positions -> Seq(Entries)] /\ sales'[p] = [sales[p] EXCEPT ![i] = e]
      /\ \A q \in Positions \ {p} : sales'[q] = sales[q]
  BY <1>1, <1>3, <1>4
<1>6. \A q \in Positions : Len(sales'[q]) = Len(sales[q])
  BY <1>4, <1>5
<1>7. Bounded' /\ Sent' = Sent
  BY <1>6 DEF Bounded, Sent, Refs
<1>8. \A q \in Positions : Last(q)' = Last(q)
  BY <1>6 DEF Last
<1>9. ASSUME NEW s \in Sent
      PROVE  /\ Sale(s)'.step = Sale(s).step
             /\ Sale(s)'.fate = IF s = r THEN f ELSE Sale(s).fate
  <2>1. /\ s[1] \in Positions /\ s = <<s[1], s[2]>> /\ s[2] \in 1 .. Len(sales[s[1]])
    BY Shape
  <2>2. CASE s[1] # p
    BY <1>5, <2>1, <2>2 DEF Sale
  <2>3. CASE s[1] = p /\ s[2] # i
    <3>1. sales'[p][s[2]] = sales[p][s[2]]
      BY <1>1, <1>5, <2>1, <2>3
    <3> QED
      BY <2>3, <3>1 DEF Sale
  <2>4. CASE s[1] = p /\ s[2] = i
    <3>1. sales'[p][i] = e /\ s = r
      <4>1. [sales[p] EXCEPT ![i] = e][i] = e
        BY <1>1, <1>2, ExceptSeq
      <4> QED
        BY <1>1, <1>5, <2>1, <2>4, <4>1
    <3> QED
      BY <1>2, <2>4, <3>1 DEF Sale
  <2> QED
    BY <2>2, <2>3, <2>4
<1> QED
  BY <1>5, <1>6, <1>7, <1>8, <1>9

----------------------------------------------------------------------------
(* What the steps have in common *)

\* The types after a step that sends no sale.
LEMMA TypedStep ==
    ASSUME TypeOK, Sent' = Sent,
           sales' \in [Positions -> Seq(Entries)], level' \in [Positions -> 0 .. Steps],
           marks' \in [Positions -> 0 .. 1],
           details' \subseteq Sent, holds' \subseteq Sent, queue' \subseteq Sent,
           stored' \in [details : SUBSET Sent, holds : SUBSET Sent],
           call' \in [Positions -> CallRecords], worker' \in WorkerRecords,
           worker'.pc # "idle" => worker'.sale \in Sent,
           restarts' \in 0 .. MaxRestarts, forgotten' \subseteq Positions, superseded' \subseteq Positions
    PROVE  TypeOK'
BY Zenon DEF TypeOK, Entries, Fates, CallRecords, WorkerRecords

\* Where a step leaves its call.
LEMMA CallMoves ==
    ASSUME TypeOK, NEW p \in Positions,
           NEW pc \in {"idle", "send", "ladder", "persist", "persist_hold"},
           NEW snap \in SUBSET Sent, call' = [call EXCEPT ![p] = [pc |-> pc, snap |-> snap]]
    PROVE  /\ call' \in [Positions -> CallRecords]
           /\ call'[p].pc = pc /\ call'[p].snap = snap
           /\ \A q \in Positions \ {p} : call'[q] = call[q]
<1>1. [pc |-> pc, snap |-> snap] \in CallRecords
  BY Zenon DEF CallRecords
<1>2. call \in [Positions -> CallRecords]
  BY Typed
<1> QED
  BY <1>1, <1>2

\* Where a step leaves the worker.
LEMMA WorkerMoves ==
    ASSUME NEW pc \in {"idle", "booked", "failed", "released"}, NEW r \in Sent,
           NEW snap \in SUBSET Sent
    PROVE  /\ [pc |-> pc, sale |-> r, snap |-> snap] \in WorkerRecords
           /\ IdleWorker \in WorkerRecords /\ IdleWorker.pc = "idle"
BY Zenon DEF WorkerRecords, IdleWorker

\* What a persist leaves in the store.
LEMMA StoreWritten ==
    ASSUME TypeOK, NEW snap \in SUBSET Sent
    PROVE  /\ Persists("details", snap) =>
                 /\ stored' \in [details : SUBSET Sent, holds : SUBSET Sent]
                 /\ stored'.details = snap \/ stored' = stored
           /\ Persists("holds", snap) =>
                 /\ stored' \in [details : SUBSET Sent, holds : SUBSET Sent]
                 /\ stored'.details = stored.details
<1>1. stored \in [details : SUBSET Sent, holds : SUBSET Sent]
  BY Typed
<1> QED
  BY <1>1 DEF Persists

\* The counter of a mint, lowered.
LEMMA CounterLowered ==
    ASSUME TypeOK, NEW p \in Positions
    PROVE  /\ Lowered(p) \in [Positions -> 0 .. 1] /\ Lowered(p)[p] = 0
           /\ \A q \in Positions \ {p} : Lowered(p)[q] = marks[q]
<1>1. marks \in [Positions -> 0 .. 1]
  BY Typed
<1>2. marks[p] \in 0 .. 1
  BY <1>1
<1>3. (IF marks[p] > 0 THEN marks[p] - 1 ELSE 0) = 0
  BY <1>2
<1>4. Lowered(p) = [marks EXCEPT ![p] = 0]
  BY <1>3 DEF Lowered
<1> QED
  BY <1>1, <1>4

\* Sales that keep their steps, and stay dead.
Onward ==
    /\ Sent' = Sent /\ Bounded' /\ \A q \in Positions : Len(sales'[q]) = Len(sales[q])
    /\ \A s \in Sent :
          /\ Sale(s)'.step = Sale(s).step
          /\ Sale(s).fate = "dead" => Sale(s)'.fate = "dead"

\* No sale of a step above the level is alive.
LevelHolds ==
    \A p \in Positions \ superseded : \A s \in Of(p, Sent) :
        Sale(s).step > 0 /\ Sale(s).step > level'[p] => Sale(s)'.fate = "dead"

\* A step is not taken again by sales that only die.
LEMMA NotRetaken ==
    ASSUME TypeOK, Bounded, Onward, NEW r \in Sent, Retaken(r)'
    PROVE  Retaken(r)
<1>1. /\ r[1] \in Positions /\ r[2] \in 1 .. MaxSales /\ Len(sales[r[1]]) \in Nat
      /\ Len(sales[r[1]]) <= MaxSales /\ MaxSales \in Nat
      /\ Len(sales'[r[1]]) = Len(sales[r[1]])
  BY Shape, Typed DEF Bounded, Onward
<1>2. PICK i \in r[2] + 1 .. Len(sales'[r[1]]) :
         sales'[r[1]][i].step = sales'[r[1]][r[2]].step /\ sales'[r[1]][i].fate # "dead"
  BY DEF Retaken, Sale
<1>3. i \in r[2] + 1 .. Len(sales[r[1]]) /\ i \in 1 .. MaxSales /\ i <= Len(sales[r[1]])
  BY <1>1
<1>4. <<r[1], i>> \in Sent
  BY <1>1, <1>3, Shape
<1>5. /\ sales'[r[1]][i].step = sales[r[1]][i].step
      /\ sales[r[1]][i].fate = "dead" => sales'[r[1]][i].fate = "dead"
      /\ sales'[r[1]][r[2]].step = sales[r[1]][r[2]].step
  BY <1>4, Shape DEF Onward, Sale
<1> QED
  BY <1>2, <1>3, <1>5 DEF Retaken, Sale

\* The steps stay taken once while a step adds no record but of the last sale.
LEMMA StepKept ==
    ASSUME Inv, Onward, LevelHolds, superseded \subseteq superseded',
           \A s \in queue' \cup details' \cup holds' :
              s \in queue \cup details \cup holds
              \/ (Len(sales[s[1]]) > 0 /\ s = Last(s[1]))
              \/ (s[1] \notin superseded' /\ Sale(s).step > 0 => ~ Retaken(s))
    PROVE  StepInv'
<1>1. TypeOK /\ Bounded /\ StepInv /\ Bounded' /\ Sent' = Sent
  BY DEF Inv, Onward
<1> SUFFICES ASSUME NEW p \in Positions \ superseded', NEW r \in Of(p, Sent), Sale(r)'.step > 0
             PROVE  /\ \A s \in Of(p, Sent) :
                          r[2] < s[2] /\ Sale(s)'.step = Sale(r)'.step => Sale(r)'.fate = "dead"
                    /\ Sale(r)'.step > level'[p] => Sale(r)'.fate = "dead"
                    /\ r \in queue' \cup details' \cup holds' => ~ Retaken(r)'
  BY <1>1 DEF StepInv, Of
<1>2. /\ p \in Positions \ superseded /\ r \in Sent /\ r[1] = p /\ Sale(r)'.step = Sale(r).step
      /\ Sale(r).fate = "dead" => Sale(r)'.fate = "dead"
      /\ \A s \in Of(p, Sent) : Sale(s)'.step = Sale(s).step /\ s \in Sent
  BY DEF Onward, Of, Sale
<1>3. /\ \A s \in Of(p, Sent) : r[2] < s[2] /\ Sale(s).step = Sale(r).step => Sale(r).fate = "dead"
      /\ r \in queue \cup details \cup holds => ~ Retaken(r)
  BY <1>1, <1>2 DEF StepInv
<1>4. \A s \in Of(p, Sent) :
         r[2] < s[2] /\ Sale(s)'.step = Sale(r)'.step => Sale(r)'.fate = "dead"
  BY <1>2, <1>3 DEF Sale
<1>5. Sale(r)'.step > level'[p] => Sale(r)'.fate = "dead"
  BY <1>2 DEF LevelHolds, Sale
<1>6. ASSUME r \in queue' \cup details' \cup holds', Retaken(r)'
      PROVE  FALSE
  <2>1. Retaken(r)
    BY <1>1, <1>2, <1>6, NotRetaken
  <2>2. Len(sales[p]) > 0 /\ r = Last(p)
    BY <1>2, <1>3, <1>6, <2>1
  <2>3. PICK s \in Of(p, Sent) : r[2] < s[2]
    BY <1>1, <1>2, <2>1, RetakenBy
  <2>4. s[2] <= r[2] /\ s[2] \in Nat /\ r[2] \in Nat
    BY <1>1, <1>2, <2>2, LastSale, Shape DEF Of
  <2> QED
    BY <2>3, <2>4
<1> QED
  BY <1>4, <1>5, <1>6

\* The level stands.
LEMMA LevelKept ==
    ASSUME Inv, Onward, level' = level
    PROVE  LevelHolds
BY DEF Inv, StepInv, Onward, LevelHolds, Of, Sale

\* A dead sale returns its step, and no sale of the step is alive.
LEMMA LevelReleased ==
    ASSUME Inv, Onward, NEW p \in Positions, NEW r \in Of(p, Sent), Sale(r)'.fate = "dead",
           p \notin superseded /\ Sale(r).step > 0 => ~ Retaken(r),
           ReleaseStep(p, Sale(r).step)
    PROVE  LevelHolds /\ level' \in [Positions -> 0 .. Steps]
<1>1. TypeOK /\ Bounded /\ StepInv /\ level \in [Positions -> 0 .. Steps] /\ r \in Sent /\ r[1] = p
      /\ Steps \in Nat
  BY Typed DEF Inv, Of
<1>2. Sale(r).step \in 0 .. Steps
  BY <1>1, Shape DEF Entries
<1>3. CASE level' = level
  BY <1>1, <1>3, LevelKept
<1>4. CASE Sale(r).step > 0 /\ level[p] = Sale(r).step
           /\ level' = [level EXCEPT ![p] = Sale(r).step - 1]
  <2>1. Sale(r).step - 1 \in 0 .. Steps
    BY <1>1, <1>2, <1>4
  <2>2. level' \in [Positions -> 0 .. Steps]
    BY <1>1, <1>4, <2>1
  <2>3. ASSUME NEW q \in Positions \ superseded, NEW s \in Of(q, Sent), Sale(s).step > 0,
               Sale(s).step > level'[q]
        PROVE  Sale(s)'.fate = "dead"
    <3>1. /\ s \in Sent /\ Sale(s).step \in 0 .. Steps /\ s[2] \in Nat /\ r[2] \in Nat
          /\ s = <<q, s[2]>> /\ r = <<p, r[2]>>
      BY <1>1, Shape DEF Of, Entries
    <3>2. CASE Sale(s).step > level[q]
      BY <1>1, <2>3, <3>1, <3>2 DEF StepInv, Onward, Sale
    <3>3. CASE ~ (Sale(s).step > level[q])
      <4>1. q = p /\ Sale(s).step = Sale(r).step
        BY <1>1, <1>2, <1>4, <2>3, <3>1, <3>3
      <4>2. CASE s[2] < r[2]
        BY <1>1, <2>3, <3>1, <4>1, <4>2 DEF StepInv, Onward, Sale
      <4>3. CASE s[2] > r[2]
        <5>1. Sale(s).fate = "dead"
          BY <1>1, <1>4, <4>1, <4>3, RetakenBy
        <5> QED
          BY <3>1, <5>1 DEF Onward, Sale
      <4>4. CASE s[2] = r[2]
        BY <3>1, <4>1, <4>4
      <4> QED
        BY <3>1, <4>2, <4>3, <4>4
    <3> QED
      BY <3>2, <3>3
  <2> QED
    BY <2>2, <2>3 DEF LevelHolds
<1> QED
  BY <1>3, <1>4 DEF ReleaseStep

\* What is known of a sale in flight stays known.
LEMMA FlyingKept ==
    ASSUME Inv, Sent' = Sent, forgotten \subseteq forgotten',
           \A s \in Sent : Sale(s)'.fate = "flying" => Sale(s).fate = "flying",
           \A p \in Positions : Len(sales'[p]) = Len(sales[p]),
           \A p \in Positions \ forgotten' : \A r \in Of(p, Sent) : Sale(r)'.fate = "flying" =>
              /\ r \in details \cup holds => r \in details' \cup holds'
              /\ call[p].pc = "ladder" /\ r = Last(p) =>
                    r \in details' \cup holds' \/ call'[p].pc = "ladder"
              /\ call'[p].pc # "idle" => call[p].pc # "idle"
    PROVE  FlyingInv'
<1> SUFFICES ASSUME NEW p \in Positions \ forgotten', NEW r \in Of(p, Sent), Sale(r)'.fate = "flying"
             PROVE  /\ r \in details' \cup holds' \/ (call'[p].pc = "ladder" /\ r = Last(p)')
                    /\ call'[p].pc # "idle" => r = Last(p)'
                    /\ \A s \in Of(p, Sent) : Sale(s)'.fate = "flying" => s = r
  BY DEF FlyingInv, Of
<1>1. /\ p \in Positions \ forgotten /\ Last(p)' = Last(p) /\ Sale(r).fate = "flying"
      /\ \A s \in Of(p, Sent) : Sale(s)'.fate = "flying" => Sale(s).fate = "flying"
  BY DEF Last, Of, Sale
<1>2. /\ r \in details \cup holds \/ (call[p].pc = "ladder" /\ r = Last(p))
      /\ call[p].pc # "idle" => r = Last(p)
      /\ \A s \in Of(p, Sent) : Sale(s).fate = "flying" => s = r
  BY <1>1 DEF Inv, FlyingInv
<1>3. \A s \in Of(p, Sent) : Sale(s)'.fate = "flying" => s = r
  BY <1>1, <1>2 DEF Sale
<1>4. /\ r \in details \cup holds => r \in details' \cup holds'
      /\ call[p].pc = "ladder" /\ r = Last(p) => r \in details' \cup holds' \/ call'[p].pc = "ladder"
      /\ call'[p].pc # "idle" => call[p].pc # "idle"
  OBVIOUS
<1> QED
  BY <1>1, <1>2, <1>3, <1>4

\* What a step leaves alone of a position.
Untouched(q) ==
    /\ call'[q] = call[q] /\ marks'[q] = marks[q]
    /\ Len(sales'[q]) = Len(sales[q])
    /\ \A s \in Sent : s[1] = q /\ Sale(s).fate = "unsent" => Sale(s)'.fate = "unsent"
    /\ \A r \in details \cup details' : r[1] = q => r \in details /\ r \in details'
    /\ \A r \in holds \cup holds' : r[1] = q => r \in holds /\ r \in holds'
    /\ \A r \in queue \cup queue' : r[1] = q => r \in queue /\ r \in queue'
    /\ worker'.pc # "idle" /\ worker'.sale[1] = q => worker' = worker
    /\ worker.pc = "booked" /\ worker.sale[1] = q => worker' = worker

\* The counter of a position that is left alone.
LEMMA UntouchedKept ==
    ASSUME Inv, NEW q \in Positions, Untouched(q)
    PROVE  CallFor(q)' /\ IdleFor(q)'
<1>1. CallFor(q) /\ IdleFor(q) /\ TypeOK /\ Bounded
  BY DEF Inv, CountInv
<1>2. Last(q)' = Last(q)
  BY DEF Last, Untouched
<1>3. CallFor(q)'
  <2> SUFFICES ASSUME call[q].pc # "idle" PROVE CallFor(q)'
    BY DEF CallFor, Untouched
  <2>1. /\ Len(sales[q]) > 0 /\ marks[q] = 1 /\ \A r \in queue : r[1] # q
        /\ worker.pc # "idle" => worker.sale[1] # q
        /\ call[q].pc = "send" => Sale(Last(q)).fate = "unsent"
        /\ \A r \in details : r[1] = q => call[q].pc = "persist" /\ r = Last(q)
        /\ \A r \in holds : r[1] = q => call[q].pc = "persist_hold" /\ r = Last(q)
        /\ call[q].pc = "persist" => Last(q) \in details
    BY <1>1 DEF CallFor
  <2>2. Last(q) \in Sent /\ Last(q)[1] = q
    BY <1>1, <2>1, LastSale DEF Of
  <2>3. call[q].pc = "send" => Sale(Last(q))'.fate = "unsent"
    <3>1. \A s \in Sent : s = Last(q) /\ Sale(s).fate = "unsent" => Sale(s)'.fate = "unsent"
      BY <2>2 DEF Untouched
    <3>2. call[q].pc = "send" => sales'[q][Len(sales'[q])].fate = "unsent"
      BY <2>1, <2>2, <3>1 DEF Sale, Last, Untouched
    <3> QED
      BY <3>2 DEF Sale, Last
  <2>4. worker'.pc # "idle" => worker'.sale[1] # q
    BY <2>1 DEF Untouched
  <2>5. /\ \A r \in queue' : r[1] # q
        /\ \A r \in details' : r[1] = q => call'[q].pc = "persist" /\ r = Last(q)'
        /\ \A r \in holds' : r[1] = q => call'[q].pc = "persist_hold" /\ r = Last(q)'
        /\ call'[q].pc = "persist" => Last(q)' \in details'
    BY <1>2, <2>1, <2>2 DEF Untouched
  <2> QED
    BY <2>1, <2>3, <2>4, <2>5 DEF CallFor, Untouched
<1>4. IdleFor(q)'
  <2> SUFFICES ASSUME call[q].pc = "idle" PROVE IdleFor(q)'
    BY DEF IdleFor, Untouched
  <2>1. /\ \A r \in details : r[1] = q => r \in queue
        /\ \A r \in queue : r[1] = q => r \in details \/ (worker.pc = "booked" /\ worker.sale = r)
        /\ marks[q] = IF \E r \in queue : r[1] = q THEN 1 ELSE 0
    BY <1>1 DEF IdleFor
  <2>2. /\ \A r \in details' : r[1] = q => r \in queue'
        /\ \A r \in queue' : r[1] = q => r \in details' \/ (worker'.pc = "booked" /\ worker'.sale = r)
    BY <2>1 DEF Untouched
  <2>3. (\E r \in queue' : r[1] = q) <=> (\E r \in queue : r[1] = q)
    BY DEF Untouched
  <2> QED
    BY <2>1, <2>2, <2>3 DEF IdleFor, Untouched
<1> QED
  BY <1>3, <1>4

----------------------------------------------------------------------------
(* The call *)

\* A sale starts: nothing of the position is in flight, and its step is free.
LEMMA StartSaleInv ==
    ASSUME Inv, NEW p \in Positions, StartSale(p)
    PROVE  Inv'
<1> USE DEF Inv
<1>1. /\ call[p].pc = "idle" /\ marks[p] = 0 /\ \A r \in holds : r[1] # p
      /\ Cardinality(Sent) < MaxSales /\ marks' = [marks EXCEPT ![p] = @ + 1]
      /\ call' = [call EXCEPT ![p] = [pc |-> "send", snap |-> {}]]
      /\ UNCHANGED <<stored, details, holds, queue, worker, restarts, forgotten, superseded>>
      /\ worker.pc \in {"failed", "released"} => worker.sale[1] # p
  <2>1. marks[p] \in 0 .. 1
    BY Typed
  <2> QED
    BY <2>1 DEF StartSale, LockFree, is_partial_exit_pending, At, history, Of
<1>2. PICK step \in {0, level[p] + 1} :
         /\ step <= Steps
         /\ level' = IF step = 0 THEN level ELSE [level EXCEPT ![p] = step]
         /\ sales' = [sales EXCEPT ![p] = Append(@, [fate |-> "unsent", step |-> step])]
  BY DEF StartSale
<1>3. /\ \A r \in queue : r[1] # p
      /\ \A r \in details : r[1] # p
      /\ worker.pc # "idle" => worker.sale[1] # p
  <2>1. IdleFor(p) /\ (worker.pc = "booked" => worker.sale \in queue)
    BY DEF CountInv
  <2>2. \A r \in queue : r[1] # p
    BY <1>1, <2>1 DEF IdleFor
  <2>3. worker.pc \in {"idle", "booked", "failed", "released"}
    BY Typed DEF WorkerRecords
  <2> QED
    BY <1>1, <2>1, <2>2, <2>3 DEF IdleFor
<1> DEFINE e == [fate |-> "unsent", step |-> step]
<1>4. step \in 0 .. Steps /\ e \in Entries /\ e.fate = "unsent" /\ e.step = step
      /\ level' \in [Positions -> 0 .. Steps] /\ level[p] \in 0 .. Steps
  BY <1>2, Typed DEF Entries, Fates
<1>5. Len(sales[p]) < MaxSales
  BY <1>1, Room
<1>6. PICK new : new = <<p, Len(sales[p]) + 1>>
  OBVIOUS
<1> HIDE DEF e
<1>7. /\ sales' \in [Positions -> Seq(Entries)] /\ Bounded'
      /\ Sent' = Sent \cup {new} /\ new \notin Sent /\ new[1] = p
      /\ \A r \in Sent : Sale(r)' = Sale(r)
      /\ Sale(new)' = e
      /\ \A r \in Of(p, Sent) : r[2] < new[2]
      /\ Last(p)' = new /\ Len(sales'[p]) > 0
      /\ \A q \in Positions \ {p} : Last(q)' = Last(q) /\ Len(sales'[q]) = Len(sales[q])
  <2>1. sales' = [sales EXCEPT ![p] = Append(@, e)]
    BY <1>2 DEF e
  <2> QED
    BY <1>4, <1>5, <1>6, <2>1, Appended
<1>8. /\ marks' \in [Positions -> 0 .. 1] /\ marks'[p] = 1
      /\ \A q \in Positions \ {p} : marks'[q] = marks[q]
  BY <1>1, Typed
<1>9. /\ call' \in [Positions -> CallRecords] /\ call'[p].pc = "send"
      /\ \A q \in Positions \ {p} : call'[q] = call[q]
  <2>1. {} \in SUBSET Sent
    OBVIOUS
  <2> QED
    BY <1>1, <2>1, CallMoves
<1>10. TypeOK'
  <2>1. Sent \subseteq Sent'
    BY <1>7
  <2>2. call' \in [Positions -> [pc : {"idle", "send", "ladder", "persist", "persist_hold"},
                                snap : SUBSET Sent']]
    BY <1>9, <2>1 DEF CallRecords
  <2>3. worker' \in [pc : {"idle", "booked", "failed", "released"}, sale : Sent' \cup {<<>>},
                     snap : SUBSET Sent']
    BY <1>1, <2>1, Typed, Zenon DEF WorkerRecords
  <2>4. stored' \in [details : SUBSET Sent', holds : SUBSET Sent']
    BY <1>1, <2>1, Typed, Zenon
  <2>5. details' \subseteq Sent' /\ holds' \subseteq Sent' /\ queue' \subseteq Sent'
    BY <1>1, <2>1, Typed
  <2> QED
    BY <1>1, <1>4, <1>7, <1>8, <2>1, <2>2, <2>3, <2>4, <2>5, Typed, Zenon DEF TypeOK, Entries, Fates
<1>11. RecordsInv'
  BY <1>1, <1>9 DEF RecordsInv, Single
<1>12. CountInv'
  <2>1. ASSUME NEW q \in Positions \ {p} PROVE CallFor(q)' /\ IdleFor(q)'
    <3>1. Untouched(q)
      BY <1>1, <1>7, <1>8, <1>9 DEF Untouched, Sale
    <3> QED
      BY <3>1, UntouchedKept
  <2>2. CallFor(p)'
    <3>1. Sale(Last(p))'.fate = "unsent"
      BY <1>4, <1>7 DEF Sale
    <3> QED
      BY <1>1, <1>3, <1>7, <1>8, <1>9, <3>1 DEF CallFor
  <2>3. IdleFor(p)'
    BY <1>9 DEF IdleFor
  <2> QED
    BY <1>1, <2>1, <2>2, <2>3 DEF CountInv
<1>13. FlyingInv'
  <2> SUFFICES ASSUME NEW q \in Positions \ forgotten, NEW r \in Of(q, Sent'), Sale(r)'.fate = "flying"
               PROVE  /\ r \in details \cup holds \/ (call'[q].pc = "ladder" /\ r = Last(q)')
                      /\ call'[q].pc # "idle" => r = Last(q)'
                      /\ \A s \in Of(q, Sent') : Sale(s)'.fate = "flying" => s = r
    BY <1>1 DEF FlyingInv, Of
  <2>1. r \in Of(q, Sent) /\ Sale(r).fate = "flying"
    BY <1>4, <1>7 DEF Of, Sale
  <2>2. q # p
    BY <1>1, <1>3, <2>1 DEF FlyingInv, Of
  <2>3. /\ r \in details \cup holds \/ (call[q].pc = "ladder" /\ r = Last(q))
        /\ call[q].pc # "idle" => r = Last(q)
        /\ \A s \in Of(q, Sent) : Sale(s).fate = "flying" => s = r
    BY <2>1 DEF FlyingInv
  <2>4. \A s \in Of(q, Sent') : Sale(s)'.fate = "flying" => s = r
    BY <1>4, <1>7, <2>2, <2>3 DEF Of, Sale
  <2> QED
    BY <1>7, <1>9, <2>2, <2>3, <2>4
<1>14. StepInv'
  <2> SUFFICES ASSUME NEW q \in Positions \ superseded, NEW r \in Of(q, Sent'), Sale(r)'.step > 0
               PROVE  /\ \A s \in Of(q, Sent') :
                            r[2] < s[2] /\ Sale(s)'.step = Sale(r)'.step => Sale(r)'.fate = "dead"
                      /\ Sale(r)'.step > level'[q] => Sale(r)'.fate = "dead"
                      /\ r \in queue \cup details \cup holds => ~ Retaken(r)'
    BY <1>1 DEF StepInv, Of
  <2>1. CASE q # p
    <3>1. r \in Of(q, Sent) /\ Sale(r)' = Sale(r) /\ r[1] = q
      BY <1>7, <2>1 DEF Of
    <3>2. \A s \in Of(q, Sent') : s \in Of(q, Sent) /\ Sale(s)' = Sale(s)
      BY <1>7, <2>1 DEF Of
    <3>3. sales'[q] = sales[q] /\ level'[q] = level[q]
      BY <1>2, <2>1, Typed
    <3>4. Retaken(r)' <=> Retaken(r)
      BY <3>1, <3>3 DEF Retaken, Sale
    <3> QED
      BY <3>1, <3>2, <3>3, <3>4 DEF StepInv, Sale
  <2>2. CASE q = p /\ r = new
    <3>1. \A s \in Of(p, Sent') : ~ (r[2] < s[2])
      <4>1. \A s \in Of(p, Sent) : s[2] \in Nat
        BY Shape DEF Of
      <4>2. new[2] \in Nat
        BY <1>6, Shape
      <4> QED
        BY <1>7, <2>2, <4>1, <4>2 DEF Of
    <3>2. Sale(r)'.step = step /\ level'[q] >= step
      <4>1. Sale(r)'.step = step
        BY <1>4, <1>7, <2>2 DEF Sale
      <4>2. level'[p] = IF step = 0 THEN level[p] ELSE step
        BY <1>2, Typed
      <4> QED
        BY <1>4, <2>2, <4>1, <4>2
    <3>3. r \notin queue \cup details \cup holds
      BY <1>7, <2>2, Typed
    <3>4. ~ (Sale(r)'.step > level'[q])
      BY <1>4, <3>2
    <3> QED
      BY <2>2, <3>1, <3>3, <3>4
  <2>3. CASE q = p /\ r # new
    <3>1. r \in Of(p, Sent) /\ Sale(r)' = Sale(r) /\ r \in Sent /\ Sale(r).step \in 0 .. Steps
      BY <1>7, <2>3, Shape DEF Of, Entries
    <3>2. r \notin queue \cup details \cup holds
      BY <1>1, <1>3, <3>1 DEF Of
    <3>3. /\ \A s \in Of(p, Sent) : r[2] < s[2] /\ Sale(s).step = Sale(r).step => Sale(r).fate = "dead"
          /\ Sale(r).step > level[p] => Sale(r).fate = "dead"
      BY <2>3, <3>1 DEF StepInv, Sale
    <3>4. level'[p] >= level[p] /\ level'[p] \in 0 .. Steps /\ level[p] \in 0 .. Steps
      BY <1>2, <1>4, Typed
    <3>5. Sale(r)'.step > level'[p] => Sale(r)'.fate = "dead"
      BY <3>1, <3>3, <3>4 DEF Sale
    <3>6. ASSUME NEW s \in Of(p, Sent'), r[2] < s[2], Sale(s)'.step = Sale(r)'.step
          PROVE  Sale(r)'.fate = "dead"
      <4>1. CASE s = new
        <5>1. Sale(r).step = step /\ step > 0
          BY <1>4, <1>7, <3>1, <3>6, <4>1 DEF Sale
        <5>2. step = level[p] + 1
          BY <1>2, <5>1
        <5> QED
          BY <1>4, <3>1, <3>3, <5>1, <5>2 DEF Sale
      <4>2. CASE s # new
        BY <1>7, <3>1, <3>3, <3>6, <4>2 DEF Of, Sale
      <4> QED
        BY <4>1, <4>2
    <3> QED
      BY <2>3, <3>2, <3>5, <3>6
  <2> QED
    BY <2>1, <2>2, <2>3
<1> QED
  BY <1>7, <1>10, <1>11, <1>12, <1>13, <1>14

\* What a call knows of its position.
LEMMA CallFacts ==
    ASSUME Inv, NEW p \in Positions, call[p].pc # "idle"
    PROVE  /\ Last(p) \in Of(p, Sent) /\ Last(p) \in Sent /\ Last(p)[1] = p
           /\ Last(p)[2] = Len(sales[p]) /\ Len(sales[p]) > 0
           /\ marks[p] = 1 /\ \A r \in queue : r[1] # p
           /\ worker.pc # "idle" => worker.sale[1] # p
           /\ call[p].pc = "send" => Sale(Last(p)).fate = "unsent"
           /\ \A r \in details : r[1] = p => call[p].pc = "persist" /\ r = Last(p)
           /\ \A r \in holds : r[1] = p => call[p].pc = "persist_hold" /\ r = Last(p)
           /\ call[p].pc = "persist" => Last(p) \in details
           /\ ~ Retaken(Last(p))
<1>1. TypeOK /\ Bounded /\ CallFor(p)
  BY DEF Inv, CountInv
<1>2. Len(sales[p]) > 0
  BY <1>1 DEF CallFor
<1>3. /\ Last(p) \in Of(p, Sent) /\ Last(p)[1] = p /\ Last(p)[2] = Len(sales[p]) /\ Last(p) \in Sent
      /\ \A s \in Of(p, Sent) : s[2] <= Last(p)[2] /\ s[2] \in Nat
  BY <1>1, <1>2, LastSale, Shape DEF Of
<1>4. ~ Retaken(Last(p))
  <2>1. Len(sales[p]) \in Nat
    BY <1>1, Shape
  <2>2. \A i \in Last(p)[2] + 1 .. Len(sales[Last(p)[1]]) : FALSE
    BY <1>3, <2>1
  <2> QED
    BY <2>2 DEF Retaken
<1> QED
  BY <1>1, <1>2, <1>3, <1>4 DEF CallFor

\* The sales stay as they are.
LEMMA SameSales ==
    ASSUME Inv, sales' = sales
    PROVE  /\ Onward /\ Sent' = Sent /\ Bounded' /\ sales' \in [Positions -> Seq(Entries)]
           /\ \A s \in Sent : Sale(s)' = Sale(s)
           /\ \A q \in Positions : Len(sales'[q]) = Len(sales[q]) /\ Last(q)' = Last(q)
<1>1. Sent' = Sent /\ Bounded'
  BY DEF Sent, Refs, Inv, Bounded
<1>2. /\ \A s \in Sent : Sale(s)' = Sale(s)
      /\ \A q \in Positions : Last(q)' = Last(q) /\ Len(sales'[q]) = Len(sales[q])
  BY DEF Sale, Last
<1>3. Onward
  BY <1>1, <1>2 DEF Onward, Sale
<1> QED
  BY <1>1, <1>2, <1>3, Typed DEF Inv

\* The ladder sends the sale: nothing else of the position is in flight.
LEMMA LadderSendsInv ==
    ASSUME Inv, NEW p \in Positions, LadderSends(p)
    PROVE  Inv'
<1> USE DEF Inv
<1>1. /\ call[p].pc = "send" /\ call' = [call EXCEPT ![p] = [pc |-> "ladder", snap |-> {}]]
      /\ sales' = [sales EXCEPT ![p][Len(sales[p])].fate = "flying"]
      /\ UNCHANGED <<level, stored, marks, details, holds, queue, worker, restarts, forgotten, superseded>>
  BY DEF LadderSends, At, memory, history
<1>2. PICK r : r = Last(p)
  OBVIOUS
<1>3. /\ r \in Of(p, Sent) /\ r \in Sent /\ r[1] = p /\ r[2] = Len(sales[p]) /\ Len(sales[p]) > 0
      /\ marks[p] = 1 /\ \A s \in queue : s[1] # p
      /\ worker.pc # "idle" => worker.sale[1] # p
      /\ Sale(r).fate = "unsent"
      /\ \A s \in details \cup holds : s[1] # p
  BY <1>1, <1>2, CallFacts
<1>4. /\ sales' \in [Positions -> Seq(Entries)] /\ Bounded' /\ Sent' = Sent
      /\ \A s \in Sent : /\ Sale(s)'.step = Sale(s).step
                        /\ Sale(s)'.fate = IF s = r THEN "flying" ELSE Sale(s).fate
      /\ \A q \in Positions : Last(q)' = Last(q) /\ Len(sales'[q]) = Len(sales[q])
  <2>1. sales' = [sales EXCEPT ![r[1]][r[2]].fate = "flying"] /\ "flying" \in Fates
    BY <1>1, <1>3 DEF Fates
  <2> QED
    BY <1>3, <2>1, Decided
<1>5. Onward
  BY <1>3, <1>4 DEF Onward, Sale
<1>6. /\ call' \in [Positions -> CallRecords] /\ call'[p].pc = "ladder"
      /\ \A q \in Positions \ {p} : call'[q] = call[q]
  <2>1. {} \in SUBSET Sent
    OBVIOUS
  <2> QED
    BY <1>1, <2>1, CallMoves
<1>7. TypeOK'
  BY <1>1, <1>4, <1>6, Typed, TypedStep
<1>8. RecordsInv'
  BY <1>1, <1>6 DEF RecordsInv, Single
<1>9. CountInv'
  <2>1. ASSUME NEW q \in Positions \ {p} PROVE CallFor(q)' /\ IdleFor(q)'
    <3>1. Untouched(q)
      BY <1>1, <1>3, <1>4, <1>6 DEF Untouched, Sale
    <3> QED
      BY <3>1, UntouchedKept
  <2>2. CallFor(p)'
    BY <1>1, <1>3, <1>4, <1>6 DEF CallFor
  <2>3. IdleFor(p)'
    BY <1>6 DEF IdleFor
  <2> QED
    BY <1>1, <2>1, <2>2, <2>3 DEF CountInv
<1>10. FlyingInv'
  <2> SUFFICES ASSUME NEW q \in Positions \ forgotten, NEW s \in Of(q, Sent), Sale(s)'.fate = "flying"
               PROVE  /\ s \in details \cup holds \/ (call'[q].pc = "ladder" /\ s = Last(q)')
                      /\ call'[q].pc # "idle" => s = Last(q)'
                      /\ \A u \in Of(q, Sent) : Sale(u)'.fate = "flying" => u = s
    BY <1>1, <1>4 DEF FlyingInv, Of
  <2>1. CASE q = p
    <3>1. \A u \in Of(p, Sent) : Sale(u).fate # "flying"
      BY <1>1, <1>2, <1>3, <2>1 DEF FlyingInv
    <3>2. \A u \in Of(p, Sent) : Sale(u)'.fate = "flying" => u = r
      BY <1>4, <3>1 DEF Of, Sale
    <3> QED
      BY <1>2, <1>4, <1>6, <2>1, <3>2
  <2>2. CASE q # p
    <3>1. \A u \in Of(q, Sent) : Sale(u)'.fate = Sale(u).fate
      BY <1>3, <1>4, <2>2 DEF Of, Sale
    <3>2. Sale(s).fate = "flying"
      BY <3>1 DEF Sale
    <3>3. /\ s \in details \cup holds \/ (call[q].pc = "ladder" /\ s = Last(q))
          /\ call[q].pc # "idle" => s = Last(q)
          /\ \A u \in Of(q, Sent) : Sale(u).fate = "flying" => u = s
      BY <3>2 DEF FlyingInv
    <3>4. \A u \in Of(q, Sent) : Sale(u)'.fate = "flying" => u = s
      BY <3>1, <3>3 DEF Sale
    <3> QED
      BY <1>4, <1>6, <2>2, <3>3, <3>4
  <2> QED
    BY <2>1, <2>2
<1>11. StepInv'
  BY <1>1, <1>5, LevelKept, StepKept
<1> QED
  BY <1>4, <1>7, <1>8, <1>9, <1>10, <1>11

\* The ladder sold nothing: the sale is dead, its step free again and the counter down.
LEMMA LadderFailsInv ==
    ASSUME Inv, NEW p \in Positions, LadderFails(p)
    PROVE  Inv'
<1> USE DEF Inv
<1>1. /\ call[p].pc = "send" \/ (call[p].pc = "ladder" /\ Sale(Last(p)).fate = "dead")
      /\ call' = [call EXCEPT ![p] = [pc |-> "idle", snap |-> {}]]
      /\ sales' = [sales EXCEPT ![p][Len(sales[p])].fate = "dead"]
      /\ ReleaseStep(p, Sale(Last(p)).step) /\ marks' = Lowered(p)
      /\ UNCHANGED <<stored, details, holds, queue, worker, restarts, forgotten, superseded>>
  BY DEF LadderFails, At, history
<1>2. PICK r : r = Last(p)
  OBVIOUS
<1>3. /\ r \in Of(p, Sent) /\ r \in Sent /\ r[1] = p /\ r[2] = Len(sales[p])
      /\ \A s \in queue \cup details \cup holds : s[1] # p
      /\ worker.pc # "idle" => worker.sale[1] # p
      /\ Sale(r).fate \in {"unsent", "dead"} /\ ~ Retaken(r)
  BY <1>1, <1>2, CallFacts
<1>4. /\ sales' \in [Positions -> Seq(Entries)] /\ Bounded' /\ Sent' = Sent
      /\ \A s \in Sent : /\ Sale(s)'.step = Sale(s).step
                        /\ Sale(s)'.fate = IF s = r THEN "dead" ELSE Sale(s).fate
      /\ \A q \in Positions : Last(q)' = Last(q) /\ Len(sales'[q]) = Len(sales[q])
  <2>1. sales' = [sales EXCEPT ![r[1]][r[2]].fate = "dead"] /\ "dead" \in Fates
    BY <1>1, <1>3 DEF Fates
  <2> QED
    BY <1>3, <2>1, Decided
<1>5. Onward
  BY <1>3, <1>4 DEF Onward, Sale
<1>6. LevelHolds /\ level' \in [Positions -> 0 .. Steps]
  <2>1. Sale(r)'.fate = "dead" /\ ReleaseStep(p, Sale(r).step)
    BY <1>1, <1>2, <1>3, <1>4 DEF Sale
  <2> QED
    BY <1>3, <1>5, <2>1, LevelReleased
<1>7. /\ call' \in [Positions -> CallRecords] /\ call'[p].pc = "idle"
      /\ \A q \in Positions \ {p} : call'[q] = call[q]
  <2>1. {} \in SUBSET Sent
    OBVIOUS
  <2> QED
    BY <1>1, <2>1, CallMoves
<1>8. /\ marks' \in [Positions -> 0 .. 1] /\ marks'[p] = 0
      /\ \A q \in Positions \ {p} : marks'[q] = marks[q]
  BY <1>1, CounterLowered
<1>9. TypeOK'
  BY <1>1, <1>4, <1>6, <1>7, <1>8, Typed, TypedStep
<1>10. RecordsInv'
  BY <1>1, <1>7 DEF RecordsInv, Single
<1>11. CountInv'
  <2>1. ASSUME NEW q \in Positions \ {p} PROVE CallFor(q)' /\ IdleFor(q)'
    <3>1. Untouched(q)
      BY <1>1, <1>3, <1>4, <1>7, <1>8 DEF Untouched, Sale
    <3> QED
      BY <3>1, UntouchedKept
  <2>2. CallFor(p)' /\ IdleFor(p)'
    BY <1>1, <1>3, <1>7, <1>8 DEF CallFor, IdleFor
  <2> QED
    BY <1>1, <2>1, <2>2 DEF CountInv
<1>12. FlyingInv'
  <2>1. \A s \in Sent : Sale(s)'.fate = "flying" => Sale(s).fate = "flying" /\ s # r
    BY <1>4 DEF Sale
  <2>2. ASSUME NEW q \in Positions \ forgotten', NEW s \in Of(q, Sent), Sale(s)'.fate = "flying"
        PROVE  /\ s \in details \cup holds => s \in details' \cup holds'
               /\ call[q].pc = "ladder" /\ s = Last(q) =>
                     s \in details' \cup holds' \/ call'[q].pc = "ladder"
               /\ call'[q].pc # "idle" => call[q].pc # "idle"
    <3>1. s # r
      BY <2>1, <2>2 DEF Of, Sale
    <3> QED
      BY <1>1, <1>2, <1>7, <3>1
  <2> QED
    BY <1>1, <1>4, <2>1, <2>2, FlyingKept DEF Sale
<1>13. StepInv'
  BY <1>1, <1>5, <1>6, StepKept
<1> QED
  BY <1>4, <1>9, <1>10, <1>11, <1>12, <1>13

\* A signed sale is recorded in the details, and the copy for the store is taken.
LEMMA LadderSignedInv ==
    ASSUME Inv, NEW p \in Positions, LadderSigned(p)
    PROVE  Inv'
<1> USE DEF Inv
<1>1. /\ call[p].pc = "ladder" /\ details' = details \cup {Last(p)}
      /\ call' = [call EXCEPT ![p] = [pc |-> "persist", snap |-> details']]
      /\ UNCHANGED <<sales, level, stored, marks, holds, queue, worker, restarts, forgotten, superseded>>
  BY DEF LadderSigned, At, durable, history
<1>2. /\ Last(p) \in Sent /\ Last(p)[1] = p /\ Len(sales[p]) > 0 /\ marks[p] = 1
      /\ \A s \in queue \cup details \cup holds : s[1] # p
      /\ worker.pc # "idle" => worker.sale[1] # p
  BY <1>1, CallFacts
<1>3. /\ Onward /\ Sent' = Sent /\ Bounded' /\ sales' \in [Positions -> Seq(Entries)]
      /\ \A s \in Sent : Sale(s)' = Sale(s)
      /\ \A q \in Positions : Len(sales'[q]) = Len(sales[q]) /\ Last(q)' = Last(q)
  BY <1>1, SameSales
<1>4. details' \in SUBSET Sent
  BY <1>1, <1>2, Typed
<1>5. /\ call' \in [Positions -> CallRecords] /\ call'[p].pc = "persist" /\ call'[p].snap = details'
      /\ \A q \in Positions \ {p} : call'[q] = call[q]
  <2>1. PICK snap \in SUBSET Sent : snap = details'
    BY <1>4
  <2> QED
    BY <1>1, <2>1, CallMoves
<1>6. TypeOK'
  BY <1>1, <1>3, <1>4, <1>5, Typed, TypedStep
<1>7. RecordsInv'
  <2>1. Single(details')
    BY <1>1, <1>2 DEF RecordsInv, Single
  <2> QED
    BY <1>1, <1>5, <2>1 DEF RecordsInv, Single
<1>8. CountInv'
  <2>1. ASSUME NEW q \in Positions \ {p} PROVE CallFor(q)' /\ IdleFor(q)'
    <3>1. Untouched(q)
      BY <1>1, <1>2, <1>3, <1>5 DEF Untouched, Sale
    <3> QED
      BY <3>1, UntouchedKept
  <2>2. CallFor(p)' /\ IdleFor(p)'
    BY <1>1, <1>2, <1>3, <1>5 DEF CallFor, IdleFor
  <2>3. worker.pc = "booked" => worker.sale \in queue \ details'
    BY <1>1, <1>2 DEF CountInv
  <2> QED
    BY <1>1, <2>1, <2>2, <2>3 DEF CountInv
<1>9. FlyingInv'
  BY <1>1, <1>3, <1>5, FlyingKept DEF Sale
<1>10. StepInv'
  BY <1>1, <1>2, <1>3, LevelKept, StepKept
<1> QED
  BY <1>3, <1>6, <1>7, <1>8, <1>9, <1>10

\* The copy is written, or lost, and the sale goes to verification.
LEMMA EnqueueSaleInv ==
    ASSUME Inv, NEW p \in Positions, EnqueueSale(p)
    PROVE  Inv'
<1> USE DEF Inv
<1>1. /\ call[p].pc = "persist" /\ Persists("details", call[p].snap)
      /\ queue' = queue \cup {Last(p)}
      /\ call' = [call EXCEPT ![p] = [pc |-> "idle", snap |-> {}]]
      /\ UNCHANGED <<sales, level, marks, details, holds, worker, restarts, forgotten, superseded>>
  BY DEF EnqueueSale, At, history
<1>2. /\ Last(p) \in Sent /\ Last(p)[1] = p /\ Len(sales[p]) > 0 /\ marks[p] = 1
      /\ Last(p) \in details
      /\ \A s \in queue \cup holds : s[1] # p
      /\ \A s \in details : s[1] = p => s = Last(p)
      /\ worker.pc # "idle" => worker.sale[1] # p
  BY <1>1, CallFacts
<1>3. /\ Onward /\ Sent' = Sent /\ Bounded' /\ sales' \in [Positions -> Seq(Entries)]
      /\ \A s \in Sent : Sale(s)' = Sale(s)
      /\ \A q \in Positions : Len(sales'[q]) = Len(sales[q]) /\ Last(q)' = Last(q)
  BY <1>1, SameSales
<1>4. call[p].snap \in SUBSET Sent /\ Single(call[p].snap)
  BY <1>1, Typed DEF CallRecords, RecordsInv
<1>5. /\ stored' \in [details : SUBSET Sent, holds : SUBSET Sent] /\ Single(stored'.details)
  BY <1>1, <1>4, StoreWritten DEF RecordsInv
<1>6. /\ call' \in [Positions -> CallRecords] /\ call'[p].pc = "idle"
      /\ \A q \in Positions \ {p} : call'[q] = call[q]
  <2>1. {} \in SUBSET Sent
    OBVIOUS
  <2> QED
    BY <1>1, <2>1, CallMoves
<1>7. TypeOK'
  <2>1. queue' \subseteq Sent
    BY <1>1, <1>2, Typed
  <2> QED
    BY <1>1, <1>3, <1>5, <1>6, <2>1, Typed, TypedStep
<1>8. RecordsInv'
  <2>1. Single(queue')
    BY <1>1, <1>2 DEF RecordsInv, Single
  <2> QED
    BY <1>1, <1>5, <1>6, <2>1 DEF RecordsInv, Single
<1>9. CountInv'
  <2>1. ASSUME NEW q \in Positions \ {p} PROVE CallFor(q)' /\ IdleFor(q)'
    <3>1. Untouched(q)
      BY <1>1, <1>2, <1>3, <1>6 DEF Untouched, Sale
    <3> QED
      BY <3>1, UntouchedKept
  <2>2. CallFor(p)' /\ IdleFor(p)'
    BY <1>1, <1>2, <1>3, <1>6 DEF CallFor, IdleFor
  <2>3. worker.pc = "booked" => worker.sale \in queue' \ details
    BY <1>1 DEF CountInv
  <2> QED
    BY <1>1, <2>1, <2>2, <2>3 DEF CountInv
<1>10. FlyingInv'
  BY <1>1, <1>3, <1>6, FlyingKept DEF Sale
<1>11. StepInv'
  BY <1>1, <1>2, <1>3, LevelKept, StepKept
<1> QED
  BY <1>3, <1>7, <1>8, <1>9, <1>10, <1>11

\* A sale nothing is known of is held, and the copy for the store is taken.
LEMMA LadderUnresolvedInv ==
    ASSUME Inv, NEW p \in Positions, LadderUnresolved(p)
    PROVE  Inv'
<1> USE DEF Inv
<1>1. /\ call[p].pc = "ladder" /\ holds' = holds \cup {Last(p)}
      /\ call' = [call EXCEPT ![p] = [pc |-> "persist_hold", snap |-> holds']]
      /\ UNCHANGED <<sales, level, stored, marks, details, queue, worker, restarts, forgotten, superseded>>
  BY DEF LadderUnresolved, At, durable, history
<1>2. /\ Last(p) \in Sent /\ Last(p)[1] = p /\ Len(sales[p]) > 0 /\ marks[p] = 1
      /\ \A s \in queue \cup details \cup holds : s[1] # p
      /\ worker.pc # "idle" => worker.sale[1] # p
  BY <1>1, CallFacts
<1>3. /\ Onward /\ Sent' = Sent /\ Bounded' /\ sales' \in [Positions -> Seq(Entries)]
      /\ \A s \in Sent : Sale(s)' = Sale(s)
      /\ \A q \in Positions : Len(sales'[q]) = Len(sales[q]) /\ Last(q)' = Last(q)
  BY <1>1, SameSales
<1>4. holds' \in SUBSET Sent
  BY <1>1, <1>2, Typed
<1>5. /\ call' \in [Positions -> CallRecords] /\ call'[p].pc = "persist_hold"
      /\ \A q \in Positions \ {p} : call'[q] = call[q]
  <2>1. PICK snap \in SUBSET Sent : snap = holds'
    BY <1>4
  <2> QED
    BY <1>1, <2>1, CallMoves
<1>6. TypeOK'
  BY <1>1, <1>3, <1>4, <1>5, Typed, TypedStep
<1>7. RecordsInv'
  BY <1>1, <1>5 DEF RecordsInv, Single
<1>8. CountInv'
  <2>1. ASSUME NEW q \in Positions \ {p} PROVE CallFor(q)' /\ IdleFor(q)'
    <3>1. Untouched(q)
      BY <1>1, <1>2, <1>3, <1>5 DEF Untouched, Sale
    <3> QED
      BY <3>1, UntouchedKept
  <2>2. CallFor(p)' /\ IdleFor(p)'
    BY <1>1, <1>2, <1>3, <1>5 DEF CallFor, IdleFor
  <2> QED
    BY <1>1, <2>1, <2>2 DEF CountInv
<1>9. FlyingInv'
  BY <1>1, <1>3, <1>5, FlyingKept DEF Sale
<1>10. StepInv'
  BY <1>1, <1>2, <1>3, LevelKept, StepKept
<1> QED
  BY <1>3, <1>6, <1>7, <1>8, <1>9, <1>10

\* The hold stands for the sale from now on, and the counter is down.
LEMMA HoldSaleInv ==
    ASSUME Inv, NEW p \in Positions, HoldSale(p)
    PROVE  Inv'
<1> USE DEF Inv
<1>1. /\ call[p].pc = "persist_hold" /\ Persists("holds", call[p].snap) /\ marks' = Lowered(p)
      /\ call' = [call EXCEPT ![p] = [pc |-> "idle", snap |-> {}]]
      /\ UNCHANGED <<sales, level, details, holds, queue, worker, restarts, forgotten, superseded>>
  BY DEF HoldSale, At, history
<1>2. /\ \A s \in queue \cup details : s[1] # p
      /\ worker.pc # "idle" => worker.sale[1] # p
  BY <1>1, CallFacts
<1>3. /\ Onward /\ Sent' = Sent /\ Bounded' /\ sales' \in [Positions -> Seq(Entries)]
      /\ \A s \in Sent : Sale(s)' = Sale(s)
      /\ \A q \in Positions : Len(sales'[q]) = Len(sales[q]) /\ Last(q)' = Last(q)
  BY <1>1, SameSales
<1>4. call[p].snap \in SUBSET Sent
  BY <1>1, Typed DEF CallRecords
<1>5. /\ stored' \in [details : SUBSET Sent, holds : SUBSET Sent] /\ Single(stored'.details)
  BY <1>1, <1>4, StoreWritten DEF RecordsInv
<1>6. /\ call' \in [Positions -> CallRecords] /\ call'[p].pc = "idle"
      /\ \A q \in Positions \ {p} : call'[q] = call[q]
  <2>1. {} \in SUBSET Sent
    OBVIOUS
  <2> QED
    BY <1>1, <2>1, CallMoves
<1>7. /\ marks' \in [Positions -> 0 .. 1] /\ marks'[p] = 0
      /\ \A q \in Positions \ {p} : marks'[q] = marks[q]
  BY <1>1, CounterLowered
<1>8. TypeOK'
  BY <1>1, <1>3, <1>5, <1>6, <1>7, Typed, TypedStep
<1>9. RecordsInv'
  BY <1>1, <1>5, <1>6 DEF RecordsInv, Single
<1>10. CountInv'
  <2>1. ASSUME NEW q \in Positions \ {p} PROVE CallFor(q)' /\ IdleFor(q)'
    <3>1. Untouched(q)
      BY <1>1, <1>2, <1>3, <1>6, <1>7 DEF Untouched, Sale
    <3> QED
      BY <3>1, UntouchedKept
  <2>2. CallFor(p)' /\ IdleFor(p)'
    BY <1>1, <1>2, <1>6, <1>7 DEF CallFor, IdleFor
  <2> QED
    BY <1>1, <2>1, <2>2 DEF CountInv
<1>11. FlyingInv'
  BY <1>1, <1>3, <1>6, FlyingKept DEF Sale
<1>12. StepInv'
  BY <1>1, <1>3, LevelKept, StepKept
<1> QED
  BY <1>3, <1>8, <1>9, <1>10, <1>11, <1>12

----------------------------------------------------------------------------
(* The worker *)

\* A sale in verification is the only one of its position, and no call runs.
LEMMA QueuedFacts ==
    ASSUME Inv, NEW r \in queue
    PROVE  /\ r \in Sent /\ r[1] \in Positions /\ r \in Of(r[1], Sent) /\ call[r[1]].pc = "idle"
           /\ \A s \in queue \cup details : s[1] = r[1] => s = r
           /\ marks[r[1]] = 1
           /\ worker.pc = "idle" => r \in details
<1>1. r \in Sent /\ r[1] \in Positions
  BY Typed, Shape DEF Inv
<1>2. CallFor(r[1]) /\ IdleFor(r[1]) /\ Single(queue)
  BY <1>1 DEF Inv, CountInv, RecordsInv
<1>3. call[r[1]].pc = "idle"
  BY <1>2 DEF CallFor
<1>4. \A s \in queue \cup details : s[1] = r[1] => s = r
  BY <1>2, <1>3 DEF IdleFor, Single
<1> QED
  BY <1>1, <1>2, <1>3, <1>4 DEF IdleFor, Of

\* A signed sale that did not land is settled under the mint's lock.
LEMMA SettleUnsoldInv ==
    ASSUME Inv, NEW r \in Refs, SettleUnsold(r)
    PROVE  Inv'
<1> USE DEF Inv
<1> DEFINE p == r[1]
<1>1. /\ worker.pc = "idle" /\ r \in queue /\ Sale(r).fate = "dead" /\ call[p].pc = "idle"
      /\ ReleaseStep(p, Sale(r).step)
      /\ details' = {s \in details : s[1] # p} /\ marks' = [marks EXCEPT ![p] = 0]
      /\ queue' = queue \ {r}
      /\ worker' = worker \/ worker' = [pc |-> "failed", sale |-> r, snap |-> details']
      /\ UNCHANGED <<sales, stored, holds, call, restarts, forgotten, superseded>>
  <2>1. details \ Of(p, details) = {s \in details : s[1] # p}
    BY DEF Of
  <2> QED
    BY <2>1 DEF SettleUnsold, LockFree, Works, history
<1>2. /\ r \in Sent /\ p \in Positions /\ r \in Of(p, Sent)
      /\ \A s \in queue \cup details : s[1] = p => s = r
  BY <1>1, QueuedFacts
<1> HIDE DEF p
<1>3. /\ Onward /\ Sent' = Sent /\ Bounded' /\ sales' \in [Positions -> Seq(Entries)]
      /\ \A s \in Sent : Sale(s)' = Sale(s)
      /\ \A q \in Positions : Len(sales'[q]) = Len(sales[q]) /\ Last(q)' = Last(q)
  BY <1>1, SameSales
<1>4. LevelHolds /\ level' \in [Positions -> 0 .. Steps]
  <2>1. p \notin superseded /\ Sale(r).step > 0 => ~ Retaken(r)
    BY <1>1, <1>2 DEF StepInv
  <2>2. Sale(r)'.fate = "dead"
    BY <1>1, <1>2, <1>3
  <2> QED
    BY <1>1, <1>2, <1>3, <2>1, <2>2, LevelReleased
<1>5. details' \in SUBSET Sent /\ queue' \subseteq Sent /\ marks' \in [Positions -> 0 .. 1]
  BY <1>1, <1>2, Typed
<1>6. worker' \in WorkerRecords /\ worker'.pc \in {"idle", "failed"}
      /\ (worker'.pc # "idle" => worker'.sale = r /\ worker'.snap = details')
  <2>1. PICK snap \in SUBSET Sent : snap = details'
    BY <1>5
  <2>2. CASE worker' = worker
    BY <1>1, <2>2, Typed
  <2>3. CASE worker' = [pc |-> "failed", sale |-> r, snap |-> snap]
    BY <1>2, <2>1, <2>3, WorkerMoves
  <2> QED
    BY <1>1, <2>1, <2>2, <2>3
<1>7. TypeOK'
  BY <1>1, <1>2, <1>3, <1>4, <1>5, <1>6, Typed, TypedStep
<1>8. RecordsInv'
  <2>1. Single(details') /\ Single(queue')
    BY <1>1 DEF RecordsInv, Single
  <2> QED
    BY <1>1, <1>6, <2>1 DEF RecordsInv, Single
<1>9. CountInv'
  <2>1. ASSUME NEW q \in Positions \ {p} PROVE CallFor(q)' /\ IdleFor(q)'
    <3>1. marks'[q] = marks[q]
      BY <1>1, Typed
    <3>2. r[1] # q
      BY DEF p
    <3>3. Untouched(q)
      BY <1>1, <1>3, <1>6, <3>1, <3>2 DEF Untouched, Sale
    <3> QED
      BY <3>3, UntouchedKept
  <2>2. marks'[p] = 0
    BY <1>1, <1>2, Typed
  <2>3. CallFor(p)' /\ IdleFor(p)'
    BY <1>1, <1>2, <2>2 DEF CallFor, IdleFor
  <2> QED
    BY <1>6, <2>1, <2>3 DEF CountInv
<1>10. FlyingInv'
  <2>1. ASSUME NEW s \in Sent, Sale(s)'.fate = "flying", s \in details
        PROVE  s \in details'
    <3>1. Sale(s).fate = "flying"
      BY <1>3, <2>1
    <3> QED
      BY <1>1, <1>2, <2>1, <3>1
  <2> QED
    BY <1>1, <1>3, <2>1, FlyingKept DEF Sale, Of
<1>11. StepInv'
  BY <1>1, <1>3, <1>4, StepKept
<1> QED
  BY <1>3, <1>7, <1>8, <1>9, <1>10, <1>11

\* The write of the details, or of the holds, that a settlement left.
LEMMA PersistsInv ==
    ASSUME Inv, PersistUnsold \/ PersistReleased
    PROVE  Inv'
<1> USE DEF Inv
<1>1. /\ worker.pc \in {"failed", "released"} /\ worker' = IdleWorker
      /\ UNCHANGED <<sales, level, marks, details, holds, queue, call, restarts, forgotten, superseded>>
  BY DEF PersistUnsold, PersistReleased, memory, history
<1>2. /\ Onward /\ Sent' = Sent /\ Bounded' /\ sales' \in [Positions -> Seq(Entries)]
      /\ \A s \in Sent : Sale(s)' = Sale(s)
      /\ \A q \in Positions : Len(sales'[q]) = Len(sales[q]) /\ Last(q)' = Last(q)
  BY <1>1, SameSales
<1>3. worker.snap \in SUBSET Sent /\ worker.sale \in Sent
  BY <1>1, Typed
<1>4. /\ stored' \in [details : SUBSET Sent, holds : SUBSET Sent] /\ Single(stored'.details)
  BY <1>1, <1>3, StoreWritten DEF RecordsInv, PersistUnsold, PersistReleased
<1>5. worker' \in WorkerRecords /\ worker'.pc = "idle"
  BY <1>1, <1>3, WorkerMoves
<1>6. TypeOK'
  BY <1>1, <1>2, <1>4, <1>5, Typed, TypedStep
<1>7. RecordsInv'
  BY <1>1, <1>4, <1>5 DEF RecordsInv, Single
<1>8. CountInv'
  <2>1. ASSUME NEW q \in Positions PROVE CallFor(q)' /\ IdleFor(q)'
    <3>1. Untouched(q)
      BY <1>1, <1>2, <1>5 DEF Untouched, Sale
    <3> QED
      BY <3>1, UntouchedKept
  <2> QED
    BY <1>5, <2>1 DEF CountInv
<1>9. FlyingInv'
  BY <1>1, <1>2, FlyingKept DEF Sale
<1>10. StepInv'
  BY <1>1, <1>2, LevelKept, StepKept
<1> QED
  BY <1>2, <1>6, <1>7, <1>8, <1>9, <1>10

\* A sale that landed is booked: its details go, and its item stays until that is stored.
LEMMA BookSoldInv ==
    ASSUME Inv, NEW r \in Refs, BookSold(r)
    PROVE  Inv'
<1> USE DEF Inv
<1>1. worker.pc = "idle" /\ r \in queue /\ Sale(r).fate = "landed" /\ details' = details \ {r}
      /\ UNCHANGED <<sales, level, stored, holds, call, restarts, forgotten, superseded>>
  BY DEF BookSold, durable, history
<1>2. /\ r \in Sent /\ r[1] \in Positions /\ call[r[1]].pc = "idle" /\ r \in details
      /\ \A s \in queue \cup details : s[1] = r[1] => s = r
      /\ marks[r[1]] = 1
  BY <1>1, QueuedFacts
<1>3. UNCHANGED <<marks, queue>> /\ worker' = [pc |-> "booked", sale |-> r, snap |-> details']
  BY <1>2 DEF BookSold, Works
<1>4. /\ Onward /\ Sent' = Sent /\ Bounded' /\ sales' \in [Positions -> Seq(Entries)]
      /\ \A s \in Sent : Sale(s)' = Sale(s)
      /\ \A q \in Positions : Len(sales'[q]) = Len(sales[q]) /\ Last(q)' = Last(q)
  BY <1>1, SameSales
<1>5. /\ worker' \in WorkerRecords /\ worker'.pc = "booked" /\ worker'.sale = r
      /\ worker'.snap = details' /\ details' \subseteq Sent
  <2>1. PICK snap \in SUBSET Sent : snap = details'
    BY <1>1, Typed
  <2> QED
    BY <1>2, <1>3, <2>1, WorkerMoves
<1>6. TypeOK'
  BY <1>1, <1>2, <1>3, <1>4, <1>5, Typed, TypedStep
<1>7. RecordsInv'
  <2>1. Single(details')
    BY <1>1 DEF RecordsInv, Single
  <2> QED
    BY <1>1, <1>3, <1>5, <2>1 DEF RecordsInv, Single
<1>8. CountInv'
  <2>1. ASSUME NEW q \in Positions, q # r[1] PROVE CallFor(q)' /\ IdleFor(q)'
    <3>1. Untouched(q)
      BY <1>1, <1>3, <1>4, <1>5, <2>1 DEF Untouched, Sale
    <3> QED
      BY <3>1, UntouchedKept
  <2>2. ASSUME NEW q \in Positions, q = r[1] PROVE CallFor(q)' /\ IdleFor(q)'
    <3>1. \E s \in queue' : s[1] = q
      BY <1>1, <1>3, <2>2
    <3>2. marks'[q] = 1 /\ call'[q].pc = "idle"
      BY <1>1, <1>2, <1>3, <2>2
    <3> QED
      BY <1>1, <1>2, <1>3, <1>5, <2>2, <3>1, <3>2 DEF CallFor, IdleFor
  <2>3. worker'.pc = "booked" => worker'.sale \in queue' \ details'
    BY <1>1, <1>3, <1>5
  <2> QED
    BY <2>1, <2>2, <2>3 DEF CountInv
<1>9. FlyingInv'
  <2>1. \A s \in Sent : Sale(s)'.fate = "flying" => s # r
    BY <1>1, <1>4
  <2> QED
    BY <1>1, <1>4, <2>1, FlyingKept DEF Sale, Of
<1>10. StepInv'
  BY <1>1, <1>3, <1>4, LevelKept, StepKept
<1> QED
  BY <1>4, <1>6, <1>7, <1>8, <1>9, <1>10

\* The counter falls with the details in the store, or the details are put back.
LEMMA PersistBookedInv ==
    ASSUME Inv, NEW ok \in BOOLEAN, PersistBooked(ok)
    PROVE  Inv'
<1> USE DEF Inv
<1>1. PICK r : r = worker.sale
  OBVIOUS
<1>2. /\ worker.pc = "booked" /\ worker' = IdleWorker /\ r \in queue /\ r \notin details
      /\ UNCHANGED <<sales, level, holds, call, restarts, forgotten, superseded>>
  BY <1>1 DEF PersistBooked, CountInv, history
<1>3. /\ r \in Sent /\ r[1] \in Positions /\ call[r[1]].pc = "idle"
      /\ \A s \in queue : s[1] = r[1] => s = r
      /\ \A s \in details : s[1] # r[1]
      /\ marks[r[1]] = 1
  BY <1>2, QueuedFacts
<1>4. \/ /\ stored' = [stored EXCEPT !.details = worker.snap] /\ marks' = Lowered(r[1])
         /\ queue' = queue \ {r} /\ details' = details
      \/ /\ details' = details \cup {r} /\ UNCHANGED <<stored, marks, queue>>
  BY <1>1 DEF PersistBooked
<1>5. /\ Onward /\ Sent' = Sent /\ Bounded' /\ sales' \in [Positions -> Seq(Entries)]
      /\ \A s \in Sent : Sale(s)' = Sale(s)
      /\ \A q \in Positions : Len(sales'[q]) = Len(sales[q]) /\ Last(q)' = Last(q)
  BY <1>2, SameSales
<1>6. worker' \in WorkerRecords /\ worker'.pc = "idle"
  BY <1>2, <1>3, WorkerMoves
<1>7. /\ stored' \in [details : SUBSET Sent, holds : SUBSET Sent] /\ Single(stored'.details)
  BY <1>2, <1>4, Typed DEF RecordsInv
<1>8. /\ marks' \in [Positions -> 0 .. 1] /\ details' \subseteq Sent /\ queue' \subseteq Sent
      /\ \A q \in Positions : q # r[1] => marks'[q] = marks[q]
  BY <1>3, <1>4, CounterLowered, Typed
<1>9. TypeOK'
  BY <1>2, <1>5, <1>6, <1>7, <1>8, Typed, TypedStep
<1>10. RecordsInv'
  <2>1. Single(details') /\ Single(queue')
    BY <1>3, <1>4 DEF RecordsInv, Single
  <2> QED
    BY <1>2, <1>6, <1>7, <2>1 DEF RecordsInv, Single
<1>11. CountInv'
  <2>1. ASSUME NEW q \in Positions, q # r[1] PROVE CallFor(q)' /\ IdleFor(q)'
    <3>1. Untouched(q)
      BY <1>1, <1>2, <1>4, <1>5, <1>6, <1>8, <2>1 DEF Untouched, Sale
    <3> QED
      BY <3>1, UntouchedKept
  <2>2. ASSUME NEW q \in Positions, q = r[1] PROVE CallFor(q)' /\ IdleFor(q)'
    <3>1. call'[q].pc = "idle"
      BY <1>2, <1>3, <2>2
    <3>2. CASE marks' = Lowered(r[1]) /\ queue' = queue \ {r} /\ details' = details
      <4>1. marks'[q] = 0
        BY <1>3, <2>2, <3>2, CounterLowered
      <4> QED
        BY <1>3, <2>2, <3>1, <3>2, <4>1 DEF CallFor, IdleFor
    <3>3. CASE details' = details \cup {r} /\ UNCHANGED <<marks, queue>>
      <4>1. \E s \in queue' : s[1] = q
        BY <1>2, <2>2, <3>3
      <4> QED
        BY <1>2, <1>3, <2>2, <3>1, <3>3, <4>1 DEF CallFor, IdleFor
    <3> QED
      BY <1>4, <3>2, <3>3
  <2> QED
    BY <1>6, <2>1, <2>2 DEF CountInv
<1>12. FlyingInv'
  BY <1>2, <1>4, <1>5, FlyingKept DEF Sale, Of
<1>13. StepInv'
  BY <1>2, <1>4, <1>5, LevelKept, StepKept
<1> QED
  BY <1>5, <1>9, <1>10, <1>11, <1>12, <1>13

\* A decided hold leaves; only a dead sale returns its step.
LEMMA SettleHoldInv ==
    ASSUME Inv, NEW r \in Refs, SettleHold(r)
    PROVE  Inv'
<1> USE DEF Inv
<1>1. /\ worker.pc = "idle" /\ r \in holds /\ Sale(r).fate # "flying" /\ call[r[1]].pc = "idle"
      /\ (Sale(r).fate = "dead" /\ ReleaseStep(r[1], Sale(r).step)) \/ level' = level
      /\ holds' = holds \ {r} /\ worker' = [pc |-> "released", sale |-> r, snap |-> holds']
      /\ UNCHANGED <<sales, stored, marks, details, queue, call, restarts, forgotten, superseded>>
  BY DEF SettleHold, LockFree, Works, history
<1>2. r \in Sent /\ r[1] \in Positions /\ r \in Of(r[1], Sent)
  BY <1>1, Typed, Shape DEF Of
<1>3. /\ Onward /\ Sent' = Sent /\ Bounded' /\ sales' \in [Positions -> Seq(Entries)]
      /\ \A s \in Sent : Sale(s)' = Sale(s)
      /\ \A q \in Positions : Len(sales'[q]) = Len(sales[q]) /\ Last(q)' = Last(q)
  BY <1>1, SameSales
<1>4. LevelHolds /\ level' \in [Positions -> 0 .. Steps]
  <2>1. CASE level' = level
    BY <1>3, <2>1, LevelKept, Typed
  <2>2. CASE Sale(r).fate = "dead" /\ ReleaseStep(r[1], Sale(r).step)
    <3>1. r[1] \notin superseded /\ Sale(r).step > 0 => ~ Retaken(r)
      BY <1>1, <1>2 DEF StepInv
    <3>2. Sale(r)'.fate = "dead"
      BY <1>2, <1>3, <2>2
    <3> QED
      BY <1>2, <1>3, <2>2, <3>1, <3>2, LevelReleased
  <2> QED
    BY <1>1, <2>1, <2>2
<1>5. /\ worker' \in WorkerRecords /\ worker'.pc = "released" /\ worker'.sale = r
      /\ holds' \subseteq Sent
  <2>1. PICK snap \in SUBSET Sent : snap = holds'
    BY <1>1, Typed
  <2> QED
    BY <1>1, <1>2, <2>1, WorkerMoves
<1>6. TypeOK'
  BY <1>1, <1>2, <1>3, <1>4, <1>5, Typed, TypedStep
<1>7. RecordsInv'
  BY <1>1, <1>5 DEF RecordsInv, Single
<1>8. CountInv'
  <2>1. ASSUME NEW q \in Positions, q # r[1] PROVE CallFor(q)' /\ IdleFor(q)'
    <3>1. Untouched(q)
      BY <1>1, <1>3, <1>5, <2>1 DEF Untouched, Sale
    <3> QED
      BY <3>1, UntouchedKept
  <2>2. ASSUME NEW q \in Positions, q = r[1] PROVE CallFor(q)' /\ IdleFor(q)'
    <3>1. call'[q].pc = "idle" /\ IdleFor(q)
      BY <1>1, <2>2 DEF CountInv
    <3> QED
      BY <1>1, <3>1 DEF CallFor, IdleFor
  <2> QED
    BY <1>5, <2>1, <2>2 DEF CountInv
<1>9. FlyingInv'
  <2>1. \A s \in Sent : Sale(s)'.fate = "flying" => s # r
    BY <1>1, <1>3
  <2> QED
    BY <1>1, <1>3, <2>1, FlyingKept DEF Sale, Of
<1>10. StepInv'
  BY <1>1, <1>3, <1>4, StepKept
<1> QED
  BY <1>3, <1>6, <1>7, <1>8, <1>9, <1>10

----------------------------------------------------------------------------
(* The chain and the process *)

\* The chain decides a sale in flight.
LEMMA ChainDecidesInv ==
    ASSUME Inv, NEW r \in Refs, ChainDecides(r)
    PROVE  Inv'
<1> USE DEF Inv
<1>1. /\ r \in Sent /\ Sale(r).fate = "flying"
      /\ UNCHANGED <<level, stored, marks, details, holds, queue, call, worker, restarts, forgotten,
                     superseded>>
  BY DEF ChainDecides, memory, history
<1>2. PICK f \in {"landed", "dead"} : sales' = [sales EXCEPT ![r[1]][r[2]].fate = f]
  BY DEF ChainDecides
<1>3. /\ sales' \in [Positions -> Seq(Entries)] /\ Bounded' /\ Sent' = Sent
      /\ \A s \in Sent : /\ Sale(s)'.step = Sale(s).step
                        /\ Sale(s)'.fate = IF s = r THEN f ELSE Sale(s).fate
      /\ \A q \in Positions : Last(q)' = Last(q) /\ Len(sales'[q]) = Len(sales[q])
  <2>1. f \in Fates
    BY DEF Fates
  <2> QED
    BY <1>1, <1>2, <2>1, Decided
<1>4. Onward
  BY <1>1, <1>3 DEF Onward, Sale
<1>5. TypeOK'
  BY <1>1, <1>3, Typed, TypedStep
<1>6. RecordsInv'
  BY <1>1 DEF RecordsInv, Single
<1>7. CountInv'
  <2>1. ASSUME NEW q \in Positions PROVE CallFor(q)' /\ IdleFor(q)'
    <3>1. Untouched(q)
      BY <1>1, <1>3 DEF Untouched, Sale
    <3> QED
      BY <3>1, UntouchedKept
  <2> QED
    BY <1>1, <2>1 DEF CountInv
<1>8. FlyingInv'
  <2>1. \A s \in Sent : Sale(s)'.fate = "flying" => Sale(s).fate = "flying"
    BY <1>1, <1>3 DEF Sale
  <2> QED
    BY <1>1, <1>3, <2>1, FlyingKept DEF Sale
<1>9. StepInv'
  BY <1>1, <1>4, LevelKept, StepKept
<1> QED
  BY <1>3, <1>5, <1>6, <1>7, <1>8, <1>9

\* The sales after a restart: what was not sent never will be.
LEMMA Restarted ==
    ASSUME Inv, Restart
    PROVE  /\ sales' \in [Positions -> Seq(Entries)] /\ Bounded' /\ Sent' = Sent
           /\ \A q \in Positions : Len(sales'[q]) = Len(sales[q])
           /\ \A s \in Sent :
                 /\ Sale(s)'.step = Sale(s).step
                 /\ Sale(s)'.fate = IF Sale(s).fate = "unsent" THEN "dead" ELSE Sale(s).fate
<1> DEFINE Over(e) == IF e.fate = "unsent" THEN [e EXCEPT !.fate = "dead"] ELSE e
<1>1. sales' = [p \in Positions |-> [i \in DOMAIN sales[p] |-> Over(sales[p][i])]]
  BY DEF Restart
<1>2. \A e \in Entries : /\ Over(e) \in Entries /\ Over(e).step = e.step
                        /\ Over(e).fate = IF e.fate = "unsent" THEN "dead" ELSE e.fate
  BY DEF Entries, Fates
<1> HIDE DEF Over
<1>3. sales \in [Positions -> Seq(Entries)]
  BY Typed DEF Inv
<1>4. ASSUME NEW p \in Positions
      PROVE  /\ sales'[p] \in Seq(Entries) /\ Len(sales'[p]) = Len(sales[p])
             /\ \A i \in 1 .. Len(sales[p]) : sales'[p][i] = Over(sales[p][i])
  <2>1. /\ sales[p] \in Seq(Entries) /\ Len(sales[p]) \in Nat /\ DOMAIN sales[p] = 1 .. Len(sales[p])
        /\ \A i \in 1 .. Len(sales[p]) : sales[p][i] \in Entries
    BY <1>3
  <2>2. sales'[p] = [i \in 1 .. Len(sales[p]) |-> Over(sales[p][i])]
    <3>1. sales'[p] = [i \in DOMAIN sales[p] |-> Over(sales[p][i])]
      BY <1>1, Zenon
    <3> QED
      BY <2>1, <3>1, Zenon
  <2>3. sales'[p] \in [1 .. Len(sales[p]) -> Entries]
    BY <1>2, <2>1, <2>2
  <2>4. sales'[p] \in Seq(Entries)
    <3>1. PICK n \in Nat : n = Len(sales[p])
      BY <2>1
    <3>2. sales'[p] \in [1 .. n -> Entries]
      BY <2>3, <3>1
    <3>3. \E m \in Nat : sales'[p] \in [1 .. m -> Entries]
      BY <3>2, Zenon
    <3> QED
      BY <3>3, SeqDef, Zenon
  <2>5. Len(sales'[p]) = Len(sales[p])
    BY <2>1, <2>3, <2>4, LenProperties
  <2> QED
    BY <2>2, <2>4, <2>5
<1>5. sales' \in [Positions -> Seq(Entries)]
  BY <1>1, <1>4
<1>6. Bounded' /\ Sent' = Sent
  BY <1>4 DEF Bounded, Sent, Refs, Inv
<1>7. ASSUME NEW s \in Sent
      PROVE  /\ Sale(s)'.step = Sale(s).step
             /\ Sale(s)'.fate = IF Sale(s).fate = "unsent" THEN "dead" ELSE Sale(s).fate
  <2>1. s[1] \in Positions /\ s[2] \in 1 .. Len(sales[s[1]]) /\ sales[s[1]][s[2]] \in Entries
    BY Shape DEF Inv, Sale
  <2>2. sales'[s[1]][s[2]] = Over(sales[s[1]][s[2]])
    BY <1>4, <2>1
  <2> QED
    BY <1>2, <2>1, <2>2 DEF Sale
<1> QED
  BY <1>4, <1>5, <1>6, <1>7

\* The process ends anywhere, and the next one rehydrates the sets it can read.
LEMMA RestartInv ==
    ASSUME Inv, Restart
    PROVE  Inv'
<1> USE DEF Inv
<1>0. PICK read \in Loaded(stored.details), held \in Loaded(stored.holds) :
         /\ details' = read /\ queue' = read /\ holds' = held
         /\ marks' = [p \in Positions |-> Cardinality(Of(p, read))]
         /\ forgotten' = forgotten \cup
               {p \in Positions : \E r \in Of(p, Sent) :
                   Sale(r).fate = "flying" /\ r \notin read \cup held}
         /\ superseded' = superseded \cup
               {p \in Positions : \E r \in Of(p, read \cup held) : Sale(r).step > 0 /\ Retaken(r)}
  BY DEF Restart
<1> DEFINE kept == read \cup held
<1>r. read \subseteq stored.details /\ held \subseteq stored.holds
  BY DEF Loaded
<1>1. /\ restarts < MaxRestarts /\ restarts' = restarts + 1
      /\ details' = read /\ queue' = read /\ holds' = held
      /\ marks' = [p \in Positions |-> Cardinality(Of(p, read))]
      /\ call' = [p \in Positions |-> IdleCall] /\ worker' = IdleWorker
      /\ forgotten' = forgotten \cup
            {p \in Positions : \E r \in Of(p, Sent) : Sale(r).fate = "flying" /\ r \notin kept}
      /\ superseded' = superseded \cup
            {p \in Positions : \E r \in Of(p, kept) : Sale(r).step > 0 /\ Retaken(r)}
      /\ UNCHANGED <<level, stored>>
  BY <1>0 DEF Restart
<1>2. /\ sales' \in [Positions -> Seq(Entries)] /\ Bounded' /\ Sent' = Sent
      /\ \A q \in Positions : Len(sales'[q]) = Len(sales[q])
      /\ \A s \in Sent :
            /\ Sale(s)'.step = Sale(s).step
            /\ Sale(s)'.fate = IF Sale(s).fate = "unsent" THEN "dead" ELSE Sale(s).fate
  BY Restarted
<1>3. Onward
  BY <1>2 DEF Onward, Sale
<1>4. \A p \in Positions :
         Cardinality(Of(p, read)) = IF \E r \in read : r[1] = p THEN 1 ELSE 0
  <2>1. ASSUME NEW p \in Positions, NEW r \in read, r[1] = p
        PROVE  Cardinality(Of(p, read)) = 1
    <3>1. Of(p, read) = {r}
      BY <1>r, <2>1 DEF Of, RecordsInv, Single
    <3> QED
      BY <3>1, FS_Singleton
  <2>2. ASSUME NEW p \in Positions, ~ \E r \in read : r[1] = p
        PROVE  Cardinality(Of(p, read)) = 0
    <3>1. Of(p, read) = {}
      BY <2>2 DEF Of
    <3> QED
      BY <3>1, FS_EmptySet
  <2> QED
    BY <2>1, <2>2
<1>5. /\ marks' \in [Positions -> 0 .. 1]
      /\ \A p \in Positions : marks'[p] = IF \E r \in queue' : r[1] = p THEN 1 ELSE 0
  BY <1>1, <1>4
<1>6. /\ call' \in [Positions -> CallRecords] /\ \A p \in Positions : call'[p].pc = "idle"
      /\ worker' \in WorkerRecords /\ worker'.pc = "idle"
  BY <1>1 DEF IdleCall, IdleWorker, CallRecords, WorkerRecords
<1>7. restarts' \in 0 .. MaxRestarts /\ forgotten' \subseteq Positions /\ superseded' \subseteq Positions
  BY <1>1, Typed
<1>8. TypeOK'
  BY <1>1, <1>2, <1>5, <1>6, <1>7, <1>r, Typed, TypedStep
<1>9. RecordsInv'
  BY <1>1, <1>6, <1>r DEF RecordsInv, Single
<1>10. CountInv'
  BY <1>1, <1>5, <1>6 DEF CountInv, CallFor, IdleFor
<1>11. FlyingInv'
  <2>1. \A s \in Sent : Sale(s)'.fate = "flying" => Sale(s).fate = "flying"
    BY <1>2 DEF Sale
  <2>2. ASSUME NEW p \in Positions \ forgotten', NEW r \in Of(p, Sent), Sale(r)'.fate = "flying"
        PROVE  r \in details' \cup holds'
    <3>1. Sale(r).fate = "flying"
      BY <2>1, <2>2 DEF Of, Sale
    <3> QED
      BY <1>1, <3>1
  <2> QED
    BY <1>1, <1>2, <1>6, <2>1, <2>2, FlyingKept DEF Sale
<1>12. StepInv'
  <2>1. ASSUME NEW s \in queue' \cup details' \cup holds', s[1] \notin superseded', Sale(s).step > 0
        PROVE  ~ Retaken(s)
    <3>1. s \in kept /\ s[1] \in Positions
      BY <1>1, <1>r, <2>1, Typed, Shape
    <3> QED
      BY <1>1, <2>1, <3>1 DEF Of
  <2>2. LevelHolds /\ superseded \subseteq superseded'
    BY <1>1, <1>3, LevelKept
  <2> QED
    BY <1>3, <2>1, <2>2, StepKept
<1> QED
  BY <1>2, <1>8, <1>9, <1>10, <1>11, <1>12

----------------------------------------------------------------------------
(* The theorems *)

\* The initial state: nothing was sold.
LEMMA InitInv == Init => Inv
<1> SUFFICES ASSUME Init PROVE Inv
  OBVIOUS
<1>1. \A p \in Positions : sales[p] = <<>> /\ Len(sales[p]) = 0 /\ sales[p] \in Seq(Entries)
  BY EmptySeq DEF Init
<1>2. Sent = {}
  BY <1>1, PartialExitConstants DEF Sent, Refs
<1>3. sales \in [Positions -> Seq(Entries)]
  BY <1>1 DEF Init
<1>4. /\ call \in [Positions -> CallRecords] /\ worker \in WorkerRecords /\ worker.pc = "idle"
      /\ \A p \in Positions : call[p].pc = "idle"
  BY DEF Init, IdleCall, IdleWorker, CallRecords, WorkerRecords
<1>5. /\ level \in [Positions -> 0 .. Steps] /\ marks \in [Positions -> 0 .. 1]
      /\ restarts \in 0 .. MaxRestarts
  BY PartialExitConstants DEF Init
<1>6. /\ stored \in [details : SUBSET Sent, holds : SUBSET Sent]
      /\ details = {} /\ holds = {} /\ queue = {} /\ forgotten = {} /\ superseded = {}
  BY DEF Init
<1>7. TypeOK
  BY <1>3, <1>4, <1>5, <1>6, Zenon DEF TypeOK, Entries, Fates, CallRecords, WorkerRecords
<1>8. Bounded
  BY <1>1, PartialExitConstants DEF Bounded
<1>9. RecordsInv /\ CountInv
  <2>1. stored.details = {} /\ \A p \in Positions : marks[p] = 0
    BY DEF Init
  <2> QED
    BY <1>4, <1>6, <2>1 DEF RecordsInv, CountInv, Single, CallFor, IdleFor
<1>10. FlyingInv /\ StepInv
  BY <1>2 DEF FlyingInv, StepInv, Of
<1> QED
  BY <1>7, <1>8, <1>9, <1>10 DEF Inv

\* Every step keeps the invariant.
LEMMA NextInv == Inv /\ [Next]_vars => Inv'
<1> SUFFICES ASSUME Inv, [Next]_vars PROVE Inv'
  OBVIOUS
<1>1. ASSUME NEW p \in Positions, StartSale(p) \/ CallStep(p) PROVE Inv'
  BY <1>1, StartSaleInv, LadderSendsInv, LadderFailsInv, LadderSignedInv, EnqueueSaleInv,
     LadderUnresolvedInv, HoldSaleInv DEF CallStep
<1>2. CASE WorkerStep
  BY <1>2, SettleUnsoldInv, BookSoldInv, SettleHoldInv, PersistsInv, PersistBookedInv DEF WorkerStep
<1>3. ASSUME NEW r \in Refs, ChainDecides(r) PROVE Inv'
  BY <1>3, ChainDecidesInv
<1>4. CASE Restart
  BY <1>4, RestartInv
<1>5. CASE UNCHANGED vars
  <2>1. UNCHANGED <<sales, level, stored, marks, details, holds, queue, call, worker, restarts,
                    forgotten, superseded>>
    BY <1>5 DEF vars, durable, memory, history
  <2>2. /\ Onward /\ Sent' = Sent /\ Bounded' /\ sales' \in [Positions -> Seq(Entries)]
        /\ \A s \in Sent : Sale(s)' = Sale(s)
        /\ \A q \in Positions : Len(sales'[q]) = Len(sales[q]) /\ Last(q)' = Last(q)
    BY <2>1, SameSales
  <2>3. TypeOK'
    BY <2>1, <2>2, Typed, TypedStep DEF Inv
  <2>4. RecordsInv'
    BY <2>1 DEF RecordsInv, Single, Inv
  <2>5. CountInv'
    <3>1. ASSUME NEW q \in Positions PROVE CallFor(q)' /\ IdleFor(q)'
      <4>1. Untouched(q)
        BY <2>1, <2>2 DEF Untouched, Sale
      <4> QED
        BY <4>1, UntouchedKept
    <3> QED
      BY <2>1, <3>1 DEF CountInv, Inv
  <2>6. FlyingInv' /\ StepInv'
    BY <2>1, <2>2, FlyingKept, LevelKept, StepKept DEF Sale
  <2> QED
    BY <2>2, <2>3, <2>4, <2>5, <2>6 DEF Inv
<1> QED
  BY <1>1, <1>2, <1>3, <1>4, <1>5 DEF Next

\* The invariant holds throughout.
LEMMA Invariant == Spec => []Inv
  BY InitInv, NextInv, PTL DEF Spec

\* Every variable keeps its type: the counter of a mint is 0 or 1, and the details and the
\* holds, in memory, in the store and in every copy on its way there, are of sales that were
\* sent.
THEOREM ExitsTyped == Spec => []TypeOK
<1>1. Inv => TypeOK
  BY DEF Inv
<1> QED
  BY <1>1, Invariant, PTL

\* A set with no two elements has at most one.
LEMMA AtMostOneElement ==
    ASSUME NEW S, \A r, s \in S : r = s
    PROVE  Cardinality(S) <= 1
<1>1. CASE S = {}
  BY <1>1, FS_EmptySet
<1>2. CASE S # {}
  <2>1. PICK r \in S : S = {r}
    BY <1>2
  <2> QED
    BY <2>1, FS_Singleton
<1> QED
  BY <1>1, <1>2

\* partial_close.rs, is_partial_exit_pending: a mint never has two sales in flight, across
\* calls, bookings, holds, failed writes and restarts, unless a restart found no record of
\* one in flight.
THEOREM OneSaleAtATime == Spec => []SalesSerialized
<1>1. ASSUME Inv PROVE SalesSerialized
  <2>1. ASSUME NEW p \in Positions \ forgotten
        PROVE  Cardinality({r \in Of(p, Sent) : Sale(r).fate = "flying"}) <= 1
    <3> DEFINE S == {r \in Of(p, Sent) : Sale(r).fate = "flying"}
    <3>1. \A r, s \in S : r = s
      BY <1>1 DEF Inv, FlyingInv
    <3> HIDE DEF S
    <3>2. Cardinality(S) <= 1
      BY <3>1, AtMostOneElement
    <3> QED
      BY <3>2 DEF S
  <2> QED
    BY <2>1 DEF SalesSerialized
<1> QED
  BY <1>1, Invariant, PTL

\* reserve_take_profit_step, release_take_profit_step: a step is sold at most once, unless a
\* restart is given a stale record of it after a later sale has taken the step.
THEOREM StepsSoldOnce == Spec => []StepSoldOnce
<1>1. ASSUME Inv PROVE StepSoldOnce
  <2>1. ASSUME NEW p \in Positions \ superseded, NEW step \in 1 .. Steps
        PROVE  Cardinality({r \in Of(p, Sent) :
                  Sale(r).step = step /\ Sale(r).fate \in {"flying", "landed"}}) <= 1
    <3> DEFINE S == {r \in Of(p, Sent) :
                  Sale(r).step = step /\ Sale(r).fate \in {"flying", "landed"}}
    <3>1. ASSUME NEW r \in S, NEW s \in S, r # s PROVE FALSE
      <4>1. /\ r \in Of(p, Sent) /\ s \in Of(p, Sent) /\ Sale(r).step = step /\ Sale(s).step = step
            /\ Sale(r).fate # "dead" /\ Sale(s).fate # "dead" /\ step > 0
        BY Typed, <1>1 DEF Inv
      <4>2. r = <<p, r[2]>> /\ s = <<p, s[2]>> /\ r[2] \in Nat /\ s[2] \in Nat
        BY <1>1, <4>1, Shape DEF Inv, Of
      <4>3. r[2] < s[2] \/ s[2] < r[2]
        BY <3>1, <4>2
      <4> QED
        BY <1>1, <4>1, <4>3 DEF Inv, StepInv
    <3>2. \A r, s \in S : r = s
      BY <3>1
    <3> HIDE DEF S
    <3>3. Cardinality(S) <= 1
      BY <3>2, AtMostOneElement
    <3> QED
      BY <3>3 DEF S
  <2> QED
    BY <2>1 DEF StepSoldOnce, AtMostOnce
<1> QED
  BY <1>1, Invariant, PTL

\* A mint is kept from selling only by what will free it: a call, a sale in verification or
\* a hold.  The counter leaks nowhere, whatever write fails and wherever the process ends.
THEOREM CounterNeverLeaks == Spec => []BlockedForCause
<1>1. ASSUME Inv PROVE BlockedForCause
  <2>1. ASSUME NEW p \in Positions, marks[p] > 0, call[p].pc = "idle" PROVE Of(p, queue) # {}
    <3>1. \E r \in queue : r[1] = p
      BY <1>1, <2>1 DEF Inv, CountInv, IdleFor
    <3> QED
      BY <3>1 DEF Of
  <2> QED
    BY <2>1 DEF BlockedForCause, is_partial_exit_pending
<1> QED
  BY <1>1, Invariant, PTL

=============================================================================
