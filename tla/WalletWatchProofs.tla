-------------------------- MODULE WalletWatchProofs --------------------------
(***************************************************************************)
(* That the watch of a wallet publishes nothing twice, passes nothing over *)
(* and starts when the wallet was added, for every page size, page budget, *)
(* channel capacity, number of retries and history, and any number of      *)
(* transactions, outages and restarts.                                     *)
(*                                                                         *)
(* The first invariant is about the funnel: a signature that is about to   *)
(* be recorded or committed is not known yet, and what is published is     *)
(* known, so whatever brings the signature again is turned away.  The      *)
(* second is about the range of a poll: its pages are contiguous from the  *)
(* newest signature down, a complete range reaches the cursor it was       *)
(* opened at, and the replay has finished with every signature below the   *)
(* one in hand.  It needs reads of the cursor that do not fail, and nodes  *)
(* that know what was seen before: the two constants that say so are       *)
(* assumed where they are used.                                            *)
(***************************************************************************)
EXTENDS WalletWatch, SequenceTheorems, WellFoundedInduction, TLAPS

InFunnel == worker.pc \in {"seen", "record", "commit", "publish"}

\* The signature in the funnel, by how far it is.
FunnelInv ==
    /\ InFunnel => worker.sig \in 1 .. head /\ worker.job # "none"
    /\ worker.pc = "record" =>
          worker.sig \notin known /\ (worker.loud => worker.sig \notin failed)
    /\ worker.pc = "commit" =>
          worker.sig \notin known /\ (worker.loud => worker.sig \in recorded \ failed)
    /\ worker.pc = "publish" =>
          worker.sig \in (known \intersect recorded) \ failed /\ published[worker.sig] = 0

\* The range of a poll, and where the worker stands in it.
RangeInv ==
    /\ ~ range.open => range = NoRange
    /\ range.newest # 0 => 0 < range.low /\ range.low <= range.newest
    /\ worker.pc = "page" => worker.job = "poll" /\ range.open /\ ~ range.complete
    /\ worker.pc = "cursor" => range.open /\ range.complete
    /\ InFunnel /\ worker.job = "poll" =>
          /\ range.open /\ range.complete /\ ~ range.baseline
          /\ range.newest # 0 /\ range.low <= worker.sig /\ worker.sig <= range.newest

Inv == TypeOK /\ FunnelInv /\ RangeInv /\ PublishedOnce

\* The funnel is done with the signature.
Handled(s) == s \in known \/ (s \in failed /\ ~ Own)

\* What the range of a poll stands for while reads of the cursor do not fail and no node lags.
CursorInv ==
    /\ cursor.row \/ cursor.at = 0
    /\ ~ enabled => range = NoRange /\ worker.pc \in {"start", "idle", "gone"}
    /\ range.open => /\ range.until = cursor.at /\ (range.initial <=> range.until = 0)
                     /\ range.baseline <=> (~ Own /\ ~ cursor.row)
    /\ range.newest # 0 => range.until < range.low
    /\ range.complete /\ range.newest # 0 /\ ~ range.initial => range.low = range.until + 1

\* What a replay has finished with.
ReplayInv ==
    /\ InFunnel /\ worker.job = "poll" /\ worker.ok =>
          \A s \in Sigs : range.low <= s /\ s < worker.sig => Handled(s)
    /\ worker.pc = "cursor" /\ range.newest # 0 /\ ~ range.baseline =>
          \A s \in Sigs : range.low <= s /\ s <= range.newest => Handled(s)

\* Nothing a watched wallet did before it was added is on its way to the funnel.
SinceInv ==
    ~ Own =>
       /\ cursor.row => since <= cursor.at
       /\ stream.up => since <= stream.seen
       /\ \A i \in 1 .. Len(events) : since < events[i]
       /\ \A r \in retries : since < r[1]
       /\ InFunnel => since < worker.sig
       /\ range.baseline /\ (range.complete \/ range.newest # 0) => since <= range.newest

WatchInv == Inv /\ CursorInv /\ ReplayInv /\ SinceInv /\ NothingSkipped /\ WatchStartsNow

Workers == [job : {"none", "event", "retry", "poll"},
            pc : {"start", "idle", "gone", "page", "seen", "record", "commit", "publish", "cursor"},
            sig : 0 .. head, n : 0 .. PageBudget + Attempts, ok : BOOLEAN, loud : BOOLEAN]
Ranges == [open : BOOLEAN, until : 0 .. head, initial : BOOLEAN, baseline : BOOLEAN,
           low : 0 .. head, newest : 0 .. head, complete : BOOLEAN]
Streams == [up : BOOLEAN, seen : 0 .. head, pending : SUBSET (1 .. head)]

\* The bounds a proof computes with.
LEMMA Bounds ==
    ASSUME TypeOK
    PROVE  /\ MaxTx \in Nat /\ PageSize \in Nat \ {0} /\ PageBudget \in Nat \ {0}
           /\ Attempts \in Nat /\ Capacity \in Nat \ {0}
           /\ head \in Nat /\ head <= MaxTx /\ since \in Nat /\ since <= head
           /\ worker \in Workers /\ range \in Ranges /\ stream \in Streams
BY WatchConstants DEF TypeOK, Workers, Ranges, Streams

\* A worker at rest.
LEMMA AtRest ==
    ASSUME head \in Nat, PageBudget \in Nat, Attempts \in Nat
    PROVE  /\ \A pc \in {"start", "idle", "gone", "page", "seen", "cursor"} :
                 /\ Rest(pc) \in Workers /\ Rest(pc).pc = pc /\ Rest(pc).job = "none"
                 /\ Rest(pc).sig = 0
           /\ Idle \in Workers /\ Idle.pc = "idle"
BY DEF Rest, Idle, Workers

\* No range, no stream.
LEMMA NoneOpen ==
    ASSUME head \in Nat
    PROVE  NoRange \in Ranges /\ NoStream \in Streams /\ ~ NoRange.open /\ NoRange.newest = 0
BY DEF NoRange, NoStream, Ranges, Streams

\* Records of the worker, by their fields.
LEMMA WorkerRecord ==
    ASSUME NEW job \in {"none", "event", "retry", "poll"},
           NEW pc \in {"start", "idle", "gone", "page", "seen", "record", "commit", "publish", "cursor"},
           NEW sig \in 0 .. head, NEW n \in 0 .. PageBudget + Attempts,
           NEW ok \in BOOLEAN, NEW loud \in BOOLEAN
    PROVE  [job |-> job, pc |-> pc, sig |-> sig, n |-> n, ok |-> ok, loud |-> loud] \in Workers
BY Zenon DEF Workers

\* What becomes of a signature the funnel is done with: a poll goes on to the next one, or
\* to the cursor when every outcome was terminal; a retry keeps the signature.
LEMMA FinishEffect ==
    ASSUME Inv, InFunnel, NEW outcome, Finish(outcome)
    PROVE  /\ worker' \in Workers
           /\ \/ worker' = Idle
              \/ /\ worker.job = "poll" /\ worker'.pc = "seen" /\ worker'.job = "poll"
                 /\ worker.sig < range.newest /\ worker'.sig = worker.sig + 1
                 /\ worker'.ok = (worker.ok /\ outcome = "terminal")
              \/ /\ worker.job = "poll" /\ worker'.pc = "cursor" /\ worker'.job = "poll"
                 /\ worker.sig = range.newest /\ worker.ok /\ outcome = "terminal"
           /\ retries' \subseteq (1 .. head) \X (0 .. Attempts)
           /\ \A r \in retries' : r \in retries \/ r[1] = worker.sig
<1> DEFINE Moved ==
           /\ worker' \in Workers
           /\ \/ worker' = Idle
              \/ /\ worker.job = "poll" /\ worker'.pc = "seen" /\ worker'.job = "poll"
                 /\ worker.sig < range.newest /\ worker'.sig = worker.sig + 1
                 /\ worker'.ok = (worker.ok /\ outcome = "terminal")
              \/ /\ worker.job = "poll" /\ worker'.pc = "cursor" /\ worker'.job = "poll"
                 /\ worker.sig = range.newest /\ worker.ok /\ outcome = "terminal"
<1>1. /\ head \in Nat /\ PageBudget \in Nat /\ Attempts \in Nat
      /\ worker \in Workers /\ range \in Ranges /\ worker.sig \in 1 .. head
      /\ retries \subseteq (1 .. head) \X (0 .. Attempts)
  BY Bounds DEF Inv, FunnelInv, TypeOK
<1>2. /\ retries' \subseteq (1 .. head) \X (0 .. Attempts)
      /\ \A r \in retries' : r \in retries \/ r[1] = worker.sig
  <2> DEFINE next == IF worker.job = "event" THEN 0 ELSE worker.n + 1
  <2>1. retries' = retries \/ (next < Attempts /\ retries' = retries \union {<<worker.sig, next>>})
    BY DEF Finish
  <2>2. next \in Nat
    BY <1>1 DEF Workers
  <2> HIDE DEF next
  <2> QED
    BY <1>1, <2>1, <2>2
<1>3. ASSUME worker.job # "poll" PROVE Moved
  BY <1>1, <1>3, AtRest DEF Finish
<1>4. ASSUME worker.job = "poll" PROVE Moved
  <2>1. worker' = Finished(outcome) /\ worker.sig <= range.newest /\ range.newest \in 0 .. head
    BY <1>1, <1>4 DEF Finish, Inv, RangeInv, Ranges
  <2>2. CASE worker.sig < range.newest
    <3> DEFINE ok == worker.ok /\ outcome = "terminal"
               next == worker.sig + 1
    <3>1. worker' = [Rest("seen") EXCEPT !.job = "poll", !.sig = next, !.ok = ok]
      BY <2>1, <2>2 DEF Finished
    <3>2. next \in 0 .. head /\ ok \in BOOLEAN
      BY <1>1, <2>1, <2>2
    <3> HIDE DEF ok, next
    <3>3. /\ worker' \in Workers /\ worker'.pc = "seen" /\ worker'.job = "poll"
          /\ worker'.sig = next /\ worker'.ok = ok
      <4>1. worker' = [job |-> "poll", pc |-> "seen", sig |-> next, n |-> 0, ok |-> ok, loud |-> FALSE]
        BY <3>1 DEF Rest
      <4>2. 0 \in 0 .. PageBudget + Attempts
        BY <1>1
      <4>3. worker' \in Workers
        BY <3>2, <4>1, <4>2, WorkerRecord
      <4> QED
        BY <4>1, <4>3
    <3> QED
      BY <1>4, <2>2, <3>3 DEF ok, next
  <2>3. CASE worker.sig = range.newest
    <3>1. worker' = IF worker.ok /\ outcome = "terminal"
                    THEN [Rest("cursor") EXCEPT !.job = "poll"] ELSE Idle
      BY <1>1, <2>1, <2>3 DEF Finished
    <3>2. CASE worker.ok /\ outcome = "terminal"
      <4>1. worker' = [Rest("cursor") EXCEPT !.job = "poll"]
        BY <3>1, <3>2
      <4>2. worker' \in Workers /\ worker'.pc = "cursor" /\ worker'.job = "poll"
        BY <1>1, <4>1, AtRest DEF Rest, Workers
      <4>3. /\ worker.job = "poll" /\ worker'.pc = "cursor" /\ worker'.job = "poll"
            /\ worker.sig = range.newest /\ worker.ok /\ outcome = "terminal"
        BY <1>4, <2>3, <3>2, <4>2
      <4> QED
        BY <4>2, <4>3
    <3>3. CASE ~ (worker.ok /\ outcome = "terminal")
      <4>1. worker' = Idle /\ Idle \in Workers
        BY <1>1, <3>1, <3>3, AtRest
      <4> QED
        BY <4>1
    <3> QED
      BY <3>2, <3>3
  <2> QED
    BY <1>1, <2>1, <2>2, <2>3
<1> QED
  BY <1>2, <1>3, <1>4

\* Records of a range, by their fields.
LEMMA RangeRecord ==
    ASSUME NEW open \in BOOLEAN, NEW until \in 0 .. head, NEW initial \in BOOLEAN,
           NEW baseline \in BOOLEAN, NEW low \in 0 .. head, NEW newest \in 0 .. head,
           NEW complete \in BOOLEAN
    PROVE  [open |-> open, until |-> until, initial |-> initial, baseline |-> baseline,
            low |-> low, newest |-> newest, complete |-> complete] \in Ranges
BY Zenon DEF Ranges

\* The types of what a step of the worker writes, its chain, cursor and history as they were.
LEMMA TypedStep ==
    ASSUME TypeOK, UNCHANGED chain,
           enabled' \in BOOLEAN, cursor' \in [row : BOOLEAN, at : 0 .. head], base' \in 0 .. head,
           known' \subseteq 1 .. head, recorded' \subseteq 1 .. head,
           published' \in [Sigs -> Nat], connected' \in BOOLEAN, stream' \in Streams,
           events' \in Seq(1 .. head), Len(events') <= Capacity,
           overflowed' \in BOOLEAN, gapfill' \in BOOLEAN,
           retries' \subseteq (1 .. head) \X (0 .. Attempts),
           range' \in Ranges, worker' \in Workers, faults' \in 0 .. MaxFaults
    PROVE  TypeOK'
<1>1. UNCHANGED <<kind, head, failed, since>>
  BY DEF chain
<1>2. UNCHANGED <<Sigs>>
  BY DEF Sigs
<1> QED
  BY <1>1, <1>2, Zenon DEF TypeOK, Workers, Ranges, Streams

\* The invariant of the funnel while the worker rests, pages or takes up a signature, and
\* nothing is forgotten.
LEMMA FunnelKept ==
    ASSUME Inv, UNCHANGED <<kind, head, failed, published, recorded, known>>,
           \/ worker' = worker
           \/ worker'.pc \in {"start", "idle", "gone", "page", "cursor"}
           \/ worker'.pc = "seen" /\ worker'.sig \in 1 .. head /\ worker'.job # "none"
    PROVE  FunnelInv' /\ PublishedOnce'
<1>1. PublishedOnce'
  BY DEF Inv, PublishedOnce, Sigs
<1>2. CASE worker' = worker
  BY <1>1, <1>2, Zenon DEF Inv, FunnelInv, InFunnel
<1>3. CASE worker' # worker
  <2>1. worker'.pc \notin {"record", "commit", "publish"}
    BY <1>3
  <2>2. InFunnel' => worker'.sig \in 1 .. head' /\ worker'.job # "none"
    BY <1>3 DEF InFunnel
  <2> QED
    BY <1>1, <2>1, <2>2, Zenon DEF FunnelInv
<1> QED
  BY <1>1, <1>2, <1>3

\* The invariant of the range while a step leaves the worker and its range alone.
LEMMA RangeKept ==
    ASSUME Inv, UNCHANGED <<range, worker>>
    PROVE  RangeInv'
BY DEF Inv, RangeInv, InFunnel

----------------------------------------------------------------------------
(* The steps *)

\* The initial state.
LEMMA InitInv == Init => Inv
<1> SUFFICES ASSUME Init PROVE Inv
  OBVIOUS
<1>1. /\ MaxTx \in Nat /\ PageBudget \in Nat /\ Attempts \in Nat /\ Capacity \in Nat
      /\ History \in Nat /\ MaxFaults \in Nat /\ head \in Nat
  BY WatchConstants DEF Init
<1>2. worker \in Workers /\ range \in Ranges /\ stream \in Streams
  BY <1>1, AtRest, NoneOpen DEF Init
<1>3. events \in Seq(1 .. head) /\ Len(events) = 0
  BY EmptySeq DEF Init
<1>4. head \in 0 .. MaxTx
  BY WatchConstants DEF Init
<1>5. cursor \in [row : BOOLEAN, at : 0 .. head] /\ base \in 0 .. head /\ since \in 0 .. head
  BY <1>1 DEF Init
<1>6. published \in [Sigs -> Nat] /\ faults \in 0 .. MaxFaults
  BY <1>1 DEF Init
<1>7. Len(events) <= Capacity
  BY <1>1, <1>3
<1>8. TypeOK
  BY <1>2, <1>3, <1>4, <1>5, <1>6, <1>7, Zenon DEF Init, TypeOK, Workers, Ranges, Streams
<1>9. FunnelInv /\ RangeInv
  BY DEF Init, FunnelInv, RangeInv, InFunnel, Rest, NoRange
<1>10. PublishedOnce
  BY <1>1 DEF Init, PublishedOnce
<1> QED
  BY <1>8, <1>9, <1>10 DEF Inv

\* A transaction lands, after every one there is.
LEMMA LandInv ==
    ASSUME Inv, Land
    PROVE  Inv'
<1>1. /\ head \in Nat /\ head < MaxTx /\ MaxTx \in Nat /\ head' = head + 1
      /\ failed' = failed \/ failed' = failed \union {head + 1}
      /\ UNCHANGED <<kind, since, enabled, cursor, known, recorded, base, published, connected,
                     stream, events, overflowed, gapfill, retries, range, worker, faults>>
  BY Bounds DEF Inv, Land, store, feed
<1>2. 0 .. head \subseteq 0 .. head' /\ 1 .. head \subseteq 1 .. head' /\ head' \in 0 .. MaxTx
  BY <1>1
<1>3. events' \in Seq(1 .. head')
  BY <1>1, <1>2, SeqMonotonic DEF Inv, TypeOK
<1>4. failed' \subseteq 1 .. head' /\ since' \in 0 .. head'
  <2>1. failed \subseteq 1 .. head /\ since \in 0 .. head
    BY DEF Inv, TypeOK
  <2>2. head + 1 \in 1 .. head'
    BY <1>1
  <2> QED
    BY <1>1, <1>2, <2>1, <2>2
<1>5. /\ cursor' \in [row : BOOLEAN, at : 0 .. head'] /\ base' \in 0 .. head'
      /\ known' \subseteq 1 .. head' /\ recorded' \subseteq 1 .. head'
  BY <1>1, <1>2, Zenon DEF Inv, TypeOK
<1>6. /\ stream' \in [up : BOOLEAN, seen : 0 .. head', pending : SUBSET (1 .. head')]
      /\ retries' \subseteq (1 .. head') \X (0 .. Attempts)
  BY <1>1, <1>2, Zenon DEF Inv, TypeOK
<1>7. range' \in [open : BOOLEAN, until : 0 .. head', initial : BOOLEAN, baseline : BOOLEAN,
                  low : 0 .. head', newest : 0 .. head', complete : BOOLEAN]
  BY <1>1, <1>2, Zenon DEF Inv, TypeOK
<1>8. worker' \in [job : {"none", "event", "retry", "poll"},
                   pc : {"start", "idle", "gone", "page", "seen", "record", "commit",
                         "publish", "cursor"},
                   sig : 0 .. head', n : 0 .. PageBudget + Attempts, ok : BOOLEAN, loud : BOOLEAN]
  BY <1>1, <1>2, Zenon DEF Inv, TypeOK
<1>9. TypeOK'
  BY <1>1, <1>2, <1>3, <1>4, <1>5, <1>6, <1>7, <1>8, Zenon DEF Inv, TypeOK, Sigs
<1>10. \A s \in 1 .. head : s \in failed' <=> s \in failed
  BY <1>1
<1>11. FunnelInv'
  BY <1>1, <1>2, <1>10 DEF Inv, FunnelInv, InFunnel
<1>12. PublishedOnce'
  BY <1>1, <1>10 DEF Inv, TypeOK, PublishedOnce, Sigs
<1>13. RangeInv'
  BY <1>1, RangeKept
<1> QED
  BY <1>9, <1>11, <1>12, <1>13 DEF Inv

\* The types a step takes over from the state before it.
LEMMA Typed ==
    ASSUME Inv
    PROVE  /\ enabled \in BOOLEAN /\ cursor \in [row : BOOLEAN, at : 0 .. head] /\ base \in 0 .. head
           /\ known \subseteq 1 .. head /\ recorded \subseteq 1 .. head
           /\ published \in [Sigs -> Nat] /\ connected \in BOOLEAN /\ stream \in Streams
           /\ events \in Seq(1 .. head) /\ Len(events) <= Capacity
           /\ overflowed \in BOOLEAN /\ gapfill \in BOOLEAN
           /\ retries \subseteq (1 .. head) \X (0 .. Attempts)
           /\ range \in Ranges /\ worker \in Workers /\ faults \in 0 .. MaxFaults
           /\ failed \subseteq 1 .. head
BY Zenon DEF Inv, TypeOK, Workers, Ranges, Streams

\* try_send keeps the channel within its capacity.
LEMMA DeliverTyped ==
    ASSUME Inv, NEW s \in 1 .. head, Deliver(s)
    PROVE  /\ events' \in Seq(1 .. head) /\ Len(events') <= Capacity /\ overflowed' \in BOOLEAN
           /\ events' = events \/ events' = Append(events, s)
<1>1. /\ events \in Seq(1 .. head) /\ Len(events) <= Capacity /\ Capacity \in Nat
      /\ overflowed \in BOOLEAN
  BY Typed, Bounds DEF Inv
<1>2. CASE events' = events /\ overflowed' \in {overflowed, TRUE}
  BY <1>1, <1>2
<1>3. CASE Len(events) < Capacity /\ events' = Append(events, s) /\ overflowed' = overflowed
  BY <1>1, <1>3
<1> QED
  BY <1>2, <1>3 DEF Deliver

\* Of a set of signatures there is an oldest.
LEMMA OldestExists ==
    ASSUME NEW S \in SUBSET Nat, S # {}
    PROVE  \E x \in S : \A y \in S : x <= y
<1> DEFINE R == OpToRel(<, Nat)
<1>1. PICK x \in S : \A y \in S : <<y, x>> \notin R
  BY NatLessThanWellFounded, WFMin
<1>2. ASSUME NEW y \in S PROVE x <= y
  <2>1. <<y, x>> \notin R
    BY <1>1
  <2> QED
    BY <2>1 DEF OpToRel
<1> QED
  BY <1>2

\* The transport and the forwarder touch neither the funnel nor the poll.
LEMMA FeedInv ==
    ASSUME Inv, Disconnect \/ Reconnect \/ StreamEnds \/ Subscribe \/ ReadVersion \/ Forward
    PROVE  Inv'
<1>1. UNCHANGED <<chain, store, published, retries, range, worker>>
  BY DEF Disconnect, Reconnect, StreamEnds, Subscribe, ReadVersion, Forward
<1>2. /\ head \in Nat /\ MaxTx \in Nat /\ MaxFaults \in Nat /\ NoStream \in Streams
      /\ faults \in 0 .. MaxFaults
  BY Bounds, Typed, NoneOpen, WatchConstants DEF Inv
<1>3. faults' \in 0 .. MaxFaults /\ connected' \in BOOLEAN
  <2>1. connected' \in BOOLEAN
    BY Typed DEF Disconnect, Reconnect, StreamEnds, Subscribe, ReadVersion, Forward
  <2>2. faults' = faults \/ (faults < MaxFaults /\ faults' = faults + 1)
    BY DEF Disconnect, Reconnect, StreamEnds, Subscribe, ReadVersion, Forward
  <2> QED
    BY <1>2, <2>1, <2>2
<1>4. stream' \in Streams
  <2>1. CASE Disconnect \/ Reconnect \/ StreamEnds
    BY <1>2, <2>1, Typed DEF Disconnect, Reconnect, StreamEnds
  <2>2. CASE Subscribe
    BY <1>2, <2>2 DEF Subscribe, Streams
  <2>3. CASE ReadVersion
    <3>1. {s \in stream.seen + 1 .. head : s + PageSize > head} \in SUBSET (1 .. head)
      BY <1>2, Typed DEF Streams
    <3> DEFINE pending == {s \in stream.seen + 1 .. head : s + PageSize > head}
    <3>2. stream' = [stream EXCEPT !.seen = head, !.pending = pending] /\ head \in 0 .. head
      BY <1>2, <2>3 DEF ReadVersion
    <3> HIDE DEF pending
    <3> QED
      BY <3>1, <3>2, Typed, Zenon DEF Streams, pending
  <2>4. CASE Forward
    <3>1. CASE stream.seen < head /\ stream' = [stream EXCEPT !.seen = @ + 1]
      <4>1. stream.seen + 1 \in 0 .. head
        BY <1>2, <3>1, Typed DEF Streams
      <4> QED
        BY <3>1, <4>1, Typed DEF Streams
    <3>2. CASE \E s : stream' = [stream EXCEPT !.pending = @ \ {s}]
      BY <1>2, <3>2, Typed DEF Streams
    <3> QED
      BY <2>4, <3>1, <3>2, Zenon DEF Forward
  <2> QED
    BY <2>1, <2>2, <2>3, <2>4
<1>5. /\ events' \in Seq(1 .. head) /\ Len(events') <= Capacity
      /\ overflowed' \in BOOLEAN /\ gapfill' \in BOOLEAN
  <2>1. CASE Forward
    <3>1. \E s \in 1 .. head : Deliver(s)
      <4>1. CASE /\ stream.pending # {}
                 /\ Deliver(CHOOSE x \in stream.pending : \A y \in stream.pending : x <= y)
        <5> DEFINE s == CHOOSE x \in stream.pending : \A y \in stream.pending : x <= y
        <5>1. \E x \in stream.pending : \A y \in stream.pending : x <= y
          <6>1. stream.pending \in SUBSET Nat
            BY <1>2, Typed DEF Streams
          <6> QED
            BY <4>1, <6>1, OldestExists
        <5> QED
          BY <4>1, <5>1, Typed DEF Streams
      <4>2. CASE stream.seen < head /\ Deliver(stream.seen + 1)
        <5>1. stream.seen + 1 \in 1 .. head
          BY <1>2, <4>2, Typed DEF Streams
        <5> QED
          BY <4>2, <5>1
      <4> QED
        BY <2>1, <4>1, <4>2, Zenon DEF Forward
    <3> QED
      BY <2>1, <3>1, DeliverTyped, Typed DEF Forward
  <2>2. CASE ~ Forward
    <3>1. UNCHANGED <<events, overflowed>> /\ gapfill' \in {gapfill, TRUE, FALSE}
      BY <2>2 DEF Disconnect, Reconnect, StreamEnds, Subscribe, ReadVersion
    <3> QED
      BY <3>1, Typed
  <2> QED
    BY <2>1, <2>2
<1>6. TypeOK'
  <2>1. UNCHANGED <<enabled, cursor, known, recorded, base, published, retries, range, worker>>
    BY <1>1 DEF store
  <2> QED
    BY <1>1, <1>3, <1>4, <1>5, <2>1, Typed, TypedStep DEF Inv
<1>7. FunnelInv' /\ PublishedOnce'
  BY <1>1, FunnelKept DEF chain, store
<1> QED
  BY <1>1, <1>6, <1>7, RangeKept DEF Inv

\* The range while the funnel hands a signature on, or is done with it.
LEMMA FinishKeepsRange ==
    ASSUME Inv, InFunnel, NEW outcome, Finish(outcome), UNCHANGED range
    PROVE  /\ RangeInv'
           /\ \/ worker'.pc \in {"start", "idle", "gone", "page", "cursor"}
              \/ worker'.pc = "seen" /\ worker'.sig \in 1 .. head /\ worker'.job # "none"
<1>1. /\ head \in Nat /\ worker \in Workers /\ range \in Ranges /\ worker.sig \in 1 .. head
      /\ range.newest \in 0 .. head /\ PageBudget \in Nat /\ Attempts \in Nat
  BY Bounds DEF Inv, FunnelInv, Ranges
<1>2. CASE worker' = Idle
  BY <1>1, <1>2, AtRest DEF Inv, RangeInv, InFunnel
<1>3. CASE /\ worker.job = "poll" /\ worker'.pc = "seen" /\ worker'.job = "poll"
           /\ worker.sig < range.newest /\ worker'.sig = worker.sig + 1
  BY <1>1, <1>3 DEF Inv, RangeInv, InFunnel, Ranges
<1>4. CASE worker.job = "poll" /\ worker'.pc = "cursor"
  BY <1>1, <1>4 DEF Inv, RangeInv, InFunnel
<1> QED
  BY <1>2, <1>3, <1>4, FinishEffect

\* A step of the funnel keeps job and signature.
LEMMA StepEffect ==
    ASSUME Inv, NEW pc \in {"record", "commit", "publish"}, NEW loud \in BOOLEAN, Step(pc, loud)
    PROVE  /\ worker' \in Workers /\ worker'.pc = pc /\ worker'.loud = loud
           /\ worker'.sig = worker.sig /\ worker'.job = worker.job /\ worker'.ok = worker.ok
<1>1. worker \in Workers
  BY Bounds DEF Inv
<1>2. worker' = [worker EXCEPT !.pc = pc, !.loud = loud]
  BY DEF Step
<1> QED
  BY <1>1, <1>2, Zenon DEF Workers

\* The range while the signature moves through the funnel.
LEMMA StepKeepsRange ==
    ASSUME Inv, InFunnel, NEW pc \in {"record", "commit", "publish"}, NEW loud \in BOOLEAN,
           Step(pc, loud), UNCHANGED range
    PROVE  RangeInv'
BY StepEffect DEF Inv, RangeInv, InFunnel

\* process_signature up to the classification, and the ways out of it.
LEMMA ClassifiedInv ==
    ASSUME Inv, Classified
    PROVE  Inv'
<1>1. /\ UNCHANGED <<chain, store, published, feed, retries, range, faults>>
      /\ worker.pc = "seen" /\ InFunnel /\ worker.sig \notin known
      /\ worker.sig \in 1 .. head /\ worker.job # "none"
  BY DEF Classified, InFunnel, Inv, FunnelInv
<1>2. UNCHANGED <<kind, head, failed, since, enabled, cursor, known, recorded, base, published,
                  connected, stream, events, overflowed, gapfill, retries, range, faults>>
  BY <1>1 DEF chain, store, feed
<1>3. PICK pc \in {"record", "commit"}, loud \in BOOLEAN :
         Step(pc, loud) /\ (loud => pc = "record" /\ worker.sig \notin failed)
  BY DEF Classified
<1>4. /\ worker' \in Workers /\ worker'.pc = pc /\ worker'.loud = loud
      /\ worker'.sig = worker.sig /\ worker'.job = worker.job
  BY <1>3, StepEffect
<1>5. TypeOK'
  BY <1>1, <1>2, <1>4, Typed, TypedStep DEF Inv
<1>6. FunnelInv'
  <2>1. InFunnel' => worker'.sig \in 1 .. head' /\ worker'.job # "none"
    BY <1>1, <1>2, <1>4
  <2>2. worker'.sig \notin known' /\ worker'.pc \in {"record", "commit"}
    BY <1>1, <1>2, <1>4
  <2>3. worker'.loud => worker'.pc = "record" /\ worker'.sig \notin failed'
    BY <1>2, <1>3, <1>4
  <2> QED
    BY <2>1, <2>2, <2>3 DEF FunnelInv
<1>7. PublishedOnce'
  BY <1>2 DEF Inv, PublishedOnce, Sigs
<1>8. RangeInv'
  BY <1>1, <1>2, <1>3, StepKeepsRange
<1> QED
  BY <1>5, <1>6, <1>7, <1>8 DEF Inv

\* A signature that is known, or that fails for now, leaves the funnel unpublished.
LEMMA LeavesInv ==
    ASSUME Inv, Skipped \/ FunnelFails
    PROVE  Inv'
<1>1. /\ UNCHANGED <<chain, store, published, feed, range, faults>> /\ InFunnel
      /\ \E outcome : Finish(outcome)
  BY DEF Skipped, FunnelFails, InFunnel
<1>2. UNCHANGED <<kind, head, failed, since, enabled, cursor, known, recorded, base, published,
                  connected, stream, events, overflowed, gapfill, range, faults>>
  BY <1>1 DEF chain, store, feed
<1>3. PICK outcome : Finish(outcome)
  BY <1>1
<1>4. worker' \in Workers /\ retries' \subseteq (1 .. head) \X (0 .. Attempts)
  BY <1>1, <1>3, FinishEffect
<1>5. TypeOK'
  BY <1>1, <1>2, <1>4, Typed, TypedStep DEF Inv
<1>6. RangeInv' /\ FunnelInv' /\ PublishedOnce'
  BY <1>1, <1>2, <1>3, FinishKeepsRange, FunnelKept
<1> QED
  BY <1>5, <1>6 DEF Inv

\* recorder::record
LEMMA RecordInv ==
    ASSUME Inv, Record
    PROVE  Inv'
<1>1. /\ worker.pc = "record" /\ InFunnel /\ worker.sig \in 1 .. head /\ worker.sig \notin known
      /\ worker.loud => worker.sig \notin failed
      /\ worker.job # "none" /\ worker.loud \in BOOLEAN /\ Step("commit", worker.loud)
      /\ recorded' = recorded \union {worker.sig}
  BY Bounds DEF Record, InFunnel, Inv, FunnelInv, Workers
<1>2. UNCHANGED <<kind, head, failed, since, enabled, cursor, known, base, published,
                  connected, stream, events, overflowed, gapfill, retries, range, faults>>
  BY DEF Record, chain, feed
<1>3. /\ worker' \in Workers /\ worker'.pc = "commit" /\ worker'.loud = worker.loud
      /\ worker'.sig = worker.sig /\ worker'.job = worker.job
  BY <1>1, StepEffect
<1>4. TypeOK'
  <2>1. recorded' \subseteq 1 .. head
    BY <1>1, Typed
  <2> QED
    BY <1>2, <1>3, <2>1, Typed, TypedStep DEF Inv, chain
<1>5. FunnelInv'
  BY <1>1, <1>2, <1>3 DEF FunnelInv
<1>6. PublishedOnce'
  BY <1>1, <1>2 DEF Inv, PublishedOnce, Sigs
<1>7. RangeInv'
  BY <1>1, <1>2, StepKeepsRange
<1> QED
  BY <1>4, <1>5, <1>6, <1>7 DEF Inv

\* dedupe::commit: what is to be published was never known, so it was never published.
LEMMA CommitInv ==
    ASSUME Inv, Commit
    PROVE  Inv'
<1>1. /\ worker.pc = "commit" /\ InFunnel /\ worker.sig \in 1 .. head /\ worker.sig \notin known
      /\ worker.loud => worker.sig \in recorded \ failed
      /\ worker.job # "none" /\ known' = known \union {worker.sig} /\ worker.loud \in BOOLEAN
  BY Bounds DEF Commit, InFunnel, Inv, FunnelInv, Workers
<1>2. UNCHANGED <<kind, head, failed, since, enabled, cursor, recorded, base, published,
                  connected, stream, events, overflowed, gapfill, range, faults>>
  BY DEF Commit, chain, feed
<1>3. published[worker.sig] = 0
  <2>1. worker.sig \in Sigs /\ published \in [Sigs -> Nat]
    BY <1>1, Bounds, Typed DEF Inv, Sigs
  <2> QED
    BY <1>1, <2>1 DEF Inv, PublishedOnce
<1>4. PublishedOnce'
  BY <1>1, <1>2 DEF Inv, PublishedOnce, Sigs
<1>5. known' \subseteq 1 .. head
  BY <1>1, Typed
<1>6. CASE worker.loud
  <2>1. Step("publish", TRUE) /\ UNCHANGED retries
    BY <1>6 DEF Commit
  <2>2. /\ worker' \in Workers /\ worker'.pc = "publish"
        /\ worker'.sig = worker.sig /\ worker'.job = worker.job
    BY <2>1, StepEffect
  <2>3. TypeOK'
    BY <1>2, <1>5, <2>1, <2>2, Typed, TypedStep DEF Inv, chain
  <2>4. FunnelInv'
    BY <1>1, <1>2, <1>3, <1>6, <2>2 DEF FunnelInv
  <2>5. RangeInv'
    BY <1>1, <1>2, <2>1, StepKeepsRange
  <2> QED
    BY <1>4, <2>3, <2>4, <2>5 DEF Inv
<1>7. CASE ~ worker.loud
  <2>1. Finish("terminal")
    BY <1>7 DEF Commit
  <2>2. worker' \in Workers /\ retries' \subseteq (1 .. head) \X (0 .. Attempts)
    BY <1>1, <2>1, FinishEffect
  <2>3. TypeOK'
    BY <1>2, <1>5, <2>2, Typed, TypedStep DEF Inv, chain
  <2>4. /\ RangeInv'
        /\ \/ worker'.pc \in {"start", "idle", "gone", "page", "cursor"}
           \/ worker'.pc = "seen" /\ worker'.sig \in 1 .. head /\ worker'.job # "none"
    BY <1>1, <1>2, <2>1, FinishKeepsRange
  <2>5. FunnelInv'
    BY <1>2, <2>4 DEF FunnelInv, InFunnel
  <2> QED
    BY <1>4, <2>3, <2>4, <2>5 DEF Inv
<1> QED
  BY <1>6, <1>7

\* publish: once, since the signature is known from now on.
LEMMA PublishInv ==
    ASSUME Inv, Publish
    PROVE  Inv'
<1>1. /\ worker.pc = "publish" /\ InFunnel /\ worker.sig \in 1 .. head
      /\ worker.sig \in (known \intersect recorded) \ failed /\ published[worker.sig] = 0
      /\ published' = [published EXCEPT ![worker.sig] = @ + 1] /\ Finish("terminal")
  BY DEF Publish, InFunnel, Inv, FunnelInv
<1>2. UNCHANGED <<kind, head, failed, since, enabled, cursor, known, recorded, base,
                  connected, stream, events, overflowed, gapfill, range, faults>>
  BY DEF Publish, chain, store, feed
<1>3. worker' \in Workers /\ retries' \subseteq (1 .. head) \X (0 .. Attempts)
  BY <1>1, FinishEffect
<1>4. worker.sig \in Sigs /\ published \in [Sigs -> Nat]
  BY <1>1, Bounds, Typed DEF Inv, Sigs
<1>5. published' \in [Sigs -> Nat]
  BY <1>1, <1>4
<1>6. TypeOK'
  BY <1>2, <1>3, <1>5, Typed, TypedStep DEF Inv, chain
<1>7. PublishedOnce'
  BY <1>1, <1>2, <1>4 DEF Inv, PublishedOnce, Sigs
<1>8. /\ RangeInv'
      /\ \/ worker'.pc \in {"start", "idle", "gone", "page", "cursor"}
         \/ worker'.pc = "seen" /\ worker'.sig \in 1 .. head /\ worker'.job # "none"
  BY <1>1, <1>2, FinishKeepsRange
<1>9. FunnelInv'
  BY <1>2, <1>8 DEF FunnelInv, InFunnel
<1> QED
  BY <1>6, <1>7, <1>8, <1>9 DEF Inv

\* A notification or a retry is taken up, or dropped while the target is paused.
LEMMA TakeInv ==
    ASSUME Inv, TakeEvent \/ TakeRetry
    PROVE  Inv'
<1>1. /\ UNCHANGED <<kind, head, failed, since, enabled, cursor, known, recorded, base, published,
                     connected, stream, overflowed, gapfill, range, faults>>
      /\ worker.pc = "idle"
  BY DEF TakeEvent, TakeRetry, chain, store, feed
<1>2. head \in Nat /\ PageBudget \in Nat /\ Attempts \in Nat /\ worker \in Workers
  BY Bounds DEF Inv
<1>3. /\ events' \in Seq(1 .. head) /\ Len(events') <= Capacity
      /\ retries' \subseteq (1 .. head) \X (0 .. Attempts)
  <2>1. CASE TakeEvent
    <3>1. events # <<>> /\ events' = Tail(events) /\ retries' = retries
      BY <2>1 DEF TakeEvent
    <3>2. /\ events' \in Seq(1 .. head) /\ Len(events') = Len(events) - 1
          /\ Len(events) \in Nat /\ Len(events) <= Capacity /\ Capacity \in Nat
      BY <3>1, HeadTailProperties, LenProperties, Typed, Bounds DEF Inv
    <3> QED
      BY <3>1, <3>2, Typed
  <2>2. CASE TakeRetry
    <3>1. events' = events /\ retries' \subseteq retries
      BY <2>2 DEF TakeRetry, feed
    <3> QED
      BY <3>1, Typed
  <2> QED
    BY <2>1, <2>2
<1>4. \/ worker' = worker
      \/ /\ worker' \in Workers /\ worker'.pc = "seen" /\ worker'.sig \in 1 .. head
         /\ worker'.job \in {"event", "retry"}
  <2>1. CASE ~ enabled
    BY <2>1 DEF TakeEvent, TakeRetry
  <2>2. CASE enabled /\ TakeEvent
    <3>1. Head(events) \in 1 .. head
      BY <2>2, HeadTailProperties, Typed DEF TakeEvent
    <3>2. worker' = [job |-> "event", pc |-> "seen", sig |-> Head(events), n |-> 0, ok |-> TRUE,
                     loud |-> FALSE]
      BY <2>2 DEF TakeEvent, Rest
    <3>3. Head(events) \in 0 .. head /\ 0 \in 0 .. PageBudget + Attempts
      BY <1>2, <3>1
    <3>4. worker' \in Workers
      BY <3>2, <3>3, WorkerRecord
    <3> QED
      BY <3>1, <3>2, <3>4
  <2>3. CASE enabled /\ TakeRetry
    <3>1. PICK r \in retries :
             worker' = [Rest("seen") EXCEPT !.job = "retry", !.sig = r[1], !.n = r[2]]
      BY <2>3 DEF TakeRetry
    <3>2. r[1] \in 1 .. head /\ r[2] \in 0 .. Attempts
      BY Typed
    <3>3. worker' = [job |-> "retry", pc |-> "seen", sig |-> r[1], n |-> r[2], ok |-> TRUE,
                     loud |-> FALSE]
      BY <3>1 DEF Rest
    <3>4. r[1] \in 0 .. head /\ r[2] \in 0 .. PageBudget + Attempts
      BY <1>2, <3>2
    <3>5. worker' \in Workers
      BY <3>3, <3>4, WorkerRecord
    <3> QED
      BY <3>2, <3>3, <3>5
  <2> QED
    BY <2>1, <2>2, <2>3
<1>5. TypeOK'
  BY <1>1, <1>2, <1>3, <1>4, Typed, TypedStep DEF Inv, chain
<1>6. FunnelInv' /\ PublishedOnce'
  BY <1>1, <1>4, FunnelKept
<1>7. RangeInv'
  BY <1>1, <1>4 DEF Inv, RangeInv, InFunnel
<1> QED
  BY <1>5, <1>6, <1>7 DEF Inv

\* Where a poll goes with a complete range: its cursor, or its oldest signature.
LEMMA ReplayEffect ==
    ASSUME head \in Nat, PageBudget \in Nat, Attempts \in Nat,
           NEW r \in Ranges, r.newest # 0 => r.low >= 1 /\ r.low <= r.newest
    PROVE  /\ Replay(r, TRUE) \in Workers /\ Replay(r, TRUE).job = "poll"
           /\ \/ Replay(r, TRUE).pc = "cursor" /\ r.newest = 0
              \/ /\ Replay(r, TRUE).pc = "seen" /\ r.newest # 0
                 /\ Replay(r, TRUE).sig = r.low /\ r.low \in 1 .. head
<1>1. CASE r.newest = 0
  <2>1. Replay(r, TRUE) = [job |-> "poll", pc |-> "cursor", sig |-> 0, n |-> 0, ok |-> TRUE,
                           loud |-> FALSE]
    BY <1>1 DEF Replay, Rest
  <2>2. 0 \in 0 .. head /\ 0 \in 0 .. PageBudget + Attempts
    OBVIOUS
  <2>3. Replay(r, TRUE) \in Workers
    BY <2>1, <2>2, WorkerRecord
  <2> QED
    BY <1>1, <2>3 DEF Replay, Rest
<1>2. CASE r.newest # 0
  <2>1. Replay(r, TRUE) = [job |-> "poll", pc |-> "seen", sig |-> r.low, n |-> 0, ok |-> TRUE,
                           loud |-> FALSE]
    BY <1>2 DEF Replay, Rest
  <2>2. r.low \in 0 .. head /\ r.low \in 1 .. head /\ 0 \in 0 .. PageBudget + Attempts
    BY <1>2 DEF Ranges
  <2>3. Replay(r, TRUE) \in Workers
    BY <2>1, <2>2, WorkerRecord
  <2> QED
    BY <1>2, <2>2, <2>3 DEF Replay, Rest
<1> QED
  BY <1>1, <1>2

\* The worker of a poll that goes on with the range r.
PollsOn(w, r) ==
    /\ w \in Workers /\ w.job = "poll"
    /\ \/ w.pc = "cursor" /\ r.complete /\ (r.baseline \/ r.newest = 0)
       \/ /\ w.pc = "seen" /\ r.complete /\ ~ r.baseline /\ r.newest # 0
          /\ w.sig = r.low /\ r.low \in 1 .. head
       \/ w.pc = "page" /\ ~ r.complete

\* A worker that polls on keeps both invariants.
LEMMA PollsOnInv ==
    ASSUME Inv, UNCHANGED <<kind, head, failed, published, recorded, known>>,
           range' \in Ranges, range'.open, PollsOn(worker', range'),
           range'.newest # 0 => 0 < range'.low /\ range'.low <= range'.newest
    PROVE  FunnelInv' /\ PublishedOnce' /\ RangeInv'
<1>1. FunnelInv' /\ PublishedOnce'
  BY FunnelKept DEF PollsOn
<1>2. RangeInv'
  <2>1. range'.low <= range'.low
    BY Bounds DEF Ranges, Inv
  <2> QED
    BY <2>1 DEF RangeInv, InFunnel, PollsOn
<1> QED
  BY <1>1, <1>2

\* A poll takes its unfinished range up again, or opens one at the cursor.
LEMMA OpenRangeEffect ==
    ASSUME Inv, OpenRange
    PROVE  /\ range' \in Ranges /\ range'.open /\ PollsOn(worker', range')
           /\ \/ range.open /\ range' = range
              \/ /\ ~ range.open /\ range'.until \in CursorRead
                 /\ range'.initial <=> range'.until = 0
                 /\ range'.baseline \in BaselineRead
                 /\ ~ range'.complete /\ range'.newest = 0
<1>1. /\ head \in Nat /\ PageBudget \in Nat /\ Attempts \in Nat /\ worker \in Workers
      /\ range \in Ranges /\ cursor.at \in 0 .. head
  BY Bounds, Typed DEF Inv
<1>2. PICK until \in CursorRead, baseline \in BaselineRead :
       LET opened == [NoRange EXCEPT !.open = TRUE, !.until = until, !.initial = (until = 0),
                                     !.baseline = baseline]
           r == IF range.open THEN range ELSE opened
       IN  /\ range' = r
           /\ worker' = IF r.complete /\ ~ r.baseline THEN Replay(r, TRUE)
                        ELSE [Rest(IF r.complete THEN "cursor" ELSE "page")
                                 EXCEPT !.job = "poll", !.n = PageBudget]
  BY DEF OpenRange
<1>3. /\ range' \in Ranges /\ range'.open
      /\ \/ range.open /\ range' = range
         \/ /\ ~ range.open /\ range'.until \in CursorRead
            /\ range'.initial <=> range'.until = 0
            /\ range'.baseline \in BaselineRead
            /\ ~ range'.complete /\ range'.newest = 0
  <2>1. CASE range.open
    BY <1>1, <1>2, <2>1
  <2>2. CASE ~ range.open
    <3> DEFINE initial == until = 0
    <3>1. range' = [open |-> TRUE, until |-> until, initial |-> initial, baseline |-> baseline,
                    low |-> 0, newest |-> 0, complete |-> FALSE]
      BY <1>2, <2>2 DEF NoRange
    <3>2. until \in 0 .. head /\ 0 \in 0 .. head
      BY <1>1 DEF CursorRead
    <3>3. initial \in BOOLEAN /\ baseline \in BOOLEAN
      BY DEF BaselineRead, baseline_only
    <3> HIDE DEF initial
    <3>4. range' \in Ranges
      BY <3>1, <3>2, <3>3, RangeRecord
    <3>5. /\ range'.open = TRUE /\ range'.until = until /\ range'.newest = 0
          /\ range'.complete = FALSE /\ range'.initial = initial /\ range'.baseline = baseline
      BY <3>1
    <3> QED
      BY <1>2, <2>2, <3>4, <3>5 DEF initial
  <2> QED
    BY <2>1, <2>2
<1>4. range'.newest # 0 => range'.low >= 1 /\ range'.low <= range'.newest
  BY <1>1, <1>3 DEF Inv, RangeInv, Ranges
<1>5. worker' = IF range'.complete /\ ~ range'.baseline THEN Replay(range', TRUE)
                ELSE [Rest(IF range'.complete THEN "cursor" ELSE "page")
                         EXCEPT !.job = "poll", !.n = PageBudget]
  BY <1>2
<1>6. PollsOn(worker', range')
  <2>1. CASE range'.complete /\ ~ range'.baseline
    <3>1. worker' = Replay(range', TRUE)
      BY <1>5, <2>1
    <3> QED
      BY <1>1, <1>3, <1>4, <2>1, <3>1, ReplayEffect DEF PollsOn
  <2>2. CASE ~ (range'.complete /\ ~ range'.baseline)
    <3> DEFINE pc == IF range'.complete THEN "cursor" ELSE "page"
    <3>1. worker' = [job |-> "poll", pc |-> pc, sig |-> 0, n |-> PageBudget, ok |-> TRUE,
                     loud |-> FALSE]
      BY <1>5, <2>2 DEF Rest
    <3>2. 0 \in 0 .. head /\ PageBudget \in 0 .. PageBudget + Attempts
      BY <1>1
    <3>3. pc \in {"cursor", "page"}
      OBVIOUS
    <3> HIDE DEF pc
    <3>4. worker' \in Workers
      BY <3>1, <3>2, <3>3, WorkerRecord
    <3>5. worker'.pc = pc /\ worker'.job = "poll"
      BY <3>1
    <3> QED
      BY <2>2, <3>4, <3>5 DEF PollsOn, pc
  <2> QED
    BY <2>1, <2>2
<1> QED
  BY <1>3, <1>6

\* The startup poll, a gap fill or a tick.
LEMMA PollInv ==
    ASSUME Inv, Poll
    PROVE  Inv'
<1>1. /\ UNCHANGED <<kind, head, failed, since, enabled, cursor, known, recorded, base, published,
                     connected, stream, events, retries, faults>>
      /\ gapfill' \in BOOLEAN /\ overflowed' \in BOOLEAN
  BY Typed DEF Poll, chain, store
<1>2. CASE enabled
  <2>1. OpenRange
    BY <1>2 DEF Poll
  <2>2. /\ range' \in Ranges /\ range'.open /\ PollsOn(worker', range')
        /\ range' = range \/ range'.newest = 0
    BY <2>1, OpenRangeEffect
  <2>3. TypeOK'
    BY <1>1, <2>2, Typed, TypedStep DEF Inv, chain, PollsOn
  <2>4. range'.newest # 0 => 0 < range'.low /\ range'.low <= range'.newest
    BY <2>2 DEF Inv, RangeInv
  <2> QED
    BY <1>1, <2>2, <2>3, <2>4, PollsOnInv DEF Inv
<1>3. CASE ~ enabled
  <2>1. UNCHANGED <<range, worker>>
    BY <1>3 DEF Poll
  <2>2. TypeOK'
    BY <1>1, <2>1, Typed, TypedStep DEF Inv, chain
  <2> QED
    BY <1>1, <2>1, <2>2, FunnelKept, RangeKept DEF Inv
<1> QED
  BY <1>2, <1>3

\* What a page makes of the range: from a node that is up to date it reaches further down
\* without a gap, and a range that is complete reaches the signature it was opened at, or is
\* the one page of a first window.
Extends(r, tip) ==
    /\ r \in Ranges /\ r.open /\ r.until = range.until
    /\ r.initial <=> range.initial
    /\ r.baseline <=> range.baseline
    /\ r.newest # 0 => 0 < r.low /\ r.low <= r.newest
    /\ r.newest # 0 => r.newest = IF range.newest = 0 THEN tip ELSE range.newest
    /\ UpToDate(tip) /\ (range.newest # 0 => range.until < range.low) =>
          /\ r.newest # 0 => r.until < r.low
          /\ r.complete /\ r.newest # 0 /\ ~ r.initial => r.low = r.until + 1
          /\ r.newest = 0 => tip <= r.until

\* A page extends the range; the worker polls on, or its pages are spent.
LEMMA FetchPageEffect ==
    ASSUME Inv, NEW tip \in 0 .. MaxTx, FetchPage(tip)
    PROVE  \E r :
             /\ Extends(r, tip)
             /\ \/ range' = r /\ enabled' = enabled /\ PollsOn(worker', r)
                \/ range' = r /\ enabled' = enabled /\ Own /\ worker' = Idle
                \/ range' = NoRange /\ enabled' \in BOOLEAN /\ ~ Own /\ worker' = Idle
<1>1. /\ head \in Nat /\ PageBudget \in Nat /\ Attempts \in Nat /\ worker \in Workers
      /\ range \in Ranges /\ PageSize \in Nat \ {0} /\ enabled \in BOOLEAN
      /\ worker.pc = "page" /\ range.open /\ ~ range.complete
  BY Bounds, Typed DEF Inv, RangeInv, FetchPage
<1>2. /\ range.until \in 0 .. head /\ range.low \in 0 .. head /\ range.newest \in 0 .. head
      /\ range.initial \in BOOLEAN /\ range.baseline \in BOOLEAN
      /\ range.newest # 0 => 0 < range.low /\ range.low <= range.newest
  BY <1>1 DEF Ranges, Inv, RangeInv
<1>3. tip \in 0 .. head
  BY <1>1 DEF FetchPage
<1> DEFINE top == IF range.newest = 0 THEN tip ELSE IF tip >= range.low THEN range.low - 1 ELSE 0
           until == IF tip >= range.until THEN range.until ELSE 0
           from == IF top > until + PageSize THEN top - PageSize + 1 ELSE until + 1
           size == IF top < from THEN 0 ELSE top - from + 1
           last == range.initial \/ size < PageSize
           newest == IF range.newest = 0 THEN tip ELSE range.newest
           r == IF size = 0 THEN [range EXCEPT !.complete = TRUE]
                ELSE [range EXCEPT !.newest = IF @ = 0 THEN tip ELSE @,
                                   !.low = from,
                                   !.complete = range.initial \/ size < PageSize]
           sound == UpToDate(tip) /\ (range.newest # 0 => range.until < range.low)
<1>4. /\ top \in 0 .. head /\ until \in 0 .. head
      /\ range.newest = 0 => top = tip
      /\ range.newest # 0 => top < range.newest
      /\ sound => until = range.until /\ (range.newest # 0 => top = range.low - 1)
  BY <1>1, <1>2, <1>3 DEF UpToDate
<1>5. IF r.complete
      THEN /\ range' = r /\ enabled' = enabled
           /\ worker' = IF r.baseline THEN [Rest("cursor") EXCEPT !.job = "poll"]
                        ELSE Replay(r, TRUE)
      ELSE IF worker.n > 1
      THEN range' = r /\ enabled' = enabled /\ worker' = [worker EXCEPT !.n = @ - 1]
      ELSE PagesSpent(r)
  BY DEF FetchPage
<1>6. /\ from \in Nat /\ until < from /\ size \in Nat
      /\ size = 0 <=> top < from
      /\ size < PageSize => from = until + 1
  <2> HIDE DEF top, until
  <2> QED
    BY <1>1, <1>4
<1>7. Extends(r, tip)
  <2>1. CASE size = 0
    <3>1. r = [open |-> range.open, until |-> range.until, initial |-> range.initial,
               baseline |-> range.baseline, low |-> range.low, newest |-> range.newest,
               complete |-> TRUE]
      BY <1>1, <2>1 DEF Ranges
    <3>2. r \in Ranges
      <4> HIDE DEF r
      <4>1. range.open \in BOOLEAN /\ TRUE \in BOOLEAN
        BY <1>1
      <4> QED
        BY <1>2, <3>1, <4>1, RangeRecord, Zenon
    <3>3. sound => /\ range.newest # 0 => range.low = range.until + 1
                   /\ range.newest = 0 => tip <= range.until
      <4>1. sound => (range.newest # 0 => range.until < range.low)
        OBVIOUS
      <4> HIDE DEF top, until, from, size, sound
      <4>2. top <= until
        BY <1>1, <1>4, <1>6, <2>1
      <4> QED
        BY <1>2, <1>3, <1>4, <4>1, <4>2
    <3> HIDE DEF r
    <3>5. /\ r.open = range.open /\ r.until = range.until /\ r.initial = range.initial
          /\ r.baseline = range.baseline /\ r.low = range.low /\ r.newest = range.newest
          /\ r.complete = TRUE
      BY <3>1
    <3> QED
      BY <1>1, <1>2, <3>2, <3>3, <3>5 DEF Extends
  <2>2. CASE size # 0
    <3>1. r = [open |-> range.open, until |-> range.until, initial |-> range.initial,
               baseline |-> range.baseline, low |-> from, newest |-> newest,
               complete |-> last]
      BY <1>1, <2>2 DEF Ranges
    <3>2. /\ from \in 0 .. head /\ newest \in 0 .. head /\ 0 < from /\ from <= newest /\ newest # 0
      <4> HIDE DEF top, until, from, size
      <4> QED
        BY <1>1, <1>2, <1>3, <1>4, <1>6, <2>2
    <3>3. last \in BOOLEAN
      OBVIOUS
    <3> HIDE DEF r, top, until, from, newest, last, size
    <3>4. r \in Ranges
      BY <1>1, <1>2, <3>1, <3>2, <3>3, RangeRecord DEF Ranges
    <3>5. /\ r.open = range.open /\ r.until = range.until /\ r.initial = range.initial
          /\ r.baseline = range.baseline /\ r.low = from /\ r.newest = newest
          /\ r.complete = last
      BY <3>1
    <3>6. sound => range.until < from /\ (last /\ ~ range.initial => from = range.until + 1)
      BY <1>4, <1>6 DEF last
    <3>7. newest = IF range.newest = 0 THEN tip ELSE range.newest
      BY DEF newest
    <3> QED
      BY <1>1, <1>2, <3>2, <3>4, <3>5, <3>6, <3>7 DEF Extends
  <2> QED
    BY <2>1, <2>2
<1> HIDE DEF r, top, until, from, size, last, newest, sound
<1>8. CASE r.complete
  <2>1. range' = r /\ enabled' = enabled
    BY <1>5, <1>8
  <2>2. PollsOn(worker', r)
    <3>1. CASE r.baseline
      <4>1. worker' = [job |-> "poll", pc |-> "cursor", sig |-> 0, n |-> 0, ok |-> TRUE,
                       loud |-> FALSE]
        BY <1>5, <1>8, <3>1 DEF Rest
      <4>2. 0 \in 0 .. head /\ 0 \in 0 .. PageBudget + Attempts
        BY <1>1
      <4>3. worker' \in Workers
        BY <4>1, <4>2, WorkerRecord
      <4>4. worker'.pc = "cursor" /\ worker'.job = "poll"
        BY <4>1
      <4> QED
        BY <1>8, <3>1, <4>3, <4>4 DEF PollsOn
    <3>2. CASE ~ r.baseline
      <4>1. worker' = Replay(r, TRUE)
        BY <1>5, <1>8, <3>2
      <4>2. r \in Ranges /\ (r.newest # 0 => r.low >= 1 /\ r.low <= r.newest)
        BY <1>1, <1>7 DEF Extends, Ranges
      <4> QED
        BY <1>1, <1>8, <3>2, <4>1, <4>2, ReplayEffect DEF PollsOn
    <3> QED
      BY <3>1, <3>2
  <2> QED
    BY <1>7, <2>1, <2>2
<1>9. CASE ~ r.complete /\ worker.n > 1
  <2>1. range' = r /\ enabled' = enabled /\ worker' = [worker EXCEPT !.n = @ - 1]
    BY <1>5, <1>9
  <2>2. worker' \in Workers /\ worker'.pc = "page" /\ worker'.job = worker.job
    <3>1. worker.n - 1 \in 0 .. PageBudget + Attempts
      BY <1>1, <1>9 DEF Workers
    <3> QED
      BY <1>1, <2>1, <3>1 DEF Workers
  <2>3. worker.job = "poll"
    BY <1>1 DEF Inv, RangeInv
  <2> QED
    BY <1>7, <1>9, <2>1, <2>2, <2>3 DEF PollsOn
<1>10. CASE ~ r.complete /\ ~ (worker.n > 1)
  <2>1. PagesSpent(r)
    BY <1>5, <1>10
  <2> QED
    BY <1>1, <1>7, <2>1 DEF PagesSpent
<1> QED
  BY <1>8, <1>9, <1>10

\* A worker that comes to rest, with a range that is in order or with none.
LEMMA RestsInv ==
    ASSUME Inv, UNCHANGED <<kind, head, failed, since, known, recorded, published>>,
           enabled' \in BOOLEAN, cursor' \in [row : BOOLEAN, at : 0 .. head], base' \in 0 .. head,
           connected' \in BOOLEAN, faults' \in 0 .. MaxFaults,
           \/ UNCHANGED <<stream, events, overflowed, gapfill, retries>>
           \/ /\ stream' = NoStream /\ events' = <<>> /\ overflowed' = FALSE /\ gapfill' = FALSE
              /\ retries' = {},
           range' \in Ranges, ~ range'.open => range' = NoRange,
           range'.newest # 0 => 0 < range'.low /\ range'.low <= range'.newest,
           worker' \in Workers, worker'.pc \in {"start", "idle", "gone"}
    PROVE  Inv'
<1>1. head \in Nat /\ Capacity \in Nat /\ NoStream \in Streams
  BY Bounds, NoneOpen DEF Inv
<1>2. /\ stream' \in Streams /\ events' \in Seq(1 .. head) /\ Len(events') <= Capacity
      /\ overflowed' \in BOOLEAN /\ gapfill' \in BOOLEAN
      /\ retries' \subseteq (1 .. head) \X (0 .. Attempts)
  <2>1. CASE UNCHANGED <<stream, events, overflowed, gapfill, retries>>
    BY <2>1, Typed
  <2>2. CASE /\ stream' = NoStream /\ events' = <<>> /\ overflowed' = FALSE
             /\ gapfill' = FALSE /\ retries' = {}
    <3>1. events' \in Seq(1 .. head) /\ Len(events') = 0
      BY <2>2, EmptySeq
    <3>2. Len(events') <= Capacity
      BY <1>1, <3>1
    <3>3. retries' \subseteq (1 .. head) \X (0 .. Attempts)
      BY <2>2
    <3> QED
      BY <1>1, <2>2, <3>1, <3>2, <3>3, Zenon
  <2> QED
    BY <2>1, <2>2
<1>3. TypeOK'
  BY <1>2, Typed, TypedStep DEF Inv, chain
<1>4. FunnelInv' /\ PublishedOnce'
  BY FunnelKept
<1>5. RangeInv'
  BY DEF RangeInv, InFunnel
<1> QED
  BY <1>3, <1>4, <1>5 DEF Inv

\* A page of a poll.
LEMMA FetchPageInv ==
    ASSUME Inv, NEW tip \in 0 .. MaxTx, FetchPage(tip)
    PROVE  Inv'
<1>1. UNCHANGED <<kind, head, failed, since, cursor, known, recorded, base, published, connected,
                  stream, events, overflowed, gapfill, retries, faults>>
  BY DEF FetchPage, chain, feed
<1>2. PICK r :
         /\ Extends(r, tip)
         /\ \/ range' = r /\ enabled' = enabled /\ PollsOn(worker', r)
            \/ range' = r /\ enabled' = enabled /\ Own /\ worker' = Idle
            \/ range' = NoRange /\ enabled' \in BOOLEAN /\ ~ Own /\ worker' = Idle
  BY FetchPageEffect
<1>3. r \in Ranges /\ r.open /\ (r.newest # 0 => 0 < r.low /\ r.low <= r.newest)
  BY <1>2 DEF Extends
<1>4. /\ head \in Nat /\ NoRange \in Ranges /\ NoRange.newest = 0 /\ ~ NoRange.open
      /\ Idle \in Workers /\ Idle.pc = "idle"
  BY Bounds, NoneOpen, AtRest DEF Inv
<1>5. CASE range' = r /\ enabled' = enabled /\ PollsOn(worker', r)
  <2>1. TypeOK'
    BY <1>1, <1>3, <1>5, Typed, TypedStep DEF Inv, chain, PollsOn
  <2>2. FunnelInv' /\ PublishedOnce' /\ RangeInv'
    BY <1>1, <1>3, <1>5, PollsOnInv
  <2> QED
    BY <2>1, <2>2 DEF Inv
<1>6. CASE range' = r /\ enabled' = enabled /\ worker' = Idle
  BY <1>1, <1>3, <1>4, <1>6, Typed, RestsInv
<1>7. CASE range' = NoRange /\ enabled' \in BOOLEAN /\ worker' = Idle
  BY <1>1, <1>4, <1>7, Typed, RestsInv
<1> QED
  BY <1>2, <1>5, <1>6, <1>7

\* The end of a poll, and what the registry does to a worker.
LEMMA EndsInv ==
    ASSUME Inv, PollFails \/ SetCursor \/ Reload \/ Resume \/ Restart
    PROVE  Inv'
<1>1. /\ head \in Nat /\ NoRange \in Ranges /\ NoRange.newest = 0 /\ ~ NoRange.open
      /\ Idle \in Workers /\ Idle.pc = "idle" /\ range \in Ranges /\ MaxFaults \in Nat
      /\ \A pc \in {"start", "gone"} : Rest(pc) \in Workers /\ Rest(pc).pc = pc
  BY Bounds, NoneOpen, AtRest, WatchConstants DEF Inv
<1>2. /\ ~ range.open => range = NoRange
      /\ range.newest # 0 => 0 < range.low /\ range.low <= range.newest
  BY DEF Inv, RangeInv
<1>3. UNCHANGED <<kind, head, failed, since, known, recorded, published>>
  BY DEF PollFails, SetCursor, Reload, Resume, Restart, chain, store
<1>4. CASE PollFails
  BY <1>1, <1>2, <1>3, <1>4, Typed, RestsInv DEF PollFails, store, feed
<1>5. CASE SetCursor
  <2>1. /\ UNCHANGED <<enabled, connected, stream, events, overflowed, gapfill, retries, faults>>
        /\ range' = NoRange /\ worker' = Idle
    BY <1>5 DEF SetCursor, feed
  <2>2. range.newest \in 0 .. head /\ range.low \in 0 .. head
    BY <1>1 DEF Ranges
  <2>3. cursor' \in [row : BOOLEAN, at : 0 .. head]
    BY <1>5, <2>2, Typed DEF SetCursor
  <2>4. base' \in 0 .. head
    <3>1. range.newest # 0 => range.low - 1 \in 0 .. head
      BY <1>1, <1>2, <2>2 DEF Ranges
    <3> QED
      BY <1>5, <2>2, <3>1, Typed DEF SetCursor
  <2> QED
    BY <1>1, <1>3, <2>1, <2>3, <2>4, Typed, RestsInv
<1>6. CASE Reload
  <2>1. UNCHANGED <<enabled, cursor, base, connected, faults>> /\ Forget("gone")
    BY <1>6 DEF Reload, store
  <2> QED
    BY <1>1, <1>3, <2>1, Typed, RestsInv DEF Forget
<1>7. CASE Resume
  <2>1. /\ UNCHANGED <<connected, stream, events, overflowed, gapfill, retries, range, faults>>
        /\ enabled' \in BOOLEAN
        /\ IF worker.pc = "gone" THEN worker' = Rest("start") ELSE worker' = worker
    BY <1>7 DEF Resume, feed
  <2>2. PICK v \in 0 .. head : cursor' = [row |-> TRUE, at |-> v] /\ base' = v
    BY <1>7 DEF Resume
  <2>4. cursor' \in [row : BOOLEAN, at : 0 .. head] /\ base' \in 0 .. head
    BY <2>2
  <2>5. CASE worker.pc = "gone"
    BY <1>1, <1>2, <1>3, <2>1, <2>4, <2>5, Typed, RestsInv
  <2>6. CASE worker.pc # "gone"
    <3>1. worker' = worker
      BY <2>1, <2>6
    <3>2. TypeOK'
      BY <1>3, <2>1, <2>4, <3>1, Typed, TypedStep DEF Inv, chain
    <3> QED
      BY <1>3, <2>1, <3>1, <3>2, FunnelKept, RangeKept DEF Inv
  <2> QED
    BY <2>5, <2>6
<1>8. CASE Restart
  <2>1. /\ UNCHANGED <<enabled, cursor, base>> /\ Forget(IF enabled THEN "start" ELSE "gone")
        /\ connected' = TRUE /\ faults < MaxFaults /\ faults' = faults + 1
    BY <1>8 DEF Restart, store
  <2>2. PICK pc \in {"start", "gone"} : Forget(pc)
    BY <2>1
  <2>3. faults' \in 0 .. MaxFaults
    BY <1>1, <2>1, Typed
  <2> QED
    BY <1>1, <1>3, <2>1, <2>2, <2>3, Typed, RestsInv DEF Forget
<1> QED
  BY <1>4, <1>5, <1>6, <1>7, <1>8

\* Every step keeps the invariant.
LEMMA StepInv == Inv /\ [Next]_vars => Inv'
<1> SUFFICES ASSUME Inv, [Next]_vars PROVE Inv'
  OBVIOUS
<1>1. CASE Land
  BY <1>1, LandInv
<1>2. CASE Disconnect \/ Reconnect \/ StreamEnds \/ Subscribe \/ ReadVersion \/ Forward
  BY <1>2, FeedInv
<1>3. CASE Classified
  BY <1>3, ClassifiedInv
<1>4. CASE Skipped \/ FunnelFails
  BY <1>4, LeavesInv
<1>5. CASE Record \/ Commit \/ Publish
  BY <1>5, RecordInv, CommitInv, PublishInv
<1>6. CASE TakeEvent \/ TakeRetry
  BY <1>6, TakeInv
<1>7. CASE Poll
  BY <1>7, PollInv
<1>8. CASE \E tip \in 0 .. MaxTx : FetchPage(tip)
  BY <1>8, FetchPageInv
<1>9. CASE PollFails \/ SetCursor \/ Reload \/ Resume \/ Restart
  BY <1>9, EndsInv
<1>10. CASE UNCHANGED vars
  <2>1. UNCHANGED <<kind, head, failed, since, enabled, cursor, known, recorded, base, published,
                    connected, stream, events, overflowed, gapfill, retries, range, worker, faults>>
    BY <1>10 DEF vars, chain, store, feed
  <2>2. TypeOK'
    BY <2>1, Typed, TypedStep DEF Inv, chain
  <2> QED
    BY <2>1, <2>2, FunnelKept, RangeKept DEF Inv
<1> QED
  BY <1>1, <1>2, <1>3, <1>4, <1>5, <1>6, <1>7, <1>8, <1>9, <1>10 DEF Next, WorkerStep

\* Every variable of the watch keeps its type: the channel never holds more than its
\* capacity, and no cursor, page or retry is of a transaction that has not landed.
THEOREM WatchTyped == Spec => []TypeOK
<1>1. Spec => []Inv
  BY InitInv, StepInv, PTL DEF Spec
<1>2. Inv => TypeOK
  BY DEF Inv
<1> QED
  BY <1>1, <1>2, PTL

\* An activity goes out at most once, and only of a successful transaction that is recorded
\* and known, whatever the stream, the polls, the retries and the restarts bring again, and
\* whether or not reads of the cursor fail.
THEOREM ActivityOnce == Spec => []PublishedOnce
<1>1. Spec => []Inv
  BY InitInv, StepInv, PTL DEF Spec
<1>2. Inv => PublishedOnce
  BY DEF Inv
<1> QED
  BY <1>1, <1>2, PTL

----------------------------------------------------------------------------
(* The cursor, while its reads do not fail *)

Resting == {"start", "idle", "gone"}

\* What the invariant of the watch takes for granted of the state before a step.
LEMMA WatchFacts ==
    ASSUME WatchInv
    PROVE  /\ Inv /\ CursorInv /\ ReplayInv /\ SinceInv /\ NothingSkipped /\ WatchStartsNow
           /\ head \in Nat /\ MaxTx \in Nat /\ head <= MaxTx /\ since \in Nat /\ since <= head
           /\ cursor \in [row : BOOLEAN, at : 0 .. head] /\ base \in 0 .. head
           /\ worker \in Workers /\ range \in Ranges /\ stream \in Streams
           /\ worker.sig \in Nat /\ range.newest \in 0 .. head /\ range.low \in 0 .. head
           /\ range.until \in 0 .. head /\ cursor.at \in 0 .. head /\ stream.seen \in 0 .. head
           /\ worker.pc \notin Resting => enabled
<1>1. Inv /\ CursorInv /\ ReplayInv /\ SinceInv /\ NothingSkipped /\ WatchStartsNow
  BY DEF WatchInv
<1>2. /\ head \in Nat /\ MaxTx \in Nat /\ head <= MaxTx /\ since \in Nat /\ since <= head
      /\ worker \in Workers /\ range \in Ranges /\ stream \in Streams
  BY <1>1, Bounds DEF Inv
<1>3. cursor \in [row : BOOLEAN, at : 0 .. head] /\ base \in 0 .. head
  BY <1>1, Typed
<1>4. /\ worker.sig \in Nat /\ range.newest \in 0 .. head /\ range.low \in 0 .. head
      /\ range.until \in 0 .. head /\ cursor.at \in 0 .. head /\ stream.seen \in 0 .. head
  BY <1>2, <1>3 DEF Workers, Ranges, Streams
<1>5. worker.pc \notin Resting => enabled
  BY <1>1 DEF CursorInv, Resting
<1> QED
  BY <1>1, <1>2, <1>3, <1>4, <1>5

\* What was passed stays handled while the cursor stands.
LEMMA SkippedKept ==
    ASSUME WatchInv, UNCHANGED <<kind, cursor, base>>, known \subseteq known', failed \subseteq failed'
    PROVE  NothingSkipped'
BY DEF WatchInv, NothingSkipped, Sigs, Own

\* What a wallet did before it was watched stays unpublished.
LEMMA StartKept ==
    ASSUME WatchInv, UNCHANGED <<kind, since, published>>
    PROVE  WatchStartsNow'
BY DEF WatchInv, WatchStartsNow, Own

\* The range still stands for the cursor while neither moves.
LEMMA CursorKept ==
    ASSUME WatchInv, UNCHANGED <<kind, enabled, cursor, range>>,
           enabled \/ worker' = worker \/ worker'.pc \in Resting
    PROVE  CursorInv'
BY DEF WatchInv, CursorInv, Own, Resting

\* A worker at rest has replayed nothing.
LEMMA ReplayRests ==
    ASSUME worker'.pc \in Resting
    PROVE  ReplayInv'
BY DEF ReplayInv, InFunnel, Resting

\* What a replay has finished with stays so.
LEMMA ReplayKept ==
    ASSUME WatchInv, UNCHANGED <<kind, range>>, known \subseteq known', failed \subseteq failed',
           \/ worker' = worker
           \/ /\ worker.pc # "cursor" /\ worker'.pc # "cursor"
              /\ InFunnel' => InFunnel /\ worker'.sig = worker.sig
              /\ worker'.job = worker.job /\ worker'.ok = worker.ok
    PROVE  ReplayInv'
BY DEF WatchInv, ReplayInv, Handled, InFunnel, Own, Sigs

\* A transaction lands.
LEMMA LandWatch ==
    ASSUME WatchInv, Land, Inv'
    PROVE  WatchInv'
<1>1. /\ failed \subseteq failed'
      /\ UNCHANGED <<kind, since, enabled, cursor, known, base, published, stream, events, retries,
                     range, worker>>
  BY DEF Land, store, feed
<1>2. CursorInv' /\ ReplayInv' /\ NothingSkipped' /\ WatchStartsNow'
  BY <1>1, CursorKept, ReplayKept, SkippedKept, StartKept
<1>3. SinceInv'
  BY <1>1 DEF WatchInv, SinceInv, Own, InFunnel
<1> QED
  BY <1>2, <1>3 DEF WatchInv

\* The stream notifies only what landed since the forwarder subscribed.
LEMMA FeedWatch ==
    ASSUME WatchInv, Inv',
           Disconnect \/ Reconnect \/ StreamEnds \/ Subscribe \/ ReadVersion \/ Forward
    PROVE  WatchInv'
<1>1. UNCHANGED <<kind, head, failed, since, enabled, cursor, known, base, published, retries,
                  range, worker>>
  BY DEF Disconnect, Reconnect, StreamEnds, Subscribe, ReadVersion, Forward, chain, store
<1>2. CursorInv' /\ ReplayInv' /\ NothingSkipped' /\ WatchStartsNow'
  BY <1>1, CursorKept, ReplayKept, SkippedKept, StartKept
<1>3. ASSUME ~ Own
      PROVE  /\ stream'.up => since <= stream'.seen
             /\ \A i \in 1 .. Len(events') : since < events'[i]
  <2>1. kind # "service"
    BY <1>3 DEF Own
  <2>2. /\ stream.up => since <= stream.seen
        /\ \A i \in 1 .. Len(events) : since < events[i]
    BY <1>3 DEF WatchInv, SinceInv
  <2>3. CASE Disconnect \/ Reconnect \/ StreamEnds
    BY <2>2, <2>3 DEF Disconnect, Reconnect, StreamEnds, NoStream
  <2>4. CASE Subscribe
    BY <2>2, <2>4, WatchFacts DEF Subscribe
  <2>5. CASE Forward
    <3>1. /\ stream.up /\ stream.seen < head
          /\ stream' = [stream EXCEPT !.seen = @ + 1] /\ Deliver(stream.seen + 1)
      BY <2>1, <2>5, Zenon DEF Forward
    <3>2. stream.seen + 1 \in 1 .. head /\ since < stream.seen + 1
      BY <2>2, <3>1, WatchFacts
    <3>3. stream'.seen = stream.seen + 1
      BY <3>1, WatchFacts DEF Streams
    <3>4. events' = events \/ events' = Append(events, stream.seen + 1)
      BY <3>1, <3>2, DeliverTyped, WatchFacts
    <3>5. events \in Seq(1 .. head)
      BY Typed, WatchFacts
    <3>6. \A i \in 1 .. Len(events') : since < events'[i]
      BY <2>2, <3>2, <3>4, <3>5
    <3>7. since <= stream'.seen
      BY <3>2, <3>3, WatchFacts
    <3> QED
      BY <3>6, <3>7
  <2> QED
    BY <2>1, <2>3, <2>4, <2>5 DEF ReadVersion
<1>4. SinceInv'
  BY <1>1, <1>3 DEF WatchInv, SinceInv, Own, InFunnel
<1> QED
  BY <1>2, <1>4 DEF WatchInv

\* A signature moves through the funnel.
LEMMA StepWatch ==
    ASSUME WatchInv, Inv', InFunnel, NEW pc \in {"record", "commit", "publish"}, NEW loud \in BOOLEAN,
           Step(pc, loud), known \subseteq known',
           UNCHANGED <<kind, failed, since, enabled, cursor, base, published, stream, events, retries,
                       range>>
    PROVE  WatchInv'
<1>1. /\ worker'.pc = pc /\ worker'.sig = worker.sig /\ worker'.job = worker.job
      /\ worker'.ok = worker.ok
  BY StepEffect DEF WatchInv
<1>2. enabled /\ worker.pc # "cursor"
  BY WatchFacts DEF InFunnel, Resting
<1>3. ReplayInv'
  BY <1>1, <1>2, ReplayKept
<1>4. CursorInv' /\ NothingSkipped' /\ WatchStartsNow'
  BY <1>2, CursorKept, SkippedKept, StartKept
<1>5. SinceInv'
  BY <1>1 DEF WatchInv, SinceInv, Own, InFunnel
<1> QED
  BY <1>3, <1>4, <1>5 DEF WatchInv

\* The funnel is done with a signature: a terminal outcome means that it is handled.
LEMMA FinishWatch ==
    ASSUME WatchInv, Inv', InFunnel, NEW outcome, Finish(outcome), known \subseteq known',
           outcome = "terminal" => worker.sig \in known' \/ (worker.sig \in failed /\ ~ Own),
           UNCHANGED <<kind, failed, since, enabled, cursor, base, stream, events, range>>
    PROVE  CursorInv' /\ ReplayInv' /\ SinceInv' /\ NothingSkipped'
<1> USE WatchFacts
<1>1. enabled
  BY DEF InFunnel, Resting
<1>2. CursorInv' /\ NothingSkipped'
  BY <1>1, CursorKept, SkippedKept
<1>3. /\ \/ worker' = Idle
         \/ /\ worker.job = "poll" /\ worker'.pc = "seen" /\ worker'.job = "poll"
            /\ worker.sig < range.newest /\ worker'.sig = worker.sig + 1
            /\ worker'.ok = (worker.ok /\ outcome = "terminal")
         \/ /\ worker.job = "poll" /\ worker'.pc = "cursor" /\ worker'.job = "poll"
            /\ worker.sig = range.newest /\ worker.ok /\ outcome = "terminal"
      /\ \A r \in retries' : r \in retries \/ r[1] = worker.sig
  BY FinishEffect
<1>4. Idle.pc \in Resting
  BY DEF Idle, Rest, Resting
<1>5. SinceInv'
  <2>1. ASSUME ~ Own
        PROVE  /\ since < worker.sig /\ \A r \in retries' : since < r[1]
               /\ InFunnel' => since < worker'.sig
    <3>1. since < worker.sig /\ \A r \in retries : since < r[1]
      BY <2>1 DEF SinceInv
    <3>2. \A r \in retries' : since < r[1]
      BY <1>3, <3>1
    <3>3. InFunnel' => worker'.sig = worker.sig + 1
      BY <1>3, <1>4 DEF InFunnel, Resting
    <3> QED
      BY <3>1, <3>2, <3>3
  <2> QED
    BY <2>1 DEF SinceInv, Own
<1>6. ReplayInv'
  <2>1. CASE worker' = Idle
    BY <1>4, <2>1, ReplayRests
  <2>2. CASE worker' # Idle /\ outcome # "terminal"
    <3>1. worker'.pc = "seen" /\ ~ worker'.ok
      BY <1>3, <2>2
    <3> QED
      BY <3>1 DEF ReplayInv
  <2>3. CASE worker' # Idle /\ outcome = "terminal"
    <3>1. worker.ok /\ worker.job = "poll" =>
             \A s \in Sigs : range.low <= s /\ s <= worker.sig => Handled(s)'
      <4> SUFFICES ASSUME worker.ok, worker.job = "poll", NEW s \in Sigs, range.low <= s,
                          s <= worker.sig
                   PROVE  Handled(s)'
        OBVIOUS
      <4>1. s \in Nat
        BY DEF Sigs
      <4>2. CASE s = worker.sig
        BY <2>3, <4>2 DEF Handled, Own
      <4>3. CASE s < worker.sig
        BY <4>3 DEF ReplayInv, Handled, Own
      <4> QED
        BY <4>1, <4>2, <4>3
    <3>2. CASE worker'.pc = "seen"
      <4>1. /\ worker'.sig = worker.sig + 1 /\ worker'.ok = worker.ok /\ worker.job = "poll"
            /\ worker.ok \in BOOLEAN
        BY <1>3, <2>3, <3>2 DEF Workers
      <4>2. \A s \in Sigs : s < worker.sig + 1 => s <= worker.sig
        BY DEF Sigs
      <4> QED
        BY <3>1, <3>2, <4>1, <4>2 DEF ReplayInv
    <3>3. CASE worker'.pc = "cursor"
      BY <1>3, <2>3, <3>1, <3>3 DEF ReplayInv, InFunnel
    <3> QED
      BY <1>3, <2>3, <3>2, <3>3
  <2> QED
    BY <2>1, <2>2, <2>3
<1> QED
  BY <1>2, <1>5, <1>6

\* The funnel.
LEMMA FunnelWatch ==
    ASSUME WatchInv, Inv', Classified \/ Skipped \/ FunnelFails \/ Record \/ Commit \/ Publish
    PROVE  WatchInv'
<1>1. /\ UNCHANGED <<kind, head, failed, since, enabled, cursor, base, stream, events, range>>
      /\ known \subseteq known' /\ InFunnel
  BY DEF Classified, Skipped, FunnelFails, Record, Commit, Publish, chain, store, feed, InFunnel
<1>2. ASSUME NEW outcome, Finish(outcome), UNCHANGED published,
             outcome = "terminal" => worker.sig \in known' \/ (worker.sig \in failed /\ ~ Own)
      PROVE  WatchInv'
  <2>1. CursorInv' /\ ReplayInv' /\ SinceInv' /\ NothingSkipped'
    BY <1>1, <1>2, FinishWatch
  <2>2. WatchStartsNow'
    BY <1>1, <1>2, StartKept
  <2> QED
    BY <2>1, <2>2 DEF WatchInv
<1>3. CASE Classified
  <2>1. PICK pc \in {"record", "commit"}, loud \in BOOLEAN : Step(pc, loud)
    BY <1>3 DEF Classified
  <2>2. UNCHANGED <<published, retries>>
    BY <1>3 DEF Classified
  <2> QED
    BY <1>1, <2>1, <2>2, StepWatch
<1>4. CASE Skipped
  BY <1>1, <1>2, <1>4 DEF Skipped
<1>5. CASE FunnelFails
  <2>1. Finish("retryable") /\ UNCHANGED published /\ "retryable" # "terminal"
    BY <1>5 DEF FunnelFails
  <2> QED
    BY <1>2, <2>1
<1>6. CASE Record
  <2>1. Step("commit", worker.loud) /\ UNCHANGED <<published, retries>> /\ worker.loud \in BOOLEAN
    BY <1>6, WatchFacts DEF Record, Workers
  <2> QED
    BY <1>1, <2>1, StepWatch
<1>7. CASE Commit
  <2>1. worker.sig \in known' /\ UNCHANGED published
    BY <1>7 DEF Commit
  <2>2. CASE worker.loud
    <3>1. Step("publish", TRUE) /\ UNCHANGED retries
      BY <1>7, <2>2 DEF Commit
    <3> QED
      BY <1>1, <2>1, <3>1, StepWatch
  <2>3. CASE ~ worker.loud
    <3>1. Finish("terminal")
      BY <1>7, <2>3 DEF Commit
    <3> QED
      BY <1>2, <2>1, <3>1
  <2> QED
    BY <2>2, <2>3
<1>8. CASE Publish
  <2>1. /\ Finish("terminal") /\ worker.sig \in known'
        /\ published' = [published EXCEPT ![worker.sig] = @ + 1]
    BY <1>8, WatchFacts DEF Publish, store, Inv, FunnelInv
  <2>2. CursorInv' /\ ReplayInv' /\ SinceInv' /\ NothingSkipped'
    BY <1>1, <2>1, FinishWatch
  <2>3. WatchStartsNow'
    <3>1. ASSUME ~ Own, NEW s \in 1 .. since PROVE published'[s] = 0
      <4>1. since < worker.sig
        BY <1>1, <3>1, WatchFacts DEF SinceInv
      <4>2. s \in Sigs /\ s # worker.sig
        BY <4>1, WatchFacts DEF Sigs
      <4>3. published[s] = 0 /\ published \in [Sigs -> Nat]
        BY <3>1, WatchFacts, Typed DEF WatchStartsNow
      <4> QED
        BY <2>1, <4>2, <4>3
    <3> QED
      BY <1>1, <3>1 DEF WatchStartsNow, Own
  <2> QED
    BY <2>2, <2>3 DEF WatchInv
<1> QED
  BY <1>3, <1>4, <1>5, <1>6, <1>7, <1>8

\* A notification or a retry is taken up.
LEMMA TakeWatch ==
    ASSUME WatchInv, Inv', TakeEvent \/ TakeRetry
    PROVE  WatchInv'
<1>1. /\ UNCHANGED <<kind, head, failed, since, enabled, cursor, known, base, published, stream,
                     range>>
      /\ worker.pc = "idle"
  BY DEF TakeEvent, TakeRetry, chain, store, feed
<1>2. /\ \/ \A i \in 1 .. Len(events') : i + 1 \in 1 .. Len(events) /\ events'[i] = events[i + 1]
         \/ events' = events
      /\ retries' \subseteq retries
  <2>1. CASE TakeEvent
    <3>1. events # <<>> /\ events' = Tail(events) /\ retries' = retries
      BY <2>1 DEF TakeEvent
    <3> QED
      BY <3>1, Typed, WatchFacts
  <2>2. CASE TakeRetry
    BY <2>2 DEF TakeRetry, feed
  <2> QED
    BY <2>1, <2>2
<1>3. \/ worker' = worker
      \/ /\ enabled /\ worker'.pc = "seen" /\ worker'.job \in {"event", "retry"}
         /\ \/ \E i \in 1 .. Len(events) : worker'.sig = events[i]
            \/ \E r \in retries : worker'.sig = r[1]
  <2>1. CASE TakeEvent /\ enabled
    <3>1. worker' = [Rest("seen") EXCEPT !.job = "event", !.sig = Head(events)] /\ events # <<>>
      BY <2>1 DEF TakeEvent
    <3>2. 1 \in 1 .. Len(events) /\ Head(events) = events[1]
      BY <3>1, Typed, WatchFacts
    <3> QED
      BY <2>1, <3>1, <3>2 DEF Rest
  <2>2. CASE TakeRetry /\ enabled
    <3>1. PICK r \in retries :
             worker' = [Rest("seen") EXCEPT !.job = "retry", !.sig = r[1], !.n = r[2]]
      BY <2>2 DEF TakeRetry
    <3> QED
      BY <2>2, <3>1 DEF Rest
  <2> QED
    BY <2>1, <2>2 DEF TakeEvent, TakeRetry
<1>4. CursorInv' /\ NothingSkipped' /\ WatchStartsNow'
  BY <1>1, <1>3, CursorKept, SkippedKept, StartKept
<1>5. ReplayInv'
  BY <1>1, <1>3 DEF ReplayInv, InFunnel
<1>6. SinceInv'
  <2>1. ASSUME ~ Own
        PROVE  /\ \A i \in 1 .. Len(events') : since < events'[i]
               /\ \A r \in retries' : since < r[1]
               /\ InFunnel' => since < worker'.sig
    <3>1. /\ \A i \in 1 .. Len(events) : since < events[i]
          /\ \A r \in retries : since < r[1]
      BY <2>1, WatchFacts DEF SinceInv
    <3>2. \A i \in 1 .. Len(events') : since < events'[i]
      BY <1>2, <3>1
    <3>3. \A r \in retries' : since < r[1]
      BY <1>2, <3>1
    <3>4. InFunnel' => since < worker'.sig
      BY <1>1, <1>3, <3>1 DEF InFunnel
    <3> QED
      BY <3>2, <3>3, <3>4
  <2> QED
    BY <1>1, <2>1, WatchFacts DEF SinceInv, Own
<1> QED
  BY <1>4, <1>5, <1>6 DEF WatchInv

\* A poll that goes on with its range has everything before it to replay; the range of a
\* watched wallet that is replayed starts after the wallet was added.
LEMMA PollsOnWatch ==
    ASSUME WatchInv, enabled,
           UNCHANGED <<kind, since, enabled, cursor, known, base, published, stream, events, retries>>,
           failed' = failed, range' \in Ranges, range'.open, PollsOn(worker', range'),
           range'.until = cursor.at, range'.initial <=> range'.until = 0,
           range'.baseline <=> (~ Own /\ ~ cursor.row),
           range'.newest # 0 => range'.until < range'.low,
           range'.complete /\ range'.newest # 0 /\ ~ range'.initial => range'.low = range'.until + 1,
           range'.baseline /\ (range'.complete \/ range'.newest # 0) => since <= range'.newest
    PROVE  CursorInv' /\ ReplayInv' /\ SinceInv' /\ NothingSkipped' /\ WatchStartsNow'
<1>1. NothingSkipped' /\ WatchStartsNow'
  BY SkippedKept, StartKept
<1>2. CursorInv'
  BY WatchFacts DEF CursorInv, Own
<1>3. range'.low \in Nat /\ range'.newest \in Nat /\ range'.until \in Nat
  BY WatchFacts DEF Ranges
<1>4. ReplayInv'
  <2>1. \A s \in Sigs : ~ (range'.low <= s /\ s < range'.low)
    BY <1>3 DEF Sigs
  <2> QED
    BY <2>1 DEF ReplayInv, PollsOn, InFunnel
<1>5. SinceInv'
  <2>1. ASSUME ~ Own, InFunnel' PROVE since < worker'.sig
    <3>1. worker'.sig = range'.low /\ range'.newest # 0 /\ ~ range'.baseline
      BY <2>1 DEF PollsOn, InFunnel
    <3>2. since <= cursor.at
      BY <2>1, <3>1, WatchFacts DEF SinceInv
    <3> QED
      BY <1>3, <3>1, <3>2, WatchFacts
  <2> QED
    BY <2>1, WatchFacts DEF SinceInv, Own
<1> QED
  BY <1>1, <1>2, <1>4, <1>5

\* The startup poll, a gap fill or a tick: with reads of the cursor that do not fail, a range
\* opens at the cursor, and at the wallet's first signature only when there is no cursor.
LEMMA PollWatch ==
    ASSUME WatchInv, Inv', Poll, ReadsFail = FALSE
    PROVE  WatchInv'
<1>1. UNCHANGED <<kind, head, failed, since, enabled, cursor, known, base, published, stream, events,
                  retries>>
  BY DEF Poll, chain, store
<1>2. CASE enabled
  <2>1. OpenRange
    BY <1>2 DEF Poll
  <2>2. /\ range' \in Ranges /\ range'.open /\ PollsOn(worker', range')
        /\ \/ range.open /\ range' = range
           \/ /\ ~ range.open /\ range'.until \in CursorRead
              /\ range'.initial <=> range'.until = 0
              /\ range'.baseline \in BaselineRead
              /\ ~ range'.complete /\ range'.newest = 0
    BY <2>1, OpenRangeEffect DEF WatchInv
  <2>3. CursorRead = {cursor.at} /\ BaselineRead = {baseline_only}
    BY DEF CursorRead, BaselineRead
  <2>4. range'.baseline => ~ Own
    BY <2>2, <2>3, WatchFacts DEF CursorInv, baseline_only
  <2>5. CASE range.open /\ range' = range
    <3>1. /\ range.until = cursor.at /\ (range.initial <=> range.until = 0)
          /\ range.baseline <=> (~ Own /\ ~ cursor.row)
          /\ range.complete /\ range.newest # 0 /\ ~ range.initial => range.low = range.until + 1
      BY <2>5, WatchFacts DEF CursorInv
    <3>2. range.newest # 0 => range.until < range.low
      BY WatchFacts DEF CursorInv
    <3>3. range.baseline /\ (range.complete \/ range.newest # 0) => since <= range.newest
      BY <2>4, <2>5, WatchFacts DEF SinceInv
    <3>4. CursorInv' /\ ReplayInv' /\ SinceInv' /\ NothingSkipped' /\ WatchStartsNow'
      BY <1>1, <1>2, <2>2, <2>5, <3>1, <3>2, <3>3, PollsOnWatch
    <3> QED
      BY <3>4 DEF WatchInv
  <2>6. CASE ~ (range.open /\ range' = range)
    <3>1. /\ range'.until = cursor.at /\ (range'.initial <=> range'.until = 0)
          /\ range'.baseline <=> (~ Own /\ ~ cursor.row)
          /\ ~ range'.complete /\ range'.newest = 0
      BY <2>2, <2>3, <2>6 DEF baseline_only
    <3>2. CursorInv' /\ ReplayInv' /\ SinceInv' /\ NothingSkipped' /\ WatchStartsNow'
      BY <1>1, <1>2, <2>2, <3>1, PollsOnWatch
    <3> QED
      BY <3>2 DEF WatchInv
  <2> QED
    BY <2>5, <2>6
<1>3. CASE ~ enabled
  <2>1. UNCHANGED <<range, worker>>
    BY <1>3 DEF Poll
  <2>2. CursorInv' /\ ReplayInv' /\ NothingSkipped' /\ WatchStartsNow'
    BY <1>1, <2>1, CursorKept, ReplayKept, SkippedKept, StartKept
  <2>3. SinceInv'
    BY <1>1, <2>1 DEF WatchInv, SinceInv, Own, InFunnel
  <2> QED
    BY <2>2, <2>3 DEF WatchInv
<1> QED
  BY <1>2, <1>3

\* A worker that comes to rest, or is stopped.
LEMMA RestsWatch ==
    ASSUME WatchInv, UNCHANGED <<kind, since, published>>, worker'.pc \in Resting,
           \/ UNCHANGED <<stream, events, retries>>
           \/ stream' = NoStream /\ events' = <<>> /\ retries' = {},
           ~ Own => (cursor'.row => since <= cursor'.at),
           ~ Own => (range'.baseline /\ (range'.complete \/ range'.newest # 0) => since <= range'.newest)
    PROVE  ReplayInv' /\ SinceInv' /\ WatchStartsNow'
<1>1. ReplayInv' /\ WatchStartsNow' /\ ~ InFunnel'
  BY ReplayRests, StartKept DEF InFunnel, Resting
<1>2. ASSUME ~ Own
      PROVE  /\ stream'.up => since <= stream'.seen
             /\ \A i \in 1 .. Len(events') : since < events'[i]
             /\ \A r \in retries' : since < r[1]
  <2>1. CASE UNCHANGED <<stream, events, retries>>
    BY <1>2, <2>1, WatchFacts DEF SinceInv
  <2>2. CASE stream' = NoStream /\ events' = <<>> /\ retries' = {}
    BY <2>2 DEF NoStream
  <2> QED
    BY <2>1, <2>2
<1>3. SinceInv'
  BY <1>1, <1>2 DEF SinceInv, Own
<1> QED
  BY <1>1, <1>3

\* A page: a range without a gap, from no earlier than when the wallet was added.
LEMMA FetchPageWatch ==
    ASSUME WatchInv, Inv', NodesLag = FALSE, NEW tip \in 0 .. MaxTx, FetchPage(tip)
    PROVE  WatchInv'
<1>1. UNCHANGED <<kind, head, failed, since, cursor, known, base, published, stream, events, retries>>
  BY DEF FetchPage, chain, feed
<1>2. enabled /\ range.open /\ worker.pc = "page"
  BY WatchFacts DEF FetchPage, Resting, Inv, RangeInv
<1>3. PICK r :
         /\ Extends(r, tip)
         /\ \/ range' = r /\ enabled' = enabled /\ PollsOn(worker', r)
            \/ range' = r /\ enabled' = enabled /\ Own /\ worker' = Idle
            \/ range' = NoRange /\ enabled' \in BOOLEAN /\ ~ Own /\ worker' = Idle
  BY FetchPageEffect, WatchFacts
<1>4. /\ range.until = cursor.at /\ (range.initial <=> range.until = 0)
      /\ range.baseline <=> (~ Own /\ ~ cursor.row)
  BY <1>2, WatchFacts DEF CursorInv
<1>5. /\ r \in Ranges /\ r.open /\ r.until = cursor.at /\ (r.initial <=> r.until = 0)
      /\ r.baseline <=> (~ Own /\ ~ cursor.row)
      /\ r.newest # 0 => r.until < r.low
      /\ r.complete /\ r.newest # 0 /\ ~ r.initial => r.low = r.until + 1
      /\ r.newest = 0 => tip <= r.until
  <2>1. UpToDate(tip) /\ (range.newest # 0 => range.until < range.low)
    BY WatchFacts DEF FetchPage, CursorInv
  <2> QED
    BY <1>3, <1>4, <2>1 DEF Extends
<1>6. r.baseline /\ (r.complete \/ r.newest # 0) => since <= r.newest
  <2> SUFFICES ASSUME r.baseline PROVE since <= r.newest
    OBVIOUS
  <2>1. ~ Own /\ ~ cursor.row /\ cursor.at = 0 /\ range.baseline
    BY <1>4, <1>5, WatchFacts DEF CursorInv
  <2>2. tip >= since
    BY DEF FetchPage, UpToDate
  <2>3. CASE r.newest = 0
    <3>1. tip <= r.until
      BY <1>5, <2>3
    <3> QED
      BY <1>5, <2>1, <2>2, <2>3, <3>1, WatchFacts
  <2>4. CASE r.newest # 0
    <3>1. r.newest = IF range.newest = 0 THEN tip ELSE range.newest
      BY <1>3, <2>4 DEF Extends
    <3>2. range.newest # 0 => since <= range.newest
      BY <2>1, WatchFacts DEF SinceInv
    <3> QED
      BY <2>2, <3>1, <3>2, WatchFacts
  <2> QED
    BY <2>3, <2>4
<1>7. CASE range' = r /\ enabled' = enabled /\ PollsOn(worker', r)
  <2>1. CursorInv' /\ ReplayInv' /\ SinceInv' /\ NothingSkipped' /\ WatchStartsNow'
    BY <1>1, <1>2, <1>5, <1>6, <1>7, PollsOnWatch
  <2> QED
    BY <2>1 DEF WatchInv
<1>8. NothingSkipped'
  BY <1>1, SkippedKept
<1>9. Idle.pc \in Resting /\ (~ Own => (cursor.row => since <= cursor.at))
  BY WatchFacts DEF Idle, Rest, Resting, SinceInv
<1>10. CASE range' = r /\ enabled' = enabled /\ worker' = Idle
  <2>1. ReplayInv' /\ SinceInv' /\ WatchStartsNow'
    BY <1>1, <1>6, <1>9, <1>10, RestsWatch
  <2>2. CursorInv'
    BY <1>1, <1>2, <1>5, <1>10, WatchFacts DEF CursorInv, Own
  <2> QED
    BY <1>8, <2>1, <2>2 DEF WatchInv
<1>11. CASE range' = NoRange /\ worker' = Idle
  <2>1. ~ NoRange.open /\ ~ NoRange.baseline /\ ~ NoRange.complete /\ NoRange.newest = 0
    BY DEF NoRange
  <2>2. ReplayInv' /\ SinceInv' /\ WatchStartsNow'
    BY <1>1, <1>9, <1>11, <2>1, RestsWatch
  <2>3. CursorInv'
    BY <1>1, <1>9, <1>11, <2>1, WatchFacts DEF CursorInv, Own, Resting
  <2> QED
    BY <1>8, <2>2, <2>3 DEF WatchInv
<1> QED
  BY <1>3, <1>7, <1>10, <1>11

\* The cursor moves to the newest signature of a range: everything up to it is handled.
LEMMA SetCursorWatch ==
    ASSUME WatchInv, Inv', SetCursor
    PROVE  WatchInv'
<1>1. /\ UNCHANGED <<kind, head, failed, since, enabled, known, published, stream, events, retries>>
      /\ range' = NoRange /\ worker' = Idle /\ worker.pc = "cursor"
      /\ cursor' = IF range.newest # 0 THEN [row |-> TRUE, at |-> range.newest]
                   ELSE IF range.baseline THEN [cursor EXCEPT !.row = TRUE]
                   ELSE cursor
      /\ base' = IF cursor.at # 0 \/ range.newest = 0 THEN base
                 ELSE IF range.baseline THEN range.newest ELSE range.low - 1
  BY DEF SetCursor, chain, feed
<1>2. /\ range.open /\ range.complete
      /\ range.newest # 0 => range.until < range.low /\ range.low <= range.newest
  BY <1>1, WatchFacts DEF Inv, RangeInv, CursorInv
<1>3. /\ range.until = cursor.at /\ (range.initial <=> range.until = 0)
      /\ range.baseline <=> (~ Own /\ ~ cursor.row)
      /\ range.newest # 0 /\ ~ range.initial => range.low = range.until + 1
      /\ cursor.row \/ cursor.at = 0
  BY <1>2, WatchFacts DEF CursorInv
<1>4. /\ ~ NoRange.open /\ ~ NoRange.baseline /\ ~ NoRange.complete /\ NoRange.newest = 0
      /\ Idle.pc \in Resting
  BY DEF NoRange, Idle, Rest, Resting
<1>5. /\ range.newest # 0 => cursor'.row /\ cursor'.at = range.newest
      /\ range.newest = 0 => cursor'.at = cursor.at
      /\ range.newest = 0 /\ ~ range.baseline => cursor' = cursor
      /\ cursor'.row \/ cursor'.at = 0
  BY <1>1, <1>3, WatchFacts
<1>6. CursorInv'
  BY <1>1, <1>4, <1>5, WatchFacts DEF CursorInv, Resting
<1>7. ~ Own => (cursor'.row => since <= cursor'.at)
  <2> SUFFICES ASSUME ~ Own, cursor'.row PROVE since <= cursor'.at
    OBVIOUS
  <2>1. CASE range.baseline
    <3>1. since <= range.newest
      BY <1>2, <2>1, WatchFacts DEF SinceInv
    <3> QED
      BY <1>3, <1>5, <3>1, WatchFacts
  <2>2. CASE ~ range.baseline
    <3>1. cursor.row /\ since <= cursor.at
      BY <1>3, <2>2, WatchFacts DEF SinceInv
    <3> QED
      BY <1>2, <1>3, <1>5, <3>1, WatchFacts
  <2> QED
    BY <2>1, <2>2
<1>8. ReplayInv' /\ SinceInv' /\ WatchStartsNow'
  BY <1>1, <1>4, <1>7, RestsWatch
<1>9. NothingSkipped'
  <2> SUFFICES ASSUME NEW s \in Sigs, base' < s, s <= cursor'.at PROVE Handled(s)'
    BY DEF NothingSkipped, Handled, Own, Sigs
  <2>1. s \in Nat
    BY DEF Sigs
  <2>2. Handled(s)
    <3>1. CASE base' = base /\ s <= cursor.at
      BY <3>1, WatchFacts DEF NothingSkipped, Handled
    <3>2. CASE ~ (base' = base /\ s <= cursor.at)
      <4>1. range.newest # 0
        BY <1>1, <1>5, <3>2
      <4>2. ~ range.baseline
        BY <1>1, <1>3, <1>5, <2>1, <4>1, WatchFacts
      <4>3. range.low <= s /\ s <= range.newest
        BY <1>1, <1>2, <1>3, <1>5, <2>1, <3>2, <4>1, <4>2, WatchFacts
      <4> QED
        BY <1>1, <4>1, <4>2, <4>3, WatchFacts DEF ReplayInv
    <3> QED
      BY <3>1, <3>2
  <2> QED
    BY <1>1, <2>2 DEF Handled, Own
<1> QED
  BY <1>6, <1>8, <1>9 DEF WatchInv

\* A poll that fails, and what the registry does to a worker.
LEMMA EndsWatch ==
    ASSUME WatchInv, Inv', PollFails \/ Reload \/ Resume \/ Restart, NodesLag = FALSE
    PROVE  WatchInv'
<1>1. UNCHANGED <<kind, head, failed, since, known, published>>
  BY DEF PollFails, Reload, Resume, Restart, chain, store
<1>2. /\ ~ NoRange.open /\ ~ NoRange.baseline /\ ~ NoRange.complete /\ NoRange.newest = 0
      /\ Idle.pc \in Resting /\ \A pc \in Resting : Rest(pc).pc = pc
  BY DEF NoRange, Idle, Rest, Resting
<1>3. /\ ~ Own => (cursor.row => since <= cursor.at)
      /\ ~ Own => (range.baseline /\ (range.complete \/ range.newest # 0) => since <= range.newest)
  BY WatchFacts DEF SinceInv
<1>4. CASE PollFails
  <2>1. /\ UNCHANGED <<enabled, cursor, base, stream, events, retries, range>> /\ worker' = Idle
    BY <1>4 DEF PollFails, store, feed
  <2>2. ReplayInv' /\ SinceInv' /\ WatchStartsNow'
    BY <1>1, <1>2, <1>3, <2>1, RestsWatch
  <2>3. CursorInv' /\ NothingSkipped'
    BY <1>1, <1>2, <2>1, CursorKept, SkippedKept
  <2> QED
    BY <2>2, <2>3 DEF WatchInv
<1>5. CASE Reload \/ Restart
  <2>1. UNCHANGED <<enabled, cursor, base>> /\ \E pc \in Resting : Forget(pc)
    BY <1>5 DEF Reload, Restart, store, Resting
  <2>2. /\ stream' = NoStream /\ events' = <<>> /\ retries' = {} /\ range' = NoRange
        /\ worker'.pc \in Resting
    BY <1>2, <2>1 DEF Forget
  <2>3. ReplayInv' /\ SinceInv' /\ WatchStartsNow'
    BY <1>1, <1>2, <1>3, <2>1, <2>2, RestsWatch
  <2>4. CursorInv' /\ NothingSkipped'
    BY <1>1, <1>2, <2>1, <2>2, SkippedKept, WatchFacts DEF CursorInv, Resting
  <2> QED
    BY <2>3, <2>4 DEF WatchInv
<1>6. CASE Resume
  <2>1. /\ UNCHANGED <<stream, events, retries, range>> /\ enabled' = TRUE /\ ~ enabled
        /\ IF worker.pc = "gone" THEN worker' = Rest("start") ELSE worker' = worker
    BY <1>6 DEF Resume, feed
  <2>2. PICK v \in 0 .. head : since <= v /\ cursor' = [row |-> TRUE, at |-> v] /\ base' = v
    BY <1>6, WatchFacts DEF Resume
  <2>3. cursor'.row = TRUE /\ cursor'.at = v /\ base' = v /\ v \in Nat /\ since <= v
    BY <2>2, WatchFacts
  <2>4. range = NoRange /\ worker.pc \in Resting
    BY <2>1, WatchFacts DEF CursorInv, Resting
  <2>5. worker'.pc \in Resting
    BY <1>2, <2>1, <2>4 DEF Resting
  <2>6. ReplayInv' /\ SinceInv' /\ WatchStartsNow'
    BY <1>1, <1>3, <2>1, <2>3, <2>5, RestsWatch
  <2>7. CursorInv'
    BY <1>2, <2>1, <2>3, <2>4 DEF CursorInv
  <2>8. NothingSkipped'
    BY <2>3 DEF NothingSkipped, Sigs
  <2> QED
    BY <2>6, <2>7, <2>8 DEF WatchInv
<1> QED
  BY <1>4, <1>5, <1>6

\* The initial state: no cursor, no range and nothing published.
LEMMA InitWatch == Init => WatchInv
<1> SUFFICES ASSUME Init PROVE WatchInv
  OBVIOUS
<1>1. Inv
  BY InitInv
<1>2. /\ ~ NoRange.open /\ ~ NoRange.baseline /\ ~ NoRange.complete /\ NoRange.newest = 0
      /\ ~ NoStream.up
  BY DEF NoRange, NoStream
<1>3. worker.pc = "start"
  BY DEF Init, Rest
<1>4. CursorInv /\ ReplayInv
  BY <1>2, <1>3 DEF Init, CursorInv, ReplayInv, InFunnel
<1>5. SinceInv
  BY <1>2, <1>3 DEF Init, SinceInv, InFunnel
<1>6. NothingSkipped
  BY DEF Init, NothingSkipped, Sigs
<1>7. WatchStartsNow
  <2>1. 1 .. since \subseteq Sigs
    BY <1>1, Bounds DEF Inv, Sigs
  <2> QED
    BY <2>1 DEF Init, WatchStartsNow
<1> QED
  BY <1>1, <1>4, <1>5, <1>6, <1>7 DEF WatchInv

\* Every step keeps the invariant of the watch, with reads of the cursor that do not fail and
\* nodes that do not lag.
LEMMA StepWatchInv ==
    ASSUME ReadsFail = FALSE, NodesLag = FALSE
    PROVE  WatchInv /\ [Next]_vars => WatchInv'
<1> SUFFICES ASSUME WatchInv, [Next]_vars PROVE WatchInv'
  OBVIOUS
<1>0. Inv'
  BY StepInv DEF WatchInv
<1>1. CASE Land
  BY <1>0, <1>1, LandWatch
<1>2. CASE Disconnect \/ Reconnect \/ StreamEnds \/ Subscribe \/ ReadVersion \/ Forward
  BY <1>0, <1>2, FeedWatch
<1>3. CASE Classified \/ Skipped \/ FunnelFails \/ Record \/ Commit \/ Publish
  BY <1>0, <1>3, FunnelWatch
<1>4. CASE TakeEvent \/ TakeRetry
  BY <1>0, <1>4, TakeWatch
<1>5. CASE Poll
  BY <1>0, <1>5, PollWatch
<1>6. CASE \E tip \in 0 .. MaxTx : FetchPage(tip)
  BY <1>0, <1>6, FetchPageWatch
<1>7. CASE SetCursor
  BY <1>0, <1>7, SetCursorWatch
<1>8. CASE PollFails \/ Reload \/ Resume \/ Restart
  BY <1>0, <1>8, EndsWatch
<1>9. CASE UNCHANGED vars
  <2>1. UNCHANGED <<kind, failed, since, enabled, cursor, known, base, published, stream, events,
                    retries, range, worker>>
    BY <1>9 DEF vars, chain, store, feed
  <2>2. CursorInv' /\ ReplayInv' /\ NothingSkipped' /\ WatchStartsNow'
    BY <2>1, CursorKept, ReplayKept, SkippedKept, StartKept
  <2>3. SinceInv'
    BY <2>1 DEF WatchInv, SinceInv, Own, InFunnel
  <2> QED
    BY <1>0, <2>2, <2>3 DEF WatchInv
<1> QED
  BY <1>1, <1>2, <1>3, <1>4, <1>5, <1>6, <1>7, <1>8, <1>9 DEF Next, WorkerStep

\* The durable cursor never passes a transaction the funnel has not finished with, through
\* pages that fail, replays that stop half way, outages, pauses and restarts, as long as a
\* read of the cursor does not fail (a failed read is taken for an address without a cursor)
\* and no node that answers lags behind what was seen: the code checks neither.
THEOREM NothingPassedOver ==
    ASSUME ReadsFail = FALSE, NodesLag = FALSE
    PROVE  Spec => []NothingSkipped
<1>1. Spec => []WatchInv
  BY InitWatch, StepWatchInv, PTL DEF Spec
<1>2. WatchInv => NothingSkipped
  BY DEF WatchInv
<1> QED
  BY <1>1, <1>2, PTL

\* Nothing a watched wallet did before it was added is published, as long as a read of the
\* cursor does not fail and no node lags: one behind the add, or behind the cursor, answers
\* with the wallet's history, and the code replays it.
THEOREM NothingFromBefore ==
    ASSUME ReadsFail = FALSE, NodesLag = FALSE
    PROVE  Spec => []WatchStartsNow
<1>1. Spec => []WatchInv
  BY InitWatch, StepWatchInv, PTL DEF Spec
<1>2. WatchInv => WatchStartsNow
  BY DEF WatchInv
<1> QED
  BY <1>1, <1>2, PTL

=============================================================================
