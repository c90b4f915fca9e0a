----------------------- MODULE SwapVerificationProofs -----------------------
(***************************************************************************)
(* What the booking of swaps keeps, for every set of swaps a position      *)
(* sends and any number of restarts.                                       *)
(*                                                                         *)
(* No swap is booked twice: only VerifyLanded writes a record, and an      *)
(* effect that carries one was computed while the swap had none.  Effects  *)
(* are built by updating other effects, so the lemmas first show what      *)
(* every constructor of effects keeps.                                     *)
(*                                                                         *)
(* The other state invariants share one inductive invariant, Inv.  Its     *)
(* core is a count and a fitness.  The items of a swap in the queue, in    *)
(* the worker's hands and still to come from its call never exceed its     *)
(* room: one, or two where the row names the swap and the worker's cycle   *)
(* may enqueue it besides the call.  And an item of a pending swap marked  *)
(* as missed was missed by a read of the chain whose bound covers it.      *)
(***************************************************************************)
EXTENDS SwapVerification, SequenceTheorems, FiniteSetTheorems, TLAPS

\* An effect carries a record of s only when the swap had none: what every constructor of
\* effects keeps.
Fresh(e, s) ==
    /\ "booked" \in DOMAIN e /\ "memory" \in DOMAIN e /\ "stored" \in DOMAIN e
    /\ e.booked \in BOOLEAN
    /\ e.booked => bookings[s] = 0

\* The state as it stands, unbooked, is fresh.
LEMMA NowIsFresh ==
    ASSUME NEW s
    PROVE  Fresh(Now, s)
BY DEF Fresh, Now

\* A result code does not touch the record.
LEMMA WithKeeps ==
    ASSUME NEW s, NEW e, Fresh(e, s), NEW r
    PROVE  Fresh(With(e, r), s)
BY DEF Fresh, With

\* publish_committed writes memory only.
LEMMA PublishedKeeps ==
    ASSUME NEW s, NEW e, Fresh(e, s)
    PROVE  Fresh(Published(e), s)
BY DEF Fresh, Published

\* Clearing a pending entry does not touch the record.
LEMMA ClearedKeeps ==
    ASSUME NEW s, NEW t, NEW e, Fresh(e, s)
    PROVE  Fresh(Cleared(e, t), s)
BY DEF Fresh, Cleared

\* The partial-exit counter does not touch the record.
LEMMA CounterDownKeeps ==
    ASSUME NEW s, NEW e, Fresh(e, s)
    PROVE  Fresh(CounterDown(e), s)
BY DEF Fresh, CounterDown

\* Dropping swaps from the row does not touch the record.
LEMMA StoredKeeps ==
    ASSUME NEW s, NEW e, Fresh(e, s), NEW S
    PROVE  Fresh([e EXCEPT !.stored = @ \ S], s)
BY DEF Fresh

\* clear_exit_for_retry, in each of its branches, does not touch the record.
LEMMA ClearExitKeeps ==
    ASSUME NEW s, NEW t, NEW e, Fresh(e, s)
    PROVE  Fresh(clear_exit_for_retry(e, t), s)
<1>1. Fresh(With(e, "drop"), s)
  BY WithKeeps
<1>2. \A S : Fresh(Published([e EXCEPT !.stored = @ \ S]), s)
  BY StoredKeeps, PublishedKeeps
<1>3. CASE e.round = "removed"
  BY <1>3 DEF clear_exit_for_retry
<1>4. CASE e.round # "removed" /\ e.round = "writtenOff" /\ t \in e.stored
  BY <1>2, <1>4 DEF clear_exit_for_retry
<1>5. CASE e.round \in {"closed", "writtenOff"} /\ ~(e.round = "writtenOff" /\ t \in e.stored)
  BY <1>1, <1>5 DEF clear_exit_for_retry
<1>6. CASE e.round = "open" /\ (e.stored \cap Exits) \ {t} # {}
  BY <1>6 DEF clear_exit_for_retry
<1>7. CASE /\ e.round \notin {"removed", "closed", "writtenOff"}
           /\ ~(e.round = "open" /\ (e.stored \cap Exits) \ {t} # {})
  BY <1>2, <1>7 DEF clear_exit_for_retry
<1> QED
  BY <1>3, <1>4, <1>5, <1>6, <1>7

\* A leg is booked only when the swap has no record.
LEMMA LegsAreFresh ==
    ASSUME NEW s, bookings[s] \in Nat, NEW e \in Legs(s)
    PROVE  Fresh(e, s)
<1>1. CASE bookings[s] > 0
  BY <1>1, NowIsFresh DEF Legs
<1>2. CASE ~(bookings[s] > 0)
  <2>1. PICK r \in Rounds : e = Leg(s, r)
    BY <1>2 DEF Legs
  <2>2. bookings[s] = 0
    BY <1>2
  <2> DEFINE base == [Now EXCEPT !.round = r, !.booked = TRUE,
                                 !.stored = (IF r # round THEN @ \ Exits ELSE @)
                                            \ (OfKind("entry") \cap {s})]
  <2>3. Fresh(base, s)
    BY <2>2 DEF Fresh, Now
  <2>4. e = Published(base)
    BY <2>1 DEF Leg
  <2> QED
    BY <2>3, <2>4, PublishedKeeps
<1> QED
  BY <1>1, <1>2

\* EntryVerified, DcaVerified, PartialExitVerified.
LEMMA FillsAreFresh ==
    ASSUME NEW s, bookings[s] \in Nat, NEW e \in FillEffects(s)
    PROVE  Fresh(e, s)
<1>1. \A f \in Legs(s) : /\ Fresh(f, s)
                         /\ Fresh(Cleared(f, s), s)
                         /\ Fresh(CounterDown(Cleared(f, s)), s)
                         /\ Fresh(With(f, "retry"), s)
  BY LegsAreFresh, ClearedKeeps, CounterDownKeeps, WithKeeps
<1>2. CASE Kind[s] = "entry"
  BY <1>1, <1>2 DEF FillEffects
<1>3. CASE Kind[s] \in {"add", "partial"}
  <2>1. PICK f \in Legs(s) : \/ e = With(f, "retry")
                             \/ e = Cleared(f, s)
                             \/ e = CounterDown(Cleared(f, s))
    BY <1>3 DEF FillEffects
  <2> QED
    BY <1>1, <2>1
<1>4. CASE Kind[s] \notin {"entry", "add", "partial"}
  BY <1>4 DEF FillEffects
<1> QED
  BY <1>2, <1>3, <1>4

\* ExitVerified.
LEMMA ClosesAreFresh ==
    ASSUME NEW s, bookings[s] \in Nat, NEW e \in CloseEffects(s)
    PROVE  Fresh(e, s)
<1>1. CASE bookings[s] > 0
  BY <1>1, NowIsFresh DEF CloseEffects
<1>2. CASE ~(bookings[s] > 0)
  <2>1. PICK r : e = Published([Now EXCEPT !.round = r, !.booked = TRUE,
                                           !.stored = @ \ Exits])
    BY <1>2 DEF CloseEffects
  <2>2. Fresh([Now EXCEPT !.round = r, !.booked = TRUE, !.stored = @ \ Exits], s)
    BY <1>2 DEF Fresh, Now
  <2> QED
    BY <2>1, <2>2, PublishedKeeps
<1> QED
  BY <1>1, <1>2

\* ExitResidualClearForRetry: a partial leg, then the exit is cleared.
LEMMA ResidualsAreFresh ==
    ASSUME NEW s, bookings[s] \in Nat, NEW e \in ResidualEffects(s)
    PROVE  Fresh(e, s)
<1>1. \A f \in Legs(s) : Fresh(CounterDown(f), s)
  BY LegsAreFresh, CounterDownKeeps
<1>2. PICK f \in Legs(s) :
         \/ e = With(clear_exit_for_retry(CounterDown(f), s), "ok")
         \/ e = With(CounterDown(f), "retry")
  BY DEF ResidualEffects
<1>3. Fresh(clear_exit_for_retry(CounterDown(f), s), s)
  BY <1>1, ClearExitKeeps
<1> QED
  BY <1>1, <1>2, <1>3, WithKeeps

\* Whatever a landed swap's verification does, it books only a swap without a record.
LEMMA BookingsAreFresh ==
    ASSUME NEW s, bookings[s] \in Nat, NEW e \in BookingEffects(s)
    PROVE  e.booked => bookings[s] = 0
<1>1. Fresh(With(Now, "drop"), s) /\ Fresh(With(Now, "retry"), s)
  BY NowIsFresh, WithKeeps
<1>2. \/ e \in {With(Now, "drop"), With(Now, "retry")}
      \/ e \in CloseEffects(s) \/ e \in ResidualEffects(s) \/ e \in FillEffects(s)
  BY DEF BookingEffects
<1>3. Fresh(e, s)
  BY <1>1, <1>2, ClosesAreFresh, ResidualsAreFresh, FillsAreFresh
<1> QED
  BY <1>3 DEF Fresh

-----------------------------------------------------------------------------
(* What an effect does to the row, to memory and to the store.              *)

Rounds5 == {"none", "open", "closed", "writtenOff", "removed"}
Results == {"ok", "retry", "drop"}

\* The swaps that were sent.
Sent == {s \in Sigs : fate[s] # "unsent"}

\* The row names sent swaps only, and the counter is one of them.
RowTyped ==
    /\ round \in Rounds5 /\ memory \subseteq Sent /\ stored \subseteq Sent
    /\ partials \in 0 .. Cardinality(Sigs)

\* An effect keeps that, and does not remove the row.
Lawful(e) ==
    /\ {"round", "memory", "stored", "partials", "booked", "result"} \subseteq DOMAIN e
    /\ e.round \in Rounds5 /\ (e.round = "removed" => round = "removed")
    /\ e.memory \subseteq Sent /\ e.stored \subseteq Sent
    /\ e.partials \in 0 .. Cardinality(Sigs)
    /\ e.result \in Results

\* Nothing done.
LEMMA NowLawful ==
    ASSUME RowTyped
    PROVE  Lawful(Now) /\ Now.booked = FALSE /\ Now.round = round /\ Now.result = "ok"
BY DEF Lawful, Now, RowTyped, Results

\* Another result.
LEMMA WithLawful ==
    ASSUME NEW e, Lawful(e), NEW r \in Results
    PROVE  Lawful(With(e, r)) /\ With(e, r).booked = e.booked /\ With(e, r).round = e.round
           /\ With(e, r).result = r
BY DEF Lawful, With

\* The row as stored, in memory.
LEMMA PublishedLawful ==
    ASSUME NEW e, Lawful(e)
    PROVE  Lawful(Published(e)) /\ Published(e).booked = e.booked /\ Published(e).round = e.round
           /\ Published(e).result = e.result
BY DEF Lawful, Published

\* A pending entry dropped.
LEMMA ClearedLawful ==
    ASSUME NEW e, Lawful(e), NEW t
    PROVE  Lawful(Cleared(e, t)) /\ Cleared(e, t).booked = e.booked /\ Cleared(e, t).round = e.round
           /\ Cleared(e, t).result = e.result
<1> DEFINE same == OfKind(Kind[t])
           m == e.memory \ {t}
           st == (e.stored \ same) \cup (m \cap same)
<1>1. m \subseteq Sent /\ st \subseteq Sent
    BY DEF Lawful
<1>2. CASE t \in e.memory
    <2>1. Cleared(e, t) = [e EXCEPT !.memory = m, !.stored = st]
        BY <1>2 DEF Cleared
    <2> HIDE DEF m, st
    <2> QED
        BY <1>1, <2>1 DEF Lawful
<1>3. CASE t \notin e.memory
    BY <1>3 DEF Cleared
<1> QED
    BY <1>2, <1>3

\* The counter one down.
LEMMA CounterDownLawful ==
    ASSUME NEW e, Lawful(e), Cardinality(Sigs) \in Nat
    PROVE  Lawful(CounterDown(e)) /\ CounterDown(e).booked = e.booked /\ CounterDown(e).round = e.round
           /\ CounterDown(e).result = e.result
BY DEF Lawful, CounterDown

\* Swaps dropped from the store.
LEMMA StoredLawful ==
    ASSUME NEW e, Lawful(e), NEW S
    PROVE  LET f == [e EXCEPT !.stored = @ \ S]
           IN  Lawful(f) /\ f.booked = e.booked /\ f.round = e.round /\ f.result = e.result
BY DEF Lawful

\* clear_exit_for_retry, in each of its branches.
LEMMA ClearExitLawful ==
    ASSUME NEW e, Lawful(e), NEW t
    PROVE  /\ Lawful(clear_exit_for_retry(e, t))
           /\ clear_exit_for_retry(e, t).booked = e.booked
           /\ clear_exit_for_retry(e, t).round = e.round
<1> DEFINE Good(f) == Lawful(f) /\ f.booked = e.booked /\ f.round = e.round
<1>1. Good(With(e, "drop")) /\ Good(e)
    BY WithLawful DEF Results
<1>2. ASSUME NEW S PROVE Good(Published([e EXCEPT !.stored = @ \ S]))
    <2> PICK f : f = [e EXCEPT !.stored = @ \ S]
        OBVIOUS
    <2>1. Good(f)
        BY StoredLawful
    <2>2. Good(Published(f))
        BY <2>1, PublishedLawful
    <2> QED
        BY <2>2
<1>3. SUFFICES Good(clear_exit_for_retry(e, t))
    OBVIOUS
<1> HIDE DEF Good
<1>4. CASE e.round = "removed"
    BY <1>1, <1>4 DEF clear_exit_for_retry
<1>5. CASE e.round # "removed" /\ e.round = "writtenOff" /\ t \in e.stored
    BY <1>2, <1>5 DEF clear_exit_for_retry
<1>6. CASE e.round \in {"closed", "writtenOff"} /\ ~(e.round = "writtenOff" /\ t \in e.stored)
    BY <1>1, <1>6 DEF clear_exit_for_retry
<1>7. CASE e.round = "open" /\ (e.stored \cap Exits) \ {t} # {}
    BY <1>1, <1>7 DEF clear_exit_for_retry
<1>8. CASE /\ e.round \notin {"removed", "closed", "writtenOff"}
           /\ ~(e.round = "open" /\ (e.stored \cap Exits) \ {t} # {})
    BY <1>2, <1>8 DEF clear_exit_for_retry
<1> QED
    BY <1>4, <1>5, <1>6, <1>7, <1>8

\* A leg is booked, unless the swap has its record.
LEMMA LegsLawful ==
    ASSUME RowTyped, round # "removed", NEW s, bookings[s] \in Nat, NEW e \in Legs(s)
    PROVE  Lawful(e) /\ (e.booked = TRUE \/ bookings[s] > 0)
<1>1. CASE bookings[s] > 0
    BY <1>1, NowLawful DEF Legs
<1>2. CASE ~(bookings[s] > 0)
    <2>1. PICK r \in Rounds : e = Leg(s, r)
        BY <1>2 DEF Legs
    <2>2. r \in Rounds5 /\ r # "removed"
        BY DEF Rounds, RowTyped, Rounds5
    <2>3. PICK st : st = (IF r # round THEN Now.stored \ Exits ELSE Now.stored) \ (OfKind("entry") \cap {s})
        OBVIOUS
    <2>4. st \subseteq Sent
        BY <2>3 DEF Now, RowTyped
    <2>5. PICK base : base = [Now EXCEPT !.round = r, !.booked = TRUE, !.stored = st]
        OBVIOUS
    <2>6. Lawful(base) /\ base.booked = TRUE
        BY <2>2, <2>4, <2>5, NowLawful DEF Lawful
    <2>7. base = [Now EXCEPT !.round = r, !.booked = TRUE,
                             !.stored = (IF r # round THEN @ \ Exits ELSE @) \ (OfKind("entry") \cap {s})]
        BY <2>3, <2>5
    <2>8. e = Published(base)
        BY <2>1, <2>7 DEF Leg
    <2> QED
        BY <2>6, <2>8, PublishedLawful
<1> QED
    BY <1>1, <1>2

\* EntryVerified, DcaVerified, PartialExitVerified.
LEMMA FillsLawful ==
    ASSUME RowTyped, round # "removed", Cardinality(Sigs) \in Nat, NEW s, bookings[s] \in Nat,
           NEW e \in FillEffects(s)
    PROVE  Lawful(e) /\ (e.booked = TRUE \/ bookings[s] > 0)
<1>1. ASSUME NEW f \in Legs(s)
      PROVE  /\ Lawful(f) /\ (f.booked = TRUE \/ bookings[s] > 0)
             /\ Lawful(Cleared(f, s)) /\ Cleared(f, s).booked = f.booked
             /\ Lawful(CounterDown(Cleared(f, s))) /\ CounterDown(Cleared(f, s)).booked = f.booked
             /\ Lawful(With(f, "retry")) /\ With(f, "retry").booked = f.booked
    <2>1. Lawful(f) /\ (f.booked = TRUE \/ bookings[s] > 0)
        BY LegsLawful
    <2>2. Lawful(Cleared(f, s)) /\ Cleared(f, s).booked = f.booked
        BY <2>1, ClearedLawful
    <2>3. Lawful(CounterDown(Cleared(f, s))) /\ CounterDown(Cleared(f, s)).booked = f.booked
        BY <2>2, CounterDownLawful
    <2>4. Lawful(With(f, "retry")) /\ With(f, "retry").booked = f.booked
        BY <2>1, WithLawful DEF Results
    <2> QED
        BY <2>1, <2>2, <2>3, <2>4
<1>2. CASE Kind[s] = "entry"
    BY <1>1, <1>2 DEF FillEffects
<1>3. CASE Kind[s] \in {"add", "partial"}
    <2>1. PICK f \in Legs(s) : \/ e = With(f, "retry")
                               \/ e = Cleared(f, s)
                               \/ e = CounterDown(Cleared(f, s))
        BY <1>3 DEF FillEffects
    <2> QED
        BY <1>1, <2>1
<1>4. CASE Kind[s] \notin {"entry", "add", "partial"}
    BY <1>4 DEF FillEffects
<1> QED
    BY <1>2, <1>3, <1>4

\* ExitVerified.
LEMMA ClosesLawful ==
    ASSUME RowTyped, round # "removed", NEW s, bookings[s] \in Nat, NEW e \in CloseEffects(s)
    PROVE  Lawful(e) /\ (e.booked = TRUE \/ bookings[s] > 0)
<1>1. CASE bookings[s] > 0
    BY <1>1, NowLawful DEF CloseEffects
<1>2. CASE ~(bookings[s] > 0)
    <2>1. PICK r \in {"closed", "open"} :
             e = Published([Now EXCEPT !.round = r, !.booked = TRUE, !.stored = @ \ Exits])
        BY <1>2 DEF CloseEffects
    <2>2. PICK base : base = [Now EXCEPT !.round = r, !.booked = TRUE, !.stored = @ \ Exits]
        OBVIOUS
    <2>3. Lawful(base) /\ base.booked = TRUE
        BY <2>1, <2>2, NowLawful DEF Lawful, Rounds5
    <2> QED
        BY <2>1, <2>2, <2>3, PublishedLawful
<1> QED
    BY <1>1, <1>2

\* ExitResidualClearForRetry.
LEMMA ResidualsLawful ==
    ASSUME RowTyped, round # "removed", Cardinality(Sigs) \in Nat, NEW s, bookings[s] \in Nat,
           NEW e \in ResidualEffects(s)
    PROVE  Lawful(e) /\ (e.booked = TRUE \/ bookings[s] > 0)
<1>1. PICK f \in Legs(s) :
         \/ e = With(clear_exit_for_retry(CounterDown(f), s), "ok")
         \/ e = With(CounterDown(f), "retry")
    BY DEF ResidualEffects
<1>2. Lawful(f) /\ (f.booked = TRUE \/ bookings[s] > 0)
    BY LegsLawful
<1>3. PICK g : g = CounterDown(f)
    OBVIOUS
<1>4. Lawful(g) /\ g.booked = f.booked
    BY <1>2, <1>3, CounterDownLawful
<1>5. PICK h : h = clear_exit_for_retry(g, s)
    OBVIOUS
<1>6. Lawful(h) /\ h.booked = g.booked
    BY <1>4, <1>5, ClearExitLawful
<1>7. e = With(h, "ok") \/ e = With(g, "retry")
    BY <1>1, <1>3, <1>5
<1> QED
    BY <1>2, <1>4, <1>6, <1>7, WithLawful DEF Results

\* The verdict of a landed swap: it is done only with its record there, and a removed row
\* takes no record.
LEMMA BookingLawful ==
    ASSUME RowTyped, Cardinality(Sigs) \in Nat, NEW s, bookings[s] \in Nat, NEW e \in BookingEffects(s)
    PROVE  /\ Lawful(e)
           /\ e.result = "ok" => e.booked = TRUE \/ bookings[s] > 0
           /\ round = "removed" => e.booked = FALSE
<1>1. Lawful(With(Now, "drop")) /\ Lawful(With(Now, "retry"))
      /\ With(Now, "drop").result = "drop" /\ With(Now, "retry").result = "retry"
      /\ With(Now, "drop").booked = FALSE
    BY NowLawful, WithLawful DEF Results
<1>2. CASE round = "removed"
    BY <1>1, <1>2 DEF BookingEffects
<1>3. CASE round # "removed"
    <2>1. \/ e = With(Now, "retry")
          \/ e \in CloseEffects(s) \/ e \in ResidualEffects(s) \/ e \in FillEffects(s)
        BY <1>3 DEF BookingEffects
    <2>2. CASE e = With(Now, "retry")
        BY <1>1, <1>3, <2>2
    <2>3. CASE e \in CloseEffects(s) \/ e \in ResidualEffects(s) \/ e \in FillEffects(s)
        BY <1>3, <2>3, ClosesLawful, ResidualsLawful, FillsLawful
    <2> QED
        BY <2>1, <2>2, <2>3
<1> QED
    BY <1>2, <1>3

\* The settlement of a failed swap: the row is removed only with no record on it.
LEMMA FailureLawful ==
    ASSUME RowTyped, Cardinality(Sigs) \in Nat, NEW s \in Sigs, VerificationConstants, NEW e \in FailureEffects(s)
    PROVE  /\ e.round \in Rounds5 /\ e.memory \subseteq Sent /\ e.stored \subseteq Sent
           /\ e.partials \in 0 .. Cardinality(Sigs) /\ e.result \in Results
           /\ e.round = "removed" => round = "removed" \/ \A t \in Sigs : bookings[t] = 0
<1>1. Lawful(Now) /\ Lawful(With(Now, "drop")) /\ Lawful(With(Now, "retry"))
    BY NowLawful, WithLawful DEF Results
<1>2. Kind[s] \in {"entry", "add", "partial", "exit"}
    BY DEF VerificationConstants
<1>3. CASE e = With(Now, "retry")
    BY <1>1, <1>3 DEF Lawful
<1>4. CASE e # With(Now, "retry") /\ Kind[s] = "entry"
    <2>1. CASE EntryUnlanded(s)
        <3>1. e = [Now EXCEPT !.round = "removed", !.memory = {}, !.stored = {}]
            BY <1>4, <2>1 DEF FailureEffects
        <3>2. e.round = "removed" /\ e.memory = {} /\ e.stored = {} /\ e.partials = Now.partials /\ e.result = Now.result
            BY <3>1 DEF Now
        <3>3. \A t \in Sigs : bookings[t] = 0
            BY <2>1 DEF EntryUnlanded
        <3> QED
            BY <1>1, <3>2, <3>3 DEF Lawful, Rounds5
    <2>2. CASE ~ EntryUnlanded(s)
        <3>1. e = With(Now, "drop")
            BY <1>4, <2>2 DEF FailureEffects
        <3> QED
            BY <1>1, <3>1 DEF Lawful
    <2> QED
        BY <2>1, <2>2
<1>5. CASE e # With(Now, "retry") /\ Kind[s] = "add"
    <2>1. e = Cleared(Now, s)
        BY <1>5 DEF FailureEffects
    <2>2. Lawful(e)
        BY <1>1, <2>1, ClearedLawful
    <2> QED
        BY <2>2 DEF Lawful
<1>6. CASE e # With(Now, "retry") /\ Kind[s] = "partial"
    <2> PICK m, st : m = memory \ OfKind("partial") /\ st = stored \ OfKind("partial")
        OBVIOUS
    <2>1. m \subseteq Sent /\ st \subseteq Sent
        BY DEF RowTyped
    <2> PICK gone : gone = [Now EXCEPT !.memory = m, !.partials = 0]
        OBVIOUS
    <2>2. Lawful(gone) /\ gone.stored = stored
        BY <1>1, <2>1 DEF Lawful, Now
    <2>3. Lawful([gone EXCEPT !.stored = st])
        BY <2>1, <2>2 DEF Lawful
    <2>4. e \in {Now, gone, [gone EXCEPT !.stored = st]}
        <3>1. gone = [Now EXCEPT !.memory = @ \ OfKind("partial"), !.partials = 0]
            BY DEF Now
        <3>2. [gone EXCEPT !.stored = st] = [gone EXCEPT !.stored = @ \ OfKind("partial")]
            BY <2>2
        <3> QED
            BY <1>6, <3>1, <3>2 DEF FailureEffects
    <2> QED
        BY <1>1, <2>2, <2>3, <2>4 DEF Lawful
<1>7. CASE e # With(Now, "retry") /\ Kind[s] = "exit"
    <2>1. e = clear_exit_for_retry(Now, s)
        BY <1>7 DEF FailureEffects
    <2>2. Lawful(e)
        BY <1>1, <2>1, ClearExitLawful
    <2> QED
        BY <2>2 DEF Lawful
<1> QED
    BY <1>2, <1>3, <1>4, <1>5, <1>6, <1>7

-----------------------------------------------------------------------------
(* The inductive invariant.                                                 *)

\* No item ever carries an early bound: a bound is read before the queue's signatures are
\* taken only for swaps already sent.
KeptItems == [bound : {"none", "covers"}, confirmed : BOOLEAN, seen : BOOLEAN]
VerdictCodes == {"pending", "landed", "reverted", "notLanded"}
KeptJobs == [item : KeptItems, verdict : VerdictCodes]

Types ==
    /\ fate \in [Sigs -> {"unsent", "flying", "landed", "reverted", "expired"}]
    /\ lagged \in [Sigs -> BOOLEAN]
    /\ call \in [pc : {"idle", "record", "enqueue"}, sig : Sigs \cup {None}]
    /\ noted \in [Sigs -> {"none", "covers"}]
    /\ queue \in [Sigs -> Seq(KeptItems)]
    /\ sig \in Sigs \cup {None} /\ hand \in Seq(KeptJobs) /\ unresolved \in Seq(KeptItems)
    /\ abandoned \subseteq Sigs /\ failed \subseteq Sigs /\ accepted \subseteq Sigs
    /\ wpc \in {"idle", "assign", "settle", "verify", "giveUp", "renew"}
    /\ snap \subseteq Sigs /\ sentAtRead \subseteq Sigs
    /\ bookings \in [Sigs -> Nat]
    /\ restarts \in 0 .. MaxRestarts

\* What the worker's place says of its hands.
WorkerInv ==
    /\ wpc \in {"idle", "assign"} => sig = None /\ hand = <<>> /\ unresolved = <<>>
    /\ wpc \notin {"idle", "assign"} => sig \in Sigs
    /\ wpc \in {"settle", "verify", "renew"} => hand # <<>>
    /\ wpc \in {"settle", "renew"} => unresolved = <<>>
    /\ wpc = "giveUp" => hand = <<>> /\ unresolved # <<>>
    /\ Len(hand) <= 2

\* Nothing is queued, worked on or bounded before its swap is sent.
SentInv ==
    /\ call.pc # "idle" => call.sig \in Sent
    /\ \A s \in Sigs : queue[s] # <<>> => s \in Sent
    /\ sig \in Sent \cup {None}
    /\ snap \subseteq sentAtRead

\* The items of s outside its queue, and the one its call is about to add.
Held(s) ==
    IF s = sig /\ wpc \in {"verify", "giveUp", "renew"} THEN Len(hand) + Len(unresolved) ELSE 0
Coming(s) == IF call.pc # "idle" /\ call.sig = s THEN 1 ELSE 0

\* A swap has one item, and one the row names a second when a cycle finds it before its
\* own call does.
Room(s) == IF s \in OnRow THEN 2 ELSE 1
CountInv == \A s \in Sigs : Len(queue[s]) + Held(s) + Coming(s) <= Room(s)

\* The chain did not execute s, or the last read of it said so.
Missed(s) == fate[s] \in {"reverted", "expired"} \/ (fate[s] = "landed" /\ lagged[s])

\* The items s may have outside a settlement: an unconfirmed one is marked as missed only
\* after a read that missed the swap.
Fit(s) == {i \in KeptItems : s \notin OnRow /\ i.seen /\ ~i.confirmed => Missed(s)}

\* The verdicts a read may have left: not landed, for an item already marked as missed,
\* only when the chain will never execute the swap.
Read(s) ==
    {j \in KeptJobs : s \notin OnRow =>
        /\ j.verdict = "reverted" => fate[s] = "reverted"
        /\ j.verdict = "notLanded" =>
              /\ Missed(s)
              /\ j.item.seen /\ ~j.item.confirmed => fate[s] \in {"reverted", "expired"}}

\* While a settlement pass is over s its item is the one in hand.
FitInv ==
    /\ \A s \in Sigs : ~(s = sig /\ wpc = "settle") => queue[s] \in Seq(Fit(s))
    /\ wpc \in {"verify", "giveUp"} => unresolved \in Seq(Fit(sig))
    /\ wpc = "verify" => \A k \in 1 .. Len(hand) : hand[k].item \in Fit(sig)
    /\ wpc \in {"settle", "renew"} => hand \in Seq(Read(sig))
    /\ wpc = "settle" /\ sig \notin OnRow => Len(hand) = 1 /\ queue[sig] = <<hand[1].item>>

\* The swap is done with for the session.
Settled(s) == bookings[s] > 0 \/ s \in failed \/ s \in abandoned

\* A settlement pass finds the item it is over, or the swap is done with.
PassInv == wpc = "settle" => queue[sig] # <<>> \/ Settled(sig)

Inv ==
    /\ Types /\ RowTyped /\ WorkerInv /\ SentInv /\ CountInv /\ FitInv
    /\ NothingDropped /\ PassInv /\ RemovedHeldNothing /\ FailedNeverLands

-----------------------------------------------------------------------------
(* The invariant bounds what TypeOK bounds, and holds at the start.         *)

\* A sequence of at most two.
LEMMA AtMostTwo ==
    ASSUME NEW S, NEW q \in Seq(S), Len(q) <= 2
    PROVE  q \in UpTo2(S)
<1>1. Len(q) \in Nat /\ \A i \in 1 .. Len(q) : q[i] \in S
    BY LenProperties, ElementOfSeq
<1>2. CASE Len(q) = 0
    BY <1>2, EmptySeq DEF UpTo2
<1>3. CASE Len(q) = 1
    <2>1. q = <<q[1]>> /\ q[1] \in S
        BY <1>1, <1>3
    <2> QED
        BY <2>1 DEF UpTo2
<1>4. CASE Len(q) = 2
    <2>1. q = <<q[1], q[2]>> /\ q[1] \in S /\ q[2] \in S
        BY <1>1, <1>4
    <2> QED
        BY <2>1 DEF UpTo2
<1>5. Len(q) \in {0, 1, 2}
    <2>1. ASSUME NEW n \in Nat, n <= 2 PROVE n \in {0, 1, 2}
        BY <2>1
    <2>2. Len(q) \in Nat
        BY <1>1
    <2> QED
        BY <2>1, <2>2
<1> QED
    BY <1>2, <1>3, <1>4, <1>5

\* A first item, and what is left without it.
LEMMA Taken ==
    ASSUME NEW S, NEW q \in Seq(S), q # <<>>
    PROVE  /\ Len(q) \in Nat /\ Len(q) >= 1
           /\ Head(q) \in S /\ Head(q) = q[1] /\ Tail(q) \in Seq(S) /\ Len(Tail(q)) = Len(q) - 1
           /\ Len(q) = 1 => Tail(q) = <<>>
           /\ Len(q) # 1 => Tail(q) # <<>>
           /\ \A k \in 1 .. Len(Tail(q)) : k + 1 \in 1 .. Len(q) /\ Tail(q)[k] = q[k + 1]
<1>1. Len(q) \in Nat /\ Len(q) >= 1
    BY LenProperties, EmptySeq
<1>2. Head(q) \in S /\ Tail(q) \in Seq(S) /\ Len(Tail(q)) = Len(q) - 1
      /\ \A i \in 1 .. Len(Tail(q)) : Tail(q)[i] = q[i + 1]
    BY HeadTailProperties
<1>3. Head(q) = q[1]
    OBVIOUS
<1>4. Len(q) = 1 => Tail(q) = <<>>
    <2>1. ASSUME NEW n \in Nat, n = 1, NEW m, m = n - 1 PROVE m = 0
        BY <2>1
    <2>2. Len(q) = 1 => Len(Tail(q)) = 0
        BY <1>1, <1>2, <2>1
    <2> QED
        BY <1>2, <2>2, EmptySeq
<1>5. Len(q) # 1 => Tail(q) # <<>>
    <2>1. ASSUME NEW n \in Nat, NEW m, m = n - 1, n # 1 PROVE m # 0
        BY <2>1
    <2>2. Len(q) # 1 => Len(Tail(q)) # 0
        BY <1>1, <1>2, <2>1
    <2> QED
        BY <2>2, EmptySeq
<1>6. ASSUME NEW k \in 1 .. Len(Tail(q)) PROVE k + 1 \in 1 .. Len(q)
    BY <1>1, <1>2
<1> QED
    BY <1>1, <1>2, <1>3, <1>4, <1>5, <1>6

\* Each of the places an item may be in has room.
LEMMA RoomFor ==
    ASSUME NEW q, NEW h, NEW u, NEW c, NEW r,
           q \in Nat, h \in Nat, u \in Nat, c \in Nat, r \in {1, 2}, q + (h + u) + c <= r
    PROVE  q <= 2 /\ h <= 2 /\ u <= 2
OBVIOUS

\* Some swaps are at most all of them.
LEMMA SwapsCounted ==
    ASSUME VerificationConstants
    PROVE  /\ Cardinality(Sigs) \in Nat
           /\ \A S : S \subseteq Sigs => Cardinality(S) \in 0 .. Cardinality(Sigs)
           /\ Sigs # {} => Cardinality(Sigs) >= 1
<1>1. IsFiniteSet(Sigs)
    BY DEF VerificationConstants
<1>2. Cardinality(Sigs) \in Nat
    BY <1>1, FS_CardinalityType
<1>3. ASSUME NEW S, S \subseteq Sigs
      PROVE  Cardinality(S) \in 0 .. Cardinality(Sigs)
    <2>1. IsFiniteSet(S) /\ Cardinality(S) <= Cardinality(Sigs)
        BY <1>1, <1>3, FS_Subset
    <2>2. Cardinality(S) \in Nat
        BY <2>1, FS_CardinalityType
    <2> QED
        BY <1>2, <2>1, <2>2
<1>4. Sigs # {} => Cardinality(Sigs) # 0
    BY <1>1, FS_EmptySet
<1> QED
    BY <1>2, <1>3, <1>4

\* The types.
LEMMA InvTyped ==
    ASSUME VerificationConstants, Inv
    PROVE  TypeOK
<1>1. ASSUME NEW s \in Sigs PROVE queue[s] \in Seq(KeptItems) /\ Len(queue[s]) \in Nat
    BY LenProperties DEF Inv, Types
<1>2. Len(hand) \in Nat /\ Len(unresolved) \in Nat
    BY LenProperties DEF Inv, Types
<1>3. KeptItems \subseteq Items /\ KeptJobs \subseteq Jobs
    BY DEF KeptItems, KeptJobs, Items, Jobs, Bounds, VerdictCodes
<1>4. ASSUME NEW s \in Sigs PROVE queue[s] \in UpTo2(Items)
    <2>1. Held(s) \in Nat /\ Coming(s) \in Nat /\ Room(s) \in {1, 2}
        BY <1>2 DEF Held, Coming, Room
    <2>2. Len(queue[s]) + Held(s) + Coming(s) <= Room(s)
        BY DEF Inv, CountInv
    <2>3. Len(queue[s]) <= 2
        BY <1>1, <2>1, <2>2
    <2>4. queue[s] \in Seq(Items)
        BY <1>1, <1>3, SeqMonotonic
    <2> QED
        BY <2>3, <2>4, AtMostTwo
<1>5. hand \in UpTo2(Jobs)
    <2>1. hand \in Seq(Jobs) /\ Len(hand) <= 2
        BY <1>3, SeqMonotonic DEF Inv, Types, WorkerInv
    <2> QED
        BY <2>1, AtMostTwo
<1>6. unresolved \in UpTo2(Items)
    <2>1. unresolved \in Seq(Items)
        BY <1>3, SeqMonotonic DEF Inv, Types
    <2>2. CASE wpc \in {"verify", "giveUp"}
        <3>1. sig \in Sigs
            BY <2>2 DEF Inv, WorkerInv
        <3>2. Len(queue[sig]) + Held(sig) + Coming(sig) <= Room(sig)
            BY <3>1 DEF Inv, CountInv
        <3>3. Held(sig) = Len(hand) + Len(unresolved) /\ Coming(sig) \in Nat /\ Room(sig) \in {1, 2}
            BY <2>2 DEF Held, Coming, Room
        <3>4. Len(queue[sig]) \in Nat
            BY <1>1, <3>1
        <3>5. Len(unresolved) <= 2
            BY <1>2, <3>2, <3>3, <3>4, RoomFor
        <3> QED
            BY <2>1, <3>5, AtMostTwo
    <2>3. CASE wpc \notin {"verify", "giveUp"}
        <3>1. unresolved = <<>>
            BY <2>3 DEF Inv, Types, WorkerInv
        <3> QED
            BY <3>1 DEF UpTo2
    <2> QED
        BY <2>2, <2>3
<1>7. queue \in [Sigs -> UpTo2(Items)]
    BY <1>4 DEF Inv, Types
<1>8. noted \in [Sigs -> Bounds]
    BY DEF Inv, Types, Bounds
<1>9. memory \subseteq Sigs /\ stored \subseteq Sigs
    BY DEF Inv, RowTyped, Sent
<1> QED
    BY <1>5, <1>6, <1>7, <1>8, <1>9 DEF TypeOK, Inv, Types, RowTyped, Rounds5

\* A fresh position.
LEMMA InvInit ==
    ASSUME VerificationConstants, Init
    PROVE  Inv
<1>1. Types
    <2>1. <<>> \in Seq(KeptItems) /\ <<>> \in Seq(KeptJobs)
        BY EmptySeq
    <2> QED
        BY <2>1 DEF Init, Types, IdleCall, VerificationConstants
<1>2. RowTyped
    BY SwapsCounted DEF Init, RowTyped, Rounds5
<1>3. WorkerInv /\ SentInv
    BY DEF Init, WorkerInv, SentInv, IdleCall
<1>4. CountInv
    <2>1. ASSUME NEW s \in Sigs PROVE Len(queue[s]) + Held(s) + Coming(s) <= Room(s)
        <3>1. Len(queue[s]) = 0 /\ Held(s) = 0 /\ Coming(s) = 0
            BY DEF Init, Held, Coming, IdleCall
        <3> QED
            BY <3>1 DEF Room
    <2> QED
        BY <2>1 DEF CountInv
<1>5. FitInv
    <2>1. ASSUME NEW s \in Sigs PROVE queue[s] \in Seq(Fit(s))
        BY EmptySeq DEF Init
    <2> QED
        BY <2>1 DEF Init, FitInv
<1>6. NothingDropped /\ PassInv /\ RemovedHeldNothing /\ FailedNeverLands
    BY DEF Init, NothingDropped, PassInv, RemovedHeldNothing, FailedNeverLands
<1> QED
    BY <1>1, <1>2, <1>3, <1>4, <1>5, <1>6 DEF Inv

-----------------------------------------------------------------------------
(* Steps of the chain and of the calls.                                     *)

\* What is counted is a number.
LEMMA Counts ==
    Types => \A s \in Sigs : /\ Len(queue[s]) \in Nat /\ Held(s) \in Nat
                             /\ Coming(s) \in {0, 1} /\ Room(s) \in {1, 2}
<1> SUFFICES ASSUME Types, NEW s \in Sigs
             PROVE  /\ Len(queue[s]) \in Nat /\ Held(s) \in Nat
                    /\ Coming(s) \in {0, 1} /\ Room(s) \in {1, 2}
    OBVIOUS
<1>1. Len(hand) \in Nat /\ Len(unresolved) \in Nat /\ Len(queue[s]) \in Nat
    BY LenProperties DEF Types
<1> QED
    BY <1>1 DEF Held, Coming, Room

\* It still is after a step.
LEMMA CountsAfter ==
    Types' => (\A s \in Sigs : /\ Len(queue[s]) \in Nat /\ Held(s) \in Nat
                               /\ Coming(s) \in {0, 1} /\ Room(s) \in {1, 2})'
BY Counts, PTL

\* Fewer items have room too.
LEMMA Fewer ==
    ASSUME NEW q \in Nat, NEW h \in Nat, NEW c \in Nat, NEW r \in Nat, q + h + c <= r,
           NEW qq \in Nat, NEW hh \in Nat, NEW cc \in Nat, qq + hh <= q + h, cc <= c
    PROVE  qq + hh + cc <= r
OBVIOUS

\* What was missed stays missed while no read changes its mind.
LEMMA FitOn ==
    ASSUME NEW s, Missed(s) => Missed(s)'
    PROVE  Fit(s) \subseteq Fit(s)'
BY DEF Fit

\* A verdict of the chain does not change.
LEMMA ReadOn ==
    ASSUME NEW s, Missed(s) => Missed(s)',
           fate[s] \in {"reverted", "expired"} => fate'[s] = fate[s]
    PROVE  Read(s) \subseteq Read(s)'
BY DEF Read

\* Nothing moved in the queue and in the worker's hands.
LEMMA FitInvOn ==
    ASSUME Types, WorkerInv, FitInv, UNCHANGED <<queue, sig, wpc, hand, unresolved>>,
           \A s \in Sigs : /\ Missed(s) => Missed(s)'
                           /\ fate[s] \in {"reverted", "expired"} => fate'[s] = fate[s]
    PROVE  FitInv'
<1>1. ASSUME NEW s \in Sigs PROVE Fit(s) \subseteq Fit(s)' /\ Read(s) \subseteq Read(s)'
    BY FitOn, ReadOn
<1>2. ASSUME NEW s \in Sigs, ~(s = sig /\ wpc = "settle") PROVE queue[s] \in Seq(Fit(s)')
    <2>1. queue[s] \in Seq(Fit(s))
        BY <1>2 DEF FitInv
    <2> QED
        BY <1>1, <2>1, SeqMonotonic
<1>3. ASSUME sig \in Sigs PROVE Fit(sig) \subseteq Fit(sig)' /\ Read(sig) \subseteq Read(sig)'
    <2> PICK s \in Sigs : s = sig
        BY <1>3
    <2>1. Fit(s) \subseteq Fit(s)' /\ Read(s) \subseteq Read(s)'
        BY <1>1
    <2>2. Fit(s)' = Fit(sig)' /\ Read(s)' = Read(sig)'
        BY DEF Fit, Missed, Read
    <2> QED
        BY <2>1, <2>2
<1>4. ASSUME wpc \in {"verify", "giveUp"} PROVE unresolved \in Seq(Fit(sig)')
    <2>1. unresolved \in Seq(Fit(sig)) /\ Fit(sig) \subseteq Fit(sig)'
        BY <1>3, <1>4 DEF FitInv, WorkerInv
    <2> QED
        BY <2>1, SeqMonotonic
<1>5. ASSUME wpc = "verify" PROVE \A k \in 1 .. Len(hand) : hand[k].item \in Fit(sig)'
    BY <1>3, <1>5 DEF FitInv, WorkerInv
<1>6. ASSUME wpc \in {"settle", "renew"} PROVE hand \in Seq(Read(sig)')
    <2>1. hand \in Seq(Read(sig)) /\ Read(sig) \subseteq Read(sig)'
        BY <1>3, <1>6 DEF FitInv, WorkerInv
    <2> QED
        BY <2>1, SeqMonotonic
<1>7. wpc = "settle" /\ sig \notin OnRow => Len(hand) = 1 /\ queue[sig] = <<hand[1].item>>
    BY DEF FitInv
<1> QED
    BY <1>2, <1>4, <1>5, <1>6, <1>7 DEF FitInv

\* No item moved, and none is coming that was not.
LEMMA CountOn ==
    ASSUME Types, Types', CountInv, UNCHANGED <<queue, sig, wpc, hand, unresolved>>,
           \A s \in Sigs : Coming(s)' = Coming(s) \/ Coming(s)' = 0
    PROVE  CountInv'
<1> SUFFICES ASSUME NEW s \in Sigs
             PROVE  Len(queue[s]) + Held(s)' + Coming(s)' <= Room(s)
    BY DEF CountInv, Room
<1>1. Held(s)' = Held(s)
    BY DEF Held
<1>2. /\ Len(queue[s]) \in Nat /\ Held(s) \in Nat /\ Coming(s) \in {0, 1} /\ Room(s) \in {1, 2}
      /\ Len(queue[s]) + Held(s) + Coming(s) <= Room(s)
    BY Counts DEF CountInv
<1>3. Coming(s)' \in Nat /\ Coming(s)' <= Coming(s) /\ Coming(s) \in Nat /\ Room(s) \in Nat
    BY <1>2
<1>4. Len(queue[s]) + Held(s) <= Len(queue[s]) + Held(s)
    BY <1>2
<1>5. Len(queue[s]) + Held(s) + Coming(s)' <= Room(s)
    BY <1>2, <1>3, <1>4, Fewer
<1> QED
    BY <1>1, <1>5

\* Steps that touch neither the chain nor any item: they leave the invariant to the row.
LEMMA RowStepKeeps ==
    ASSUME Inv, RowTyped',
           UNCHANGED <<chainVars, queue, abandoned, workVars, outcomeVars, accepted, restarts>>,
           noted' \in [Sigs -> {"none", "covers"}],
           call' \in [pc : {"idle", "record", "enqueue"}, sig : Sigs \cup {None}],
           call'.pc # "idle" => call.pc # "idle" /\ call'.sig = call.sig,
           round' = "removed" => round = "removed"
    PROVE  Inv'
<1> USE DEF chainVars, workVars, outcomeVars
<1>1. Types'
    BY DEF Inv, Types
<1>2. WorkerInv'
    BY DEF Inv, WorkerInv
<1>3. SentInv'
    BY DEF Inv, SentInv, Sent
<1>4. CountInv'
    <2>1. ASSUME NEW s \in Sigs PROVE Coming(s)' = Coming(s) \/ Coming(s)' = 0
        BY DEF Coming
    <2> QED
        BY <1>1, <2>1, CountOn DEF Inv
<1>5. FitInv'
    <2>1. ASSUME NEW s \in Sigs
          PROVE  (Missed(s) => Missed(s)') /\ (fate[s] \in {"reverted", "expired"} => fate'[s] = fate[s])
        BY DEF Missed
    <2> QED
        BY <2>1, FitInvOn DEF Inv
<1>6. NothingDropped' /\ PassInv'
    BY DEF Inv, NothingDropped, PassInv, InWork, Settled
<1>7. RemovedHeldNothing' /\ FailedNeverLands'
    BY DEF Inv, RemovedHeldNothing, FailedNeverLands
<1> QED
    BY <1>1, <1>2, <1>3, <1>4, <1>5, <1>6, <1>7 DEF Inv

\* The chain decides a swap in flight.
LEMMA ChainDecidesKeeps ==
    ASSUME Inv, NEW s \in Sigs, ChainDecides(s)
    PROVE  Inv'
<1> USE DEF rowVars, workVars, outcomeVars
<1>1. PICK f \in {"landed", "reverted", "expired"} : fate' = [fate EXCEPT ![s] = f]
    BY DEF ChainDecides
<1>2. /\ UNCHANGED <<lagged, call, rowVars, noted, queue, abandoned, workVars, outcomeVars, accepted, restarts>>
      /\ fate[s] = "flying"
    BY DEF ChainDecides
<1>3. \A u \in Sigs : fate'[u] = fate[u] \/ (fate[u] = "flying" /\ fate'[u] = f)
    BY <1>1, <1>2 DEF Inv, Types
<1>4. Types'
    BY <1>1, <1>2 DEF Inv, Types
<1>5. Sent' = Sent
    BY <1>3 DEF Sent
<1>6. RowTyped' /\ SentInv' /\ WorkerInv'
    BY <1>2, <1>5 DEF Inv, RowTyped, SentInv, WorkerInv
<1>7. CountInv'
    <2>1. ASSUME NEW u \in Sigs PROVE Coming(u)' = Coming(u) \/ Coming(u)' = 0
        BY <1>2 DEF Coming
    <2> QED
        BY <1>2, <1>4, <2>1, CountOn DEF Inv
<1>8. FitInv'
    <2>1. ASSUME NEW u \in Sigs
          PROVE  (Missed(u) => Missed(u)') /\ (fate[u] \in {"reverted", "expired"} => fate'[u] = fate[u])
        BY <1>2, <1>3 DEF Missed
    <2> QED
        BY <1>2, <2>1, FitInvOn DEF Inv
<1>9. NothingDropped' /\ PassInv' /\ RemovedHeldNothing'
    BY <1>2 DEF Inv, NothingDropped, PassInv, InWork, Settled, RemovedHeldNothing
<1>10. FailedNeverLands'
    <2>1. ASSUME NEW u \in failed, u \notin OnRow PROVE fate'[u] \in {"reverted", "expired"}
        <3>1. u \in Sigs /\ fate[u] \in {"reverted", "expired"}
            BY <2>1 DEF Inv, Types, FailedNeverLands
        <3> QED
            BY <1>3, <3>1
    <2> QED
        BY <1>2, <2>1 DEF FailedNeverLands
<1> QED
    BY <1>4, <1>6, <1>7, <1>8, <1>9, <1>10 DEF Inv

\* A call sends its swap: nothing of it was queued or in work before.
LEMMA SendSwapKeeps ==
    ASSUME VerificationConstants, Inv, NEW s \in Sigs, SendSwap(s)
    PROVE  Inv'
<1> USE DEF workVars, outcomeVars
<1>1. /\ call.pc = "idle" /\ fate[s] = "unsent" /\ MaySend(s)
      /\ fate' = [fate EXCEPT ![s] = "flying"]
      /\ partials' = IF Kind[s] = "partial" THEN partials + 1 ELSE partials
      /\ call' = [pc |-> "record", sig |-> s]
      /\ UNCHANGED <<lagged, round, memory, stored, noted, queue, abandoned, workVars,
                     outcomeVars, accepted, restarts>>
    BY DEF SendSwap
<1>2. \A u \in Sigs : fate'[u] = fate[u] \/ (fate[u] = "unsent" /\ fate'[u] = "flying")
    BY <1>1 DEF Inv, Types
<1>3. Types'
    BY <1>1 DEF Inv, Types
<1>4. Sent \subseteq Sent' /\ s \in Sent' /\ s \notin Sent
    BY <1>1, <1>2 DEF Sent, Inv, Types
<1>5. RowTyped'
    <2>1. partials' \in 0 .. Cardinality(Sigs)
        <3>1. Cardinality(Sigs) \in Nat /\ Cardinality(Sigs) >= 1
            BY SwapsCounted
        <3>2. CASE Kind[s] = "partial"
            <4>1. partials = 0
                BY <1>1, <3>2 DEF MaySend
            <4> QED
                BY <1>1, <3>1, <3>2, <4>1
        <3>3. CASE Kind[s] # "partial"
            BY <1>1, <3>3 DEF Inv, RowTyped
        <3> QED
            BY <3>2, <3>3
    <2> QED
        BY <1>1, <1>4, <2>1 DEF Inv, RowTyped
<1>6. SentInv' /\ WorkerInv'
    BY <1>1, <1>4 DEF Inv, SentInv, WorkerInv
<1>7. CountInv'
    <2> SUFFICES ASSUME NEW u \in Sigs
                 PROVE  Len(queue[u]) + Held(u)' + Coming(u)' <= Room(u)
        BY <1>1 DEF CountInv, Room
    <2>1. /\ Len(queue[u]) \in Nat /\ Held(u) \in Nat /\ Coming(u) \in {0, 1} /\ Room(u) \in {1, 2}
          /\ Len(queue[u]) + Held(u) + Coming(u) <= Room(u)
        BY Counts DEF CountInv, Inv
    <2>2. Held(u)' = Held(u)
        BY <1>1 DEF Held
    <2>3. CASE u = s
        <3>1. queue[u] = <<>> /\ u # sig
            BY <1>4, <2>3 DEF Inv, SentInv, VerificationConstants
        <3>2. Len(queue[u]) = 0 /\ Held(u) = 0
            BY <3>1 DEF Held
        <3>3. Coming(u)' = 1
            BY <1>1, <2>3 DEF Coming
        <3> QED
            BY <2>1, <2>2, <3>2, <3>3
    <2>4. CASE u # s
        <3>1. Coming(u)' = 0 /\ Coming(u) = 0
            BY <1>1, <2>4 DEF Coming
        <3> QED
            BY <2>1, <2>2, <3>1
    <2> QED
        BY <2>3, <2>4
<1>8. FitInv'
    <2>1. ASSUME NEW u \in Sigs
          PROVE  (Missed(u) => Missed(u)') /\ (fate[u] \in {"reverted", "expired"} => fate'[u] = fate[u])
        BY <1>1, <1>2 DEF Missed
    <2> QED
        BY <1>1, <2>1, FitInvOn DEF Inv
<1>9. NothingDropped' /\ PassInv' /\ RemovedHeldNothing'
    BY <1>1 DEF Inv, NothingDropped, PassInv, InWork, Settled, RemovedHeldNothing
<1>10. FailedNeverLands'
    <2>1. ASSUME NEW u \in failed, u \notin OnRow PROVE fate'[u] \in {"reverted", "expired"}
        <3>1. u \in Sigs /\ fate[u] \in {"reverted", "expired"}
            BY <2>1 DEF Inv, Types, FailedNeverLands
        <3> QED
            BY <1>2, <3>1
    <2> QED
        BY <1>1, <2>1 DEF FailedNeverLands
<1> QED
    BY <1>3, <1>5, <1>6, <1>7, <1>8, <1>9, <1>10 DEF Inv

\* The call's swap was sent, and the call goes on to its enqueue or ends.
LEMMA RecordEntryKeeps ==
    ASSUME Inv, RecordEntry
    PROVE  Inv'
<1> USE DEF chainVars, workVars, outcomeVars
<1>1. /\ call.pc = "record" /\ call.sig \in Sent
      /\ UNCHANGED <<chainVars, noted, partials, queue, abandoned, workVars, outcomeVars, accepted, restarts>>
    BY DEF RecordEntry, Inv, SentInv
<1>2. \/ /\ round' = "open" /\ memory' = memory \cup {call.sig} /\ stored' = stored \cup {call.sig}
         /\ call' = [call EXCEPT !.pc = "enqueue"]
      \/ UNCHANGED <<round, memory, stored>> /\ call' = IdleCall
    BY DEF RecordEntry
<1>3. Sent' = Sent
    BY <1>1 DEF Sent
<1>4. RowTyped' /\ (round' = "removed" => round = "removed")
    BY <1>1, <1>2, <1>3 DEF Inv, RowTyped, Rounds5
<1>5. /\ call' \in [pc : {"idle", "record", "enqueue"}, sig : Sigs \cup {None}]
      /\ call'.pc # "idle" => call.pc # "idle" /\ call'.sig = call.sig
    BY <1>1, <1>2 DEF Inv, Types, IdleCall
<1>6. noted' \in [Sigs -> {"none", "covers"}]
    BY <1>1 DEF Inv, Types
<1> QED
    BY <1>1, <1>4, <1>5, <1>6, RowStepKeeps

\* A pending swap is noted with its bound.
LEMMA RecordPendingKeeps ==
    ASSUME Inv, RecordPending
    PROVE  Inv'
<1> USE DEF chainVars, workVars, outcomeVars
<1>1. /\ call.pc = "record" /\ call.sig \in Sent
      /\ UNCHANGED <<chainVars, round, partials, queue, abandoned, workVars, outcomeVars, accepted, restarts>>
    BY DEF RecordPending, Inv, SentInv
<1>2. PICK b \in {"none", "covers"} : noted' = [noted EXCEPT ![call.sig] = b]
    BY DEF RecordPending
<1>3. /\ memory' = memory \cup {call.sig} /\ call' = [call EXCEPT !.pc = "enqueue"]
      /\ stored' = stored \/ stored' = (stored \ OfKind(Kind[call.sig])) \cup (memory' \cap OfKind(Kind[call.sig]))
    BY DEF RecordPending
<1>4. Sent' = Sent
    BY <1>1 DEF Sent
<1>5. RowTyped' /\ (round' = "removed" => round = "removed")
    BY <1>1, <1>3, <1>4 DEF Inv, RowTyped
<1>6. /\ call' \in [pc : {"idle", "record", "enqueue"}, sig : Sigs \cup {None}]
      /\ call'.pc # "idle" => call.pc # "idle" /\ call'.sig = call.sig
    BY <1>1, <1>3 DEF Inv, Types
<1>7. noted' \in [Sigs -> {"none", "covers"}]
    BY <1>2 DEF Inv, Types
<1> QED
    BY <1>1, <1>5, <1>6, <1>7, RowStepKeeps

\* The exit is on the row, or at least in memory.
LEMMA RecordExitKeeps ==
    ASSUME Inv, RecordExit
    PROVE  Inv'
<1> USE DEF chainVars, workVars, outcomeVars
<1>1. /\ call.pc = "record" /\ call.sig \in Sent
      /\ UNCHANGED <<chainVars, round, noted, partials, queue, abandoned, workVars, outcomeVars, accepted, restarts>>
    BY DEF RecordExit, Inv, SentInv
<1>2. /\ call' = [call EXCEPT !.pc = "enqueue"]
      /\ \/ memory' = (memory \ Exits) \cup {call.sig} /\ stored' \in {stored, (stored \ Exits) \cup {call.sig}}
         \/ UNCHANGED <<memory, stored>>
    BY DEF RecordExit
<1>3. Sent' = Sent
    BY <1>1 DEF Sent
<1>4. RowTyped' /\ (round' = "removed" => round = "removed")
    BY <1>1, <1>2, <1>3 DEF Inv, RowTyped
<1>5. /\ call' \in [pc : {"idle", "record", "enqueue"}, sig : Sigs \cup {None}]
      /\ call'.pc # "idle" => call.pc # "idle" /\ call'.sig = call.sig
    BY <1>1, <1>2 DEF Inv, Types
<1>6. noted' \in [Sigs -> {"none", "covers"}]
    BY <1>1 DEF Inv, Types
<1> QED
    BY <1>1, <1>4, <1>5, <1>6, RowStepKeeps

\* The write-off.
LEMMA ForceCloseKeeps ==
    ASSUME Inv, ForceClose
    PROVE  Inv'
<1> USE DEF chainVars, workVars, outcomeVars
<1>1. /\ round' = "writtenOff" /\ memory' = (memory \ OnRow) \cup (stored \cap OnRow)
      /\ UNCHANGED <<chainVars, call, stored, noted, partials, queue, abandoned, workVars, outcomeVars,
                     accepted, restarts>>
    BY DEF ForceClose
<1>2. Sent' = Sent
    BY <1>1 DEF Sent
<1>3. RowTyped' /\ (round' = "removed" => round = "removed")
    BY <1>1, <1>2 DEF Inv, RowTyped, Rounds5
<1>4. /\ call' \in [pc : {"idle", "record", "enqueue"}, sig : Sigs \cup {None}]
      /\ call'.pc # "idle" => call.pc # "idle" /\ call'.sig = call.sig
      /\ noted' \in [Sigs -> {"none", "covers"}]
    BY <1>1 DEF Inv, Types
<1> QED
    BY <1>1, <1>3, <1>4, RowStepKeeps

-----------------------------------------------------------------------------
(* Steps on the whole queue.                                                *)

\* An enqueue adds an item only where none is queued, and leaves one there unless the
\* signature was abandoned.
LEMMA EnqueuedItem ==
    ASSUME NEW q \in [Sigs -> Seq(KeptItems)], NEW s \in Sigs, NEW T, T \subseteq KeptItems,
           NEW item \in T, q[s] \in Seq(T)
    PROVE  /\ Enqueued(q, s, item) \in [Sigs -> Seq(KeptItems)]
           /\ \A u \in Sigs : u # s => Enqueued(q, s, item)[u] = q[u]
           /\ Enqueued(q, s, item)[s] \in Seq(T)
           /\ \/ Enqueued(q, s, item)[s] = q[s]
              \/ q[s] = <<>> /\ Enqueued(q, s, item)[s] = <<item>>
           /\ Enqueued(q, s, item)[s] # <<>> \/ s \in abandoned
<1>1. <<item>> \in Seq(T) /\ <<item>> \in Seq(KeptItems) /\ <<item>> # <<>>
    OBVIOUS
<1>2. CASE s \in abandoned \/ q[s] # <<>>
    <2>1. Enqueued(q, s, item) = q
        BY <1>2 DEF Enqueued
    <2> QED
        BY <1>2, <2>1
<1>3. CASE ~(s \in abandoned \/ q[s] # <<>>)
    <2>1. Enqueued(q, s, item) = [q EXCEPT ![s] = <<item>>]
        BY <1>3 DEF Enqueued
    <2>2. Enqueued(q, s, item)[s] = <<item>>
        BY <2>1
    <2> QED
        BY <1>1, <1>3, <2>1, <2>2
<1> QED
    BY <1>2, <1>3

\* A new item is fit.
LEMMA NewItemFits ==
    ASSUME NEW s, NEW b \in {"none", "covers"}
    PROVE  Item(b) \in Fit(s) /\ Item(b) \in KeptItems
BY DEF Item, Fit, KeptItems

\* The call hands its swap over: the item it brings is the one that was coming.
LEMMA EnqueueSubmittedKeeps ==
    ASSUME Inv, EnqueueSubmitted
    PROVE  Inv'
<1> USE DEF chainVars, rowVars, workVars, outcomeVars
<1>0. PICK s : s = call.sig
    OBVIOUS
<1>1. /\ call.pc = "enqueue" /\ s \in Sent /\ s \in Sigs
      /\ accepted' = accepted \cup {s} /\ call' = IdleCall
      /\ UNCHANGED <<chainVars, rowVars, noted, abandoned, workVars, outcomeVars, restarts>>
    BY <1>0 DEF EnqueueSubmitted, Inv, SentInv, Sent
<1>2. PICK b \in {"none", "covers"} : queue' = Enqueued(queue, s, Item(b))
    BY <1>0, <1>1 DEF EnqueueSubmitted, Inv, Types
<1>3. Item(b) \in Fit(s) /\ Item(b) \in KeptItems /\ Fit(s) \subseteq KeptItems
    BY NewItemFits DEF Fit
<1>4. /\ queue' \in [Sigs -> Seq(KeptItems)] /\ \A u \in Sigs : u # s => queue'[u] = queue[u]
      /\ queue'[s] = queue[s] \/ (queue[s] = <<>> /\ queue'[s] = <<Item(b)>>)
      /\ queue'[s] # <<>> \/ s \in abandoned
    <2>1. queue \in [Sigs -> Seq(KeptItems)] /\ queue[s] \in Seq(KeptItems)
        BY <1>1 DEF Inv, Types
    <2> QED
        BY <1>1, <1>2, <1>3, <2>1, EnqueuedItem
<1>5. Types'
    BY <1>1, <1>4 DEF Inv, Types, IdleCall
<1>6. Sent' = Sent
    BY <1>1 DEF Sent
<1>7. RowTyped' /\ WorkerInv'
    BY <1>1, <1>6 DEF Inv, RowTyped, WorkerInv
<1>8. SentInv'
    <2>1. ASSUME NEW u \in Sigs, queue'[u] # <<>> PROVE u \in Sent
        BY <1>1, <1>4, <2>1 DEF Inv, SentInv
    <2> QED
        BY <1>1, <1>6, <2>1 DEF Inv, SentInv, IdleCall
<1>9. ASSUME NEW u \in Sigs
      PROVE  /\ Len(queue[u]) \in Nat /\ Held(u) \in Nat /\ Coming(u) \in {0, 1} /\ Room(u) \in {1, 2}
             /\ Len(queue[u]) + Held(u) + Coming(u) <= Room(u)
    BY Counts DEF CountInv, Inv
<1>10. Coming(s) = 1
    BY <1>0, <1>1 DEF Coming
<1>11. CountInv'
    <2> SUFFICES ASSUME NEW u \in Sigs
                 PROVE  Len(queue'[u]) + Held(u)' + Coming(u)' <= Room(u)
        BY DEF CountInv, Room
    <2>1. Held(u)' = Held(u) /\ Coming(u)' = 0
        BY <1>1 DEF Held, Coming, IdleCall
    <2>2. CASE queue'[u] = queue[u]
        BY <1>9, <2>1, <2>2
    <2>3. CASE queue'[u] # queue[u]
        <3>1. u = s /\ queue[u] = <<>> /\ queue'[u] = <<Item(b)>>
            BY <1>4, <2>3
        <3>2. Len(queue[u]) = 0 /\ Len(queue'[u]) = 1
            BY <3>1
        <3> QED
            BY <1>9, <1>10, <2>1, <3>1, <3>2
    <2> QED
        BY <2>2, <2>3
<1>12. FitInv'
    <2>1. ASSUME NEW u \in Sigs PROVE Fit(u)' = Fit(u) /\ Read(u)' = Read(u)
        BY <1>1 DEF Fit, Read, Missed
    <2>2. Fit(sig)' = Fit(sig) /\ Read(sig)' = Read(sig)
        BY <1>1 DEF Fit, Read, Missed
    <2>3. ASSUME NEW u \in Sigs, ~(u = sig /\ wpc = "settle") PROVE queue'[u] \in Seq(Fit(u))
        <3>1. queue[u] \in Seq(Fit(u))
            BY <2>3 DEF Inv, FitInv
        <3>2. <<Item(b)>> \in Seq(Fit(s))
            BY <1>3
        <3> QED
            BY <1>4, <3>1, <3>2
    <2>4. ASSUME wpc = "settle", sig \notin OnRow PROVE queue'[sig] = queue[sig]
        <3>1. sig \in Sigs /\ Len(queue[sig]) = 1
            BY <2>4 DEF Inv, WorkerInv, FitInv
        <3>2. sig # s
            <4>1. SUFFICES ASSUME sig = s PROVE FALSE
                OBVIOUS
            <4>2. Room(sig) = 1 /\ Coming(sig) = 1
                BY <1>10, <2>4, <4>1 DEF Room
            <4>3. Held(sig) \in Nat /\ 1 + Held(sig) + 1 <= 1
                BY <1>9, <3>1, <4>2
            <4> QED
                BY <4>3
        <3> QED
            BY <1>4, <3>1, <3>2
    <2> QED
        BY <1>1, <2>1, <2>2, <2>3, <2>4 DEF Inv, FitInv
<1>13. NothingDropped'
    <2>1. ASSUME NEW u \in accepted \cup {s} PROVE (Settled(u) \/ InWork(u))'
        BY <1>1, <1>4, <2>1 DEF Inv, Types, NothingDropped, Settled, InWork
    <2> QED
        BY <1>1, <2>1 DEF NothingDropped, Settled
<1>14. PassInv'
    <2>1. ASSUME wpc = "settle" PROVE sig \in Sigs /\ (queue[sig] # <<>> \/ Settled(sig))
        BY <2>1 DEF Inv, PassInv, WorkerInv
    <2> QED
        BY <1>1, <1>4, <2>1 DEF PassInv, Settled
<1>15. RemovedHeldNothing' /\ FailedNeverLands'
    BY <1>1 DEF Inv, RemovedHeldNothing, FailedNeverLands
<1> QED
    BY <1>5, <1>7, <1>8, <1>11, <1>12, <1>13, <1>14, <1>15 DEF Inv

\* The cycle queues what the rows in memory name; a call may be about to queue the same.
LEMMA ReenqueueMissingKeeps ==
    ASSUME VerificationConstants, Inv, ReenqueueMissing
    PROVE  Inv'
<1> USE DEF chainVars, rowVars, workVars, outcomeVars
<1>1. /\ wpc = "idle" /\ sig = None /\ accepted' = accepted \cup (memory \cap OnRow)
      /\ UNCHANGED <<chainVars, call, rowVars, noted, abandoned, workVars, outcomeVars, restarts>>
      /\ queue' = [s \in Sigs |-> IF s \in memory \cap OnRow THEN Enqueued(queue, s, Item("none"))[s]
                                                              ELSE queue[s]]
    BY DEF ReenqueueMissing, Inv, WorkerInv
<1>2. ASSUME NEW s \in Sigs
      PROVE  /\ queue'[s] \in Seq(Fit(s)) /\ queue'[s] \in Seq(KeptItems)
             /\ \/ queue'[s] = queue[s]
                \/ s \in memory \cap OnRow /\ queue[s] = <<>> /\ queue'[s] = <<Item("none")>>
             /\ s \in memory \cap OnRow => queue'[s] # <<>> \/ s \in abandoned
    <2>1. queue \in [Sigs -> Seq(KeptItems)] /\ queue[s] \in Seq(KeptItems)
        BY DEF Inv, Types
    <2>2. queue[s] \in Seq(Fit(s))
        BY <1>1 DEF Inv, FitInv
    <2>3. Item("none") \in Fit(s) /\ Fit(s) \subseteq KeptItems
        BY NewItemFits DEF Fit
    <2> DEFINE r == Enqueued(queue, s, Item("none"))[s]
               F == Fit(s)
    <2>4. Item("none") \in F /\ F \subseteq KeptItems /\ queue[s] \in Seq(F)
        BY <2>2, <2>3
    <2>5. queue'[s] = IF s \in memory \cap OnRow THEN r ELSE queue[s]
        BY <1>1
    <2> HIDE DEF F
    <2>6. /\ r \in Seq(F) /\ (r # <<>> \/ s \in abandoned)
          /\ r = queue[s] \/ (queue[s] = <<>> /\ r = <<Item("none")>>)
        <3> PICK i \in F : i = Item("none")
            BY <2>4
        <3>a. Enqueued(queue, s, i)[s] \in Seq(F)
            BY <2>1, <2>4, EnqueuedItem
        <3>b. Enqueued(queue, s, i)[s] # <<>> \/ s \in abandoned
            BY <2>1, <2>4, EnqueuedItem
        <3>1. r \in Seq(F) /\ (r # <<>> \/ s \in abandoned)
            BY <3>a, <3>b
        <3>2. r = queue[s] \/ (queue[s] = <<>> /\ r = <<Item("none")>>)
            BY <2>1 DEF Enqueued
        <3> QED
            BY <3>1, <3>2
    <2> HIDE DEF r
    <2>7. r \in Seq(KeptItems)
        BY <2>4, <2>6, SeqMonotonic
    <2>8. /\ queue'[s] \in Seq(F) /\ queue'[s] \in Seq(KeptItems)
          /\ \/ queue'[s] = queue[s]
             \/ s \in memory \cap OnRow /\ queue[s] = <<>> /\ queue'[s] = <<Item("none")>>
          /\ s \in memory \cap OnRow => queue'[s] # <<>> \/ s \in abandoned
        BY <2>1, <2>4, <2>5, <2>6, <2>7
    <2> QED
        BY <2>8 DEF F
<1>3. queue' \in [Sigs -> Seq(KeptItems)]
    BY <1>1, <1>2
<1>4. memory \subseteq Sent /\ Sent \subseteq Sigs
    BY DEF Inv, RowTyped, Sent
<1>5. Types'
    BY <1>1, <1>3, <1>4 DEF Inv, Types
<1>6. Sent' = Sent
    BY <1>1 DEF Sent
<1>7. RowTyped' /\ WorkerInv'
    BY <1>1, <1>6 DEF Inv, RowTyped, WorkerInv
<1>8. SentInv'
    <2>1. ASSUME NEW s \in Sigs, queue'[s] # <<>> PROVE s \in Sent
        BY <1>2, <1>4, <2>1 DEF Inv, SentInv
    <2> QED
        BY <1>1, <1>6, <2>1 DEF Inv, SentInv
<1>9. CountInv'
    <2> SUFFICES ASSUME NEW s \in Sigs
                 PROVE  Len(queue'[s]) + Held(s)' + Coming(s)' <= Room(s)
        BY DEF CountInv, Room
    <2>1. /\ Len(queue[s]) \in Nat /\ Held(s) \in Nat /\ Coming(s) \in {0, 1} /\ Room(s) \in {1, 2}
          /\ Len(queue[s]) + Held(s) + Coming(s) <= Room(s)
        BY Counts DEF CountInv, Inv
    <2>2. Held(s)' = Held(s) /\ Coming(s)' = Coming(s) /\ Held(s) = 0
        BY <1>1 DEF Held, Coming
    <2>3. CASE queue'[s] = queue[s]
        BY <2>1, <2>2, <2>3
    <2>4. CASE queue'[s] # queue[s]
        <3>1. s \in OnRow /\ queue'[s] = <<Item("none")>>
            BY <1>2, <2>4
        <3>2. Room(s) = 2 /\ Len(queue'[s]) = 1
            BY <3>1 DEF Room
        <3> QED
            BY <2>1, <2>2, <3>2
    <2> QED
        BY <2>3, <2>4
<1>10. FitInv'
    <2>1. ASSUME NEW s \in Sigs PROVE Fit(s)' = Fit(s)
        BY <1>1 DEF Fit, Missed
    <2> QED
        BY <1>1, <1>2, <2>1 DEF FitInv
<1>11. NothingDropped'
    <2>1. ASSUME NEW s \in accepted \cup (memory \cap OnRow) PROVE (Settled(s) \/ InWork(s))'
        <3>1. s \in Sigs
            BY <1>4 DEF Inv, Types
        <3>2. s \in accepted => Settled(s) \/ queue[s] # <<>>
            BY <1>1, <3>1 DEF Inv, NothingDropped, Settled, InWork, VerificationConstants
        <3>3. Settled(s) \/ queue'[s] # <<>>
            BY <1>2, <2>1, <3>1, <3>2 DEF Settled
        <3> QED
            BY <1>1, <3>3 DEF Settled, InWork
    <2> QED
        BY <1>1, <2>1 DEF NothingDropped, Settled
<1>12. PassInv' /\ RemovedHeldNothing' /\ FailedNeverLands'
    BY <1>1 DEF Inv, PassInv, RemovedHeldNothing, FailedNeverLands
<1> QED
    BY <1>5, <1>7, <1>8, <1>9, <1>10, <1>11, <1>12 DEF Inv

\* The worker takes the signatures without a bound, and then reads the height: what it took
\* was sent before.
LEMMA ReadBoundKeeps ==
    ASSUME Inv, ReadBound
    PROVE  Inv'
<1> USE DEF chainVars, rowVars, outcomeVars
<1>1. /\ wpc = "idle" /\ wpc' = "assign"
      /\ snap' = {s \in Sigs : \E k \in DOMAIN queue[s] : Unbounded(queue[s][k])}
      /\ sentAtRead' = {s \in Sigs : fate[s] # "unsent"}
      /\ UNCHANGED <<chainVars, call, rowVars, noted, queue, abandoned, sig, hand,
                     unresolved, outcomeVars, accepted, restarts>>
    BY DEF ReadBound
<1>2. Types'
    BY <1>1 DEF Inv, Types
<1>3. Sent' = Sent
    BY <1>1 DEF Sent
<1>4. RowTyped' /\ WorkerInv'
    BY <1>1, <1>3 DEF Inv, RowTyped, WorkerInv
<1>5. SentInv'
    <2>1. ASSUME NEW s \in snap' PROVE s \in sentAtRead'
        <3>1. s \in Sigs /\ queue[s] # <<>>
            BY <1>1
        <3> QED
            BY <1>1, <3>1 DEF Inv, SentInv, Sent
    <2> QED
        BY <1>1, <1>3, <2>1 DEF Inv, SentInv
<1>6. CountInv'
    BY <1>1 DEF Inv, CountInv, Held, Coming, Room
<1>7. FitInv'
    <2>1. ASSUME NEW s \in Sigs PROVE Fit(s)' = Fit(s)
        BY <1>1 DEF Fit, Missed
    <2> QED
        BY <1>1, <2>1 DEF Inv, FitInv
<1>8. NothingDropped' /\ PassInv' /\ RemovedHeldNothing' /\ FailedNeverLands'
    BY <1>1 DEF Inv, NothingDropped, InWork, PassInv, RemovedHeldNothing, FailedNeverLands
<1> QED
    BY <1>2, <1>4, <1>5, <1>6, <1>7, <1>8 DEF Inv

\* A function on 1 .. n is a sequence.
LEMMA AsSequence ==
    ASSUME NEW S, NEW n \in Nat, NEW f \in [1 .. n -> S]
    PROVE  f \in Seq(S) /\ Len(f) = n
<1>1. f \in Seq(S)
    BY SeqDef
<1>2. DOMAIN f = 1 .. n
    OBVIOUS
<1> QED
    BY <1>1, <1>2

\* Only length tells an empty sequence.
LEMMA SameLength ==
    ASSUME NEW S, NEW p \in Seq(S), NEW T, NEW q \in Seq(T), Len(p) = Len(q)
    PROVE  p # <<>> <=> q # <<>>
BY EmptySeq

\* The bound covers what was taken before it was read.
LEMMA AssignBoundKeeps ==
    ASSUME Inv, AssignBound
    PROVE  Inv'
<1> USE DEF chainVars, rowVars, outcomeVars
<1> DEFINE bounded(s, i) == IF s \in snap /\ Unbounded(i)
                            THEN [i EXCEPT !.bound = IF s \in sentAtRead THEN "covers" ELSE "early"]
                            ELSE i
<1>1. /\ wpc = "assign" /\ wpc' = "idle" /\ snap' = {} /\ sentAtRead' = {}
      /\ queue' = [s \in Sigs |-> [k \in DOMAIN queue[s] |-> bounded(s, queue[s][k])]]
      /\ UNCHANGED <<chainVars, call, rowVars, noted, abandoned, sig, hand, unresolved,
                     outcomeVars, accepted, restarts>>
    BY DEF AssignBound
<1>2. ASSUME NEW s \in Sigs, NEW i \in Fit(s)
      PROVE  bounded(s, i) \in Fit(s)
    <2>1. s \in snap => s \in sentAtRead
        BY DEF Inv, SentInv
    <2>2. i \in KeptItems /\ (s \notin OnRow /\ i.seen /\ ~i.confirmed => Missed(s))
        BY DEF Fit
    <2>3. [i EXCEPT !.bound = "covers"] \in KeptItems
        BY <2>2 DEF KeptItems
    <2>4. /\ [i EXCEPT !.bound = "covers"].seen = i.seen
          /\ [i EXCEPT !.bound = "covers"].confirmed = i.confirmed
        BY <2>2 DEF KeptItems
    <2>5. [i EXCEPT !.bound = "covers"] \in Fit(s)
        BY <2>2, <2>3, <2>4 DEF Fit
    <2> QED
        BY <2>1, <2>5
<1> HIDE DEF bounded
<1>3. ASSUME NEW s \in Sigs
      PROVE  /\ queue'[s] \in Seq(Fit(s)) /\ queue'[s] \in Seq(KeptItems)
             /\ Len(queue'[s]) = Len(queue[s])
             /\ queue'[s] # <<>> <=> queue[s] # <<>>
    <2>1. queue[s] \in Seq(Fit(s))
        BY <1>1 DEF Inv, FitInv
    <2> DEFINE F == Fit(s)
               n == Len(queue[s])
               r == [k \in 1 .. n |-> bounded(s, queue[s][k])]
    <2>2. n \in Nat /\ DOMAIN queue[s] = 1 .. n /\ \A k \in 1 .. n : queue[s][k] \in F
        BY <2>1, LenProperties, ElementOfSeq
    <2>3. queue'[s] = r
        BY <1>1, <2>2
    <2>4. \A i \in F : bounded(s, i) \in F
        BY <1>2
    <2>5. F \subseteq KeptItems
        BY DEF Fit
    <2>6. queue[s] \in Seq(F)
        BY <2>1
    <2> HIDE DEF F
    <2>7. r \in [1 .. n -> F]
        BY <2>2, <2>4
    <2> HIDE DEF r
    <2>8. r \in Seq(F) /\ Len(r) = n
        BY <2>2, <2>7, AsSequence
    <2>9. r # <<>> <=> queue[s] # <<>>
        BY <2>6, <2>8, SameLength
    <2>10. r \in Seq(KeptItems)
        BY <2>5, <2>8, SeqMonotonic
    <2> QED
        BY <2>3, <2>8, <2>9, <2>10 DEF F
<1>4. queue' \in [Sigs -> Seq(KeptItems)]
    BY <1>1, <1>3
<1>5. Types'
    BY <1>1, <1>4 DEF Inv, Types
<1>6. Sent' = Sent
    BY <1>1 DEF Sent
<1>7. RowTyped' /\ WorkerInv'
    BY <1>1, <1>6 DEF Inv, RowTyped, WorkerInv
<1>8. SentInv'
    BY <1>1, <1>3, <1>6 DEF Inv, SentInv
<1>9. CountInv'
    <2> SUFFICES ASSUME NEW s \in Sigs
                 PROVE  Len(queue'[s]) + Held(s)' + Coming(s)' <= Room(s)
        BY DEF CountInv, Room
    <2>1. Held(s)' = Held(s) /\ Coming(s)' = Coming(s)
        BY <1>1 DEF Held, Coming
    <2> QED
        BY <1>3, <2>1 DEF Inv, CountInv
<1>10. FitInv'
    <2>1. ASSUME NEW s \in Sigs PROVE Fit(s)' = Fit(s)
        BY <1>1 DEF Fit, Missed
    <2> QED
        BY <1>1, <1>3, <2>1 DEF FitInv
<1>11. NothingDropped'
    <2>1. ASSUME NEW s \in accepted PROVE (Settled(s) \/ InWork(s))'
        <3>1. s \in Sigs /\ (Settled(s) \/ queue[s] # <<>> \/ s = sig)
            BY DEF Inv, Types, NothingDropped, Settled, InWork
        <3> QED
            BY <1>1, <1>3, <3>1 DEF Settled, InWork
    <2> QED
        BY <1>1, <2>1 DEF NothingDropped, Settled
<1>12. PassInv' /\ RemovedHeldNothing' /\ FailedNeverLands'
    BY <1>1 DEF Inv, PassInv, RemovedHeldNothing, FailedNeverLands
<1> QED
    BY <1>5, <1>7, <1>8, <1>9, <1>10, <1>11, <1>12 DEF Inv

\* A restart rebuilds the queue from the store.
LEMMA RestartKeeps ==
    ASSUME VerificationConstants, Inv, Restart
    PROVE  Inv'
<1> USE DEF chainVars
<1> DEFINE fresh(s) == Item(IF s \in OnRow THEN "none" ELSE noted[s])
<1>0. PICK read \in ReadAtStartup :
         /\ memory' = read /\ partials' = Cardinality(read \cap OfKind("partial"))
         /\ queue' = [s \in Sigs |-> IF s \notin read THEN <<>> ELSE <<fresh(s)>>]
         /\ accepted' = read
    BY DEF Restart
<1>r. read \subseteq stored
    BY DEF ReadAtStartup
<1>1. /\ restarts < MaxRestarts /\ restarts' = restarts + 1
      /\ call' = IdleCall /\ memory' = read /\ partials' = Cardinality(read \cap OfKind("partial"))
      /\ queue' = [s \in Sigs |-> IF s \notin read THEN <<>> ELSE <<fresh(s)>>]
      /\ accepted' = read /\ abandoned' = {} /\ wpc' = "idle" /\ snap' = {} /\ sentAtRead' = {}
      /\ sig' = None /\ hand' = <<>> /\ unresolved' = <<>>
      /\ UNCHANGED <<chainVars, round, stored, noted, bookings, failed>>
    BY <1>0 DEF Restart
<1>2. ASSUME NEW s \in Sigs PROVE fresh(s) \in Fit(s) /\ fresh(s) \in KeptItems
    BY NewItemFits DEF Inv, Types
<1> HIDE DEF fresh
<1>3. ASSUME NEW s \in Sigs
      PROVE  /\ queue'[s] \in Seq(Fit(s)) /\ queue'[s] \in Seq(KeptItems)
             /\ Len(queue'[s]) \in {0, 1}
             /\ queue'[s] # <<>> <=> s \in read
    <2>1. CASE s \in read
        <3>1. queue'[s] = <<fresh(s)>>
            BY <1>1, <2>1
        <3>2. <<fresh(s)>> \in Seq(Fit(s)) /\ <<fresh(s)>> \in Seq(KeptItems) /\ Len(<<fresh(s)>>) = 1
              /\ <<fresh(s)>> # <<>>
            BY <1>2
        <3> QED
            BY <2>1, <3>1, <3>2
    <2>2. CASE s \notin read
        <3>1. queue'[s] = <<>>
            BY <1>1, <2>2
        <3> QED
            BY <2>2, <3>1, EmptySeq
    <2> QED
        BY <2>1, <2>2
<1>4. read \subseteq Sent /\ stored \subseteq Sent /\ Sent \subseteq Sigs /\ Sent' = Sent
    BY <1>1, <1>r DEF Inv, RowTyped, Sent
<1>5. Types'
    <2>1. queue' \in [Sigs -> Seq(KeptItems)]
        BY <1>1, <1>3
    <2>2. hand' \in Seq(KeptJobs) /\ unresolved' \in Seq(KeptItems)
        BY <1>1, EmptySeq
    <2>3. restarts' \in 0 .. MaxRestarts
        BY <1>1 DEF Inv, Types, VerificationConstants
    <2> QED
        BY <1>1, <1>4, <2>1, <2>2, <2>3 DEF Inv, Types, IdleCall
<1>6. RowTyped'
    <2>1. read \cap OfKind("partial") \subseteq Sigs
        BY <1>4
    <2>2. partials' \in 0 .. Cardinality(Sigs)
        BY <1>1, <2>1, SwapsCounted
    <2> QED
        BY <1>1, <1>4, <2>2 DEF Inv, RowTyped
<1>7. WorkerInv'
    BY <1>1, EmptySeq DEF WorkerInv
<1>8. SentInv'
    BY <1>1, <1>3, <1>4 DEF SentInv, IdleCall
<1>9. CountInv'
    <2> SUFFICES ASSUME NEW s \in Sigs
                 PROVE  Len(queue'[s]) + Held(s)' + Coming(s)' <= Room(s)
        BY DEF CountInv, Room
    <2>1. Held(s)' = 0 /\ Coming(s)' = 0 /\ Room(s) \in {1, 2}
        BY <1>1 DEF Held, Coming, IdleCall, Room
    <2>2. ASSUME NEW n \in {0, 1}, NEW r \in {1, 2} PROVE n + 0 + 0 <= r
        OBVIOUS
    <2> QED
        BY <1>3, <2>1, <2>2
<1>10. FitInv'
    <2>1. ASSUME NEW s \in Sigs PROVE Fit(s)' = Fit(s)
        BY <1>1 DEF Fit, Missed
    <2> QED
        BY <1>1, <1>3, <2>1 DEF FitInv
<1>11. NothingDropped'
    BY <1>1, <1>3, <1>4 DEF NothingDropped, InWork
<1>12. PassInv' /\ RemovedHeldNothing' /\ FailedNeverLands'
    BY <1>1 DEF Inv, PassInv, RemovedHeldNothing, FailedNeverLands
<1> QED
    BY <1>5, <1>6, <1>7, <1>8, <1>9, <1>10, <1>11, <1>12 DEF Inv

-----------------------------------------------------------------------------
(* Steps of a worker's pass over the items of one signature.                *)

\* What such a step leaves alone, and what it must see to.
LEMMA PassStepKeeps ==
    ASSUME VerificationConstants, Inv, NEW s \in Sigs, s \in Sent, sig \in {None, s},
           UNCHANGED <<fate, call, noted, snap, sentAtRead, accepted, restarts>>,
           lagged' \in [Sigs -> BOOLEAN], \A u \in Sigs : u # s => lagged'[u] = lagged[u],
           queue' \in [Sigs -> Seq(KeptItems)], \A u \in Sigs : u # s => queue'[u] = queue[u],
           wpc' \in {"idle", "settle", "verify", "giveUp", "renew"}, sig' \in {None, s},
           hand' \in Seq(KeptJobs), unresolved' \in Seq(KeptItems), WorkerInv',
           abandoned' \subseteq Sigs, failed' \subseteq Sigs, bookings' \in [Sigs -> Nat],
           abandoned \subseteq abandoned', failed \subseteq failed',
           \A u \in Sigs : bookings[u] > 0 => bookings'[u] > 0,
           RowTyped',
           Len(queue'[s]) + Held(s)' <= Len(queue[s]) + Held(s),
           ~(sig' = s /\ wpc' = "settle") => queue'[s] \in Seq(Fit(s)'),
           wpc' \in {"verify", "giveUp"} => unresolved' \in Seq(Fit(s)'),
           wpc' = "verify" => \A k \in 1 .. Len(hand') : hand'[k].item \in Fit(s)',
           wpc' \in {"settle", "renew"} => hand' \in Seq(Read(s)'),
           wpc' = "settle" /\ s \notin OnRow => Len(hand') = 1 /\ queue'[s] = <<hand'[1].item>>,
           queue'[s] # <<>> \/ sig' = s \/ Settled(s)', PassInv', RemovedHeldNothing', FailedNeverLands'
    PROVE  Inv'
<1>1. Types'
    BY DEF Inv, Types
<1>2. Sent' = Sent /\ None \notin Sigs
    BY DEF Sent, VerificationConstants
<1>3. SentInv'
    BY <1>2 DEF Inv, SentInv
<1>4. CountInv'
    <2> SUFFICES ASSUME NEW u \in Sigs
                 PROVE  Len(queue'[u]) + Held(u)' + Coming(u)' <= Room(u)
        BY DEF CountInv, Room
    <2>1. /\ Len(queue[u]) \in Nat /\ Held(u) \in Nat /\ Coming(u) \in {0, 1} /\ Room(u) \in {1, 2}
          /\ Len(queue[u]) + Held(u) + Coming(u) <= Room(u)
        BY Counts DEF CountInv, Inv
    <2>2. Coming(u)' = Coming(u)
        BY DEF Coming
    <2>3. Len(queue'[u]) \in Nat /\ Held(u)' \in Nat
        BY <1>1, CountsAfter
    <2>4. Len(queue'[u]) + Held(u)' <= Len(queue[u]) + Held(u)
        <3>1. CASE u = s
            BY <3>1
        <3>2. CASE u # s
            <4>1. Held(u) = 0 /\ Held(u)' = 0 /\ queue'[u] = queue[u]
                BY <1>2, <3>2 DEF Held
            <4> QED
                BY <2>1, <4>1
        <3> QED
            BY <3>1, <3>2
    <2>5. Coming(u) \in Nat /\ Room(u) \in Nat /\ Coming(u) <= Coming(u)
        BY <2>1
    <2>6. Len(queue'[u]) + Held(u)' + Coming(u) <= Room(u)
        BY <2>1, <2>3, <2>4, <2>5, Fewer
    <2> QED
        BY <2>2, <2>6
<1>5. FitInv'
    <2>1. ASSUME NEW u \in Sigs, u # s PROVE queue'[u] \in Seq(Fit(u)')
        <3>1. Fit(u)' = Fit(u)
            BY <2>1 DEF Fit, Missed
        <3>2. queue[u] \in Seq(Fit(u))
            BY <1>2, <2>1 DEF Inv, FitInv
        <3> QED
            BY <2>1, <3>1, <3>2
    <2>2. wpc' # "idle" => sig' = s
        BY <1>2 DEF WorkerInv
    <2>3. sig' = s => Fit(sig)' = Fit(s)' /\ Read(sig)' = Read(s)'
        BY DEF Fit, Read, Missed
    <2>4. ASSUME NEW u \in Sigs, ~(u = sig' /\ wpc' = "settle") PROVE queue'[u] \in Seq(Fit(u)')
        BY <2>1, <2>4
    <2> QED
        BY <2>2, <2>3, <2>4 DEF FitInv
<1>6. NothingDropped'
    <2>1. ASSUME NEW u \in accepted PROVE (Settled(u) \/ InWork(u))'
        <3>1. u \in Sigs /\ (Settled(u) \/ queue[u] # <<>> \/ u = sig)
            BY DEF Inv, Types, NothingDropped, Settled, InWork
        <3>2. Settled(u) => Settled(u)'
            BY <3>1 DEF Settled
        <3> QED
            BY <1>2, <3>1, <3>2 DEF InWork
    <2> QED
        BY <2>1 DEF NothingDropped, Settled
<1> QED
    BY <1>1, <1>3, <1>4, <1>5, <1>6 DEF Inv

\* A batched read of fit items: the jobs carry them in order, each with a lawful verdict.
LEMMA VerdictsRead ==
    ASSUME Types, NEW s \in Sigs, NEW items \in Seq(Fit(s)), UNCHANGED fate, TakeVerdicts(s, items)
    PROVE  /\ hand' \in Seq(KeptJobs) /\ hand' \in Seq(Read(s)') /\ Len(hand') = Len(items)
           /\ \A k \in 1 .. Len(items) : hand'[k].item = items[k]
           /\ lagged' \in [Sigs -> BOOLEAN] /\ \A u \in Sigs : u # s => lagged'[u] = lagged[u]
<1> PICK n : n = Len(items)
    OBVIOUS
<1>1. n \in Nat /\ DOMAIN items = 1 .. n /\ \A k \in 1 .. n : items[k] \in Fit(s)
    BY LenProperties, ElementOfSeq
<1>2. PICK v : /\ v \in [1 .. n -> VerdictCodes]
               /\ \A k \in 1 .. n : v[k] \in Verdicts(s, items[k].bound)
               /\ hand' = [k \in 1 .. n |-> [item |-> items[k], verdict |-> v[k]]]
    BY <1>1 DEF TakeVerdicts, Judged, VerdictCodes
<1>3. /\ lagged' = [lagged EXCEPT ![s] = /\ fate[s] \in {"landed", "reverted"}
                                         /\ \E k \in DOMAIN hand' : hand'[k].verdict = "notLanded"]
    BY DEF TakeVerdicts
<1>4. DOMAIN hand' = 1 .. n
      /\ \A k \in 1 .. n : hand'[k].item = items[k] /\ hand'[k].verdict = v[k]
                           /\ hand'[k] = [item |-> items[k], verdict |-> v[k]]
    BY <1>2
<1>5. ASSUME NEW k \in 1 .. n PROVE hand'[k] \in KeptJobs
    BY <1>1, <1>2, <1>4 DEF KeptJobs, Fit
<1>6. ASSUME NEW k \in 1 .. n PROVE hand'[k] \in Read(s)'
    <2>1. items[k] \in Fit(s) /\ items[k] \in KeptItems /\ items[k].bound # "early"
        BY <1>1 DEF Fit, KeptItems
    <2>2. v[k] \in Verdicts(s, items[k].bound)
        BY <1>2
    <2>3. v[k] = "reverted" => fate[s] = "reverted"
        BY <2>2 DEF Verdicts
    <2>4. v[k] = "notLanded" => fate[s] = "expired" \/ (fate[s] \in {"landed", "reverted"} /\ ~lagged[s])
        BY <2>1, <2>2 DEF Verdicts
    <2>5. v[k] = "notLanded" /\ fate[s] = "landed" => lagged'[s]
        BY <1>3, <1>4 DEF Types
    <2>6. v[k] = "notLanded" => Missed(s)'
        BY <2>4, <2>5 DEF Missed
    <2>7. v[k] = "notLanded" /\ s \notin OnRow /\ items[k].seen /\ ~items[k].confirmed
              => fate[s] \in {"reverted", "expired"}
        BY <2>1, <2>4 DEF Fit, Missed
    <2> QED
        BY <1>4, <1>5, <2>3, <2>6, <2>7 DEF Read
<1>7. hand' \in [1 .. n -> KeptJobs] /\ hand' \in [1 .. n -> Read(s)']
    BY <1>2, <1>4, <1>5, <1>6
<1>8. hand' \in Seq(KeptJobs) /\ hand' \in Seq(Read(s)') /\ Len(hand') = n
    BY <1>1, <1>7, AsSequence
<1>9. lagged' \in [Sigs -> BOOLEAN] /\ \A u \in Sigs : u # s => lagged'[u] = lagged[u]
    BY <1>3 DEF Types
<1> QED
    BY <1>4, <1>8, <1>9

\* Nothing happened.
LEMMA StutterKeeps ==
    ASSUME Inv, UNCHANGED vars
    PROVE  Inv'
<1> USE DEF vars, chainVars, rowVars, workVars, outcomeVars
<1>1. Types' /\ RowTyped' /\ WorkerInv' /\ SentInv'
    BY DEF Inv, Types, RowTyped, WorkerInv, SentInv, Sent
<1>2. CountInv'
    BY DEF Inv, CountInv, Held, Coming, Room
<1>3. FitInv'
    <2>1. ASSUME NEW s PROVE Fit(s)' = Fit(s) /\ Read(s)' = Read(s)
        BY DEF Fit, Read, Missed
    <2>2. Fit(sig)' = Fit(sig) /\ Read(sig)' = Read(sig)
        BY DEF Fit, Read, Missed
    <2> QED
        BY <2>1, <2>2 DEF Inv, FitInv
<1>4. NothingDropped' /\ PassInv' /\ RemovedHeldNothing' /\ FailedNeverLands'
    BY DEF Inv, NothingDropped, PassInv, RemovedHeldNothing, FailedNeverLands, Settled, InWork
<1> QED
    BY <1>1, <1>2, <1>3, <1>4 DEF Inv

\* What is queued fits.
LEMMA RoomLeft ==
    ASSUME NEW q, NEW h, NEW c, NEW r, q \in Nat, h \in Nat, c \in {0, 1}, r \in {1, 2}, q + h + c <= r,
           q >= 1
    PROVE  q \in 1 .. 2 /\ (r = 1 => q = 1)
OBVIOUS

\* Queued swaps were sent, and a queue has at most the room of its swap.
LEMMA QueuedSent ==
    ASSUME Inv, NEW s \in Sigs, queue[s] # <<>>
    PROVE  /\ s \in Sent /\ queue[s] \in Seq(KeptItems) /\ Len(queue[s]) \in 1 .. 2
           /\ s \notin OnRow => Len(queue[s]) = 1
<1>1. s \in Sent /\ queue[s] \in Seq(KeptItems)
    BY DEF Inv, SentInv, Types
<1>2. /\ Len(queue[s]) \in Nat /\ Held(s) \in Nat /\ Coming(s) \in {0, 1} /\ Room(s) \in {1, 2}
      /\ Len(queue[s]) + Held(s) + Coming(s) <= Room(s)
    BY Counts DEF CountInv, Inv
<1>3. Len(queue[s]) >= 1
    BY <1>1, Taken
<1>4. s \notin OnRow => Room(s) = 1
    BY DEF Room
<1>5. Len(queue[s]) \in 1 .. 2 /\ (Room(s) = 1 => Len(queue[s]) = 1)
    BY <1>2, <1>3, RoomLeft
<1> QED
    BY <1>1, <1>4, <1>5

\* The worker reads the verdicts of queued items and turns to settle them.
LEMMA ReadVerdictsKeeps ==
    ASSUME VerificationConstants, Inv, NEW s \in Sigs, ReadVerdicts(s)
    PROVE  Inv'
<1> USE DEF rowVars, outcomeVars
<1>1. PICK due \in settlement_candidates(queue[s]) :
             TakeVerdicts(s, [n \in DOMAIN due |-> queue[s][due[n]]])
    BY DEF ReadVerdicts
<1>2. /\ wpc = "idle" /\ wpc' = "settle" /\ sig' = s
      /\ UNCHANGED <<fate, call, rowVars, noted, queue, abandoned, snap, sentAtRead,
                     unresolved, outcomeVars, accepted, restarts>>
    BY DEF ReadVerdicts
<1>3. sig = None /\ hand = <<>> /\ unresolved = <<>> /\ s # None
    BY <1>2 DEF Inv, WorkerInv, VerificationConstants
<1>4. PICK n \in 1 .. Len(queue[s]) : due \in [1 .. n -> DOMAIN queue[s]]
    BY DEF settlement_candidates
<1>5. queue[s] \in Seq(Fit(s)) /\ queue[s] \in Seq(KeptItems)
    BY <1>2 DEF Inv, FitInv, Types
<1>6. Len(queue[s]) \in Nat /\ DOMAIN queue[s] = 1 .. Len(queue[s])
      /\ \A k \in 1 .. Len(queue[s]) : queue[s][k] \in Fit(s)
    BY <1>5, LenProperties, ElementOfSeq
<1>7. queue[s] # <<>>
    BY <1>4
<1>8. /\ s \in Sent /\ Len(queue[s]) \in 1 .. 2
      /\ s \notin OnRow => Len(queue[s]) = 1
    BY <1>7, QueuedSent
<1> DEFINE items == [k \in 1 .. n |-> queue[s][due[k]]]
<1>9. n \in Nat /\ n >= 1 /\ n <= 2 /\ (s \notin OnRow => n = 1)
    <2>1. ASSUME NEW l \in 1 .. 2, NEW k \in 1 .. l
          PROVE  k \in Nat /\ k >= 1 /\ k <= 2 /\ (l = 1 => k = 1)
        OBVIOUS
    <2> QED
        BY <1>4, <1>8, <2>1
<1>10. items \in [1 .. n -> Fit(s)]
    BY <1>4, <1>6
<1>11. TakeVerdicts(s, items)
    BY <1>1, <1>4
<1>12. s \notin OnRow => items[1] = queue[s][1] /\ queue[s] = <<queue[s][1]>>
    <2>1. ASSUME s \notin OnRow PROVE due[1] = 1
        BY <1>4, <1>6, <1>8, <1>9, <2>1
    <2>2. ASSUME s \notin OnRow PROVE items[1] = queue[s][1]
        BY <1>9, <2>1, <2>2
    <2>3. ASSUME s \notin OnRow PROVE queue[s] = <<queue[s][1]>>
        BY <1>5, <1>8, <2>3
    <2> QED
        BY <2>2, <2>3
<1> HIDE DEF items
<1>13. items \in Seq(Fit(s)) /\ Len(items) = n
    BY <1>9, <1>10, AsSequence
<1>14. /\ hand' \in Seq(KeptJobs) /\ hand' \in Seq(Read(s)') /\ Len(hand') = Len(items)
       /\ \A k \in 1 .. Len(items) : hand'[k].item = items[k]
       /\ lagged' \in [Sigs -> BOOLEAN] /\ \A u \in Sigs : u # s => lagged'[u] = lagged[u]
    BY <1>2, <1>11, <1>13, VerdictsRead DEF Inv
<1>15. WorkerInv'
    <2>1. hand' # <<>>
        BY <1>9, <1>13, <1>14
    <2>2. Len(hand') <= 2
        BY <1>9, <1>13, <1>14
    <2> QED
        BY <1>2, <1>3, <2>1, <2>2 DEF WorkerInv
<1>16. Len(queue'[s]) + Held(s)' <= Len(queue[s]) + Held(s)
    <2>1. Held(s)' = 0 /\ Held(s) = 0
        BY <1>2, <1>3 DEF Held
    <2> QED
        BY <1>2, <1>6, <2>1
<1>17. s \notin OnRow => Len(hand') = 1 /\ queue'[s] = <<hand'[1].item>>
    BY <1>2, <1>9, <1>12, <1>13, <1>14
<1>18. RowTyped' /\ RemovedHeldNothing' /\ FailedNeverLands' /\ PassInv'
    BY <1>2, <1>7 DEF Inv, RowTyped, Sent, RemovedHeldNothing, FailedNeverLands, PassInv
<1> QED
    BY <1>2, <1>3, <1>8, <1>14, <1>15, <1>16, <1>17, <1>18, PassStepKeeps DEF Inv, Types

\* A sorted queue has the items it had.
LEMMA Sorted ==
    ASSUME NEW S, NEW q \in Seq(S), NEW order \in Orders(q)
    PROVE  order \in Seq(S) /\ Len(order) = Len(q)
<1>1. Len(q) \in Nat /\ DOMAIN q = 1 .. Len(q) /\ \A k \in 1 .. Len(q) : q[k] \in S
    BY LenProperties, ElementOfSeq
<1>2. PICK f \in [DOMAIN q -> DOMAIN q] : order = [k \in DOMAIN q |-> q[f[k]]]
    BY DEF Orders
<1>3. order \in [1 .. Len(q) -> S]
    BY <1>1, <1>2
<1> QED
    BY <1>1, <1>3, AsSequence

\* What a batch leaves of a queue.
LEMMA Rest ==
    ASSUME NEW S, NEW q \in Seq(S), NEW n \in 0 .. Len(q)
    PROVE  SubSeq(q, n + 1, Len(q)) \in Seq(S) /\ Len(SubSeq(q, n + 1, Len(q))) = Len(q) - n
<1>1. Len(q) \in Nat /\ \A k \in 1 .. Len(q) : q[k] \in S
    BY LenProperties, ElementOfSeq
<1>2. \A k \in n + 1 .. Len(q) : q[k] \in S
    BY <1>1
<1>3. /\ SubSeq(q, n + 1, Len(q)) \in Seq(S)
      /\ Len(SubSeq(q, n + 1, Len(q))) = IF n + 1 <= Len(q) THEN Len(q) - (n + 1) + 1 ELSE 0
    BY <1>1, <1>2, SubSeqProperties
<1> QED
    BY <1>1, <1>3

\* The worker takes a batch off the queue.
LEMMA PollKeeps ==
    ASSUME VerificationConstants, Inv, NEW s \in Sigs, Poll(s)
    PROVE  Inv'
<1> USE DEF chainVars, rowVars, outcomeVars
<1>1. PICK order \in Orders(queue[s]), n \in 0 .. Len(queue[s]) :
          /\ hand' = [k \in 1 .. n |-> [item |-> order[k], verdict |-> "pending"]]
          /\ queue' = [queue EXCEPT ![s] = SubSeq(order, n + 1, Len(order))]
          /\ IF n = 0 THEN UNCHANGED <<wpc, sig>> ELSE wpc' = "verify" /\ sig' = s
    BY DEF Poll
<1>2. /\ wpc = "idle"
      /\ UNCHANGED <<chainVars, call, rowVars, noted, abandoned, snap, sentAtRead,
                     unresolved, outcomeVars, accepted, restarts>>
    BY DEF Poll
<1>3. sig = None /\ hand = <<>> /\ unresolved = <<>> /\ s # None
    BY <1>2 DEF Inv, WorkerInv, VerificationConstants
<1>4. queue \in [Sigs -> Seq(KeptItems)] /\ queue[s] \in Seq(Fit(s)) /\ Len(queue[s]) \in Nat
    BY <1>2, LenProperties DEF Inv, FitInv, Types
<1>5. Fit(s)' = Fit(s) /\ Fit(s) \subseteq KeptItems
    BY <1>2 DEF Fit, Missed
<1>6. order \in Seq(Fit(s)) /\ Len(order) = Len(queue[s])
    BY <1>4, Sorted
<1> PICK rest : rest = SubSeq(order, n + 1, Len(order))
    OBVIOUS
<1>7. rest \in Seq(Fit(s)) /\ Len(rest) = Len(queue[s]) - n
    BY <1>1, <1>6, Rest
<1>8. rest \in Seq(KeptItems)
    BY <1>5, <1>7, SeqMonotonic
<1>9. queue' \in [Sigs -> Seq(KeptItems)] /\ queue'[s] = rest /\ \A u \in Sigs : u # s => queue'[u] = queue[u]
    BY <1>1, <1>4, <1>8
<1>10. n \in Nat /\ n <= Len(queue[s])
    BY <1>4
<1>11. \A k \in 1 .. n : order[k] \in Fit(s)
    <2>1. ASSUME NEW k \in 1 .. n PROVE k \in 1 .. Len(order)
        BY <1>4, <1>6, <1>10
    <2> QED
        BY <1>6, <2>1, ElementOfSeq
<1>12. hand' \in Seq(KeptJobs) /\ Len(hand') = n /\ \A k \in 1 .. n : hand'[k].item \in Fit(s)
    <2>1. hand' \in [1 .. n -> KeptJobs]
        BY <1>1, <1>5, <1>11 DEF KeptJobs, VerdictCodes
    <2> QED
        BY <1>1, <1>10, <1>11, <2>1, AsSequence
<1>13. CASE queue[s] = <<>>
    <2>1. n = 0 /\ Len(rest) = 0
        BY <1>7, <1>10, <1>13
    <2>2. rest = <<>> /\ hand' = <<>>
        BY <1>7, <1>12, <2>1, EmptySeq
    <2>3. queue' = queue
        BY <1>4, <1>9, <1>13, <2>2
    <2>4. UNCHANGED vars
        BY <1>1, <1>2, <1>3, <2>1, <2>2, <2>3 DEF vars, workVars
    <2> QED
        BY <2>4, StutterKeeps
<1>14. CASE queue[s] # <<>>
    <2>1. s \in Sent /\ Len(queue[s]) \in 1 .. 2
        BY <1>14, QueuedSent
    <2>0. n <= 2 /\ (n = 0 => Len(queue[s]) - n # 0)
        <3>1. ASSUME NEW l \in 1 .. 2, NEW m \in 0 .. l PROVE m <= 2 /\ (m = 0 => l - m # 0)
            OBVIOUS
        <3> QED
            BY <2>1, <3>1
    <2>2. n = 0 => hand' = <<>> /\ wpc' = "idle" /\ sig' = None
        BY <1>1, <1>2, <1>3, <1>12, EmptySeq
    <2>3. n # 0 => hand' # <<>> /\ wpc' = "verify" /\ sig' = s
        BY <1>1, <1>12, EmptySeq
    <2>4. WorkerInv'
        <3>1. Len(hand') <= 2
            BY <1>12, <2>0
        <3> QED
            BY <1>2, <1>3, <2>2, <2>3, <3>1 DEF WorkerInv
    <2>5. Held(s) = 0 /\ Held(s)' = n
        <3>1. Held(s) = 0
            BY <1>2 DEF Held
        <3>2. CASE n = 0
            BY <1>3, <2>2, <3>2 DEF Held
        <3>3. CASE n # 0
            <4>1. Held(s)' = Len(hand') + Len(unresolved')
                BY <2>3, <3>3 DEF Held
            <4>2. Len(unresolved') = 0 /\ Len(hand') = n
                BY <1>2, <1>3, <1>12, EmptySeq
            <4>3. n + 0 = n
                BY <1>10
            <4> QED
                BY <3>1, <4>1, <4>2, <4>3
        <3> QED
            BY <3>1, <3>2, <3>3
    <2>6. Len(queue'[s]) + Held(s)' <= Len(queue[s]) + Held(s)
        BY <1>4, <1>7, <1>9, <1>10, <2>5
    <2>7. queue'[s] # <<>> \/ sig' = s
        <3>1. CASE n = 0
            <4>1. Len(rest) # 0
                BY <1>7, <2>0, <3>1
            <4> QED
                BY <1>7, <1>9, <4>1, EmptySeq
        <3> QED
            BY <2>3, <3>1
    <2>8. unresolved' \in Seq(Fit(s)') /\ unresolved' \in Seq(KeptItems)
        BY <1>2, <1>3, EmptySeq
    <2>9. queue'[s] \in Seq(Fit(s)') /\ \A k \in 1 .. Len(hand') : hand'[k].item \in Fit(s)'
        BY <1>5, <1>7, <1>9, <1>12
    <2>10. wpc' \in {"idle", "verify"} /\ sig' \in {None, s}
        BY <2>2, <2>3
    <2>11. RowTyped' /\ RemovedHeldNothing' /\ FailedNeverLands' /\ PassInv'
        BY <1>2, <2>10 DEF Inv, RowTyped, Sent, RemovedHeldNothing, FailedNeverLands, PassInv
    <2> QED
        BY <1>2, <1>3, <1>9, <1>12, <2>1, <2>4, <2>6, <2>7, <2>8, <2>9, <2>10, <2>11, PassStepKeeps
           DEF Inv, Types
<1> QED
    BY <1>13, <1>14

\* The worker reads the verdicts of the items it gave up on.
LEMMA ReadUnresolvedKeeps ==
    ASSUME VerificationConstants, Inv, ReadUnresolved
    PROVE  Inv'
<1> USE DEF rowVars, outcomeVars
<1>1. /\ wpc = "giveUp" /\ TakeVerdicts(sig, unresolved) /\ unresolved' = <<>> /\ wpc' = "renew"
      /\ UNCHANGED <<fate, call, rowVars, noted, queue, abandoned, sig, snap, sentAtRead,
                     outcomeVars, accepted, restarts>>
    BY DEF ReadUnresolved
<1>2. sig \in Sigs /\ hand = <<>> /\ unresolved # <<>> /\ unresolved \in Seq(Fit(sig))
    BY <1>1 DEF Inv, WorkerInv, FitInv
<1> PICK s \in Sigs : s = sig
    BY <1>2
<1>3. s \in Sent /\ unresolved \in Seq(Fit(s)) /\ TakeVerdicts(s, unresolved)
    BY <1>1, <1>2 DEF Inv, SentInv, VerificationConstants
<1> PICK items : items = unresolved
    OBVIOUS
<1>4. /\ hand' \in Seq(KeptJobs) /\ hand' \in Seq(Read(s)') /\ Len(hand') = Len(items)
      /\ lagged' \in [Sigs -> BOOLEAN] /\ \A u \in Sigs : u # s => lagged'[u] = lagged[u]
    BY <1>1, <1>3, VerdictsRead DEF Inv
<1>5. Len(items) \in Nat /\ Len(items) >= 1
    BY <1>2, Taken
<1>6. Held(s) = Len(items) /\ Held(s)' = Len(items)
    BY <1>1, <1>2, <1>4, <1>5 DEF Held
<1>7. /\ Len(queue[s]) \in Nat /\ Coming(s) \in {0, 1} /\ Room(s) \in {1, 2}
      /\ Len(queue[s]) + Held(s) + Coming(s) <= Room(s)
    BY Counts DEF CountInv, Inv
<1>8. Len(items) <= 2 /\ (Room(s) = 1 => Len(queue[s]) = 0)
    <2>1. ASSUME NEW q \in Nat, NEW h \in Nat, NEW c \in {0, 1}, NEW r \in {1, 2}, q + h + c <= r, h >= 1
          PROVE  h <= 2 /\ (r = 1 => q = 0)
        BY <2>1
    <2> QED
        BY <1>5, <1>6, <1>7, <2>1
<1>9. queue[s] \in Seq(Fit(s)')
    <2>1. CASE s \in OnRow
        <3>1. Fit(s)' = KeptItems
            BY <2>1 DEF Fit
        <3> QED
            BY <3>1 DEF Inv, Types
    <2>2. CASE s \notin OnRow
        <3>1. Len(queue[s]) = 0 /\ queue[s] \in Seq(KeptItems)
            BY <1>8, <2>2 DEF Room, Inv, Types
        <3>2. queue[s] = <<>>
            BY <3>1, EmptySeq
        <3> QED
            BY <3>2, EmptySeq
    <2> QED
        BY <2>1, <2>2
<1>10. WorkerInv'
    <2>1. hand' # <<>> /\ Len(hand') <= 2
        BY <1>4, <1>5, <1>8
    <2> QED
        BY <1>1, <1>2, <2>1 DEF WorkerInv
<1>11. Len(queue'[s]) + Held(s)' <= Len(queue[s]) + Held(s)
    BY <1>1, <1>5, <1>6, <1>7
<1>12. RowTyped' /\ RemovedHeldNothing' /\ FailedNeverLands' /\ PassInv'
    BY <1>1 DEF Inv, RowTyped, Sent, RemovedHeldNothing, FailedNeverLands, PassInv
<1>13. unresolved' \in Seq(KeptItems)
    BY <1>1, EmptySeq
<1> QED
    BY <1>1, <1>3, <1>4, <1>9, <1>10, <1>11, <1>12, <1>13, PassStepKeeps DEF Inv, Types

\* An item handled by a batch leaves the hand.
LEMMA OneLess ==
    ASSUME NEW h, NEW q, NEW u, NEW qq, NEW uu, h \in Nat, h >= 1, q \in Nat, u \in Nat, qq \in Nat, uu \in Nat,
           qq + uu <= q + u + 1
    PROVE  qq + ((h - 1) + uu) <= q + (h + u)
OBVIOUS

\* What the batch goes on to.
LEMMA BatchGoesOn ==
    ASSUME VerificationConstants, Inv, wpc = "verify", NextOfBatch, unresolved' \in Seq(KeptItems)
    PROVE  /\ sig \in Sent /\ sig \in Sigs /\ hand # <<>> /\ Len(hand) \in Nat /\ Len(hand) >= 1
           /\ hand' \in Seq(KeptJobs) /\ Len(hand') = Len(hand) - 1
           /\ \A k \in 1 .. Len(hand') : hand'[k].item \in Fit(sig)
           /\ wpc' \in {"verify", "giveUp", "idle"} /\ WorkerInv'
           /\ wpc' = "idle" => sig' = None /\ unresolved' = <<>> /\ hand' = <<>>
           /\ wpc' # "idle" => sig' = sig
<1>1. /\ hand' = Tail(hand) /\ sig' = IF wpc' = "idle" THEN None ELSE sig
      /\ wpc' = CASE Len(hand) > 1 -> "verify"
                  [] Len(hand) = 1 /\ unresolved' # <<>> -> "giveUp"
                  [] OTHER -> "idle"
    BY DEF NextOfBatch
<1>2. sig \in Sigs /\ sig \in Sent /\ hand # <<>> /\ hand \in Seq(KeptJobs) /\ Len(hand) <= 2
      /\ \A k \in 1 .. Len(hand) : hand[k].item \in Fit(sig)
    BY DEF Inv, WorkerInv, SentInv, Types, FitInv, VerificationConstants
<1>3. /\ Len(hand) \in Nat /\ Len(hand) >= 1 /\ Tail(hand) \in Seq(KeptJobs) /\ Len(Tail(hand)) = Len(hand) - 1
      /\ Len(hand) = 1 => Tail(hand) = <<>>
      /\ Len(hand) # 1 => Tail(hand) # <<>>
      /\ \A k \in 1 .. Len(Tail(hand)) : k + 1 \in 1 .. Len(hand) /\ Tail(hand)[k] = hand[k + 1]
    BY <1>2, Taken
<1>4. \A k \in 1 .. Len(hand') : hand'[k].item \in Fit(sig)
    BY <1>1, <1>2, <1>3
<1>5. \/ Len(hand) > 1 /\ Len(hand) # 1
      \/ Len(hand) = 1 /\ ~(Len(hand) > 1)
    BY <1>3
<1>6. \/ wpc' = "verify" /\ hand' # <<>> /\ sig' = sig
      \/ wpc' = "giveUp" /\ hand' = <<>> /\ unresolved' # <<>> /\ sig' = sig
      \/ wpc' = "idle" /\ hand' = <<>> /\ unresolved' = <<>> /\ sig' = None
    <2>1. CASE Len(hand) > 1 /\ Len(hand) # 1
        BY <1>1, <1>3, <2>1
    <2>2. CASE Len(hand) = 1 /\ ~(Len(hand) > 1)
        BY <1>1, <1>3, <2>2
    <2> QED
        BY <1>5, <2>1, <2>2
<1>7. Len(hand') <= 2
    BY <1>1, <1>2, <1>3
<1>8. WorkerInv'
    BY <1>2, <1>6, <1>7 DEF WorkerInv
<1> QED
    BY <1>1, <1>2, <1>3, <1>4, <1>6, <1>8

\* A step of a batch: at most one item more waits where the one in hand did.
LEMMA BatchStepKeeps ==
    ASSUME VerificationConstants, Inv, wpc = "verify", NextOfBatch, NEW s \in Sigs, s = sig,
           UNCHANGED <<chainVars, call, noted, snap, sentAtRead, failed, accepted, restarts>>,
           queue' \in [Sigs -> Seq(KeptItems)], \A u \in Sigs : u # s => queue'[u] = queue[u],
           queue'[s] \in Seq(Fit(s)), unresolved' \in Seq(Fit(s)),
           Len(queue'[s]) + Len(unresolved') <= Len(queue[s]) + Len(unresolved) + 1,
           abandoned' \subseteq Sigs, abandoned \subseteq abandoned', bookings' \in [Sigs -> Nat],
           \A u \in Sigs : bookings[u] > 0 => bookings'[u] > 0,
           RowTyped', RemovedHeldNothing',
           queue'[s] # <<>> \/ unresolved' # <<>> \/ Settled(s)'
    PROVE  Inv'
<1> USE DEF chainVars
<1>1. Fit(s)' = Fit(s) /\ Fit(s) \subseteq KeptItems
    BY DEF Fit, Missed
<1>2. unresolved' \in Seq(KeptItems)
    BY <1>1, SeqMonotonic
<1>3. /\ s \in Sent /\ Len(hand) \in Nat /\ Len(hand) >= 1
      /\ hand' \in Seq(KeptJobs) /\ Len(hand') = Len(hand) - 1
      /\ \A k \in 1 .. Len(hand') : hand'[k].item \in Fit(s)
      /\ wpc' \in {"verify", "giveUp", "idle"} /\ WorkerInv'
      /\ wpc' = "idle" => sig' = None /\ unresolved' = <<>> /\ hand' = <<>>
      /\ wpc' # "idle" => sig' = s
    BY <1>2, BatchGoesOn
<1>4. Len(queue[s]) \in Nat /\ Len(unresolved) \in Nat /\ Len(queue'[s]) \in Nat /\ Len(unresolved') \in Nat
    BY <1>2, LenProperties DEF Inv, Types
<1>5. Held(s) = Len(hand) + Len(unresolved)
    BY DEF Held
<1>6. Held(s)' = (Len(hand) - 1) + Len(unresolved')
    <2>1. CASE wpc' = "idle"
        <3>1. Held(s)' = 0 /\ Len(hand') = 0 /\ Len(unresolved') = 0
            BY <1>3, <2>1, EmptySeq DEF Held, VerificationConstants
        <3> QED
            BY <1>3, <3>1
    <2>2. CASE wpc' # "idle"
        BY <1>3, <2>2 DEF Held
    <2> QED
        BY <2>1, <2>2
<1>7. Len(queue'[s]) + Held(s)' <= Len(queue[s]) + Held(s)
    <2>1. PICK h, q, u, qq, uu :
             /\ h = Len(hand) /\ q = Len(queue[s]) /\ u = Len(unresolved)
             /\ qq = Len(queue'[s]) /\ uu = Len(unresolved')
        OBVIOUS
    <2>2. h \in Nat /\ h >= 1 /\ q \in Nat /\ u \in Nat /\ qq \in Nat /\ uu \in Nat
        BY <1>3, <1>4, <2>1
    <2>3. qq + uu <= q + u + 1
        BY <2>1
    <2>4. qq + ((h - 1) + uu) <= q + (h + u)
        BY <2>2, <2>3, OneLess
    <2>5. Held(s) = h + u /\ Held(s)' = (h - 1) + uu
        BY <1>5, <1>6, <2>1
    <2> QED
        BY <2>1, <2>4, <2>5
<1>8. FailedNeverLands' /\ PassInv'
    BY <1>3 DEF Inv, FailedNeverLands, PassInv
<1>9. queue'[s] # <<>> \/ sig' = s \/ Settled(s)'
    BY <1>3
<1> QED
    <2>1. queue'[s] \in Seq(Fit(s)') /\ unresolved' \in Seq(Fit(s)')
          /\ \A k \in 1 .. Len(hand') : hand'[k].item \in Fit(s)'
        BY <1>1, <1>3
    <2>2. /\ lagged' \in [Sigs -> BOOLEAN] /\ \A u \in Sigs : u # s => lagged'[u] = lagged[u]
          /\ failed' \subseteq Sigs /\ failed \subseteq failed'
        BY DEF Inv, Types
    <2>3. wpc' \in {"idle", "settle", "verify", "giveUp", "renew"} /\ sig' \in {None, s} /\ sig \in {None, s}
          /\ wpc' \notin {"settle", "renew"}
        BY <1>3
    <2> QED
        BY <1>2, <1>3, <1>7, <1>8, <1>9, <2>1, <2>2, <2>3, PassStepKeeps

\* The item waits for its next verification, or for the verdict of its settlement.
LEMMA RetriedOrGivenUp ==
    ASSUME Inv, wpc = "verify", NEW s \in Sigs, s = sig, NEW item \in Fit(s), RetryOrGiveUp(item)
    PROVE  /\ queue' \in [Sigs -> Seq(KeptItems)] /\ \A u \in Sigs : u # s => queue'[u] = queue[u]
           /\ queue'[s] \in Seq(Fit(s)) /\ unresolved' \in Seq(Fit(s))
           /\ Len(queue'[s]) + Len(unresolved') <= Len(queue[s]) + Len(unresolved) + 1
           /\ queue'[s] # <<>> \/ unresolved' # <<>>
<1>1. queue \in [Sigs -> Seq(KeptItems)] /\ queue[s] \in Seq(Fit(s)) /\ unresolved \in Seq(Fit(s))
    BY DEF Inv, Types, FitInv
<1>2. Len(queue[s]) \in Nat /\ Len(unresolved) \in Nat
    BY <1>1, LenProperties
<1> DEFINE F == Fit(s)
<1>3. F \subseteq KeptItems /\ item \in F /\ queue[s] \in Seq(F) /\ unresolved \in Seq(F)
    BY <1>1 DEF Fit
<1>4. SUFFICES /\ queue' \in [Sigs -> Seq(KeptItems)] /\ \A u \in Sigs : u # s => queue'[u] = queue[u]
               /\ queue'[s] \in Seq(F) /\ unresolved' \in Seq(F)
               /\ Len(queue'[s]) + Len(unresolved') <= Len(queue[s]) + Len(unresolved) + 1
               /\ queue'[s] # <<>> \/ unresolved' # <<>>
    OBVIOUS
<1> HIDE DEF F
<1>5. CASE queue' = [queue EXCEPT ![sig] = Append(@, item)] /\ UNCHANGED unresolved
    <2> DEFINE r == Append(queue[s], item)
    <2>1. r \in Seq(F) /\ r # <<>> /\ Len(r) = Len(queue[s]) + 1
        BY <1>3, AppendProperties
    <2>2. queue' = [queue EXCEPT ![s] = r]
        BY <1>5
    <2> HIDE DEF r
    <2>3. r \in Seq(KeptItems)
        BY <1>3, <2>1, SeqMonotonic
    <2>4. queue' \in [Sigs -> Seq(KeptItems)] /\ queue'[s] = r /\ \A u \in Sigs : u # s => queue'[u] = queue[u]
        BY <1>1, <2>2, <2>3
    <2>5. Len(queue'[s]) + Len(unresolved') <= Len(queue[s]) + Len(unresolved) + 1
        BY <1>2, <1>5, <2>1, <2>4
    <2> QED
        BY <1>3, <1>5, <2>1, <2>4, <2>5
<1>6. CASE unresolved' = Append(unresolved, item) /\ UNCHANGED queue
    <2>1. unresolved' \in Seq(F) /\ unresolved' # <<>> /\ Len(unresolved') = Len(unresolved) + 1
        BY <1>3, <1>6, AppendProperties
    <2>2. Len(queue'[s]) + Len(unresolved') <= Len(queue[s]) + Len(unresolved) + 1
        <3>1. ASSUME NEW q \in Nat, NEW u \in Nat PROVE q + (u + 1) <= q + u + 1
            OBVIOUS
        <3> QED
            BY <1>2, <1>6, <2>1, <3>1
    <2> QED
        BY <1>1, <1>3, <1>6, <2>1, <2>2
<1> QED
    BY <1>5, <1>6 DEF RetryOrGiveUp

\* The transaction is not there yet.
LEMMA VerifyLaterKeeps ==
    ASSUME VerificationConstants, Inv, VerifyLater
    PROVE  Inv'
<1> USE DEF chainVars, rowVars, outcomeVars
<1>1. /\ wpc = "verify" /\ NextOfBatch /\ RetryOrGiveUp(Head(hand).item)
      /\ UNCHANGED <<chainVars, call, rowVars, noted, abandoned, snap, sentAtRead,
                     outcomeVars, accepted, restarts>>
    BY DEF VerifyLater
<1>2. sig \in Sigs /\ hand # <<>> /\ hand \in Seq(KeptJobs) /\ \A k \in 1 .. Len(hand) : hand[k].item \in Fit(sig)
    BY <1>1 DEF Inv, WorkerInv, Types, FitInv
<1> PICK s \in Sigs : s = sig
    BY <1>2
<1>3. Len(hand) \in Nat /\ Len(hand) >= 1 /\ Head(hand) = hand[1]
    BY <1>2, Taken
<1> PICK item : item = Head(hand).item
    OBVIOUS
<1>4. item \in Fit(s) /\ RetryOrGiveUp(item)
    BY <1>1, <1>2, <1>3
<1>5. /\ queue' \in [Sigs -> Seq(KeptItems)] /\ \A u \in Sigs : u # s => queue'[u] = queue[u]
      /\ queue'[s] \in Seq(Fit(s)) /\ unresolved' \in Seq(Fit(s))
      /\ Len(queue'[s]) + Len(unresolved') <= Len(queue[s]) + Len(unresolved) + 1
      /\ queue'[s] # <<>> \/ unresolved' # <<>>
    BY <1>1, <1>4, RetriedOrGivenUp
<1>6. RowTyped' /\ RemovedHeldNothing'
    BY <1>1 DEF Inv, RowTyped, Sent, RemovedHeldNothing
<1> QED
    BY <1>1, <1>5, <1>6, BatchStepKeeps DEF Inv, Types

\* A landed swap is booked, waits for another try, or is abandoned.
LEMMA VerifyLandedKeeps ==
    ASSUME VerificationConstants, Inv, VerifyLanded
    PROVE  Inv'
<1> USE DEF chainVars, rowVars, outcomeVars
<1>1. PICK e \in BookingEffects(sig) :
          /\ Take(e)
          /\ bookings' = IF e.booked THEN [bookings EXCEPT ![sig] = @ + 1] ELSE bookings
          /\ CASE e.result = "ok" ->
                    /\ queue' = [queue EXCEPT ![sig] = IF @ = <<>> THEN @ ELSE Tail(@)]
                    /\ UNCHANGED <<unresolved, abandoned>>
               [] e.result = "retry" ->
                    /\ RetryOrGiveUp([Head(hand).item EXCEPT !.confirmed = TRUE])
                    /\ UNCHANGED abandoned
               [] e.result = "drop" ->
                    /\ abandoned' = abandoned \cup {sig}
                    /\ UNCHANGED <<queue, unresolved>>
    BY DEF VerifyLanded
<1>2. /\ wpc = "verify" /\ NextOfBatch
      /\ UNCHANGED <<chainVars, call, noted, snap, sentAtRead, failed, accepted, restarts>>
    BY DEF VerifyLanded
<1>3. sig \in Sigs /\ hand # <<>> /\ hand \in Seq(KeptJobs) /\ \A k \in 1 .. Len(hand) : hand[k].item \in Fit(sig)
    BY <1>2 DEF Inv, WorkerInv, Types, FitInv
<1> PICK s \in Sigs : s = sig
    BY <1>3
<1>4. bookings \in [Sigs -> Nat] /\ bookings[s] \in Nat /\ RowTyped /\ Cardinality(Sigs) \in Nat
    BY SwapsCounted DEF Inv, Types
<1>5. /\ Lawful(e)
      /\ e.result = "ok" => e.booked = TRUE \/ bookings[s] > 0
      /\ round = "removed" => e.booked = FALSE
    BY <1>4, BookingLawful
<1>6. RowTyped'
    <2>1. Sent' = Sent
        BY <1>2 DEF Sent
    <2>2. round' = e.round /\ memory' = e.memory /\ stored' = e.stored /\ partials' = e.partials
        BY <1>1 DEF Take
    <2> QED
        BY <1>5, <2>1, <2>2 DEF RowTyped, Lawful
<1>7. /\ bookings' \in [Sigs -> Nat] /\ \A u \in Sigs : bookings[u] > 0 => bookings'[u] > 0
      /\ e.booked => bookings'[s] > 0
    <2>1. CASE e.booked
        <3>1. bookings' = [bookings EXCEPT ![s] = @ + 1]
            BY <1>1, <2>1
        <3> QED
            BY <1>4, <3>1
    <2>2. CASE ~e.booked
        BY <1>1, <1>4, <2>2
    <2> QED
        BY <2>1, <2>2
<1>8. RemovedHeldNothing'
    <2>1. ASSUME round' = "removed" PROVE \A u \in Sigs : bookings'[u] = 0
        <3>1. round = "removed"
            BY <1>1, <1>5, <2>1 DEF Take, Lawful
        <3>2. bookings' = bookings
            BY <1>1, <1>5, <3>1
        <3> QED
            BY <3>1, <3>2 DEF Inv, RemovedHeldNothing
    <2> QED
        BY <2>1 DEF RemovedHeldNothing
<1>9. queue \in [Sigs -> Seq(KeptItems)] /\ queue[s] \in Seq(Fit(s)) /\ unresolved \in Seq(Fit(s))
      /\ Fit(s) \subseteq KeptItems
    BY <1>2 DEF Inv, Types, FitInv, Fit
<1>10. Len(queue[s]) \in Nat /\ Len(unresolved) \in Nat
    BY <1>9, LenProperties
<1>11. e.result \in {"ok", "retry", "drop"}
    BY <1>5 DEF Lawful, Results
<1>12. abandoned \subseteq Sigs
    BY DEF Inv, Types
<1>13. CASE e.result = "ok"
    <2>1. queue' = [queue EXCEPT ![s] = IF @ = <<>> THEN @ ELSE Tail(@)] /\ UNCHANGED <<unresolved, abandoned>>
        BY <1>1, <1>13
    <2> PICK r : r = IF queue[s] = <<>> THEN queue[s] ELSE Tail(queue[s])
        OBVIOUS
    <2>2. r \in Seq(Fit(s)) /\ Len(r) \in Nat /\ Len(r) <= Len(queue[s])
        <3>1. CASE queue[s] = <<>>
            BY <1>9, <1>10, <3>1
        <3>2. CASE queue[s] # <<>>
            <4>1. Tail(queue[s]) \in Seq(Fit(s)) /\ Len(Tail(queue[s])) = Len(queue[s]) - 1 /\ Len(queue[s]) >= 1
                BY <1>9, <3>2, Taken
            <4>2. r = Tail(queue[s])
                BY <3>2
            <4> QED
                BY <1>10, <4>1, <4>2
        <3> QED
            BY <3>1, <3>2
    <2>3. r \in Seq(KeptItems)
        BY <1>9, <2>2, SeqMonotonic
    <2>4. queue' = [queue EXCEPT ![s] = r]
        BY <2>1
    <2>5. queue' \in [Sigs -> Seq(KeptItems)] /\ queue'[s] = r /\ \A u \in Sigs : u # s => queue'[u] = queue[u]
        BY <1>9, <2>3, <2>4
    <2>6. Len(queue'[s]) + Len(unresolved') <= Len(queue[s]) + Len(unresolved) + 1
        BY <1>10, <2>1, <2>2, <2>5
    <2>7. Settled(s)'
        BY <1>5, <1>7, <1>13 DEF Settled
    <2> QED
        BY <1>2, <1>6, <1>7, <1>8, <1>9, <1>12, <2>1, <2>2, <2>5, <2>6, <2>7, BatchStepKeeps
<1>14. CASE e.result = "retry"
    <2>1. RetryOrGiveUp([Head(hand).item EXCEPT !.confirmed = TRUE]) /\ UNCHANGED abandoned
        BY <1>1, <1>14
    <2> PICK item : item = [Head(hand).item EXCEPT !.confirmed = TRUE]
        OBVIOUS
    <2>2. item \in Fit(s)
        <3>1. Len(hand) \in Nat /\ Len(hand) >= 1 /\ Head(hand) = hand[1]
            BY <1>3, Taken
        <3>2. Head(hand).item \in KeptItems
            BY <1>3, <1>9, <3>1
        <3>3. item \in KeptItems /\ item.confirmed = TRUE
            BY <3>2 DEF KeptItems
        <3> QED
            BY <3>3 DEF Fit
    <2>3. /\ queue' \in [Sigs -> Seq(KeptItems)] /\ \A u \in Sigs : u # s => queue'[u] = queue[u]
          /\ queue'[s] \in Seq(Fit(s)) /\ unresolved' \in Seq(Fit(s))
          /\ Len(queue'[s]) + Len(unresolved') <= Len(queue[s]) + Len(unresolved) + 1
          /\ queue'[s] # <<>> \/ unresolved' # <<>>
        BY <1>2, <2>1, <2>2, RetriedOrGivenUp
    <2> QED
        BY <1>2, <1>6, <1>7, <1>8, <1>12, <2>1, <2>3, BatchStepKeeps
<1>15. CASE e.result = "drop"
    <2>1. abandoned' = abandoned \cup {s} /\ UNCHANGED <<queue, unresolved>>
        BY <1>1, <1>15
    <2>2. Len(queue'[s]) + Len(unresolved') <= Len(queue[s]) + Len(unresolved) + 1
        BY <1>10, <2>1
    <2>3. Settled(s)'
        BY <2>1 DEF Settled
    <2> QED
        BY <1>2, <1>6, <1>7, <1>8, <1>9, <1>12, <2>1, <2>2, <2>3, BatchStepKeeps
<1> QED
    BY <1>11, <1>13, <1>14, <1>15

-----------------------------------------------------------------------------
(* The settlement.                                                          *)

\* What a disposition rests on: a pending swap is settled as failed only when the chain will
\* never execute it, and deferred only when its last read missed it.
LEMMA DispositionMeans ==
    ASSUME NEW s, NEW job \in Read(s), NEW dust
    PROVE  /\ disposition(s, job, dust) \in {"confirm", "keep", "apply", "defer"}
           /\ s \notin OnRow /\ disposition(s, job, dust) = "apply" => fate[s] \in {"reverted", "expired"}
           /\ s \notin OnRow /\ disposition(s, job, dust) = "defer" => Missed(s)
<1>1. /\ job \in KeptJobs
      /\ s \notin OnRow => /\ job.verdict = "reverted" => fate[s] = "reverted"
                           /\ job.verdict = "notLanded" =>
                                 /\ Missed(s)
                                 /\ job.item.seen /\ ~job.item.confirmed => fate[s] \in {"reverted", "expired"}
    BY DEF Read
<1>2. job.verdict \in VerdictCodes /\ job.item \in KeptItems
    BY <1>1 DEF KeptJobs
<1>3. job.item.confirmed \in BOOLEAN /\ job.item.seen \in BOOLEAN
    BY <1>2 DEF KeptItems
<1>4. CASE job.item.confirmed \/ job.verdict = "landed"
    <2>1. disposition(s, job, dust) = "confirm"
        BY <1>4 DEF disposition
    <2> QED
        BY <2>1
<1>5. CASE ~job.item.confirmed /\ job.verdict = "pending"
    <2>1. disposition(s, job, dust) = "keep"
        BY <1>5 DEF disposition
    <2> QED
        BY <2>1
<1>6. CASE ~job.item.confirmed /\ job.verdict = "reverted"
    <2>1. disposition(s, job, dust) = "apply"
        BY <1>6 DEF disposition
    <2> QED
        BY <1>1, <1>6, <2>1
<1>7. CASE ~job.item.confirmed /\ job.verdict = "notLanded"
    <2>1. disposition(s, job, dust) = IF Proved(s, job.item, dust) THEN "apply" ELSE "defer"
        BY <1>7 DEF disposition
    <2>2. CASE Proved(s, job.item, dust)
        <3>1. disposition(s, job, dust) = "apply" /\ job.item.seen
            BY <2>1, <2>2 DEF Proved
        <3> QED
            BY <1>1, <1>7, <3>1
    <2>3. CASE ~Proved(s, job.item, dust)
        <3>1. disposition(s, job, dust) = "defer"
            BY <2>1, <2>3
        <3> QED
            BY <1>1, <1>7, <3>1
    <2> QED
        BY <2>2, <2>3
<1> QED
    BY <1>2, <1>3, <1>4, <1>5, <1>6, <1>7 DEF VerdictCodes

\* The worker is done with a job.
LEMMA HandedOff ==
    ASSUME VerificationConstants, Inv, wpc \in {"settle", "renew"}, HandOff, UNCHANGED unresolved
    PROVE  /\ sig \in Sigs /\ sig \in Sent /\ unresolved = <<>> /\ Len(hand) \in Nat /\ Len(hand) >= 1
           /\ Head(hand) = hand[1] /\ Head(hand) \in Read(sig) /\ Head(hand) \in KeptJobs
           /\ hand' \in Seq(KeptJobs) /\ hand' \in Seq(Read(sig)) /\ Len(hand') = Len(hand) - 1
           /\ WorkerInv'
           /\ \/ Len(hand) # 1 /\ wpc' = wpc /\ sig' = sig
              \/ Len(hand) = 1 /\ wpc' = "idle" /\ sig' = None /\ hand' = <<>>
<1>1. /\ hand' = Tail(hand)
      /\ IF Len(hand) = 1 THEN wpc' = "idle" /\ sig' = None ELSE UNCHANGED <<wpc, sig>>
    BY DEF HandOff
<1>2. sig \in Sigs /\ sig \in Sent /\ hand # <<>> /\ hand \in Seq(KeptJobs) /\ Len(hand) <= 2
      /\ unresolved = <<>> /\ hand \in Seq(Read(sig))
    BY DEF Inv, WorkerInv, SentInv, Types, FitInv, VerificationConstants
<1>3. /\ Len(hand) \in Nat /\ Len(hand) >= 1 /\ Tail(hand) \in Seq(KeptJobs) /\ Len(Tail(hand)) = Len(hand) - 1
      /\ Head(hand) = hand[1] /\ Head(hand) \in KeptJobs
      /\ Len(hand) = 1 => Tail(hand) = <<>>
      /\ Len(hand) # 1 => Tail(hand) # <<>>
    BY <1>2, Taken
<1>4. Tail(hand) \in Seq(Read(sig)) /\ Head(hand) \in Read(sig)
    BY <1>2, Taken
<1>5. Len(hand') <= 2
    BY <1>1, <1>2, <1>3
<1>6. \/ Len(hand) # 1 /\ wpc' = wpc /\ sig' = sig /\ hand' # <<>>
      \/ Len(hand) = 1 /\ wpc' = "idle" /\ sig' = None /\ hand' = <<>>
    BY <1>1, <1>3
<1>7. WorkerInv'
    BY <1>2, <1>5, <1>6 DEF WorkerInv
<1> QED
    BY <1>1, <1>2, <1>3, <1>4, <1>6, <1>7

\* The first queued item of the signature is replaced.
LEMMA FirstReplaced ==
    ASSUME queue \in [Sigs -> Seq(KeptItems)], NEW s \in Sigs, NEW item, queue[s] # <<>> => item \in KeptItems
    PROVE  /\ First(s, item) \in [Sigs -> Seq(KeptItems)]
           /\ \A u \in Sigs : u # s => First(s, item)[u] = queue[u]
           /\ Len(First(s, item)[s]) = Len(queue[s])
           /\ First(s, item)[s] # <<>> <=> queue[s] # <<>>
           /\ Len(queue[s]) = 1 => First(s, item)[s] = <<item>>
<1> PICK r : r = IF queue[s] = <<>> THEN queue[s] ELSE <<item>> \o Tail(queue[s])
    OBVIOUS
<1>1. First(s, item) = [queue EXCEPT ![s] = r]
    BY DEF First
<1>2. queue[s] \in Seq(KeptItems) /\ Len(queue[s]) \in Nat
    BY LenProperties
<1>3. r \in Seq(KeptItems) /\ Len(r) = Len(queue[s]) /\ (Len(queue[s]) = 1 => r = <<item>>)
    <2>1. CASE queue[s] = <<>>
        <3>1. r = <<>> /\ Len(queue[s]) = 0
            BY <2>1, EmptySeq
        <3> QED
            BY <1>2, <2>1, <3>1
    <2>2. CASE queue[s] # <<>>
        <3>1. Tail(queue[s]) \in Seq(KeptItems) /\ Len(Tail(queue[s])) = Len(queue[s]) - 1
              /\ (Len(queue[s]) = 1 => Tail(queue[s]) = <<>>)
            BY <1>2, <2>2, Taken
        <3> PICK tail : tail = Tail(queue[s])
            OBVIOUS
        <3>2. <<item>> \in Seq(KeptItems) /\ Len(<<item>>) = 1
            BY <2>2
        <3>3. r = <<item>> \o tail
            BY <2>2
        <3>4. tail \in Seq(KeptItems)
            BY <3>1
        <3>5. r \in Seq(KeptItems) /\ Len(r) = Len(<<item>>) + Len(tail)
            BY <3>2, <3>3, <3>4, ConcatProperties
        <3>6. Len(r) = Len(queue[s])
            BY <1>2, <3>1, <3>2, <3>5
        <3>7. ASSUME Len(queue[s]) = 1 PROVE r = <<item>>
            <4>1. tail = <<>>
                BY <3>1, <3>7
            <4> QED
                BY <3>2, <3>3, <4>1, ConcatEmptySeq
        <3> QED
            BY <3>5, <3>6, <3>7
    <2> QED
        BY <2>1, <2>2
<1>4. r # <<>> <=> queue[s] # <<>>
    BY <1>2, <1>3, SameLength
<1>5. First(s, item)[s] = r /\ \A u \in Sigs : u # s => First(s, item)[u] = queue[u]
    BY <1>1
<1>6. First(s, item) \in [Sigs -> Seq(KeptItems)]
    BY <1>1, <1>3
<1> QED
    BY <1>3, <1>4, <1>5, <1>6

\* What a settlement comes to: the swap failed, it is abandoned, or its item is queued again.
LEMMA SettledSo ==
    ASSUME VerificationConstants, Inv, NEW s \in Sigs, NEW q, NEW item, Settle(s, q, item),
           UNCHANGED <<fate, bookings>>
    PROVE  /\ RowTyped' /\ RemovedHeldNothing'
           /\ \/ failed' = failed \cup {s} /\ abandoned' = abandoned /\ queue' = q
              \/ failed' = failed /\ abandoned' = abandoned \cup {s} /\ queue' = q
              \/ failed' = failed /\ abandoned' = abandoned
                 /\ queue' = Enqueued(q, s, [item EXCEPT !.seen = TRUE])
<1>1. PICK e \in FailureEffects(s) :
        /\ Take(e)
        /\ failed' = IF e.result = "ok" THEN failed \cup {s} ELSE failed
        /\ abandoned' = IF e.result = "drop" THEN abandoned \cup {s} ELSE abandoned
        /\ queue' = IF e.result = "retry"
                    THEN Enqueued(q, s, [item EXCEPT !.seen = TRUE]) ELSE q
    BY DEF Settle
<1>2. RowTyped /\ Cardinality(Sigs) \in Nat
    BY SwapsCounted DEF Inv
<1>3. /\ e.round \in Rounds5 /\ e.memory \subseteq Sent /\ e.stored \subseteq Sent
      /\ e.partials \in 0 .. Cardinality(Sigs) /\ e.result \in Results
      /\ e.round = "removed" => round = "removed" \/ \A t \in Sigs : bookings[t] = 0
    BY <1>2, FailureLawful
<1>4. Sent' = Sent
    BY DEF Sent
<1>5. RowTyped'
    BY <1>1, <1>3, <1>4 DEF RowTyped, Take
<1>6. RemovedHeldNothing'
    BY <1>1, <1>3 DEF Inv, RemovedHeldNothing, Take
<1>7. e.result = "ok" \/ e.result = "drop" \/ e.result = "retry"
    BY <1>3 DEF Results
<1> QED
    BY <1>1, <1>5, <1>6, <1>7

\* What the settlement of a job of s may leave, with at most n items more in its queue.
Leaves(s, n) ==
    /\ queue' \in [Sigs -> Seq(KeptItems)] /\ \A u \in Sigs : u # s => queue'[u] = queue[u]
    /\ queue'[s] \in Seq(Fit(s)) /\ Len(queue'[s]) <= Len(queue[s]) + n
    /\ queue'[s] # <<>> \/ Settled(s)'
    /\ failed \subseteq failed' /\ failed' \subseteq Sigs
    /\ abandoned \subseteq abandoned' /\ abandoned' \subseteq Sigs
    /\ RowTyped' /\ RemovedHeldNothing' /\ FailedNeverLands'

\* The marks a settlement sets on an item.
LEMMA MarksFit ==
    ASSUME NEW s, NEW item \in KeptItems
    PROVE  /\ [item EXCEPT !.confirmed = TRUE] \in Fit(s)
           /\ [item EXCEPT !.seen = FALSE] \in Fit(s)
           /\ (s \notin OnRow => Missed(s)) => [item EXCEPT !.seen = TRUE] \in Fit(s)
           /\ \A b \in BOOLEAN : [item EXCEPT !.seen = FALSE, !.confirmed = @ \/ b] \in Fit(s)
           /\ ~item.seen => item \in Fit(s)
<1>1. /\ [item EXCEPT !.confirmed = TRUE] \in KeptItems /\ [item EXCEPT !.confirmed = TRUE].confirmed
      /\ [item EXCEPT !.seen = FALSE] \in KeptItems /\ ~[item EXCEPT !.seen = FALSE].seen
      /\ [item EXCEPT !.seen = TRUE] \in KeptItems
    BY DEF KeptItems
<1>2. ASSUME NEW b \in BOOLEAN
      PROVE  [item EXCEPT !.seen = FALSE, !.confirmed = @ \/ b] \in Fit(s)
    <2> PICK c : c = (item.confirmed \/ b)
        OBVIOUS
    <2>1. c \in BOOLEAN
        BY DEF KeptItems
    <2>2. [[item EXCEPT !.seen = FALSE] EXCEPT !.confirmed = c] \in KeptItems
          /\ ~[[item EXCEPT !.seen = FALSE] EXCEPT !.confirmed = c].seen
        BY <1>1, <2>1 DEF KeptItems
    <2>3. [item EXCEPT !.seen = FALSE, !.confirmed = @ \/ b] = [[item EXCEPT !.seen = FALSE] EXCEPT !.confirmed = c]
        BY DEF KeptItems
    <2> QED
        BY <2>2, <2>3 DEF Fit
<1> QED
    BY <1>1, <1>2 DEF Fit

\* The settlement of a job keeps the invariant when it leaves what it may.
LEMMA JobStepKeeps ==
    ASSUME VerificationConstants, Inv, wpc \in {"settle", "renew"}, HandOff, NEW s \in Sigs, s = sig,
           UNCHANGED <<chainVars, call, noted, snap, sentAtRead, unresolved, bookings, accepted, restarts>>,
           Leaves(s, IF wpc = "settle" THEN 0 ELSE 1)
    PROVE  Inv'
<1> USE DEF chainVars
<1>1. /\ s \in Sent /\ unresolved = <<>> /\ Len(hand) \in Nat /\ Len(hand) >= 1
      /\ hand' \in Seq(KeptJobs) /\ hand' \in Seq(Read(s)) /\ Len(hand') = Len(hand) - 1
      /\ WorkerInv'
      /\ \/ Len(hand) # 1 /\ wpc' = wpc /\ sig' = s
         \/ Len(hand) = 1 /\ wpc' = "idle" /\ sig' = None /\ hand' = <<>>
    BY HandedOff
<1>2. Fit(s)' = Fit(s) /\ Read(s)' = Read(s)
    BY DEF Fit, Read, Missed
<1>3. Len(queue[s]) \in Nat /\ Len(queue'[s]) \in Nat /\ Len(unresolved) = 0 /\ Len(unresolved') = 0
    BY <1>1, LenProperties, EmptySeq DEF Inv, Types, Leaves
<1>4. Len(queue'[s]) + Held(s)' <= Len(queue[s]) + Held(s)
    <2>1. CASE wpc = "settle"
        <3>1. Held(s) = 0 /\ Held(s)' = 0
            BY <1>1, <2>1 DEF Held
        <3>2. Len(queue'[s]) <= Len(queue[s]) + 0
            BY <2>1 DEF Leaves
        <3> QED
            BY <1>3, <3>1, <3>2
    <2>2. CASE wpc = "renew"
        <3>1. Held(s) = Len(hand)
            <4>1. Held(s) = Len(hand) + Len(unresolved)
                BY <2>2 DEF Held
            <4>2. Len(hand) + 0 = Len(hand)
                BY <1>1
            <4> QED
                BY <1>3, <4>1, <4>2
        <3>2. Held(s)' = Len(hand) - 1
            <4>1. CASE Len(hand) # 1
                <5>1. wpc' = "renew" /\ sig' = s
                    BY <1>1, <2>2, <4>1
                <5>2. Held(s)' = Len(hand') + Len(unresolved')
                    BY <5>1 DEF Held
                <5>3. (Len(hand) - 1) + 0 = Len(hand) - 1
                    BY <1>1
                <5> QED
                    BY <1>1, <1>3, <5>2, <5>3
            <4>2. CASE Len(hand) = 1
                <5>1. Held(s)' = 0
                    BY <1>1, <4>2 DEF Held
                <5> QED
                    BY <4>2, <5>1
            <4> QED
                BY <4>1, <4>2
        <3>3. Len(queue'[s]) <= Len(queue[s]) + 1
            BY <2>2 DEF Leaves
        <3> QED
            BY <1>1, <1>3, <3>1, <3>2, <3>3
    <2> QED
        BY <2>1, <2>2
<1>5. wpc' = "settle" => s \in OnRow
    <2>1. wpc = "settle" /\ s \notin OnRow => Len(hand) = 1
        BY DEF Inv, FitInv
    <2> QED
        BY <1>1, <2>1
<1>6. PassInv'
    BY <1>1 DEF PassInv, Leaves
<1>7. queue'[s] \in Seq(Fit(s)') /\ hand' \in Seq(Read(s)')
    BY <1>1, <1>2 DEF Leaves
<1>8. /\ lagged' \in [Sigs -> BOOLEAN] /\ \A u \in Sigs : u # s => lagged'[u] = lagged[u]
      /\ bookings' \in [Sigs -> Nat] /\ \A u \in Sigs : bookings[u] > 0 => bookings'[u] > 0
    BY DEF Inv, Types
<1>9. /\ wpc' \in {"idle", "settle", "verify", "giveUp", "renew"} /\ sig' \in {None, s} /\ sig \in {None, s}
      /\ wpc' \notin {"verify", "giveUp"}
    BY <1>1
<1>10. unresolved' \in Seq(KeptItems)
    BY DEF Inv, Types
<1>11. /\ queue' \in [Sigs -> Seq(KeptItems)] /\ \A u \in Sigs : u # s => queue'[u] = queue[u]
       /\ queue'[s] # <<>> \/ Settled(s)'
       /\ failed \subseteq failed' /\ failed' \subseteq Sigs
       /\ abandoned \subseteq abandoned' /\ abandoned' \subseteq Sigs
       /\ RowTyped' /\ RemovedHeldNothing' /\ FailedNeverLands'
    BY DEF Leaves
<1> QED
    BY <1>1, <1>4, <1>5, <1>6, <1>7, <1>8, <1>9, <1>10, <1>11, PassStepKeeps

\* An item put back on its queue leaves what it may.
LEMMA EnqueuedLeaves ==
    ASSUME VerificationConstants, Inv, NEW s \in Sigs, NEW q \in [Sigs -> Seq(KeptItems)],
           \A u \in Sigs : u # s => q[u] = queue[u], q[s] \in Seq(Fit(s)), NEW n \in {0, 1},
           Len(q[s]) <= Len(queue[s]) + n, 1 <= Len(queue[s]) + n,
           NEW i \in Fit(s), queue' = Enqueued(q, s, i),
           RowTyped' /\ RemovedHeldNothing', UNCHANGED <<fate, bookings, abandoned, failed>>
    PROVE  Leaves(s, n)
<1> PICK F : F = Fit(s)
    OBVIOUS
<1>1. F \subseteq KeptItems /\ q[s] \in Seq(F) /\ i \in F
    BY DEF Fit
<1>2. Enqueued(q, s, i) \in [Sigs -> Seq(KeptItems)]
    BY <1>1, EnqueuedItem
<1>3. \A u \in Sigs : u # s => Enqueued(q, s, i)[u] = q[u]
    BY <1>1, EnqueuedItem
<1>4. Enqueued(q, s, i)[s] \in Seq(F)
    BY <1>1, EnqueuedItem
<1>5. Enqueued(q, s, i)[s] # <<>> \/ s \in abandoned
    BY <1>1, EnqueuedItem
<1>6. Len(Enqueued(q, s, i)[s]) <= Len(queue[s]) + n
    <2>1. CASE s \in abandoned \/ q[s] # <<>>
        <3>1. Enqueued(q, s, i) = q
            BY <2>1 DEF Enqueued
        <3> QED
            BY <3>1
    <2>2. CASE ~(s \in abandoned \/ q[s] # <<>>)
        <3>1. Enqueued(q, s, i) = [q EXCEPT ![s] = <<i>>]
            BY <2>2 DEF Enqueued
        <3>2. Enqueued(q, s, i)[s] = <<i>> /\ Len(<<i>>) = 1
            BY <3>1
        <3> QED
            BY <3>2
    <2> QED
        BY <2>1, <2>2
<1>7. Settled(s)' \/ queue'[s] # <<>>
    BY <1>5 DEF Settled
<1>8. \A u \in Sigs : u # s => queue'[u] = queue[u]
    BY <1>3
<1>9. queue' \in [Sigs -> Seq(KeptItems)] /\ queue'[s] \in Seq(Fit(s)) /\ Len(queue'[s]) <= Len(queue[s]) + n
    BY <1>2, <1>4, <1>6
<1>10. failed \subseteq failed' /\ failed' \subseteq Sigs /\ abandoned \subseteq abandoned' /\ abandoned' \subseteq Sigs
    BY DEF Inv, Types
<1>11. FailedNeverLands'
    BY DEF Inv, FailedNeverLands
<1> QED
    BY <1>7, <1>8, <1>9, <1>10, <1>11 DEF Leaves

\* A settlement applied leaves what it may: a pending swap fails only when the chain will
\* never execute it.
LEMMA AppliedLeaves ==
    ASSUME VerificationConstants, Inv, NEW s \in Sigs, NEW q \in [Sigs -> Seq(KeptItems)],
           \A u \in Sigs : u # s => q[u] = queue[u], q[s] \in Seq(Fit(s)), NEW n \in {0, 1},
           Len(q[s]) <= Len(queue[s]) + n, 1 <= Len(queue[s]) + n,
           NEW item \in KeptItems, s \notin OnRow => fate[s] \in {"reverted", "expired"},
           Settle(s, q, item), UNCHANGED <<fate, bookings>>
    PROVE  Leaves(s, n)
<1>1. /\ RowTyped' /\ RemovedHeldNothing'
      /\ \/ failed' = failed \cup {s} /\ abandoned' = abandoned /\ queue' = q
         \/ failed' = failed /\ abandoned' = abandoned \cup {s} /\ queue' = q
         \/ failed' = failed /\ abandoned' = abandoned
            /\ queue' = Enqueued(q, s, [item EXCEPT !.seen = TRUE])
    BY SettledSo
<1>2. /\ failed \subseteq failed' /\ failed' \subseteq Sigs
      /\ abandoned \subseteq abandoned' /\ abandoned' \subseteq Sigs
    BY <1>1 DEF Inv, Types
<1>3. FailedNeverLands'
    BY <1>1 DEF Inv, FailedNeverLands
<1>4. ASSUME queue' = q, s \in failed' \/ s \in abandoned'
      PROVE  Leaves(s, n)
    <2>1. Settled(s)'
        BY <1>4 DEF Settled
    <2> QED
        BY <1>1, <1>2, <1>3, <1>4, <2>1 DEF Leaves
<1>5. ASSUME queue' = Enqueued(q, s, [item EXCEPT !.seen = TRUE]), abandoned' = abandoned, failed' = failed
      PROVE  Leaves(s, n)
    <2> PICK i : i = [item EXCEPT !.seen = TRUE]
        OBVIOUS
    <2>1. i \in Fit(s)
        BY MarksFit DEF Missed
    <2>2. queue' = Enqueued(q, s, i)
        BY <1>5
    <2> QED
        BY <1>1, <1>5, <2>1, <2>2, EnqueuedLeaves
<1> QED
    BY <1>1, <1>4, <1>5

\* The settlement of a queued item.
LEMMA SettleQueuedKeeps ==
    ASSUME VerificationConstants, Inv, SettleQueued
    PROVE  Inv'
<1> USE DEF chainVars, rowVars
<1>1. /\ wpc = "settle" /\ HandOff
      /\ UNCHANGED <<chainVars, call, noted, snap, sentAtRead, unresolved, bookings, accepted, restarts>>
    BY DEF SettleQueued
<1>2. /\ sig \in Sigs /\ Head(hand) = hand[1] /\ Head(hand) \in Read(sig) /\ Head(hand) \in KeptJobs
    BY <1>1, HandedOff
<1> PICK s \in Sigs : s = sig
    BY <1>2
<1> PICK job : job = Head(hand)
    OBVIOUS
<1> PICK front : front = Head(queue[s])
    OBVIOUS
<1>3. PICK dust : LET d == disposition(s, job, dust) IN
       \/ /\ d = "confirm"
          /\ queue' = First(s, [front EXCEPT !.confirmed = TRUE])
          /\ UNCHANGED <<rowVars, abandoned, failed>>
       \/ /\ d = "keep"
          /\ queue' = IF job.item.seen THEN First(s, [front EXCEPT !.seen = FALSE])
                                       ELSE queue
          /\ UNCHANGED <<rowVars, abandoned, failed>>
       \/ /\ d = "defer" \/ (d = "apply" /\ call.pc # "idle")
          /\ queue' = First(s, [front EXCEPT !.seen = TRUE])
          /\ UNCHANGED <<rowVars, abandoned, failed>>
       \/ /\ d = "apply" /\ ~(call.pc # "idle")
          /\ IF queue[s] = <<>>
             THEN UNCHANGED <<rowVars, queue, abandoned, failed>>
             ELSE Settle(s, [queue EXCEPT ![s] = Tail(@)], job.item)
    BY DEF SettleQueued
<1> PICK d : d = disposition(s, job, dust)
    OBVIOUS
<1>4. job \in Read(s) /\ job.item \in KeptItems
    BY <1>2 DEF KeptJobs
<1>5. /\ s \notin OnRow /\ d = "apply" => fate[s] \in {"reverted", "expired"}
      /\ s \notin OnRow /\ d = "defer" => Missed(s)
    BY <1>4, DispositionMeans
<1>6. queue \in [Sigs -> Seq(KeptItems)] /\ queue[s] \in Seq(KeptItems) /\ Len(queue[s]) \in Nat
    BY LenProperties DEF Inv, Types
<1>7. queue[s] # <<>> => front \in KeptItems /\ Tail(queue[s]) \in Seq(KeptItems)
                         /\ Len(Tail(queue[s])) = Len(queue[s]) - 1 /\ Len(queue[s]) >= 1
    BY <1>6, Taken
<1>8. s \notin OnRow => queue[s] = <<job.item>> /\ front = job.item
    <2>1. s \notin OnRow => queue[s] = <<job.item>>
        BY <1>1, <1>2 DEF Inv, FitInv
    <2>2. ASSUME NEW x, queue[s] = <<x>> PROVE Head(queue[s]) = x
        BY <2>2
    <2> QED
        BY <2>1, <2>2
<1>9. s \in OnRow => Fit(s) = KeptItems
    BY DEF Fit
<1>10. queue[s] # <<>> \/ Settled(s)
    BY <1>1 DEF Inv, PassInv
<1>11. SUFFICES Leaves(s, 0)
    BY <1>1, JobStepKeeps
<1>12. ASSUME queue' \in [Sigs -> Seq(KeptItems)], \A u \in Sigs : u # s => queue'[u] = queue[u],
              queue'[s] \in Seq(Fit(s)), Len(queue'[s]) = Len(queue[s]), queue[s] # <<>> => queue'[s] # <<>>,
              UNCHANGED <<rowVars, abandoned, failed>>
       PROVE  Leaves(s, 0)
    <2>1. Len(queue'[s]) <= Len(queue[s]) + 0
        BY <1>6, <1>12
    <2>2. queue'[s] # <<>> \/ Settled(s)'
        BY <1>1, <1>10, <1>12 DEF Settled
    <2>3. RowTyped' /\ RemovedHeldNothing' /\ FailedNeverLands'
        BY <1>1, <1>12 DEF Inv, RowTyped, Sent, RemovedHeldNothing, FailedNeverLands
    <2>4. failed \subseteq failed' /\ failed' \subseteq Sigs /\ abandoned \subseteq abandoned' /\ abandoned' \subseteq Sigs
        BY <1>12 DEF Inv, Types
    <2> QED
        BY <1>12, <2>1, <2>2, <2>3, <2>4 DEF Leaves
<1>13. ASSUME NEW item, queue' = First(s, item), UNCHANGED <<rowVars, abandoned, failed>>,
              queue[s] # <<>> => item \in KeptItems, s \notin OnRow => item \in Fit(s)
       PROVE  Leaves(s, 0)
    <2>1. /\ queue' \in [Sigs -> Seq(KeptItems)] /\ \A u \in Sigs : u # s => queue'[u] = queue[u]
          /\ Len(queue'[s]) = Len(queue[s]) /\ (queue'[s] # <<>> <=> queue[s] # <<>>)
        <3>1. First(s, item) \in [Sigs -> Seq(KeptItems)]
            BY <1>6, <1>13, FirstReplaced
        <3>2. \A u \in Sigs : u # s => First(s, item)[u] = queue[u]
            BY <1>6, <1>13, FirstReplaced
        <3>3. Len(First(s, item)[s]) = Len(queue[s])
            BY <1>6, <1>13, FirstReplaced
        <3>4. First(s, item)[s] # <<>> <=> queue[s] # <<>>
            BY <1>6, <1>13, FirstReplaced
        <3> QED
            BY <1>13, <3>1, <3>2, <3>3, <3>4
    <2>2. Len(queue[s]) = 1 => queue'[s] = <<item>>
        <3>1. Len(queue[s]) = 1 => First(s, item)[s] = <<item>>
            BY <1>6, <1>13, FirstReplaced
        <3> QED
            BY <1>13, <3>1
    <2>3. queue'[s] \in Seq(Fit(s))
        <3>1. CASE s \in OnRow
            <4>1. queue'[s] \in Seq(KeptItems)
                BY <2>1
            <4> QED
                BY <1>9, <3>1, <4>1
        <3>2. CASE s \notin OnRow
            <4> Len(queue[s]) = 1
                <5>1. queue[s] = <<job.item>> /\ Len(<<job.item>>) = 1
                    BY <1>8, <3>2
                <5> QED
                    BY <5>1
            <4>1. queue'[s] = <<item>> /\ item \in Fit(s)
                BY <1>13, <2>2, <3>2
            <4>2. <<item>> \in Seq(Fit(s))
                BY <4>1
            <4> QED
                BY <4>1, <4>2
        <3> QED
            BY <3>1, <3>2
    <2> QED
        BY <1>12, <1>13, <2>1, <2>3
<1>14. ASSUME queue[s] # <<>> PROVE front \in KeptItems
    BY <1>7, <1>14
<1>15. s \notin OnRow => front \in KeptItems
    BY <1>4, <1>8
<1>16. CASE d = "confirm"
    <2>1. queue' = First(s, [front EXCEPT !.confirmed = TRUE]) /\ UNCHANGED <<rowVars, abandoned, failed>>
        BY <1>3, <1>16
    <2> PICK item : item = [front EXCEPT !.confirmed = TRUE]
        OBVIOUS
    <2>2. front \in KeptItems => item \in Fit(s) /\ item \in KeptItems
        BY MarksFit DEF Fit
    <2> QED
        BY <1>13, <1>14, <1>15, <2>1, <2>2
<1>17. CASE d = "keep" /\ job.item.seen
    <2>1. queue' = First(s, [front EXCEPT !.seen = FALSE]) /\ UNCHANGED <<rowVars, abandoned, failed>>
        BY <1>3, <1>17
    <2> PICK item : item = [front EXCEPT !.seen = FALSE]
        OBVIOUS
    <2>2. front \in KeptItems => item \in Fit(s) /\ item \in KeptItems
        BY MarksFit DEF Fit
    <2> QED
        BY <1>13, <1>14, <1>15, <2>1, <2>2
<1>18. CASE d = "keep" /\ ~job.item.seen
    <2>1. queue' = queue /\ UNCHANGED <<rowVars, abandoned, failed>>
        BY <1>3, <1>18
    <2>2. queue[s] \in Seq(Fit(s))
        <3>1. CASE s \in OnRow
            BY <1>6, <1>9, <3>1
        <3>2. CASE s \notin OnRow
            <4>1. job.item \in Fit(s)
                BY <1>4, <1>18, MarksFit
            <4>2. <<job.item>> \in Seq(Fit(s))
                BY <4>1
            <4> QED
                BY <1>8, <3>2, <4>2
        <3> QED
            BY <3>1, <3>2
    <2> QED
        BY <1>6, <1>12, <2>1, <2>2
<1>19. CASE d = "defer" \/ (d = "apply" /\ call.pc # "idle")
    <2>1. queue' = First(s, [front EXCEPT !.seen = TRUE]) /\ UNCHANGED <<rowVars, abandoned, failed>>
        BY <1>3, <1>19
    <2> PICK item : item = [front EXCEPT !.seen = TRUE]
        OBVIOUS
    <2>2. s \notin OnRow => Missed(s)
        BY <1>5, <1>19 DEF Missed
    <2>3. front \in KeptItems => item \in Fit(s) /\ item \in KeptItems
        BY <2>2, MarksFit DEF Fit
    <2> QED
        BY <1>13, <1>14, <1>15, <2>1, <2>3
<1>20. CASE d = "apply" /\ ~(call.pc # "idle")
    <2>1. CASE queue[s] = <<>>
        <3>1. queue' = queue /\ UNCHANGED <<rowVars, abandoned, failed>>
            BY <1>3, <1>20, <2>1
        <3>2. queue[s] \in Seq(Fit(s))
            BY <2>1, EmptySeq
        <3> QED
            BY <1>6, <1>12, <3>1, <3>2
    <2>2. CASE queue[s] # <<>>
        <3> PICK q : q = [queue EXCEPT ![s] = Tail(@)]
            OBVIOUS
        <3>1. Settle(s, q, job.item)
            BY <1>3, <1>20, <2>2
        <3>2. q[s] = Tail(queue[s]) /\ q \in [Sigs -> Seq(KeptItems)] /\ \A u \in Sigs : u # s => q[u] = queue[u]
            BY <1>6, <1>7, <2>2
        <3>3. q[s] \in Seq(Fit(s))
            <4>1. CASE s \in OnRow
                BY <1>7, <1>9, <2>2, <3>2, <4>1
            <4>2. CASE s \notin OnRow
                <5>1. Tail(queue[s]) = <<>>
                    <6>1. queue[s] = <<job.item>> /\ Len(<<job.item>>) = 1
                        BY <1>8, <4>2
                    <6>2. Len(queue[s]) = 1
                        BY <6>1
                    <6> QED
                        BY <1>6, <2>2, <6>2, Taken
                <5> QED
                    BY <3>2, <5>1, EmptySeq
            <4> QED
                BY <4>1, <4>2
        <3>4. Len(q[s]) <= Len(queue[s]) + 0 /\ 1 <= Len(queue[s]) + 0
            BY <1>6, <1>7, <2>2, <3>2
        <3>5. s \notin OnRow => fate[s] \in {"reverted", "expired"}
            BY <1>5, <1>20
        <3> QED
            BY <1>1, <1>4, <3>1, <3>2, <3>3, <3>4, <3>5, AppliedLeaves
    <2> QED
        BY <2>1, <2>2
<1> QED
    BY <1>3, <1>16, <1>17, <1>18, <1>19, <1>20

\* The renewal of an item the worker gave up on.
LEMMA RenewUnresolvedKeeps ==
    ASSUME VerificationConstants, Inv, RenewUnresolved
    PROVE  Inv'
<1> USE DEF chainVars, rowVars
<1>1. /\ wpc = "renew" /\ HandOff
      /\ UNCHANGED <<chainVars, call, noted, snap, sentAtRead, unresolved, bookings, accepted, restarts>>
    BY DEF RenewUnresolved
<1>2. /\ sig \in Sigs /\ Head(hand) \in Read(sig) /\ Head(hand) \in KeptJobs
    BY <1>1, HandedOff
<1> PICK s \in Sigs : s = sig
    BY <1>2
<1> PICK job : job = Head(hand)
    OBVIOUS
<1>3. PICK dust : LET d == disposition(s, job, dust) IN
       \/ /\ d \in {"confirm", "keep"}
          /\ queue' = Enqueued(queue, s, [job.item EXCEPT !.seen = FALSE,
                                               !.confirmed = @ \/ d = "confirm"])
          /\ UNCHANGED <<rowVars, abandoned, failed>>
       \/ /\ d = "defer" \/ (d = "apply" /\ call.pc # "idle")
          /\ queue' = Enqueued(queue, s, [job.item EXCEPT !.seen = TRUE])
          /\ UNCHANGED <<rowVars, abandoned, failed>>
       \/ /\ d = "apply" /\ ~(call.pc # "idle")
          /\ Settle(s, queue, job.item)
    BY DEF RenewUnresolved
<1> PICK d : d = disposition(s, job, dust)
    OBVIOUS
<1>4. job \in Read(s) /\ job.item \in KeptItems
    BY <1>2 DEF KeptJobs
<1>5. /\ s \notin OnRow /\ d = "apply" => fate[s] \in {"reverted", "expired"}
      /\ s \notin OnRow /\ d = "defer" => Missed(s)
    BY <1>4, DispositionMeans
<1>6. queue \in [Sigs -> Seq(KeptItems)] /\ queue[s] \in Seq(Fit(s))
    BY <1>1 DEF Inv, Types, FitInv
<1>7. Len(queue[s]) <= Len(queue[s]) + 1 /\ 1 <= Len(queue[s]) + 1
    <2>1. Len(queue[s]) \in Nat
        BY <1>6, LenProperties
    <2> QED
        BY <2>1
<1>8. SUFFICES Leaves(s, 1)
    BY <1>1, JobStepKeeps
<1>9. ASSUME NEW i \in Fit(s), queue' = Enqueued(queue, s, i), UNCHANGED <<rowVars, abandoned, failed>>
      PROVE  Leaves(s, 1)
    <2>1. RowTyped' /\ RemovedHeldNothing'
        BY <1>1, <1>9 DEF Inv, RowTyped, Sent, RemovedHeldNothing
    <2> QED
        BY <1>1, <1>6, <1>7, <1>9, <2>1, EnqueuedLeaves
<1>10. CASE d \in {"confirm", "keep"}
    <2> PICK i, b : b = (d = "confirm") /\ i = [job.item EXCEPT !.seen = FALSE, !.confirmed = @ \/ b]
        OBVIOUS
    <2>1. queue' = Enqueued(queue, s, i) /\ UNCHANGED <<rowVars, abandoned, failed>>
        BY <1>3, <1>10
    <2>2. b \in BOOLEAN
        OBVIOUS
    <2>3. i \in Fit(s)
        BY <1>4, <2>2, MarksFit
    <2> QED
        BY <1>9, <2>1, <2>3
<1>11. CASE d = "defer" \/ (d = "apply" /\ call.pc # "idle")
    <2> PICK i : i = [job.item EXCEPT !.seen = TRUE]
        OBVIOUS
    <2>1. queue' = Enqueued(queue, s, i) /\ UNCHANGED <<rowVars, abandoned, failed>>
        BY <1>3, <1>11
    <2>2. s \notin OnRow => Missed(s)
        BY <1>5, <1>11 DEF Missed
    <2>3. i \in Fit(s)
        BY <1>4, <2>2, MarksFit
    <2> QED
        BY <1>9, <2>1, <2>3
<1>12. CASE d = "apply" /\ ~(call.pc # "idle")
    <2>1. Settle(s, queue, job.item)
        BY <1>3, <1>12
    <2>2. s \notin OnRow => fate[s] \in {"reverted", "expired"}
        BY <1>5, <1>12
    <2> QED
        BY <1>1, <1>4, <1>6, <1>7, <2>1, <2>2, AppliedLeaves
<1> QED
    BY <1>3, <1>10, <1>11, <1>12

-----------------------------------------------------------------------------
\* The invariant is inductive.
LEMMA NextKeeps ==
    ASSUME VerificationConstants, Inv, [Next]_vars
    PROVE  Inv'
<1>1. ASSUME NEW s \in Sigs, ChainDecides(s) PROVE Inv'
    BY <1>1, ChainDecidesKeeps
<1>2. ASSUME NEW s \in Sigs, SendSwap(s) PROVE Inv'
    BY <1>2, SendSwapKeeps
<1>3. CASE CallStep
    <2>1. CASE RecordEntry
        BY <2>1, RecordEntryKeeps
    <2>2. CASE RecordPending
        BY <2>2, RecordPendingKeeps
    <2>3. CASE RecordExit
        BY <2>3, RecordExitKeeps
    <2>4. CASE EnqueueSubmitted
        BY <2>4, EnqueueSubmittedKeeps
    <2> QED
        BY <1>3, <2>1, <2>2, <2>3, <2>4 DEF CallStep
<1>4. CASE ForceClose
    BY <1>4, ForceCloseKeeps
<1>5. CASE WorkerStep
    <2>1. CASE ReenqueueMissing
        BY <2>1, ReenqueueMissingKeeps
    <2>2. CASE ReadBound
        BY <2>2, ReadBoundKeeps
    <2>3. CASE AssignBound
        BY <2>3, AssignBoundKeeps
    <2>4. ASSUME NEW s \in Sigs, ReadVerdicts(s) PROVE Inv'
        BY <2>4, ReadVerdictsKeeps
    <2>5. ASSUME NEW s \in Sigs, Poll(s) PROVE Inv'
        BY <2>5, PollKeeps
    <2>6. CASE SettleQueued
        BY <2>6, SettleQueuedKeeps
    <2>7. CASE VerifyLater
        BY <2>7, VerifyLaterKeeps
    <2>8. CASE VerifyLanded
        BY <2>8, VerifyLandedKeeps
    <2>9. CASE ReadUnresolved
        BY <2>9, ReadUnresolvedKeeps
    <2>10. CASE RenewUnresolved
        BY <2>10, RenewUnresolvedKeeps
    <2> QED
        BY <1>5, <2>1, <2>2, <2>3, <2>4, <2>5, <2>6, <2>7, <2>8, <2>9, <2>10 DEF WorkerStep
<1>6. CASE Restart
    BY <1>6, RestartKeeps
<1>7. CASE UNCHANGED vars
    BY <1>7, StutterKeeps
<1> QED
    BY <1>1, <1>2, <1>3, <1>4, <1>5, <1>6, <1>7 DEF Next

\* Every reachable state satisfies it.
LEMMA InvHolds == Spec => []Inv
<1>1. Init => Inv
    BY VerificationConstants, InvInit
<1>2. Inv /\ [Next]_vars => Inv'
    BY VerificationConstants, NextKeeps
<1> QED
    BY <1>1, <1>2, PTL DEF Spec

\* Every variable keeps its type, the queue among them: the enqueues of a call, of the
\* worker's cycle and of a restart, and the requeue and renewal of an item, never leave a
\* signature more than two items in one place, though requeue does not look for another.
THEOREM VerificationTyped == Spec => []TypeOK
<1>1. Inv => TypeOK
    BY VerificationConstants, InvTyped
<1> QED
    BY <1>1, InvHolds, PTL

\* A pending add or partial exit is settled as failed only when the chain will never
\* execute it: an expiry bound is assigned only to what was sent before it was read, and a
\* not-landed verdict settles nothing before its second read in a row.
THEOREM FailedOnlyTheDead == Spec => []FailedNeverLands
<1>1. Inv => FailedNeverLands
    BY DEF Inv
<1> QED
    BY <1>1, InvHolds, PTL

\* No swap handed to verification is forgotten undecided: deferral, retry, renewal and the
\* settlement of what a batch gave up on each put its item back, until the swap is booked,
\* settled or abandoned for the session.
THEOREM NothingLeftBehind == Spec => []NothingDropped
<1>1. Inv => NothingDropped
    BY DEF Inv
<1> QED
    BY <1>1, InvHolds, PTL

\* RemoveOrphanEntry deletes only rows nothing was ever booked on, and nothing is booked
\* on a row once it is removed.
THEOREM RemovedRowsEmpty == Spec => []RemovedHeldNothing
<1>1. Inv => RemovedHeldNothing
    BY DEF Inv
<1> QED
    BY <1>1, InvHolds, PTL

-----------------------------------------------------------------------------
\* The inductive invariant: the records are counts, and no count passes one.
Recorded == bookings \in [Sigs -> Nat] /\ BookedOnce

\* The one step that writes a record keeps the invariant.
LEMMA VerifyLandedKeepsRecorded ==
    ASSUME Recorded, VerifyLanded
    PROVE  Recorded'
<1>1. PICK e \in BookingEffects(sig) :
         bookings' = IF e.booked THEN [bookings EXCEPT ![sig] = @ + 1] ELSE bookings
  BY DEF VerifyLanded
<1>2. CASE sig \in Sigs
  <2>1. bookings[sig] \in Nat
    BY <1>2 DEF Recorded
  <2>2. e.booked => bookings[sig] = 0
    BY <2>1, BookingsAreFresh
  <2> QED
    BY <1>1, <1>2, <2>2 DEF Recorded, BookedOnce
<1>3. CASE sig \notin Sigs
  <2>1. bookings' = bookings
    BY <1>1, <1>3 DEF Recorded
  <2> QED
    BY <2>1 DEF Recorded, BookedOnce
<1> QED
  BY <1>2, <1>3

\* Every other step leaves the records alone.
LEMMA OtherStepsRecordNothing ==
    ASSUME [Next]_vars, ~VerifyLanded
    PROVE  bookings' = bookings
<1>1. CASE \E s \in Sigs : ChainDecides(s) \/ SendSwap(s)
  BY <1>1 DEF ChainDecides, SendSwap, outcomeVars
<1>2. CASE CallStep
  BY <1>2 DEF CallStep, RecordEntry, RecordPending, RecordExit, EnqueueSubmitted,
              outcomeVars
<1>3. CASE ForceClose
  BY <1>3 DEF ForceClose, outcomeVars
<1>4. CASE WorkerStep
  <2>1. CASE ReenqueueMissing \/ ReadBound \/ AssignBound \/ VerifyLater \/ ReadUnresolved
    BY <2>1 DEF ReenqueueMissing, ReadBound, AssignBound, VerifyLater, ReadUnresolved,
                outcomeVars
  <2>2. CASE \E s \in Sigs : ReadVerdicts(s) \/ Poll(s)
    BY <2>2 DEF ReadVerdicts, Poll, outcomeVars
  <2>3. CASE SettleQueued \/ RenewUnresolved
    BY <2>3 DEF SettleQueued, RenewUnresolved
  <2> QED
    BY <1>4, <2>1, <2>2, <2>3 DEF WorkerStep
<1>5. CASE Restart
  BY <1>5 DEF Restart
<1>6. CASE UNCHANGED vars
  BY <1>6 DEF vars, outcomeVars
<1> QED
  BY <1>1, <1>2, <1>3, <1>4, <1>5, <1>6 DEF Next

\* Every reachable state has at most one record per swap: the record check and the record
\* share the booking transaction, so neither a second queue item of the signature, nor the
\* retry of a failed clear, nor a restart books a landed swap again.
THEOREM NoSwapBookedTwice == Spec => []BookedOnce
<1>1. Init => Recorded
  BY DEF Init, Recorded, BookedOnce
<1>2. Recorded /\ [Next]_vars => Recorded'
  <2> SUFFICES ASSUME Recorded, [Next]_vars PROVE Recorded'
    OBVIOUS
  <2>1. CASE VerifyLanded
    BY <2>1, VerifyLandedKeepsRecorded
  <2>2. CASE ~VerifyLanded
    BY <2>2, OtherStepsRecordNothing DEF Recorded, BookedOnce
  <2> QED
    BY <2>1, <2>2
<1>3. Recorded => BookedOnce
  BY DEF Recorded
<1> QED
  BY <1>1, <1>2, <1>3, PTL DEF Spec

=============================================================================
