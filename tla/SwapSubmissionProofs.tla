------------------------ MODULE SwapSubmissionProofs ------------------------
(***************************************************************************)
(* That an exit call sells at most once and tells the truth about it, for  *)
(* every number of rungs, routers and retries and every validity of a      *)
(* blockhash: SwapSubmission implements OneSale, its fairness apart.       *)
(*                                                                         *)
(* The argument is that a call holds at most one transaction that is not   *)
(* provably dead.  Three facts carry it.  A refusal answers for the call   *)
(* only while nothing was dispatched, so the transaction it gives up was   *)
(* never handed over.  A null status is taken for an expiry only from a    *)
(* node at the finalized tip, past the blocks the transaction could have   *)
(* landed in, so a transaction that landed would have been seen.  A failed *)
(* status is the transaction's own.                                        *)
(*                                                                         *)
(* The last part is the circuit breaker of a provider the call sends       *)
(* through, which has a state of its own, for every number of concurrent   *)
(* requests and every setting of its thresholds.                           *)
(***************************************************************************)
EXTENDS SwapSubmission, CircuitBreaker, FiniteSetTheorems, SequenceTheorems, TLAPS

AllDead == \A i \in DOMAIN txs : Dead(txs[i])

\* A transaction in a block not yet confirmed is within its validity; one that landed or
\* failed did so in a confirmed block within its validity.
InItsBlocks ==
    \A i \in DOMAIN txs :
        /\ txs[i].fate = "processed" => head < txs[i].until
        /\ txs[i].fate \in {"landed", "reverted"} => txs[i].at <= head /\ txs[i].at <= txs[i].until

\* Nothing has left this program while the relay fell through and no provider was handed
\* the bytes.
NotHandedOver ==
    call.pc = "relay" \/ (call.pc = "send" /\ rpc.dispatched = 0)
       => \A i \in DOMAIN txs : txs[i].fate = "unsent"

\* The invariant that carries the proofs.
Inv ==
    /\ TypeOK
    /\ Len(txs) <= 1
    /\ call.pc \in {"relay", "send", "settle"} => Len(txs) = 1
    /\ call.pc \in {"quote", "execute"} => AllDead
    /\ call.pc = "done" <=> outcome # "none"
    /\ tip # NoTip => tip <= final
    /\ InItsBlocks
    /\ NotHandedOver
    /\ rpc.dispatched <= rpc.tries

\* A step of the call as OneSale sees it: a step of its own, or none.
SaleStep == Sale!Next \/ UNCHANGED Sale!vars

\* What a layer does with a failure: the ladder goes on, or the call ends with o.
GoesOn == call' \in Call /\ call'.pc \in {"quote", "execute"} /\ outcome' = outcome
Stops(o) == call' \in Call /\ call'.pc = "done" /\ outcome' = o

----------------------------------------------------------------------------
(* The transaction in hand *)

\* A call that holds one transaction holds exactly that one.
LEMMA OneInHand ==
    ASSUME txs \in Seq(Tx), Len(txs) = 1
    PROVE  /\ DOMAIN txs = {1} /\ Current = 1 /\ txs[1] \in Tx
           /\ \A t \in Tx : /\ [txs EXCEPT ![1] = t] \in Seq(Tx)
                            /\ Len([txs EXCEPT ![1] = t]) = 1
                            /\ [txs EXCEPT ![1] = t][1] = t
<1>1. DOMAIN txs = 1 .. 1
  BY LenProperties
<1>2. 1 .. 1 = {1}
  OBVIOUS
<1>3. txs[1] \in Tx
  BY ElementOfSeq
<1>4. \A t \in Tx : /\ [txs EXCEPT ![1] = t] \in Seq(Tx)
                    /\ Len([txs EXCEPT ![1] = t]) = 1
                    /\ [txs EXCEPT ![1] = t][1] = t
  BY ExceptSeq
<1> QED
  BY <1>1, <1>2, <1>3, <1>4 DEF Current

\* A call that holds no transaction.
LEMMA NoneInHand ==
    ASSUME txs \in Seq(Tx), Len(txs) <= 1, Len(txs) # 1
    PROVE  txs = <<>> /\ DOMAIN txs = {}
<1>1. Len(txs) = 0
  BY LenProperties
<1>2. txs = <<>>
  BY <1>1, EmptySeq
<1>3. DOMAIN txs = 1 .. 0
  BY <1>1, LenProperties
<1> QED
  BY <1>2, <1>3

\* What OneSale reads off the transaction in hand: sold is 1 when it landed, else 0.
LEMMA SoldIsOne ==
    ASSUME NEW u, DOMAIN u = {1}
    PROVE  /\ u[1].fate = "landed" => Cardinality({i \in DOMAIN u : u[i].fate = "landed"}) = 1
           /\ u[1].fate # "landed" => Cardinality({i \in DOMAIN u : u[i].fate = "landed"}) = 0
<1>1. ASSUME u[1].fate = "landed" PROVE {i \in DOMAIN u : u[i].fate = "landed"} = {1}
  BY <1>1
<1>2. ASSUME u[1].fate # "landed" PROVE {i \in DOMAIN u : u[i].fate = "landed"} = {}
  BY <1>2
<1> QED
  BY <1>1, <1>2, FS_Singleton, FS_EmptySet

\* Nothing sold, nothing live, while every transaction in hand is dead.
LEMMA DeadSoldNothing ==
    ASSUME AllDead
    PROVE  /\ Cardinality({i \in DOMAIN txs : txs[i].fate = "landed"}) = 0
           /\ ~ \E i \in DOMAIN txs : CanLand(txs[i])
<1>1. {i \in DOMAIN txs : txs[i].fate = "landed"} = {}
  BY DEF AllDead, Dead
<1> QED
  BY <1>1, FS_EmptySet DEF AllDead, Dead

----------------------------------------------------------------------------
(* The ladder and the router chain *)

\* The next rung, or the end of the ladder with a plain failure.
LEMMA NextRungEffect ==
    ASSUME call \in Call, NextRung
    PROVE  GoesOn \/ Stops("failed")
<1>1. CASE /\ call.rung < Rungs
           /\ call' = [call EXCEPT !.pc = "quote", !.rung = @ + 1, !.route = 0, !.curve = FALSE]
           /\ UNCHANGED outcome
  <2>1. call.rung + 1 \in 1 .. Rungs /\ 0 \in 0 .. (Fallbacks + 1)
    BY <1>1, SubmissionAssumption DEF Call
  <2>2. call' \in Call /\ call'.pc = "quote"
    BY <1>1, <2>1 DEF Call
  <2> QED
    BY <1>1, <2>2 DEF GoesOn
<1>2. CASE /\ call' = [call EXCEPT !.pc = "done"]
           /\ outcome' = "failed"
  BY <1>2 DEF Stops, Call
<1> QED
  BY <1>1, <1>2 DEF NextRung

\* LadderTakes turns a class of failure into an outcome (failed_swap).
LEMMA LadderTakesEffect ==
    ASSUME call \in Call, NEW class, NEW kind, LadderTakes(class, kind)
    PROVE  \/ class = "reconcile" /\ Stops("submitted")
           \/ class = "unresolved" /\ Stops("unresolved")
           \/ class = "resendable" /\ (GoesOn \/ Stops("failed"))
<1>1. CASE class = "reconcile" /\ EndLadder("submitted")
  BY <1>1 DEF EndLadder, Stops, Call
<1>2. CASE class = "unresolved" /\ EndLadder("unresolved")
  BY <1>2 DEF EndLadder, Stops, Call
<1>3. CASE class = "resendable" /\ NextRung
  BY <1>3, NextRungEffect
<1>4. CASE /\ class = "resendable"
           /\ call' = [call EXCEPT !.pc = "execute", !.route = 0, !.curve = TRUE]
           /\ UNCHANGED outcome
  <2>1. 0 \in 0 .. (Fallbacks + 1)
    BY SubmissionAssumption
  <2> QED
    BY <1>4, <2>1 DEF GoesOn, Call
<1> QED
  BY <1>1, <1>2, <1>3, <1>4 DEF LadderTakes

\* A router's failure is passed on as what it is: only a resendable one tries again, with
\* another router, around the curve or on the next rung (execute_best_swap).
LEMMA RouterFailsEffect ==
    ASSUME call \in Call, NEW class, NEW kind, RouterFails(class, kind)
    PROVE  \/ class = "reconcile" /\ Stops("submitted")
           \/ class = "unresolved" /\ Stops("unresolved")
           \/ class = "resendable" /\ (GoesOn \/ Stops("failed"))
<1>1. ASSUME NEW r \in 0 .. Fallbacks, NEW primary, TryFallback(r, primary)
      PROVE  GoesOn \/ Stops("failed")
  <2>1. CASE LadderTakes("resendable", primary)
    BY <2>1, LadderTakesEffect
  <2>2. CASE \E k \in (r + 1) .. Fallbacks :
                /\ call' = [call EXCEPT !.pc = "execute", !.route = k,
                                        !.primaryCurve = (primary = "curve")]
                /\ UNCHANGED outcome
    <3>1. PICK k \in (r + 1) .. Fallbacks :
                /\ call' = [call EXCEPT !.pc = "execute", !.route = k,
                                        !.primaryCurve = (primary = "curve")]
                /\ UNCHANGED outcome
      BY <2>2
    <3>2. k \in 0 .. (Fallbacks + 1) /\ (primary = "curve") \in BOOLEAN
      BY SubmissionAssumption
    <3> QED
      BY <3>1, <3>2 DEF GoesOn, Call
  <2> QED
    BY <1>1, <2>1, <2>2 DEF TryFallback
<1>2. CASE class # "resendable" /\ LadderTakes(class, kind)
  BY <1>2, LadderTakesEffect
<1>3. CASE class = "resendable" /\ TryFallback(0, kind)
  BY <1>1, <1>3, SubmissionAssumption
<1>4. CASE /\ class = "resendable"
           /\ call' = [call EXCEPT !.pc = "execute", !.route = Fallbacks + 1, !.primaryCurve = FALSE]
           /\ UNCHANGED outcome
  <2>1. Fallbacks + 1 \in 0 .. (Fallbacks + 1)
    BY SubmissionAssumption
  <2> QED
    BY <1>4, <2>1 DEF GoesOn, Call
<1>5. CASE class = "resendable" /\ TryFallback(0, "plain")
  BY <1>1, <1>5, SubmissionAssumption
<1>6. CASE /\ class = "resendable" /\ call.route \in 1 .. Fallbacks
           /\ TryFallback(call.route, PrimaryKind)
  BY <1>1, <1>6, SubmissionAssumption
<1> QED
  BY <1>2, <1>3, <1>4, <1>5, <1>6 DEF RouterFails

----------------------------------------------------------------------------
(* What a step of the call does to the invariant, by what it does *)

\* A layer gives up while nothing sold and nothing can: the call goes on, or ends saying so.
LEMMA GivesUp ==
    ASSUME Inv, AllDead, call.pc # "done", UNCHANGED <<chain, wire>>,
           GoesOn \/ Stops("failed") \/ Stops("unresolved")
    PROVE  Inv' /\ SaleStep
<1>1. /\ UNCHANGED <<head, final, txs, rpc, tip>> /\ call' \in Call
      /\ call'.pc \in {"quote", "execute", "done"}
      /\ outcome = "none"
      /\ call'.pc = "done" => outcome' \in {"failed", "unresolved"}
      /\ call'.pc # "done" => outcome' = outcome
  BY DEF chain, wire, GoesOn, Stops, Inv
<1>2. TypeOK'
  BY <1>1 DEF Inv, TypeOK, Outcomes
<1>3. AllDead'
  BY <1>1 DEF AllDead, Dead, CanLand
<1>4. InItsBlocks'
  BY <1>1 DEF Inv, InItsBlocks
<1>5. Inv'
  BY <1>1, <1>2, <1>3, <1>4 DEF Inv, NotHandedOver, NoTip
<1>6. SaleStep
  <2>1. CASE call'.pc # "done"
    BY <1>1, <2>1 DEF SaleStep, Sale!vars, CanLand
  <2>2. CASE call'.pc = "done"
    <3>1. Sale!End(outcome')
      BY <1>1, <2>2, DeadSoldNothing DEF Sale!End, CanLand
    <3> QED
      BY <1>1, <2>2, <3>1 DEF SaleStep, Sale!Next, Sale!Outcomes
  <2> QED
    BY <2>1, <2>2
<1> QED
  BY <1>5, <1>6

\* The call ends with a signature that may have sold, or with a sale that landed.
LEMMA EndsWithSignature ==
    ASSUME Inv, call.pc = "settle", UNCHANGED <<chain, wire>>,
           \/ Stops("submitted")
           \/ Stops("executed") /\ txs[Current].fate = "landed"
    PROVE  Inv' /\ SaleStep
<1>1. /\ UNCHANGED <<head, final, txs, rpc, tip>> /\ call' \in Call
      /\ call'.pc = "done" /\ outcome' \in {"submitted", "executed"}
      /\ outcome = "none"
      /\ Len(txs) = 1 /\ txs \in Seq(Tx)
  BY DEF chain, wire, Stops, Inv, TypeOK
<1>2. TypeOK'
  BY <1>1 DEF Inv, TypeOK, Outcomes
<1>3. InItsBlocks'
  BY <1>1 DEF Inv, InItsBlocks
<1>4. Inv'
  BY <1>1, <1>2, <1>3 DEF Inv, NotHandedOver, NoTip
<1>5. SaleStep
  <2>1. outcome' = "executed" => txs[Current].fate = "landed"
    BY DEF Stops
  <2>2. Sale!End(outcome')
    BY <1>1, <2>1, OneInHand, SoldIsOne DEF Sale!End, CanLand
  <2> QED
    BY <1>1, <2>2 DEF SaleStep, Sale!Next, Sale!Outcomes
<1> QED
  BY <1>4, <1>5

\* The bytes leave this program, or may have: the transaction becomes one that can land, if
\* it was not handed over before and its blockhash is still valid.
LEMMA MayDeliver ==
    ASSUME Inv, call.pc \in {"relay", "send", "settle"}, txs' = Delivered,
           UNCHANGED <<chain, tip, outcome>>,
           call' \in Call, call'.pc \in {"send", "settle"},
           rpc' \in [tries : 0 .. MaxRetries, dispatched : 0 .. (MaxRetries + 1)],
           rpc'.dispatched <= rpc'.tries,
           call'.pc = "send" => rpc'.dispatched > 0
    PROVE  Inv' /\ SaleStep
<1> DEFINE t == txs[1]
           u == [t EXCEPT !.fate = IF @ = "unsent" THEN "pending" ELSE @]
<1>1. UNCHANGED <<head, final, tip, outcome>> /\ Len(txs) = 1 /\ txs \in Seq(Tx) /\ outcome = "none"
  BY DEF chain, Inv, TypeOK
<1>2. DOMAIN txs = {1} /\ Current = 1 /\ t \in Tx /\ u \in Tx
  BY <1>1, OneInHand DEF Tx, Fates
<1>3. txs' = [txs EXCEPT ![1] = u]
  BY <1>1, <1>2 DEF Delivered, Current
<1>4. txs' \in Seq(Tx) /\ Len(txs') = 1 /\ txs'[1] = u /\ DOMAIN txs' = {1}
  BY <1>1, <1>2, <1>3, OneInHand
<1> HIDE DEF u
<1>5. /\ u.until = t.until /\ u.at = t.at
      /\ u.fate = IF t.fate = "unsent" THEN "pending" ELSE t.fate
  BY <1>2 DEF u, Tx
<1>6. TypeOK'
  BY <1>1, <1>4 DEF Inv, TypeOK
<1>7. InItsBlocks'
  BY <1>1, <1>2, <1>4, <1>5 DEF Inv, InItsBlocks
<1>8. Inv'
  BY <1>1, <1>4, <1>6, <1>7 DEF Inv, NotHandedOver, NoTip
<1>9. SaleStep
  <2>1. CASE t.fate = "unsent" /\ head < t.until
    <3>1. ~ (\E i \in DOMAIN txs : CanLand(txs[i])) /\ (\E i \in DOMAIN txs : CanLand(txs[i]))'
      BY <1>1, <1>2, <1>4, <1>5, <2>1 DEF CanLand
    <3>2. /\ Cardinality({i \in DOMAIN txs : txs[i].fate = "landed"}) = 0
          /\ Cardinality({i \in DOMAIN txs' : txs'[i].fate = "landed"}) = 0
      BY <1>2, <1>4, <1>5, <2>1, SoldIsOne
    <3> QED
      BY <1>1, <3>1, <3>2 DEF SaleStep, Sale!Next, Sale!Send
  <2>2. CASE ~ (t.fate = "unsent" /\ head < t.until)
    <3>1. (\E i \in DOMAIN txs : CanLand(txs[i]))' <=> (\E i \in DOMAIN txs : CanLand(txs[i]))
      BY <1>1, <1>2, <1>4, <1>5, <2>2 DEF CanLand
    <3>2. {i \in DOMAIN txs : txs[i].fate = "landed"}' = {i \in DOMAIN txs : txs[i].fate = "landed"}
      BY <1>2, <1>4, <1>5
    <3> QED
      BY <1>1, <3>1, <3>2 DEF SaleStep, Sale!vars
  <2> QED
    BY <2>1, <2>2
<1> QED
  BY <1>8, <1>9

\* The call moves on with the transaction as it was.
LEMMA MovesOn ==
    ASSUME Inv, call.pc \in {"relay", "send", "settle"},
           UNCHANGED <<chain, txs, outcome>>,
           tip' = tip \/ tip' \in 0 .. final,
           call' \in Call, call'.pc \in {"send", "settle"},
           rpc' \in [tries : 0 .. MaxRetries, dispatched : 0 .. (MaxRetries + 1)],
           rpc'.dispatched <= rpc'.tries,
           call'.pc = "send" => call.pc = "relay" \/ (call.pc = "send" /\ rpc'.dispatched = rpc.dispatched)
    PROVE  Inv' /\ SaleStep
<1>1. UNCHANGED <<head, final, txs, outcome>> /\ outcome = "none"
  BY DEF chain, Inv
<1>2. tip' \in Heights \cup {NoTip} /\ (tip' # NoTip => tip' <= final)
  BY SubmissionAssumption DEF Inv, TypeOK, Heights, NoTip
<1>3. TypeOK'
  BY <1>1, <1>2 DEF Inv, TypeOK, NoTip
<1>4. InItsBlocks' /\ NotHandedOver'
  BY <1>1 DEF Inv, InItsBlocks, NotHandedOver
<1>5. Inv'
  BY <1>1, <1>2, <1>3, <1>4 DEF Inv, NoTip
<1>6. SaleStep
  BY <1>1 DEF SaleStep, Sale!vars, CanLand
<1> QED
  BY <1>5, <1>6

----------------------------------------------------------------------------
(* The actions *)

\* The initial state, of the invariant and of OneSale.
LEMMA InitHolds == Init => Inv /\ Sale!Init
<1> SUFFICES ASSUME Init PROVE Inv /\ Sale!Init
  OBVIOUS
<1>1. txs \in Seq(Tx) /\ Len(txs) = 0
  BY EmptySeq DEF Init
<1>2. DOMAIN txs = {} /\ Len(txs) <= 1 /\ Len(txs) # 1
  BY <1>1, NoneInHand
<1>3. call \in Call /\ head \in Heights /\ final \in 0 .. head
  BY SubmissionAssumption DEF Init, Call, Heights
<1>4. /\ rpc \in [tries : 0 .. MaxRetries, dispatched : 0 .. (MaxRetries + 1)]
      /\ tip = NoTip
  BY SubmissionAssumption DEF Init
<1>5. TypeOK
  BY <1>1, <1>3, <1>4 DEF Init, TypeOK, Outcomes
<1>6. Inv
  BY <1>2, <1>4, <1>5 DEF Init, Inv, AllDead, InItsBlocks, NotHandedOver
<1>7. AllDead
  BY <1>2 DEF AllDead
<1> QED
  BY <1>6, <1>7, DeadSoldNothing DEF Init, Sale!Init, CanLand

\* A quote fails, a swap is refused before a router is asked, or a router stops before it
\* sends: the earlier transactions are dead, and nothing was signed since.
LEMMA BeforeSending ==
    ASSUME Inv, QuoteRung \/ RefuseSwap \/ RouterRefuses
    PROVE  Inv' /\ SaleStep
<1>1. call \in Call /\ AllDead /\ call.pc # "done" /\ UNCHANGED <<chain, wire>>
  BY DEF Inv, TypeOK, QuoteRung, RefuseSwap, RouterRefuses
<1>2. GoesOn \/ Stops("failed") \/ Stops("unresolved")
  <2>1. CASE QuoteRung
    <3>1. CASE call' = [call EXCEPT !.pc = "execute"] /\ UNCHANGED outcome
      BY <1>1, <3>1 DEF GoesOn, Call
    <3> QED
      BY <1>1, <2>1, <3>1, NextRungEffect DEF QuoteRung
  <2>2. CASE RefuseSwap
    BY <1>1, <2>2, LadderTakesEffect DEF RefuseSwap
  <2>3. CASE RouterRefuses
    <3>1. PICK class \in {"resendable", "unresolved"}, kind \in Kinds : RouterFails(class, kind)
      BY <2>3 DEF RouterRefuses
    <3> QED
      BY <1>1, <3>1, RouterFailsEffect
  <2> QED
    BY <2>1, <2>2, <2>3
<1> QED
  BY <1>1, <1>2, GivesUp

\* A transaction is signed only once every earlier one is dead: it is the only one in hand.
LEMMA Signs ==
    ASSUME Inv, SignSwap
    PROVE  Inv' /\ SaleStep
<1>1. PICK u \in head .. (head + Validity), told \in BOOLEAN :
         txs' = Append(Undecided, [fate |-> "unsent", until |-> u, told |-> told, at |-> 0])
  BY DEF SignSwap
<1> DEFINE t == [fate |-> "unsent", until |-> u, told |-> told, at |-> 0]
<1>2. AllDead /\ outcome = "none" /\ head \in Heights /\ call \in Call
  BY DEF Inv, TypeOK, SignSwap
<1>3. t \in Tx
  BY <1>2, SubmissionAssumption DEF Tx, Fates, Heights
<1>4. txs' = <<t>>
  <2>1. Undecided = <<>>
    BY <1>2 DEF Undecided, AllDead
  <2> QED
    BY <1>1, <2>1
<1>5. txs' \in Seq(Tx) /\ Len(txs') = 1 /\ txs'[1] = t /\ DOMAIN txs' = {1}
  BY <1>3, <1>4
<1>6. /\ UNCHANGED <<head, final, outcome>> /\ tip' = NoTip
      /\ rpc' \in [tries : 0 .. MaxRetries, dispatched : 0 .. (MaxRetries + 1)]
      /\ call' \in Call /\ call'.pc = "relay" /\ rpc'.dispatched <= rpc'.tries
  <2>1. rpc' = [tries |-> 0, dispatched |-> 0] /\ 0 \in 0 .. MaxRetries /\ 0 \in 0 .. (MaxRetries + 1)
    BY SubmissionAssumption DEF SignSwap
  <2>2. call' \in Call /\ call'.pc = "relay"
    BY <1>2 DEF SignSwap, Call
  <2> QED
    BY <2>1, <2>2 DEF SignSwap, chain
<1>7. TypeOK'
  BY <1>5, <1>6 DEF Inv, TypeOK, NoTip
<1>8. Inv'
  BY <1>2, <1>5, <1>6, <1>7 DEF Inv, InItsBlocks, NotHandedOver, NoTip
<1>9. SaleStep
  <2>1. /\ Cardinality({i \in DOMAIN txs' : txs'[i].fate = "landed"}) = 0
        /\ ~ (\E i \in DOMAIN txs : CanLand(txs[i]))'
    BY <1>5, SoldIsOne DEF CanLand
  <2> QED
    BY <1>2, <1>6, <2>1, DeadSoldNothing DEF SaleStep, Sale!vars
<1> QED
  BY <1>8, <1>9

\* What every layer of a send leaves to the settle loop.
LEMMA SettleEffect ==
    ASSUME call \in Call, Settle
    PROVE  call' \in Call /\ call'.pc = "settle" /\ UNCHANGED <<rpc, tip, outcome, chain>>
BY DEF Settle, Call

\* The send counters as they are in every state of the invariant.
LEMMA CountersTyped ==
    ASSUME Inv
    PROVE  /\ call \in Call
           /\ rpc \in [tries : 0 .. MaxRetries, dispatched : 0 .. (MaxRetries + 1)]
           /\ rpc.dispatched <= rpc.tries
BY DEF Inv, TypeOK

\* The relay: it falls through only when it provably delivered nothing.
LEMMA Relays ==
    ASSUME Inv, RelayFallsThrough \/ RelayMayDeliver
    PROVE  Inv' /\ SaleStep
<1>1. call.pc = "relay"
  BY DEF RelayFallsThrough, RelayMayDeliver
<1>2. CASE RelayFallsThrough
  <2>1. UNCHANGED <<chain, txs, outcome, rpc, tip>>
    BY <1>2 DEF RelayFallsThrough, wire
  <2>2. call' \in Call /\ call'.pc = "send"
    BY <1>2, CountersTyped DEF RelayFallsThrough, Call
  <2> QED
    BY <1>1, <2>1, <2>2, CountersTyped, MovesOn
<1>3. CASE RelayMayDeliver
  <2>1. txs' = Delivered /\ Settle
    BY <1>3 DEF RelayMayDeliver
  <2> QED
    BY <1>1, <2>1, CountersTyped, SettleEffect, MayDeliver
<1> QED
  BY <1>2, <1>3

\* A provider answers.  The one answer that gives a transaction up is a refusal of the first
\* node that was handed it (refusal_answers_for_call).
LEMMA Answers ==
    ASSUME Inv, ProviderAnswers
    PROVE  Inv' /\ SaleStep
<1>1. call.pc = "send" /\ call \in Call
  BY CountersTyped DEF ProviderAnswers
<1>2. ASSUME txs' = Delivered, Settle PROVE Inv' /\ SaleStep
  BY <1>1, <1>2, CountersTyped, SettleEffect, MayDeliver
<1>3. ASSUME txs' = txs, Settle PROVE Inv' /\ SaleStep
  BY <1>1, <1>3, CountersTyped, SettleEffect, MovesOn
<1>4. CASE Refused
  <2>1. CASE refusal_answers_for_call /\ NotSent /\ UNCHANGED <<chain, wire>>
    <3>1. AllDead
      BY <1>1, <2>1 DEF refusal_answers_for_call, Inv, NotHandedOver, AllDead, Dead, CanLand
    <3>2. PICK kind \in {"plain", "curve"} : RouterFails("resendable", kind)
      BY <2>1 DEF NotSent
    <3>3. GoesOn \/ Stops("failed")
      BY <1>1, <3>2, RouterFailsEffect
    <3> QED
      BY <1>1, <2>1, <3>1, <3>3, GivesUp
  <2> QED
    BY <1>3, <1>4, <2>1 DEF Refused
<1>5. CASE Unanswered
  <2>1. CASE /\ rpc.tries < MaxRetries
             /\ rpc' = [rpc EXCEPT !.tries = @ + 1, !.dispatched = @ + 1]
             /\ UNCHANGED <<call, tip, outcome, chain>>
    <3>1. /\ rpc' \in [tries : 0 .. MaxRetries, dispatched : 0 .. (MaxRetries + 1)]
          /\ rpc'.dispatched <= rpc'.tries /\ rpc'.dispatched > 0
      <4>1. /\ rpc.tries + 1 \in 0 .. MaxRetries /\ rpc.dispatched + 1 \in 0 .. (MaxRetries + 1)
            /\ rpc.dispatched + 1 <= rpc.tries + 1 /\ rpc.dispatched + 1 > 0
        BY <2>1, CountersTyped, SubmissionAssumption
      <4>2. /\ rpc' \in [tries : 0 .. MaxRetries, dispatched : 0 .. (MaxRetries + 1)]
            /\ rpc'.tries = rpc.tries + 1 /\ rpc'.dispatched = rpc.dispatched + 1
        BY <2>1, <4>1, CountersTyped
      <4> QED
        BY <4>1, <4>2
    <3>2. UNCHANGED <<chain, tip, outcome>> /\ call' = call /\ txs' = Delivered
      BY <1>5, <2>1 DEF Unanswered
    <3> QED
      BY <1>1, <3>1, <3>2, MayDeliver
  <2> QED
    BY <1>2, <1>5, <2>1 DEF Unanswered, RetrySend
<1>6. CASE CircuitOpen
  <2>1. CASE /\ rpc.tries < MaxRetries
             /\ rpc' = [rpc EXCEPT !.tries = @ + 1]
             /\ UNCHANGED <<call, tip, outcome, chain>>
    <3>1. /\ rpc' \in [tries : 0 .. MaxRetries, dispatched : 0 .. (MaxRetries + 1)]
          /\ rpc'.dispatched = rpc.dispatched /\ rpc'.dispatched <= rpc'.tries
      BY <2>1, CountersTyped, SubmissionAssumption
    <3>2. UNCHANGED <<chain, txs, outcome>> /\ call' = call /\ tip' = tip
      BY <1>6, <2>1 DEF CircuitOpen
    <3> QED
      BY <1>1, <3>1, <3>2, MovesOn
  <2> QED
    BY <1>3, <1>6, <2>1 DEF CircuitOpen
<1> QED
  BY <1>2, <1>3, <1>4, <1>5, <1>6 DEF ProviderAnswers, Accepted, Unreadable, NoProvider

\* The settle loop: a status is believed only when it is the transaction's own, or when the
\* node that has none has passed every block the transaction could be in.
LEMMA Settles ==
    ASSUME Inv, SettleStep
    PROVE  Inv' /\ SaleStep
<1>1. /\ call.pc = "settle" /\ call \in Call /\ head \in Nat /\ final \in 0 .. head
      /\ Len(txs) = 1 /\ txs \in Seq(Tx)
  BY DEF Inv, TypeOK, Heights, SettleStep, Poll, Rebroadcast, ReadTip, TimeOut
<1>2. DOMAIN txs = {1} /\ Current = 1 /\ txs[1] \in Tx
  BY <1>1, OneInHand
<1>3. CASE Poll
  <2>1. UNCHANGED <<chain, wire>>
    BY <1>3 DEF Poll
  <2>2. ASSUME NEW v \in 0 .. head, NEW status \in StatusAt(v)
        PROVE  /\ status = "landed" => txs[1].fate = "landed"
               /\ status = "reverted" => txs[1].fate = "reverted"
    BY <1>2, <2>2 DEF StatusAt
  <2>3. ASSUME txs[1].fate = "landed", Landed PROVE Inv' /\ SaleStep
    <3>1. CASE EndLadder("executed")
      <4>1. Stops("executed")
        BY <1>1, <3>1 DEF EndLadder, Stops, Call
      <4> QED
        BY <1>1, <1>2, <2>1, <2>3, <4>1, EndsWithSignature
    <3>2. CASE RouterFails("reconcile", "plain")
      BY <1>1, <2>1, <3>2, RouterFailsEffect, EndsWithSignature
    <3> QED
      BY <2>3, <3>1, <3>2 DEF Landed
  <2>4. ASSUME Dead(txs[1]), NEW kind, RouterFails("resendable", kind) PROVE Inv' /\ SaleStep
    <3>1. AllDead
      BY <1>2, <2>4 DEF AllDead
    <3> QED
      BY <1>1, <2>1, <2>4, <3>1, RouterFailsEffect, GivesUp
  <2>5. ASSUME txs[1].fate = "reverted", Reverted PROVE Inv' /\ SaleStep
    <3>1. Dead(txs[1])
      BY <2>5 DEF Dead, CanLand
    <3> QED
      BY <2>4, <2>5, <3>1 DEF Reverted
  <2>6. ASSUME NEW v \in 0 .. head, "none" \in StatusAt(v), Expired(v) PROVE Dead(txs[1])
    <3>1. /\ tip \in Nat /\ tip <= final /\ tip > txs[1].until /\ v >= tip
          /\ txs[1].until \in Nat /\ txs[1].at \in Nat
      BY <1>2, <2>6, SubmissionAssumption DEF Expired, Inv, TypeOK, Heights, NoTip, Tx
    <3>2. txs[1].fate # "landed"
      <4>1. SUFFICES ASSUME txs[1].fate = "landed" PROVE FALSE
        OBVIOUS
      <4>2. txs[1].at <= txs[1].until
        BY <1>2, <4>1 DEF Inv, InItsBlocks
      <4>3. txs[1].at <= v
        BY <3>1, <4>2
      <4> QED
        BY <1>2, <2>6, <4>1, <4>3 DEF StatusAt
    <3>3. ~ CanLand(txs[1])
      BY <1>1, <3>1 DEF CanLand
    <3> QED
      BY <3>2, <3>3 DEF Dead
  <2>7. PICK v \in 0 .. head : \E status \in StatusAt(v) :
          \/ status = "landed" /\ Landed
          \/ status = "reverted" /\ Reverted
          \/ /\ status = "none" /\ Expired(v)
             /\ \E w \in 0 .. head : \E found \in StatusAt(w) :
                   \/ found = "landed" /\ Landed
                   \/ found = "reverted" /\ Reverted
                   \/ found \in {"none", "processed"} /\ RouterFails("resendable", "plain")
    BY <1>3 DEF Poll
  <2>8. PICK status \in StatusAt(v) :
          \/ status = "landed" /\ Landed
          \/ status = "reverted" /\ Reverted
          \/ /\ status = "none" /\ Expired(v)
             /\ \E w \in 0 .. head : \E found \in StatusAt(w) :
                   \/ found = "landed" /\ Landed
                   \/ found = "reverted" /\ Reverted
                   \/ found \in {"none", "processed"} /\ RouterFails("resendable", "plain")
    BY <2>7
  <2>9. CASE status \in {"landed", "reverted"}
    BY <2>2, <2>3, <2>5, <2>8, <2>9
  <2>10. CASE status = "none"
    <3>1. Dead(txs[1])
      BY <2>6, <2>8, <2>10
    <3>2. PICK w \in 0 .. head : \E found \in StatusAt(w) :
                   \/ found = "landed" /\ Landed
                   \/ found = "reverted" /\ Reverted
                   \/ found \in {"none", "processed"} /\ RouterFails("resendable", "plain")
      BY <2>8, <2>10
    <3>3. PICK found \in StatusAt(w) :
                   \/ found = "landed" /\ Landed
                   \/ found = "reverted" /\ Reverted
                   \/ found \in {"none", "processed"} /\ RouterFails("resendable", "plain")
      BY <3>2
    <3> QED
      BY <2>2, <2>3, <2>4, <2>5, <3>1, <3>3
  <2> QED
    BY <2>8, <2>9, <2>10
<1>4. CASE Rebroadcast
  <2>1. UNCHANGED <<chain, tip, outcome>> /\ call' = call /\ rpc' = rpc /\ txs' = Delivered
    BY <1>4 DEF Rebroadcast
  <2> QED
    BY <1>1, <2>1, CountersTyped, MayDeliver
<1>5. CASE ReadTip
  <2>1. UNCHANGED <<chain, txs, outcome>> /\ call' = call /\ rpc' = rpc /\ tip' \in 0 .. final
    BY <1>5 DEF ReadTip
  <2> QED
    BY <1>1, <2>1, CountersTyped, MovesOn
<1>6. CASE TimeOut
  <2>1. RouterFails("reconcile", "plain") /\ UNCHANGED <<chain, wire>>
    BY <1>6 DEF TimeOut
  <2> QED
    BY <1>1, <2>1, RouterFailsEffect, EndsWithSignature
<1> QED
  BY <1>3, <1>4, <1>5, <1>6 DEF SettleStep

\* The chain: a transaction lands only from a block within its validity, and one that
\* neither lands nor can any longer is dead for good.
LEMMA ChainMoves ==
    ASSUME Inv, ChainStep
    PROVE  Inv' /\ SaleStep
<1>1. /\ head \in Nat /\ head <= MaxHeight /\ final \in 0 .. head /\ txs \in Seq(Tx)
      /\ head \in Heights /\ MaxHeight \in Nat
      /\ UNCHANGED <<call, rpc, tip, outcome>>
  <2>1. MaxHeight \in Nat
    BY SubmissionAssumption
  <2>2. UNCHANGED <<call, rpc, tip, outcome>>
    BY DEF ChainStep, Process, NewBlock, Finalize
  <2> QED
    BY <2>1, <2>2 DEF Inv, TypeOK, Heights
<1>2. /\ call \in Call /\ tip \in Heights \cup {NoTip} /\ outcome \in Outcomes
      /\ rpc \in [tries : 0 .. MaxRetries, dispatched : 0 .. (MaxRetries + 1)]
  BY DEF Inv, TypeOK
<1>3. CASE Finalize
  <2>1. UNCHANGED <<head, txs>> /\ final' = final + 1 /\ final' \in 0 .. head
    BY <1>1, <1>3 DEF Finalize
  <2>2. TypeOK'
    BY <1>1, <1>2, <2>1 DEF Inv, TypeOK, NoTip
  <2>3. AllDead' <=> AllDead
    BY <2>1 DEF AllDead, Dead, CanLand
  <2>4. InItsBlocks' /\ NotHandedOver'
    BY <1>1, <2>1 DEF Inv, InItsBlocks, NotHandedOver
  <2>5. tip' # NoTip => tip' <= final'
    BY <1>1, <1>2, <2>1, SubmissionAssumption DEF Inv, Heights, NoTip
  <2>6. Inv'
    BY <1>1, <2>1, <2>2, <2>3, <2>4, <2>5 DEF Inv, NoTip
  <2>7. SaleStep
    BY <1>1, <2>1 DEF SaleStep, Sale!vars, CanLand
  <2> QED
    BY <2>6, <2>7
<1>4. CASE (Process \/ NewBlock) /\ Len(txs) = 1
  <2>1. DOMAIN txs = {1} /\ txs[1] \in Tx
    BY <1>1, <1>4, OneInHand
  \* What may become of the transaction in hand.
  <2>2. \E t \in Tx :
          /\ txs' = [txs EXCEPT ![1] = t] /\ t.until = txs[1].until
          /\ head' \in {head, head + 1} /\ head' \in Heights /\ final' = final
          /\ \/ t = txs[1]
             \/ txs[1].fate = "pending" /\ head' = head /\ head < t.until /\ t.fate = "processed"
             \/ txs[1].fate = "processed" /\ head' = head + 1 /\ t.fate = "pending"
             \/ /\ txs[1].fate = "processed" /\ head' = head + 1
                /\ t.fate \in {"landed", "reverted"} /\ t.at = head + 1
          /\ t.fate = "processed" => head' = head
    <3>1. CASE Process
      <4>1. /\ txs[1].fate = "pending" /\ head < txs[1].until
            /\ txs' = [txs EXCEPT ![1] = [txs[1] EXCEPT !.fate = "processed"]]
            /\ UNCHANGED <<head, final>>
        BY <2>1, <3>1 DEF Process, CanLand, chain
      <4> DEFINE t == [txs[1] EXCEPT !.fate = "processed"]
      <4>2. t \in Tx /\ t.until = txs[1].until /\ t.fate = "processed"
        BY <2>1 DEF Tx, Fates
      <4> QED
        BY <1>1, <4>1, <4>2
    <3>2. CASE NewBlock
      <4>1. head < MaxHeight /\ head' = head + 1 /\ head' \in Heights /\ final' = final
        <5>1. head < MaxHeight /\ head' = head + 1 /\ final' = final
          BY <3>2, Zenon DEF NewBlock
        <5> QED
          BY <1>1, <5>1 DEF Heights
      <4>2. PICK ok \in SUBSET DOMAIN txs, err \in SUBSET DOMAIN txs :
              /\ \A i \in ok \cup err : txs[i].fate = "processed"
              /\ txs' = [i \in DOMAIN txs |->
                       IF i \in ok THEN [txs[i] EXCEPT !.fate = "landed", !.at = head + 1]
                       ELSE IF i \in err THEN [txs[i] EXCEPT !.fate = "reverted", !.at = head + 1]
                       ELSE IF txs[i].fate = "processed" THEN [txs[i] EXCEPT !.fate = "pending"]
                       ELSE txs[i]]
        BY <3>2 DEF NewBlock
      <4> DEFINE t == IF 1 \in ok THEN [txs[1] EXCEPT !.fate = "landed", !.at = head + 1]
                      ELSE IF 1 \in err THEN [txs[1] EXCEPT !.fate = "reverted", !.at = head + 1]
                      ELSE IF txs[1].fate = "processed" THEN [txs[1] EXCEPT !.fate = "pending"]
                      ELSE txs[1]
      <4>3. txs' = [txs EXCEPT ![1] = t]
        BY <2>1, <4>2
      <4>4. head + 1 \in Heights
        BY <1>1, <4>1
      <4>5. t \in Tx /\ t.until = txs[1].until
        BY <2>1, <4>4 DEF Tx, Fates
      <4>6. \/ t = txs[1] /\ t.fate # "processed"
            \/ txs[1].fate = "processed" /\ t.fate = "pending"
            \/ txs[1].fate = "processed" /\ t.fate \in {"landed", "reverted"} /\ t.at = head + 1
        BY <2>1, <4>2, <4>4 DEF Tx, Fates
      <4> HIDE DEF t
      <4> QED
        BY <4>1, <4>3, <4>5, <4>6
    <3> QED
      BY <1>4, <3>1, <3>2
  <2>3. PICK t \in Tx :
          /\ txs' = [txs EXCEPT ![1] = t] /\ t.until = txs[1].until
          /\ head' \in {head, head + 1} /\ head' \in Heights /\ final' = final
          /\ \/ t = txs[1]
             \/ txs[1].fate = "pending" /\ head' = head /\ head < t.until /\ t.fate = "processed"
             \/ txs[1].fate = "processed" /\ head' = head + 1 /\ t.fate = "pending"
             \/ /\ txs[1].fate = "processed" /\ head' = head + 1
                /\ t.fate \in {"landed", "reverted"} /\ t.at = head + 1
          /\ t.fate = "processed" => head' = head
    BY <2>2
  <2>4. txs' \in Seq(Tx) /\ Len(txs') = 1 /\ txs'[1] = t /\ DOMAIN txs' = {1}
    BY <1>1, <1>4, <2>1, <2>3, OneInHand
  <2>5. TypeOK'
    BY <1>1, <1>2, <2>3, <2>4 DEF Inv, TypeOK, NoTip
  <2>6. t.until \in Nat /\ t.at \in Nat /\ txs[1].at \in Nat
    BY <2>1, SubmissionAssumption DEF Tx, Heights
  <2>7. /\ txs[1].fate = "processed" => head < txs[1].until
        /\ txs[1].fate \in {"landed", "reverted"} => txs[1].at <= head /\ txs[1].at <= txs[1].until
    BY <2>1 DEF Inv, InItsBlocks
  <2>8. InItsBlocks'
    BY <1>1, <2>3, <2>4, <2>6, <2>7 DEF InItsBlocks
  <2>9. AllDead => AllDead'
    BY <1>1, <2>1, <2>3, <2>4, <2>6, <2>7 DEF AllDead, Dead, CanLand
  <2>10. NotHandedOver'
    BY <1>1, <2>1, <2>3, <2>4 DEF Inv, NotHandedOver
  <2>11. Inv'
    BY <1>1, <2>3, <2>4, <2>5, <2>8, <2>9, <2>10 DEF Inv, NoTip
  <2> DEFINE live == \E i \in DOMAIN txs : CanLand(txs[i])
  <2>12. live <=> txs[1].fate \in {"pending", "processed"} /\ head < txs[1].until
    BY <2>1 DEF CanLand
  <2>13. live' <=> t.fate \in {"pending", "processed"} /\ head' < t.until
    BY <2>4 DEF CanLand
  <2>14. /\ (txs[1].fate = "landed" => Cardinality({i \in DOMAIN txs : txs[i].fate = "landed"}) = 1)
         /\ (txs[1].fate # "landed" => Cardinality({i \in DOMAIN txs : txs[i].fate = "landed"}) = 0)
         /\ (t.fate = "landed" => Cardinality({i \in DOMAIN txs' : txs'[i].fate = "landed"}) = 1)
         /\ (t.fate # "landed" => Cardinality({i \in DOMAIN txs' : txs'[i].fate = "landed"}) = 0)
    BY <2>1, <2>4, SoldIsOne
  <2>15. SaleStep
    <3>1. CASE t.fate = "landed" /\ txs[1].fate # "landed"
      <4>1. live /\ ~ live'
        BY <2>3, <2>7, <2>12, <2>13, <3>1
      <4> QED
        BY <1>1, <2>14, <3>1, <4>1 DEF SaleStep, Sale!Next, Sale!Land
    <3>2. CASE (t.fate = "landed" <=> txs[1].fate = "landed") /\ (live => live')
      <4>1. live' => live
        BY <1>1, <2>3, <2>6, <2>7, <2>12, <2>13, <3>2
      <4> QED
        BY <1>1, <2>14, <3>2, <4>1 DEF SaleStep, Sale!vars
    <3>3. CASE (t.fate = "landed" <=> txs[1].fate = "landed") /\ live /\ ~ live'
      BY <1>1, <2>14, <3>3 DEF SaleStep, Sale!Next, Sale!Die
    <3> QED
      BY <2>3, <3>1, <3>2, <3>3
  <2> QED
    BY <2>11, <2>15
<1>5. CASE (Process \/ NewBlock) /\ Len(txs) # 1
  <2>1. txs = <<>> /\ DOMAIN txs = {} /\ Len(txs) = 0
    BY <1>1, <1>5, NoneInHand, EmptySeq DEF Inv
  <2>2. txs' = txs /\ head' \in Heights /\ head' >= head /\ final' = final
    <3>1. CASE Process
      BY <1>1, <2>1, <3>1 DEF Process, chain
    <3>2. CASE NewBlock
      <4>1. DOMAIN txs' = {} /\ txs' = [i \in {} |-> txs'[i]]
        BY <2>1, <3>2 DEF NewBlock
      <4>2. txs' = txs
        BY <2>1, <4>1
      <4>3. head < MaxHeight /\ head' = head + 1 /\ final' = final
        BY <3>2, Zenon DEF NewBlock
      <4> QED
        BY <1>1, <4>2, <4>3 DEF Heights
    <3> QED
      BY <1>5, <3>1, <3>2
  <2>3. TypeOK'
    BY <1>1, <1>2, <2>2 DEF Inv, TypeOK, Heights, NoTip
  <2>4. Inv'
    BY <1>1, <2>1, <2>2, <2>3 DEF Inv, AllDead, InItsBlocks, NotHandedOver, NoTip
  <2>5. SaleStep
    BY <1>1, <2>1, <2>2 DEF SaleStep, Sale!vars
  <2> QED
    BY <2>4, <2>5
<1> QED
  BY <1>3, <1>4, <1>5 DEF ChainStep

\* Every step keeps the invariant, and is a step of OneSale or none.
LEMMA EveryStep ==
    ASSUME Inv, [Next]_vars
    PROVE  Inv' /\ SaleStep
<1>1. CASE CallStep
  BY <1>1, BeforeSending, Signs, Relays, Answers DEF CallStep
<1>2. CASE SettleStep
  BY <1>2, Settles
<1>3. CASE ChainStep
  BY <1>3, ChainMoves
<1>4. CASE UNCHANGED vars
  <2>1. Inv'
    BY <1>4 DEF vars, Inv, TypeOK, AllDead, Dead, CanLand, InItsBlocks, NotHandedOver
  <2> QED
    BY <1>4, <2>1 DEF vars, SaleStep, Sale!vars, CanLand
<1> QED
  BY <1>1, <1>2, <1>3, <1>4 DEF Next

----------------------------------------------------------------------------
(* Theorems *)

\* The state of a call is typed for every number of rungs, routers and retries: the retries
\* of a send never pass max_retries, whichever providers answer.
THEOREM SubmissionTyped == Spec => []TypeOK
<1>1. Inv => TypeOK
  BY DEF Inv
<1>2. Init => Inv
  BY InitHolds
<1>3. Inv /\ [Next]_vars => Inv'
  BY EveryStep
<1> QED
  BY <1>1, <1>2, <1>3, PTL DEF Spec

\* The ladder's licence to sell again: it signs another transaction only once every earlier
\* one provably sold nothing and never will.
THEOREM ResendsOnlyTheDead == Spec => []EarlierSendsDead
<1>1. Inv => EarlierSendsDead
  <2> SUFFICES ASSUME Inv PROVE EarlierSendsDead
    OBVIOUS
  <2>1. DOMAIN txs = 1 .. Len(txs) /\ Len(txs) \in Nat
    BY LenProperties DEF Inv, TypeOK
  <2>2. \A i \in DOMAIN txs : ~ (i < Current)
    BY <2>1 DEF Inv, Current
  <2> QED
    BY <2>2 DEF Inv, AllDead, EarlierSendsDead
<1>2. Init => Inv
  BY InitHolds
<1>3. Inv /\ [Next]_vars => Inv'
  BY EveryStep
<1> QED
  BY <1>1, <1>2, <1>3, PTL DEF Spec

\* An exit call, with its ladder, its chain of routers, its failover between nodes and its
\* settle loop, is one sale: it sells at most once, reports a sale only after one landed, and
\* reports none only when nothing sold and nothing can.
THEOREM CallIsOneSale == Spec => Sale!Spec
<1>1. Init => Inv /\ Sale!Init
  BY InitHolds
<1>2. Inv /\ [Next]_vars => Inv' /\ [Sale!Next]_(Sale!vars)
  BY EveryStep DEF SaleStep
<1> QED
  BY <1>1, <1>2, PTL DEF Spec, Sale!Spec

-----------------------------------------------------------------------------
(* The circuit breaker                                                      *)

\* The success counter is what was earned since the circuit was last half-open.
SuccessesEarned == state = "HalfOpen" => successes = earned

BreakerInv == BreakerTypeOK /\ SuccessesEarned

\* The parts of BreakerInv, the Boolean clock apart from the rest.
ClockTyped == cooled \in BOOLEAN /\ settled \in BOOLEAN

Counted ==
    /\ state \in {"Closed", "Open", "HalfOpen"}
    /\ failures \in 0..FailureThreshold
    /\ successes \in 0..(SuccessThreshold - 1)
    /\ probes \in 0..MaxProbes
    /\ pc \in [Calls -> {"idle", "probe", "open", "transition", "sent"}]
    /\ earned \in Nat
    /\ forced \in 0..MaxForced
    /\ SuccessesEarned

\* What a step may not do, as an action.
ClosesWhenEarned ==
    state = "HalfOpen" /\ state' = "Closed" /\ forced' = forced => earned' >= SuccessThreshold

\* UpTo keeps a counter of the code within the threshold it is compared with.
LEMMA UpToBounded ==
    ASSUME NEW n \in Nat, NEW max \in Nat
    PROVE  UpTo(n, max) \in 0..max
BY DEF UpTo

\* A new circuit breaker is closed, with its counters at zero.
LEMMA BreakerInitInv == BreakerInit => BreakerInv
<1> SUFFICES ASSUME BreakerInit PROVE BreakerInv
    OBVIOUS
<1>1. ClockTyped
    BY Zenon DEF BreakerInit, ClockTyped
<1>2. Counted
    BY BreakerConstants DEF BreakerInit, Counted, SuccessesEarned
<1> QED
    BY <1>1, <1>2, Zenon DEF BreakerInv, BreakerTypeOK, ClockTyped, Counted

\* Every step of a request, of time or of a forced change keeps the counters within their
\* thresholds and the success counter equal to the successes of the current half-open period.
LEMMA BreakerStepInv == BreakerInv /\ [BreakerNext]_breakerVars => BreakerInv'
<1> SUFFICES ASSUME BreakerInv, [BreakerNext]_breakerVars PROVE BreakerInv'
    OBVIOUS
<1> USE DEF counters, clock, Goto
<1>0. ClockTyped /\ Counted
    BY Zenon DEF BreakerInv, BreakerTypeOK, ClockTyped, Counted
<1>1. ASSUME NEW c \in Calls, ReadState(c) PROVE ClockTyped' /\ Counted'
  <2>1. ClockTyped'
    BY <1>0, <1>1, Zenon DEF ReadState, ClockTyped
  <2>2. Counted'
    BY <1>0, <1>1, BreakerConstants DEF ReadState, Counted, SuccessesEarned
  <2> QED
    BY <2>1, <2>2
<1>2. ASSUME NEW c \in Calls, TakeProbe(c) PROVE ClockTyped' /\ Counted'
  <2>1. ClockTyped'
    BY <1>0, <1>2, Zenon DEF TakeProbe, ClockTyped
  <2>2. Counted'
    BY <1>0, <1>2, BreakerConstants, UpToBounded DEF TakeProbe, Counted, SuccessesEarned
  <2> QED
    BY <2>1, <2>2
<1>3. ASSUME NEW c \in Calls, CheckCooldown(c) PROVE ClockTyped' /\ Counted'
  <2>1. ClockTyped'
    BY <1>0, <1>3, Zenon DEF CheckCooldown, ClockTyped
  <2>2. Counted'
    BY <1>0, <1>3, BreakerConstants DEF CheckCooldown, Counted, SuccessesEarned
  <2> QED
    BY <2>1, <2>2
<1>4. ASSUME NEW c \in Calls, transition_to_half_open(c) PROVE ClockTyped' /\ Counted'
  <2>1. ClockTyped'
    BY <1>0, <1>4, Zenon DEF transition_to_half_open, ClockTyped
  <2>2. Counted'
    BY <1>0, <1>4, BreakerConstants DEF transition_to_half_open, Counted, SuccessesEarned
  <2> QED
    BY <2>1, <2>2
<1>5. ASSUME NEW c \in Calls, record_success(c) PROVE ClockTyped' /\ Counted'
  <2>1. ClockTyped'
    BY <1>0, <1>5, Zenon DEF record_success, ClockTyped
  <2>2. Counted'
    BY <1>0, <1>5, BreakerConstants DEF record_success, Recovered, Counted, SuccessesEarned
  <2> QED
    BY <2>1, <2>2
<1>6. ASSUME NEW c \in Calls, record_failure(c) PROVE ClockTyped' /\ Counted'
  <2>1. ClockTyped'
    BY <1>0, <1>6, Zenon DEF record_failure, Open, ClockTyped
  <2>2. Counted'
    <3>1. /\ state' \in {state, "Open"} /\ successes' \in {successes, 0}
          /\ state' = state => successes' = successes
          /\ probes' \in {probes, 0}
          /\ failures' \in {failures, UpTo(failures + 1, FailureThreshold)}
          /\ pc' = [pc EXCEPT ![c] = "idle"]
          /\ earned' = earned /\ forced' = forced
      BY <1>6, Zenon DEF record_failure, Open
    <3>2. UpTo(failures + 1, FailureThreshold) \in 0..FailureThreshold
      BY <1>0, BreakerConstants, UpToBounded DEF Counted
    <3> QED
      BY <1>0, <3>1, <3>2, BreakerConstants DEF Counted, SuccessesEarned
  <2> QED
    BY <2>1, <2>2
<1>7. ASSUME NEW c \in Calls, EndUnrecorded(c) PROVE ClockTyped' /\ Counted'
  <2>1. ClockTyped'
    BY <1>0, <1>7, Zenon DEF EndUnrecorded, ClockTyped
  <2>2. Counted'
    BY <1>0, <1>7, BreakerConstants DEF EndUnrecorded, Counted, SuccessesEarned
  <2> QED
    BY <2>1, <2>2
<1>8. ASSUME CoolDown PROVE ClockTyped' /\ Counted'
  <2>1. ClockTyped'
    BY <1>0, <1>8, Zenon DEF CoolDown, ClockTyped
  <2>2. Counted'
    BY <1>0, <1>8, BreakerConstants DEF CoolDown, Counted, SuccessesEarned
  <2> QED
    BY <2>1, <2>2
<1>9. ASSUME SettleDown PROVE ClockTyped' /\ Counted'
  <2>1. ClockTyped'
    BY <1>0, <1>9, Zenon DEF SettleDown, ClockTyped
  <2>2. Counted'
    BY <1>0, <1>9, BreakerConstants DEF SettleDown, Counted, SuccessesEarned
  <2> QED
    BY <2>1, <2>2
<1>10. ASSUME force_open PROVE ClockTyped' /\ Counted'
  <2>1. ClockTyped'
    BY <1>0, <1>10, Zenon DEF force_open, Open, ClockTyped
  <2>2. Counted'
    BY <1>0, <1>10, BreakerConstants DEF force_open, Open, Counted, SuccessesEarned
  <2> QED
    BY <2>1, <2>2
<1>11. ASSUME force_close PROVE ClockTyped' /\ Counted'
  <2>1. ClockTyped'
    BY <1>0, <1>11, Zenon DEF force_close, ClockTyped
  <2>2. Counted'
    BY <1>0, <1>11, BreakerConstants DEF force_close, Counted, SuccessesEarned
  <2> QED
    BY <2>1, <2>2
<1>12. ASSUME UNCHANGED breakerVars PROVE ClockTyped' /\ Counted'
    BY <1>0, <1>12 DEF breakerVars, ClockTyped, Counted, SuccessesEarned
<1>13. ClockTyped' /\ Counted'
    BY <1>1, <1>2, <1>3, <1>4, <1>5, <1>6, <1>7, <1>8, <1>9, <1>10, <1>11, <1>12
    DEF BreakerNext, Admission, Answer
<1> QED
    BY <1>13, Zenon DEF BreakerInv, BreakerTypeOK, ClockTyped, Counted

\* Only record_success closes a half-open circuit by itself, and the success it records is
\* counted with those of this half-open period alone.
LEMMA StepCloses == BreakerInv /\ [BreakerNext]_breakerVars => ClosesWhenEarned
<1> SUFFICES ASSUME BreakerInv, [BreakerNext]_breakerVars,
                    state = "HalfOpen", state' = "Closed", forced' = forced
             PROVE  earned' >= SuccessThreshold
    BY DEF ClosesWhenEarned
<1>1. PICK c \in Calls : record_success(c)
  <2>1. ~force_close
    BY DEF force_close, BreakerInv, BreakerTypeOK
  <2>2. ASSUME NEW c \in Calls, Admission(c) PROVE FALSE
    BY <2>2 DEF Admission, ReadState, TakeProbe, CheckCooldown, transition_to_half_open
  <2>3. ASSUME NEW c \in Calls, record_failure(c) \/ EndUnrecorded(c) PROVE FALSE
    BY <2>3 DEF record_failure, EndUnrecorded, Open
  <2>4. ~(CoolDown \/ SettleDown \/ force_open \/ UNCHANGED breakerVars)
    BY DEF CoolDown, SettleDown, force_open, Open, breakerVars
  <2> QED
    BY <2>1, <2>2, <2>3, <2>4 DEF BreakerNext, Answer
<1>2. earned' = earned + 1 /\ Recovered
    BY <1>1 DEF record_success
<1> QED
    BY <1>2, BreakerConstants DEF Recovered, BreakerInv, BreakerTypeOK, SuccessesEarned

\* The counters of the breaker stay within their thresholds: the types hold for every number
\* of concurrent requests, whichever order their checks and answers come in.
THEOREM BreakerTyped == BreakerSpec => []BreakerTypeOK
<1>1. BreakerInv => BreakerTypeOK
    BY DEF BreakerInv
<1> QED
    BY BreakerInitInv, BreakerStepInv, <1>1, PTL DEF BreakerSpec

\* A half-open circuit closes only on success_threshold successes of that half-open period.
THEOREM ClosesOnlyWhenRecovered == BreakerSpec => RecoveryEarned
<1>1. BreakerInv /\ [BreakerNext]_breakerVars => [ClosesWhenEarned]_breakerVars
    BY StepCloses
<1>2. BreakerSpec => [][ClosesWhenEarned]_breakerVars
    BY BreakerInitInv, BreakerStepInv, <1>1, PTL DEF BreakerSpec
<1> QED
    BY <1>2 DEF RecoveryEarned, ClosesWhenEarned

=============================================================================
