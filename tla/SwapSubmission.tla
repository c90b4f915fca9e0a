--------------------------- MODULE SwapSubmission ---------------------------
(***************************************************************************)
(* One exit call, from the slippage ladder down to the chain               *)
(* (positions/operations/exit_ladder.rs, swaps/operations.rs,              *)
(* chains/solana/swaps/presend.rs, rpc/manager.rs, rpc/gateway.rs,         *)
(* chains/solana/settlement.rs).                                           *)
(*                                                                         *)
(*   ladder   for every rung: quote, execute, and once more around a       *)
(*            bonding curve that has closed;                               *)
(*   chain of routers   the quote's own router, the same router without a  *)
(*            venue that cost too much, then the other enabled routers;    *)
(*   send     the relay first, then provider after provider with retries;  *)
(*   settle   status polls against the finalized tip, re-broadcasts, a     *)
(*            deadline.                                                    *)
(*                                                                         *)
(* Each layer sends again only on what the layer below reports, so what    *)
(* matters is that no report of "nothing was sold" is ever wrong, whatever *)
(* the nodes answer, however far each of them lags, and whichever of the   *)
(* answers is lost.                                                        *)
(*                                                                         *)
(* The chain is external: blocks are counted by height and a slot is       *)
(* identified with the height of its block, a confirmed block is never     *)
(* rolled back, a transaction lands only in a block its blockhash is valid *)
(* for, and a re-broadcast of the same bytes cannot land twice.            *)
(***************************************************************************)
EXTENDS Naturals, Sequences, FiniteSets

CONSTANTS
    Rungs,        \* slippage steps of the ladder
    Fallbacks,    \* enabled routers beside the quote's own
    MaxRetries,   \* rpc max_retries
    Validity,     \* blocks a blockhash stays valid
    MaxHeight     \* bound: blocks the chain produces

ASSUME SubmissionAssumption ==
    /\ Rungs \in Nat \ {0}
    /\ Fallbacks \in Nat
    /\ MaxRetries \in Nat
    /\ Validity \in Nat
    /\ MaxHeight \in Nat

VARIABLES
    head,      \* height of the last confirmed block
    final,     \* height of the last finalized block
    txs,       \* the transactions the call has signed, in order; dead ones are forgotten
    call,      \* where the call is
    rpc,       \* the send in progress: attempts made, and those that may have delivered
    tip,       \* the finalized tip the settle loop read last, if any
    outcome    \* the ExitSwap the ladder returned

vars == <<head, final, txs, call, rpc, tip, outcome>>

NoTip == MaxHeight + 1
Heights == 0 .. MaxHeight
Fates == {"unsent", "pending", "processed", "landed", "reverted"}
Classes == {"reconcile", "resendable", "unresolved"}
Kinds == {"plain", "cost", "curve"}
Outcomes == {"none", "executed", "submitted", "failed", "unresolved"}

\* A built and signed transaction: its blockhash is valid up to `until`, which the build
\* reported when `told`; `at` is the block it landed or reverted in.
Tx == [fate : Fates, until : 0 .. (MaxHeight + Validity), told : BOOLEAN, at : Heights]

\* `route` 0 is the quote's router, Fallbacks + 1 the same router without a venue, the
\* others the fallback chain; `curve`, the rung is being retried around a closed curve;
\* `primaryCurve`, the first router's own failure was the closed curve.
Call == [pc : {"quote", "execute", "relay", "send", "settle", "done"},
         rung : 1 .. Rungs, route : 0 .. (Fallbacks + 1), curve : BOOLEAN, primaryCurve : BOOLEAN]

TypeOK ==
    /\ head \in Heights /\ final \in 0 .. head
    /\ txs \in Seq(Tx)
    /\ call \in Call
    /\ rpc \in [tries : 0 .. MaxRetries, dispatched : 0 .. (MaxRetries + 1)]
    /\ tip \in Heights \cup {NoTip}
    /\ outcome \in Outcomes

Init ==
    /\ head = 0 /\ final = 0
    /\ txs = <<>>
    /\ call = [pc |-> "quote", rung |-> 1, route |-> 0, curve |-> FALSE, primaryCurve |-> FALSE]
    /\ rpc = [tries |-> 0, dispatched |-> 0]
    /\ tip = NoTip
    /\ outcome = "none"

Current == Len(txs)

\* The transaction is on the network and a block to come may still hold it.
CanLand(t) == t.fate \in {"pending", "processed"} /\ head < t.until

\* Nothing moved and nothing can: reverted, expired, or signed and never handed over.
Dead(t) == t.fate # "landed" /\ ~CanLand(t)

chain == <<head, final>>
wire == <<txs, rpc, tip>>

----------------------------------------------------------------------------
(* The ladder *)

NextRung ==
    \/ /\ call.rung < Rungs
       /\ call' = [call EXCEPT !.pc = "quote", !.rung = @ + 1, !.route = 0, !.curve = FALSE]
       /\ UNCHANGED outcome
    \/ /\ call.rung = Rungs
       /\ call' = [call EXCEPT !.pc = "done"]
       /\ outcome' = "failed"

EndLadder(o) ==
    /\ call' = [call EXCEPT !.pc = "done"]
    /\ outcome' = o

\* The ladder reads the failure the router chain returned (failed_swap): a signature that
\* may land ends it, a failure that proves nothing ends it, and only a resendable one goes
\* on, around the closed curve first when the rung has not tried that.
LadderTakes(class, kind) ==
    \/ class = "reconcile" /\ EndLadder("submitted")
    \/ class = "unresolved" /\ EndLadder("unresolved")
    \/ /\ class = "resendable"
       /\ kind = "curve" /\ ~call.curve
       /\ \/ /\ call' = [call EXCEPT !.pc = "execute", !.route = 0, !.curve = TRUE]
             /\ UNCHANGED outcome
          \/ NextRung
    \/ /\ class = "resendable"
       /\ kind # "curve" \/ call.curve
       /\ NextRung

QuoteRung ==
    /\ call.pc = "quote"
    /\ \/ call' = [call EXCEPT !.pc = "execute"] /\ UNCHANGED outcome
       \/ NextRung
    /\ UNCHANGED <<chain, wire>>

----------------------------------------------------------------------------
(* The router chain *)

PrimaryKind == IF call.primaryCurve THEN "curve" ELSE "plain"

\* The fallbacks after route r, each with a quote of its own that may fail or be rejected:
\* the next one that is priced executes, and when none is left the first router's own
\* failure is the chain's answer.
TryFallback(r, primary) ==
    \/ \E k \in (r + 1) .. Fallbacks :
          /\ call' = [call EXCEPT !.pc = "execute", !.route = k,
                                  !.primaryCurve = (primary = "curve")]
          /\ UNCHANGED outcome
    \/ LadderTakes("resendable", primary)

\* The router of the current route failed with a typed error.
RouterFails(class, kind) ==
    \/ class # "resendable" /\ LadderTakes(class, kind)
    \/ /\ class = "resendable" /\ call.route = 0
       /\ \/ TryFallback(0, kind)
          \/ /\ kind = "cost"
             /\ call' = [call EXCEPT !.pc = "execute", !.route = Fallbacks + 1,
                                     !.primaryCurve = FALSE]
             /\ UNCHANGED outcome
    \/ /\ class = "resendable" /\ call.route = Fallbacks + 1
       /\ TryFallback(0, "plain")
    \/ /\ class = "resendable" /\ call.route \in 1 .. Fallbacks
       /\ TryFallback(call.route, PrimaryKind)

\* Refused before any router is asked (a force stop, a paper scope, a disabled router, the
\* funds check): the chain answers at once, without its fallbacks.
RefuseSwap ==
    /\ call.pc = "execute" /\ call.route = 0
    /\ LadderTakes("resendable", "plain")
    /\ UNCHANGED <<chain, wire>>

\* The router stops before it sends: its build, the size, the simulation and the cost guard
\* each say that nothing was submitted; an error outside that vocabulary proves nothing.
RouterRefuses ==
    /\ call.pc = "execute"
    /\ \E class \in {"resendable", "unresolved"}, kind \in Kinds : RouterFails(class, kind)
    /\ UNCHANGED <<chain, wire>>

\* What is worth remembering of the transactions before the next one.
Undecided == IF \A i \in DOMAIN txs : Dead(txs[i]) THEN <<>> ELSE txs

\* The transaction is built, cleared and signed, over a blockhash read from some node.
SignSwap ==
    /\ call.pc = "execute"
    /\ \E u \in head .. (head + Validity), told \in BOOLEAN :
          txs' = Append(Undecided, [fate |-> "unsent", until |-> u, told |-> told, at |-> 0])
    /\ call' = [call EXCEPT !.pc = "relay"]
    /\ rpc' = [tries |-> 0, dispatched |-> 0]
    /\ tip' = NoTip
    /\ UNCHANGED <<chain, outcome>>

----------------------------------------------------------------------------
(* The send *)

Delivered == [txs EXCEPT ![Current].fate = IF @ = "unsent" THEN "pending" ELSE @]

\* No answer proves the transaction was not delivered: it is settled from the chain.
Settle ==
    /\ call' = [call EXCEPT !.pc = "settle"]
    /\ UNCHANGED <<rpc, tip, outcome, chain>>

\* A request the first node handed it refused, or whose preflight failed: not sent.
NotSent == \E kind \in {"plain", "curve"} : RouterFails("resendable", kind)

\* The relay is off, was not asked, or proves that it delivered nothing.
RelayFallsThrough ==
    /\ call.pc = "relay"
    /\ call' = [call EXCEPT !.pc = "send"]
    /\ UNCHANGED <<chain, wire, outcome>>

\* The relay answered, or may have forwarded the send before its answer was lost.
RelayMayDeliver ==
    /\ call.pc = "relay"
    /\ txs' = Delivered
    /\ Settle

Accepted == txs' = Delivered /\ Settle

\* An answer that cannot be read, and is not retried.
Unreadable == txs' = Delivered /\ Settle

\* Defect of RetrySend: the retries are counted from one instead of from zero.
RetriesOnceMore ==
    \/ /\ rpc.tries <= MaxRetries
       /\ rpc' = [rpc EXCEPT !.tries = @ + 1, !.dispatched = @ + 1]
       /\ UNCHANGED <<call, tip, outcome, chain>>
    \/ rpc.tries > MaxRetries /\ Settle

\* Another provider is tried, unless this was the last retry.
RetrySend ==
    \/ /\ rpc.tries < MaxRetries
       /\ rpc' = [rpc EXCEPT !.tries = @ + 1, !.dispatched = @ + 1]
       /\ UNCHANGED <<call, tip, outcome, chain>>
    \/ rpc.tries = MaxRetries /\ Settle

\* A timeout, a network failure, a rate limit or a busy node: the bytes may have left.
Unanswered == txs' = Delivered /\ RetrySend

\* The provider's circuit is open: nothing is dispatched.
CircuitOpen ==
    /\ \/ /\ rpc.tries < MaxRetries
          /\ rpc' = [rpc EXCEPT !.tries = @ + 1]
          /\ UNCHANGED <<call, tip, outcome, chain>>
       \/ rpc.tries = MaxRetries /\ Settle
    /\ UNCHANGED txs

\* No provider is left to select.
NoProvider == Settle /\ UNCHANGED txs

\* Defect of refusal_answers_for_call: every refusal answers for the call.
RefusalAnswersAlways == TRUE

\* A refusal answers for the whole call only when no attempt before it may have delivered.
refusal_answers_for_call == rpc.dispatched = 0

Refused ==
    \/ /\ refusal_answers_for_call
       /\ NotSent
       /\ UNCHANGED <<chain, wire>>
    \/ /\ ~refusal_answers_for_call
       /\ Settle
       /\ UNCHANGED txs

ProviderAnswers ==
    /\ call.pc = "send"
    /\ Accepted \/ Refused \/ Unanswered \/ Unreadable \/ CircuitOpen \/ NoProvider

----------------------------------------------------------------------------
(* The settle loop *)

\* What a node that has reached block v knows of the current transaction: a processed
\* status, its failure included, is one that may still be rolled back.
StatusAt(v) ==
    LET t == txs[Current] IN
    IF t.fate \in {"landed", "reverted"} THEN {IF t.at <= v THEN t.fate ELSE "none"}
    ELSE IF t.fate = "processed" /\ v = head THEN {"none", "processed"}
    ELSE {"none"}

\* A null status is evidence of absence once the finalized tip has passed the expiry and
\* the node that answered had reached that tip.
Expired(v) ==
    /\ txs[Current].told
    /\ tip # NoTip /\ tip > txs[Current].until
    /\ v >= tip

\* A landed swap is the router's result; the direct engine may find the receipt short and
\* hand the signature to reconciliation instead.
Landed ==
    \/ EndLadder("executed")
    \/ RouterFails("reconcile", "plain")

Reverted == \E kind \in {"plain", "curve"} : RouterFails("resendable", kind)

\* One status read, from a node that has reached block v, and the transaction lookup the
\* expiry asks for, from a node that has reached block w.  What decides nothing leaves the
\* loop where it was.
Poll ==
    /\ call.pc = "settle"
    /\ \E v \in 0 .. head : \E status \in StatusAt(v) :
          \/ status = "landed" /\ Landed
          \/ status = "reverted" /\ Reverted
          \/ /\ status = "none" /\ Expired(v)
             /\ \E w \in 0 .. head : \E found \in StatusAt(w) :
                   \/ found = "landed" /\ Landed
                   \/ found = "reverted" /\ Reverted
                   \/ found \in {"none", "processed"} /\ RouterFails("resendable", "plain")
    /\ UNCHANGED <<chain, wire>>

\* The same signed bytes once more, beside the polls.
Rebroadcast ==
    /\ call.pc = "settle"
    /\ txs' = Delivered
    /\ UNCHANGED <<chain, call, rpc, tip, outcome>>

ReadTip ==
    /\ call.pc = "settle" /\ txs[Current].told
    /\ \E f \in 0 .. final : tip' = f
    /\ UNCHANGED <<chain, txs, call, rpc, outcome>>

\* Defect of TimeOut: the failure does not carry the signature.
TimeOutUnsigned ==
    /\ call.pc = "settle"
    /\ RouterFails("unresolved", "plain")
    /\ UNCHANGED <<chain, wire>>

\* The deadline: the signature may still land and is handed to verification.
TimeOut ==
    /\ call.pc = "settle"
    /\ RouterFails("reconcile", "plain")
    /\ UNCHANGED <<chain, wire>>

----------------------------------------------------------------------------
(* The chain, external *)

\* A leader takes a transaction into a block not yet confirmed.
Process ==
    /\ \E i \in DOMAIN txs :
          /\ txs[i].fate = "pending" /\ CanLand(txs[i])
          /\ txs' = [txs EXCEPT ![i].fate = "processed"]
    /\ UNCHANGED <<chain, call, rpc, tip, outcome>>

\* A block is confirmed: the processed transactions it holds landed or failed in it, the
\* others were rolled back.
NewBlock ==
    /\ head < MaxHeight
    /\ head' = head + 1
    /\ \E ok, err \in SUBSET DOMAIN txs :
          /\ ok \cap err = {}
          /\ \A i \in ok \cup err : txs[i].fate = "processed"
          /\ txs' = [i \in DOMAIN txs |->
                       IF i \in ok THEN [txs[i] EXCEPT !.fate = "landed", !.at = head + 1]
                       ELSE IF i \in err THEN [txs[i] EXCEPT !.fate = "reverted", !.at = head + 1]
                       ELSE IF txs[i].fate = "processed" THEN [txs[i] EXCEPT !.fate = "pending"]
                       ELSE txs[i]]
    /\ UNCHANGED <<final, call, rpc, tip, outcome>>

Finalize ==
    /\ final < head
    /\ final' = final + 1
    /\ UNCHANGED <<head, txs, call, rpc, tip, outcome>>

----------------------------------------------------------------------------

CallStep ==
    QuoteRung \/ RefuseSwap \/ RouterRefuses \/ SignSwap \/ RelayFallsThrough
    \/ RelayMayDeliver \/ ProviderAnswers

SettleStep == Poll \/ Rebroadcast \/ ReadTip \/ TimeOut

ChainStep == Process \/ NewBlock \/ Finalize

Next == CallStep \/ SettleStep \/ ChainStep

Spec == Init /\ [][Next]_vars

\* The call runs on, and the clock reaches the deadline of every settle loop; the chain and
\* the nodes owe the call nothing.
FairSpec == Spec /\ WF_vars(CallStep) /\ WF_vars(TimeOut)

----------------------------------------------------------------------------
(* Properties *)

\* The ladder's licence to sell again (exit_ladder.rs: "send again only when the last
\* attempt provably sold nothing"): every transaction before the current one is dead, and
\* while the call is between sends so is the current one.  A wrong "not sent" or "expired"
\* of any layer below breaks it.
EarlierSendsDead ==
    /\ \A i \in DOMAIN txs : i < Current => Dead(txs[i])
    /\ call.pc \in {"quote", "execute"} => \A i \in DOMAIN txs : Dead(txs[i])

Sale == INSTANCE OneSale WITH
    sold <- Cardinality({i \in DOMAIN txs : txs[i].fate = "landed"}),
    live <- \E i \in DOMAIN txs : CanLand(txs[i])

\* The exit call with its ladder, routers, nodes and lost answers implements one sale: it
\* sells at most once, tells the truth about it, and ends.
ImplementsOneSale == Sale!FairSpec
=============================================================================
