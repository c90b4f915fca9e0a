-------------------------- MODULE LedgerSyncProofs --------------------------
(* The row of a bot position between the trader that books it and the       *)
(* syncs that rewrite it, for any number of transactions, resync tasks and  *)
(* history loads.                                                           *)
EXTENDS LedgerSync, FiniteSetTheorems, TLAPS

Kinds == {"dca", "sale", "buy", "sell"}
TraderPcs == {"idle", "sent", "landed", "verified", "booked"}
SyncPcs == {"none", "debounce", "lock", "repair", "gap", "fill", "legs",
            "history", "wallet", "plan", "busy", "apply"}
SyncState == [pc : SyncPcs, legs : SUBSET Nat, hist : SUBSET Nat, obs : SUBSET Nat, busy : BOOLEAN]

-----------------------------------------------------------------------------
(* The inductive invariant.                                                 *)

ChainInv ==
    /\ doubt \in Doubts
    /\ txs \in Seq(Kinds) /\ Len(txs) <= MaxTx
    /\ deltas \subseteq processed /\ processed \subseteq Landed
    /\ recording \subseteq processed /\ watched \subseteq processed /\ recording \cap watched = {}
    /\ gap \in BOOLEAN
    /\ "history" \notin doubt => deltas = processed

\* The bot's transaction that landed and is not booked yet.
Pending == IF trader.pc \in {"landed", "verified"} THEN {trader.tx} ELSE {}

\* The trader has one swap under way, and every other one of its transactions is a booked leg.
TraderInv ==
    /\ trader \in [pc : TraderPcs, tx : Nat]
    /\ trader.tx <= Len(txs)
    /\ trader.pc \in {"landed", "verified"} => trader.tx \in Landed /\ IsBot(trader.tx) /\ trader.tx \notin legs
    /\ trader.pc = "verified" => trader.tx \in processed
    /\ legs \subseteq processed
    /\ \A i \in legs : IsBot(i)
    /\ \A i \in Landed : IsBot(i) => i \in legs \/ i \in Pending

\* The transactions in the tokens held.
In == {i \in Landed : counted[i] = 1}

\* The row carries what is counted, and has accounted for no buy that is not settled.
RowInv ==
    /\ row \in [held : Nat, exited : Nat]
    /\ counted \in [1 .. MaxTx -> {0, 1}]
    /\ \A i \in 1 .. MaxTx : counted[i] = 1 => i \in Landed /\ i \notin Pending
    /\ row.held = Balance(In)
    /\ row.held + row.exited <= Bought(Landed \ Pending)

\* What a sync has read: transactions of the chain, and the booked legs among them.
SyncOK(k) ==
    /\ sync[k].legs \subseteq legs /\ sync[k].hist \subseteq Landed /\ sync[k].obs \subseteq Landed
    /\ sync[k].pc \in {"wallet", "plan", "busy", "apply"} /\ "history" \notin doubt =>
         sync[k].legs \subseteq sync[k].hist
    /\ sync[k].pc \in {"plan", "busy", "apply"} /\ doubt # {"history", "wallet"} =>
         sync[k].legs \subseteq sync[k].obs
    /\ sync[k].pc = "apply" /\ ~ sync[k].busy =>
         \A i \in sync[k].hist \cup sync[k].obs : IsBot(i) => i \in legs
SyncInv ==
    /\ sync \in [Syncs -> SyncState]
    /\ \A k \in Syncs : SyncOK(k)

\* Activity handed over waits for a sync that has not read the history, and a mark for its task.
ResyncInv ==
    /\ lock \in Tasks \cup {"free"} /\ loads \in 0 .. MaxLoads /\ scheduled \in BOOLEAN
    /\ covered \subseteq told /\ told \subseteq watched
    /\ scheduled => \E k \in Tasks : sync[k].pc = "debounce"
    /\ NotSwallowed

\* A booked leg stays counted while only one of the sources lags.
LegInv == doubt # {"history", "wallet"} => \A i \in legs : counted[i] = 1

Inv == ChainInv /\ TraderInv /\ RowInv /\ SyncInv /\ ResyncInv /\ LegInv

-----------------------------------------------------------------------------
(* Tokens bought and sold, of any sequence of transactions: the lemmas are  *)
(* used of the transactions before a step and of those after it.            *)

Buys(q, S) == {i \in S : q[i] \in {"dca", "buy"}}
Sells(q, S) == {i \in S : q[i] \notin {"dca", "buy"}}
Got(q, S) == Start + Cardinality(Buys(q, S))
Left(q, S) == Cardinality(Sells(q, S))
Net(q, S) == Got(q, S) - Left(q, S)

\* Sets of landed transactions are finite, with their buys and sells.
LEMMA SetsFinite ==
    ASSUME NEW q \in Seq(Kinds), NEW T \in SUBSET (1 .. Len(q)), NEW S \in SUBSET T
    PROVE  /\ IsFiniteSet(S) /\ IsFiniteSet(Buys(q, S)) /\ IsFiniteSet(Sells(q, S))
           /\ Cardinality(Buys(q, S)) \in Nat /\ Cardinality(Sells(q, S)) \in Nat
           /\ Cardinality(Buys(q, S)) <= Cardinality(Buys(q, T))
           /\ Cardinality(Sells(q, S)) <= Cardinality(Sells(q, T))
<1>1. PICK n \in Nat : n = Len(q)
    OBVIOUS
<1>2. IsFiniteSet(1 .. n)
    BY FS_Interval
<1>3. IsFiniteSet(T)
    BY <1>1, <1>2, FS_Subset
<1>4. /\ Buys(q, S) \subseteq S /\ Sells(q, S) \subseteq S
      /\ Buys(q, S) \subseteq Buys(q, T) /\ Sells(q, S) \subseteq Sells(q, T)
      /\ Buys(q, T) \subseteq T /\ Sells(q, T) \subseteq T
    BY DEF Buys, Sells
<1>5. IsFiniteSet(S) /\ IsFiniteSet(Buys(q, T)) /\ IsFiniteSet(Sells(q, T))
    BY <1>3, <1>4, FS_Subset
<1>6. /\ IsFiniteSet(Buys(q, S)) /\ Cardinality(Buys(q, S)) <= Cardinality(Buys(q, T))
      /\ IsFiniteSet(Sells(q, S)) /\ Cardinality(Sells(q, S)) <= Cardinality(Sells(q, T))
    BY <1>4, <1>5, FS_Subset
<1> QED
    BY <1>5, <1>6, FS_CardinalityType

\* The buys and the sells of a sequence are its transactions.
LEMMA BuysAndSells ==
    ASSUME NEW q \in Seq(Kinds), NEW T, T = 1 .. Len(q)
    PROVE  Cardinality(Buys(q, T)) + Cardinality(Sells(q, T)) = Len(q)
<1>1. PICK n \in Nat : n = Len(q)
    OBVIOUS
<1>2. IsFiniteSet(1 .. n) /\ Cardinality(1 .. n) = IF 1 > n THEN 0 ELSE n - 1 + 1
    BY FS_Interval
<1>3. Cardinality(1 .. n) = n
    BY <1>2
<1>4. Buys(q, T) \cup Sells(q, T) = 1 .. n /\ Buys(q, T) \cap Sells(q, T) = {}
    BY <1>1 DEF Buys, Sells
<1>5. IsFiniteSet(Buys(q, T)) /\ IsFiniteSet(Sells(q, T))
    BY SetsFinite
<1>6. Cardinality(Buys(q, T) \cup Sells(q, T))
        = Cardinality(Buys(q, T)) + Cardinality(Sells(q, T)) - Cardinality(Buys(q, T) \cap Sells(q, T))
    BY <1>5, FS_Union
<1>7. Cardinality(Buys(q, T) \cap Sells(q, T)) = 0
    BY <1>4, FS_EmptySet
<1>8. Cardinality(Buys(q, T)) \in Nat /\ Cardinality(Sells(q, T)) \in Nat
    BY SetsFinite
<1>9. n = Cardinality(Buys(q, T)) + Cardinality(Sells(q, T)) - 0
    BY <1>3, <1>4, <1>6, <1>7
<1> QED
    BY <1>1, <1>8, <1>9

\* A position that starts above MaxTx tokens never empties.
LEMMA Tokens ==
    ASSUME LedgerConstants, NEW q \in Seq(Kinds), Len(q) <= MaxTx, NEW T, T = 1 .. Len(q), NEW S \in SUBSET T
    PROVE  /\ Got(q, S) \in Nat /\ Left(q, S) \in Nat /\ Net(q, S) \in Nat
           /\ Net(q, S) + Left(q, S) = Got(q, S)
           /\ Got(q, S) <= Got(q, T) /\ Net(q, S) <= Start + MaxTx
           /\ Got(q, T) - Net(q, S) <= MaxTx /\ Got(q, T) \in Nat
<1>1. PICK b, c, B, C : /\ b = Cardinality(Buys(q, S)) /\ c = Cardinality(Sells(q, S))
                        /\ B = Cardinality(Buys(q, T)) /\ C = Cardinality(Sells(q, T))
    OBVIOUS
<1>2. b \in Nat /\ c \in Nat /\ B \in Nat /\ C \in Nat /\ b <= B /\ c <= C
    BY <1>1, SetsFinite
<1>3. B + C <= MaxTx /\ MaxTx \in Nat /\ Start \in Nat /\ Start > MaxTx
    BY <1>1, BuysAndSells DEF LedgerConstants
<1>4. Got(q, S) = Start + b /\ Left(q, S) = c /\ Got(q, T) = Start + B
    BY <1>1 DEF Got, Left
<1>5. Net(q, S) = (Start + b) - c
    BY <1>4 DEF Net
<1>6. /\ Start + b \in Nat /\ (Start + b) - c \in Nat /\ (Start + b) - c + c = Start + b
      /\ Start + b <= Start + B /\ (Start + b) - c <= Start + MaxTx
      /\ (Start + B) - ((Start + b) - c) <= MaxTx /\ Start + B \in Nat
    BY <1>2, <1>3
<1> QED
    BY <1>2, <1>4, <1>5, <1>6

\* One more transaction in a set is one token more, or one less.
LEMMA TokenAdded ==
    ASSUME LedgerConstants, NEW q \in Seq(Kinds), NEW S \in SUBSET (1 .. Len(q)), NEW i \in 1 .. Len(q), i \notin S
    PROVE  /\ q[i] \in {"dca", "buy"} =>
                Net(q, S \cup {i}) = Net(q, S) + 1 /\ Got(q, S \cup {i}) = Got(q, S) + 1
           /\ q[i] \notin {"dca", "buy"} =>
                Net(q, S \cup {i}) = Net(q, S) - 1 /\ Got(q, S \cup {i}) = Got(q, S)
<1>1. PICK b, c : b = Cardinality(Buys(q, S)) /\ c = Cardinality(Sells(q, S))
    OBVIOUS
<1>2. /\ IsFiniteSet(Buys(q, S)) /\ IsFiniteSet(Sells(q, S)) /\ b \in Nat /\ c \in Nat /\ Start \in Nat
      /\ i \notin Buys(q, S) /\ i \notin Sells(q, S)
    BY <1>1, SetsFinite DEF Buys, Sells, LedgerConstants
<1>3. Got(q, S) = Start + b /\ Left(q, S) = c
    BY <1>1 DEF Got, Left
<1>4. Net(q, S) = (Start + b) - c
    BY <1>3 DEF Net
<1>5. CASE q[i] \in {"dca", "buy"}
    <2>1. Buys(q, S \cup {i}) = Buys(q, S) \cup {i} /\ Sells(q, S \cup {i}) = Sells(q, S)
        BY <1>5 DEF Buys, Sells
    <2>2. Cardinality(Buys(q, S \cup {i})) = b + 1
        BY <1>1, <1>2, <2>1, FS_AddElement
    <2>3. Cardinality(Sells(q, S \cup {i})) = c
        BY <1>1, <2>1
    <2>4. Got(q, S \cup {i}) = Start + (b + 1) /\ Left(q, S \cup {i}) = c
        BY <2>2, <2>3 DEF Got, Left
    <2>5. Net(q, S \cup {i}) = (Start + (b + 1)) - c
        BY <2>4 DEF Net
    <2>6. Start + (b + 1) = (Start + b) + 1 /\ (Start + (b + 1)) - c = ((Start + b) - c) + 1
        BY <1>2
    <2> QED
        BY <1>3, <1>4, <1>5, <2>4, <2>5, <2>6
<1>6. CASE q[i] \notin {"dca", "buy"}
    <2>1. Sells(q, S \cup {i}) = Sells(q, S) \cup {i} /\ Buys(q, S \cup {i}) = Buys(q, S)
        BY <1>6 DEF Buys, Sells
    <2>2. Cardinality(Sells(q, S \cup {i})) = c + 1
        BY <1>1, <1>2, <2>1, FS_AddElement
    <2>3. Cardinality(Buys(q, S \cup {i})) = b
        BY <1>1, <2>1
    <2>4. Got(q, S \cup {i}) = Start + b /\ Left(q, S \cup {i}) = c + 1
        BY <2>2, <2>3 DEF Got, Left
    <2>5. Net(q, S \cup {i}) = (Start + b) - (c + 1)
        BY <2>4 DEF Net
    <2>6. (Start + b) - (c + 1) = ((Start + b) - c) - 1
        BY <1>2
    <2> QED
        BY <1>3, <1>4, <1>6, <2>4, <2>5, <2>6
<1> QED
    BY <1>5, <1>6

\* A set of more transactions has bought no less.
LEMMA GotGrows ==
    ASSUME LedgerConstants, NEW q \in Seq(Kinds), NEW T \in SUBSET (1 .. Len(q)), NEW S \in SUBSET T
    PROVE  Got(q, S) <= Got(q, T) /\ Got(q, S) \in Nat /\ Got(q, T) \in Nat
<1>1. PICK b, B : b = Cardinality(Buys(q, S)) /\ B = Cardinality(Buys(q, T))
    OBVIOUS
<1>2. b \in Nat /\ B \in Nat /\ b <= B /\ Start \in Nat
    BY <1>1, SetsFinite DEF LedgerConstants
<1>3. Got(q, S) = Start + b /\ Got(q, T) = Start + B
    BY <1>1 DEF Got
<1> QED
    BY <1>2, <1>3

\* The tokens of a set depend on its transactions alone.
LEMMA SameTokens ==
    ASSUME NEW q, NEW q2, NEW S, \A i \in S : q2[i] = q[i]
    PROVE  Got(q2, S) = Got(q, S) /\ Net(q2, S) = Net(q, S)
<1>1. Buys(q2, S) = Buys(q, S) /\ Sells(q2, S) = Sells(q, S)
    BY DEF Buys, Sells
<1> QED
    BY <1>1 DEF Got, Net, Left

\* A transaction that lands leaves those before it as they were.
LEMMA LandsLast ==
    ASSUME ChainInv, NEW k \in Kinds, txs' = Append(txs, k)
    PROVE  /\ Len(txs') = Len(txs) + 1 /\ Len(txs) \in Nat
           /\ Landed' = Landed \cup {Len(txs) + 1} /\ Len(txs) + 1 \notin Landed
           /\ txs' \in Seq(Kinds) /\ txs'[Len(txs) + 1] = k
           /\ \A i \in Landed : txs'[i] = txs[i]
           /\ \A i \in Landed : IsBot(i)' <=> IsBot(i)
<1>1. /\ Len(txs') = Len(txs) + 1 /\ Len(txs) \in Nat
      /\ Landed' = Landed \cup {Len(txs) + 1} /\ Len(txs) + 1 \notin Landed
      /\ txs' \in Seq(Kinds) /\ txs'[Len(txs) + 1] = k
      /\ \A i \in Landed : txs'[i] = txs[i]
    BY DEF ChainInv, Landed
<1> QED
    BY <1>1 DEF IsBot

-----------------------------------------------------------------------------
(* What a step does to a sync.                                              *)

\* The fields of a sync.
LEMMA SyncFields ==
    ASSUME NEW pc \in SyncPcs, NEW lg \in SUBSET Nat, NEW h \in SUBSET Nat, NEW o \in SUBSET Nat,
           NEW b \in BOOLEAN
    PROVE  /\ [pc |-> pc, legs |-> lg, hist |-> h, obs |-> o, busy |-> b] \in SyncState
           /\ [pc |-> pc, legs |-> lg, hist |-> h, obs |-> o, busy |-> b].pc = pc
           /\ [pc |-> pc, legs |-> lg, hist |-> h, obs |-> o, busy |-> b].legs = lg
           /\ [pc |-> pc, legs |-> lg, hist |-> h, obs |-> o, busy |-> b].hist = h
           /\ [pc |-> pc, legs |-> lg, hist |-> h, obs |-> o, busy |-> b].obs = o
           /\ [pc |-> pc, legs |-> lg, hist |-> h, obs |-> o, busy |-> b].busy = b
BY Zenon DEF SyncState

\* A sync is a record of its fields.
LEMMA SyncTyped ==
    ASSUME NEW m \in SyncState
    PROVE  /\ m.pc \in SyncPcs /\ m.legs \in SUBSET Nat /\ m.hist \in SUBSET Nat /\ m.obs \in SUBSET Nat
           /\ m.busy \in BOOLEAN
           /\ m = [pc |-> m.pc, legs |-> m.legs, hist |-> m.hist, obs |-> m.obs, busy |-> m.busy]
BY Zenon DEF SyncState

\* One sync is at another step with other reads, the others as they were.
Becomes(k, pc, lg, h, o) ==
    /\ sync' \in [Syncs -> SyncState]
    /\ sync'[k].pc = pc /\ sync'[k].legs = lg /\ sync'[k].hist = h /\ sync'[k].obs = o
    /\ \A j \in Syncs : j # k => sync'[j] = sync[j]

\* What of it the resync marks depend on.
StepsTo(k, pc) == sync'[k].pc = pc /\ \A j \in Syncs : j # k => sync'[j] = sync[j]

\* A sync that becomes what is given is at that step, and the others where they were.
LEMMA BecomesSteps ==
    ASSUME NEW k, NEW pc, NEW lg, NEW h, NEW o, Becomes(k, pc, lg, h, o)
    PROVE  StepsTo(k, pc)
BY DEF Becomes, StepsTo

\* A record written over a sync.
LEMMA Assigned ==
    ASSUME SyncInv, NEW k \in Syncs, NEW m \in SyncState, sync' = [sync EXCEPT ![k] = m]
    PROVE  Becomes(k, m.pc, m.legs, m.hist, m.obs) /\ sync'[k] = m
BY DEF SyncInv, Becomes

\* A sync at another step keeps what it read.
LEMMA StepChanged ==
    ASSUME NEW m \in SyncState, NEW pc \in SyncPcs
    PROVE  /\ [m EXCEPT !.pc = pc] \in SyncState
           /\ [m EXCEPT !.pc = pc].pc = pc /\ [m EXCEPT !.pc = pc].legs = m.legs
           /\ [m EXCEPT !.pc = pc].hist = m.hist /\ [m EXCEPT !.pc = pc].obs = m.obs
           /\ [m EXCEPT !.pc = pc].busy = m.busy
<1>1. [m EXCEPT !.pc = pc] = [pc |-> pc, legs |-> m.legs, hist |-> m.hist, obs |-> m.obs, busy |-> m.busy]
    BY SyncTyped DEF SyncState
<1>2. PICK n : n = [pc |-> pc, legs |-> m.legs, hist |-> m.hist, obs |-> m.obs, busy |-> m.busy]
    OBVIOUS
<1>3. n \in SyncState /\ n.pc = pc /\ n.legs = m.legs /\ n.hist = m.hist /\ n.obs = m.obs /\ n.busy = m.busy
    BY <1>2, SyncTyped, SyncFields, Zenon
<1> QED
    BY <1>1, <1>2, <1>3

\* A step of a sync that reads nothing.
LEMMA GoBecomes ==
    ASSUME SyncInv, NEW k \in Syncs, NEW pc \in SyncPcs, Go(k, pc)
    PROVE  Becomes(k, pc, sync[k].legs, sync[k].hist, sync[k].obs)
<1>1. PICK m \in SyncState : m = sync[k]
    BY DEF SyncInv
<1>2. PICK n : n = [m EXCEPT !.pc = pc]
    OBVIOUS
<1>3. n \in SyncState /\ n.pc = pc /\ n.legs = m.legs /\ n.hist = m.hist /\ n.obs = m.obs
    BY <1>2, StepChanged
<1>4. sync' = [sync EXCEPT ![k] = n]
    BY <1>1, <1>2 DEF Go, SyncInv
<1>5. Becomes(k, n.pc, n.legs, n.hist, n.obs)
    BY <1>3, <1>4, Assigned
<1> QED
    BY <1>1, <1>3, <1>5

\* The end of a sync.
LEMMA EndsBecomes ==
    ASSUME SyncInv, NEW k \in Syncs, sync' = [sync EXCEPT ![k] = NoSync]
    PROVE  Becomes(k, "none", {}, {}, {})
<1>1. "none" \in SyncPcs /\ {} \in SUBSET Nat /\ FALSE \in BOOLEAN
    BY DEF SyncPcs
<1>2. NoSync \in SyncState /\ NoSync.pc = "none" /\ NoSync.legs = {} /\ NoSync.hist = {} /\ NoSync.obs = {}
    BY <1>1, SyncFields, Zenon DEF NoSync
<1>3. Becomes(k, NoSync.pc, NoSync.legs, NoSync.hist, NoSync.obs)
    BY <1>2, Assigned
<1> QED
    BY <1>2, <1>3

\* What it reads of the legs replaces what it had.
LEMMA LegsRead ==
    ASSUME SyncInv, NEW k \in Syncs, NEW v \in SUBSET Nat,
           sync' = [sync EXCEPT ![k].pc = "history", ![k].legs = v]
    PROVE  Becomes(k, "history", v, sync[k].hist, sync[k].obs)
<1>1. PICK m \in SyncState : m = sync[k]
    BY DEF SyncInv
<1>2. PICK m1 : m1 = [m EXCEPT !.pc = "history"]
    OBVIOUS
<1>3. /\ m1 \in SyncState /\ m1.pc = "history" /\ m1.legs = m.legs
      /\ m1.hist = m.hist /\ m1.obs = m.obs /\ m1.busy = m.busy
    BY <1>2, StepChanged DEF SyncPcs
<1>4. PICK n : n = [m1 EXCEPT !.legs = v]
    OBVIOUS
<1>5. n = [pc |-> m1.pc, legs |-> v, hist |-> m1.hist, obs |-> m1.obs, busy |-> m1.busy]
    BY <1>3, <1>4, SyncTyped DEF SyncState
<1>6. n \in SyncState /\ n.pc = m1.pc /\ n.legs = v /\ n.hist = m1.hist /\ n.obs = m1.obs /\ n.busy = m1.busy
    BY <1>3, <1>5, SyncTyped, SyncFields, Zenon
<1>7. sync' = [sync EXCEPT ![k] = n]
    BY <1>1, <1>2, <1>4 DEF SyncInv
<1>8. Becomes(k, n.pc, n.legs, n.hist, n.obs) /\ sync'[k] = n
    BY <1>6, <1>7, Assigned
<1> QED
    BY <1>1, <1>3, <1>6, <1>8

\* So does what it reads of the history.
LEMMA HistoryRead ==
    ASSUME SyncInv, NEW k \in Syncs, NEW v \in SUBSET Nat,
           sync' = [sync EXCEPT ![k].pc = "wallet", ![k].hist = v]
    PROVE  Becomes(k, "wallet", sync[k].legs, v, sync[k].obs)
<1>1. PICK m \in SyncState : m = sync[k]
    BY DEF SyncInv
<1>2. PICK m1 : m1 = [m EXCEPT !.pc = "wallet"]
    OBVIOUS
<1>3. /\ m1 \in SyncState /\ m1.pc = "wallet" /\ m1.legs = m.legs
      /\ m1.hist = m.hist /\ m1.obs = m.obs /\ m1.busy = m.busy
    BY <1>2, StepChanged DEF SyncPcs
<1>4. PICK n : n = [m1 EXCEPT !.hist = v]
    OBVIOUS
<1>5. n = [pc |-> m1.pc, legs |-> m1.legs, hist |-> v, obs |-> m1.obs, busy |-> m1.busy]
    BY <1>3, <1>4, SyncTyped DEF SyncState
<1>6. n \in SyncState /\ n.pc = m1.pc /\ n.legs = m1.legs /\ n.hist = v /\ n.obs = m1.obs /\ n.busy = m1.busy
    BY <1>3, <1>5, SyncTyped, SyncFields, Zenon
<1>7. sync' = [sync EXCEPT ![k] = n]
    BY <1>1, <1>2, <1>4 DEF SyncInv
<1>8. Becomes(k, n.pc, n.legs, n.hist, n.obs) /\ sync'[k] = n
    BY <1>6, <1>7, Assigned
<1> QED
    BY <1>1, <1>3, <1>6, <1>8

\* And of the wallet.
LEMMA WalletRead ==
    ASSUME SyncInv, NEW k \in Syncs, NEW v \in SUBSET Nat,
           sync' = [sync EXCEPT ![k].pc = "plan", ![k].obs = v]
    PROVE  Becomes(k, "plan", sync[k].legs, sync[k].hist, v)
<1>1. PICK m \in SyncState : m = sync[k]
    BY DEF SyncInv
<1>2. PICK m1 : m1 = [m EXCEPT !.pc = "plan"]
    OBVIOUS
<1>3. /\ m1 \in SyncState /\ m1.pc = "plan" /\ m1.legs = m.legs
      /\ m1.hist = m.hist /\ m1.obs = m.obs /\ m1.busy = m.busy
    BY <1>2, StepChanged DEF SyncPcs
<1>4. PICK n : n = [m1 EXCEPT !.obs = v]
    OBVIOUS
<1>5. n = [pc |-> m1.pc, legs |-> m1.legs, hist |-> m1.hist, obs |-> v, busy |-> m1.busy]
    BY <1>3, <1>4, SyncTyped DEF SyncState
<1>6. n \in SyncState /\ n.pc = m1.pc /\ n.legs = m1.legs /\ n.hist = m1.hist /\ n.obs = v /\ n.busy = m1.busy
    BY <1>3, <1>5, SyncTyped, SyncFields, Zenon
<1>7. sync' = [sync EXCEPT ![k] = n]
    BY <1>1, <1>2, <1>4 DEF SyncInv
<1>8. Becomes(k, n.pc, n.legs, n.hist, n.obs) /\ sync'[k] = n
    BY <1>6, <1>7, Assigned
<1> QED
    BY <1>1, <1>3, <1>6, <1>8

\* And of the marks of swaps in flight.
LEMMA BusyRead ==
    ASSUME SyncInv, NEW k \in Syncs, NEW v \in BOOLEAN,
           sync' = [sync EXCEPT ![k].pc = "apply", ![k].busy = v]
    PROVE  Becomes(k, "apply", sync[k].legs, sync[k].hist, sync[k].obs) /\ sync'[k].busy = v
<1>1. PICK m \in SyncState : m = sync[k]
    BY DEF SyncInv
<1>2. PICK m1 : m1 = [m EXCEPT !.pc = "apply"]
    OBVIOUS
<1>3. /\ m1 \in SyncState /\ m1.pc = "apply" /\ m1.legs = m.legs
      /\ m1.hist = m.hist /\ m1.obs = m.obs /\ m1.busy = m.busy
    BY <1>2, StepChanged DEF SyncPcs
<1>4. PICK n : n = [m1 EXCEPT !.busy = v]
    OBVIOUS
<1>5. n = [pc |-> m1.pc, legs |-> m1.legs, hist |-> m1.hist, obs |-> m1.obs, busy |-> v]
    BY <1>3, <1>4, SyncTyped DEF SyncState
<1>6. n \in SyncState /\ n.pc = m1.pc /\ n.legs = m1.legs /\ n.hist = m1.hist /\ n.obs = m1.obs /\ n.busy = v
    BY <1>3, <1>5, SyncTyped, SyncFields, Zenon
<1>7. sync' = [sync EXCEPT ![k] = n]
    BY <1>1, <1>2, <1>4 DEF SyncInv
<1>8. Becomes(k, n.pc, n.legs, n.hist, n.obs) /\ sync'[k] = n
    BY <1>6, <1>7, Assigned
<1> QED
    BY <1>1, <1>3, <1>6, <1>8

-----------------------------------------------------------------------------
(* The chain, its records and the trader.                                   *)

\* A transaction lands, or the chain is as it was.
Grows == (\E k \in Kinds : Len(txs) < MaxTx /\ txs' = Append(txs, k)) \/ txs' = txs

\* No transaction is taken back.
LEMMA TransactionsGrow ==
    ASSUME Next, ChainInv
    PROVE  Grows /\ doubt' = doubt
<1>1. CASE OutsideTrade \/ Land
    BY <1>1 DEF OutsideTrade, Land, Grows, Kinds
<1>2. ASSUME NEW i \in Landed, WatchStores(i) \/ WatchStoresDeltas(i) \/ Activity(i)
      PROVE  Grows /\ doubt' = doubt
    BY <1>2 DEF WatchStores, WatchStoresDeltas, Activity, Grows
<1>3. CASE Send \/ Verify \/ Book \/ Clear \/ LoadStarts \/ LoadRepairs
    BY <1>3 DEF Send, Verify, Book, Clear, LoadStarts, LoadRepairs, Grows
<1>4. ASSUME NEW k, SyncStep(k)
      PROVE  Grows /\ doubt' = doubt
    BY <1>4 DEF SyncStep, TakeGap, Fill, ReadLegs, ReadHistory, ReadHistoryFails, ReadWallet, Plan, ReadBusy,
               Apply, Grows
<1>5. ASSUME NEW k \in Tasks, Debounced(k) \/ Locks(k)
      PROVE  Grows /\ doubt' = doubt
    BY <1>5 DEF Debounced, Locks, Grows
<1> QED
    BY <1>1, <1>2, <1>3, <1>4, <1>5 DEF Next, TaskStep

\* Those that landed before stay landed, of the same kind.
LEMMA LandedStays ==
    ASSUME ChainInv, Grows
    PROVE  /\ txs' \in Seq(Kinds) /\ Len(txs') <= MaxTx
           /\ Landed \subseteq Landed' /\ Landed' \subseteq 1 .. MaxTx
           /\ \A i \in Landed : txs'[i] = txs[i] /\ (IsBot(i)' <=> IsBot(i))
<1>1. CASE \E k \in Kinds : Len(txs) < MaxTx /\ txs' = Append(txs, k)
    <2>1. PICK k \in Kinds : Len(txs) < MaxTx /\ txs' = Append(txs, k)
        BY <1>1
    <2>2. Len(txs') <= MaxTx
        BY <2>1, LandsLast, LedgerConstants DEF LedgerConstants
    <2>3. Landed' \subseteq 1 .. MaxTx
        BY <2>1, <2>2, LandsLast, LedgerConstants DEF Landed, LedgerConstants
    <2> QED
        BY <2>1, <2>2, <2>3, LandsLast
<1>2. CASE txs' = txs
    BY <1>2, LedgerConstants DEF ChainInv, Landed, IsBot, LedgerConstants
<1> QED
    BY <1>1, <1>2 DEF Grows

\* The records of the chain.
RecordInv ==
    /\ deltas \subseteq processed /\ processed \subseteq Landed
    /\ recording \subseteq processed /\ watched \subseteq processed /\ recording \cap watched = {}
    /\ gap \in BOOLEAN
    /\ "history" \notin doubt => deltas = processed

\* A step that leaves the records alone, or only notes or takes the gap.
LEMMA RecordFrame ==
    ASSUME ChainInv, Grows, UNCHANGED <<doubt, processed, deltas, recording, watched>>, gap' \in BOOLEAN
    PROVE  RecordInv'
BY LandedStays DEF ChainInv, RecordInv

\* What is processed was landed, and stays processed.
LEMMA ChainKept ==
    ASSUME Next, ChainInv, TraderInv
    PROVE  ChainInv' /\ processed \subseteq processed'
<1>1. Grows /\ doubt' = doubt
    BY TransactionsGrow
<1>2. ASSUME OutsideTrade \/ Send \/ Land \/ Book \/ Clear \/ LoadStarts
      PROVE  RecordInv' /\ processed \subseteq processed'
    BY <1>1, <1>2, RecordFrame DEF OutsideTrade, Send, Land, Book, Clear, LoadStarts, records, ChainInv
<1>3. ASSUME NEW i \in Landed, WatchStores(i)
      PROVE  RecordInv' /\ processed \subseteq processed'
    BY <1>1, <1>3, LandedStays DEF WatchStores, RecordInv, ChainInv
<1>4. ASSUME NEW i \in Landed, WatchStoresDeltas(i)
      PROVE  RecordInv' /\ processed \subseteq processed'
    BY <1>1, <1>4, LandedStays DEF WatchStoresDeltas, RecordInv, ChainInv
<1>5. ASSUME NEW i \in Landed, Activity(i)
      PROVE  RecordInv' /\ processed \subseteq processed'
    BY <1>1, <1>5, RecordFrame DEF Activity, records, ChainInv
<1>6. ASSUME Verify
      PROVE  RecordInv' /\ processed \subseteq processed'
    <2>1. trader.tx \in Landed
        BY <1>6 DEF Verify, TraderInv
    <2>2. processed' = processed \cup {trader.tx} /\ UNCHANGED <<recording, watched>>
        BY <1>6 DEF Verify
    <2>3. \/ trader.tx \in processed /\ deltas' = deltas /\ gap' = gap
          \/ deltas' = deltas \cup {trader.tx} /\ gap' = gap
          \/ "history" \in doubt /\ deltas' = deltas /\ gap' = TRUE
        BY <1>6 DEF Verify
    <2> QED
        BY <1>1, <2>1, <2>2, <2>3, LandedStays DEF RecordInv, ChainInv
<1>7. ASSUME LoadRepairs
      PROVE  RecordInv' /\ processed \subseteq processed'
    <2>1. (deltas' = processed \/ deltas' = deltas) /\ gap' \in BOOLEAN /\ UNCHANGED <<processed, recording, watched>>
        BY <1>7 DEF LoadRepairs, ChainInv
    <2> QED
        BY <1>1, <2>1, LandedStays DEF RecordInv, ChainInv
<1>8. ASSUME NEW k, TakeGap(k) \/ ReadLegs(k) \/ ReadHistory(k) \/ ReadHistoryFails(k) \/ ReadWallet(k)
                    \/ Plan(k) \/ ReadBusy(k) \/ Apply(k)
      PROVE  RecordInv' /\ processed \subseteq processed'
    <2>1. UNCHANGED <<processed, deltas, recording, watched>> /\ gap' \in BOOLEAN
        BY <1>8 DEF TakeGap, ReadLegs, ReadHistory, ReadHistoryFails, ReadWallet, Plan, ReadBusy, Apply,
                    records, ChainInv
    <2> QED
        BY <1>1, <2>1, RecordFrame
<1>9. ASSUME NEW k, Fill(k)
      PROVE  RecordInv' /\ processed \subseteq processed'
    <2>1. (deltas' = processed \/ deltas' = deltas) /\ gap' \in BOOLEAN /\ UNCHANGED <<processed, recording, watched>>
        BY <1>9 DEF Fill, ChainInv
    <2> QED
        BY <1>1, <2>1, LandedStays DEF RecordInv, ChainInv
<1>10. ASSUME NEW k \in Tasks, Debounced(k) \/ Locks(k)
      PROVE  RecordInv' /\ processed \subseteq processed'
    BY <1>1, <1>10, RecordFrame DEF Debounced, Locks, records, ChainInv
<1>11. RecordInv' /\ processed \subseteq processed'
    BY <1>2, <1>3, <1>4, <1>5, <1>6, <1>7, <1>8, <1>9, <1>10 DEF Next, TaskStep, SyncStep
<1> QED
    BY <1>1, <1>11, LandedStays DEF ChainInv, RecordInv

\* The booked legs grow, and only of what is processed.
LEMMA LegsGrow ==
    ASSUME Next
    PROVE  legs' = legs \/ Book
<1>1. CASE OutsideTrade \/ Send \/ Land \/ Verify \/ Clear \/ LoadStarts \/ LoadRepairs
    BY <1>1 DEF OutsideTrade, Send, Land, Verify, Clear, LoadStarts, LoadRepairs, books
<1>2. ASSUME NEW i \in Landed, WatchStores(i) \/ WatchStoresDeltas(i) \/ Activity(i)
      PROVE  legs' = legs
    BY <1>2 DEF WatchStores, WatchStoresDeltas, Activity, books
<1>3. ASSUME NEW k, SyncStep(k)
      PROVE  legs' = legs
    BY <1>3 DEF SyncStep, TakeGap, Fill, ReadLegs, ReadHistory, ReadHistoryFails, ReadWallet, Plan, ReadBusy,
               Apply, books
<1>4. ASSUME NEW k \in Tasks, Debounced(k) \/ Locks(k)
      PROVE  legs' = legs
    BY <1>4 DEF Debounced, Locks, books
<1> QED
    BY <1>1, <1>2, <1>3, <1>4 DEF Next, TaskStep

\* What the trader is at.
LEMMA TraderFields ==
    ASSUME NEW pc \in TraderPcs, NEW t \in Nat
    PROVE  /\ [pc |-> pc, tx |-> t] \in [pc : TraderPcs, tx : Nat]
           /\ [pc |-> pc, tx |-> t].pc = pc /\ [pc |-> pc, tx |-> t].tx = t
BY Zenon

\* The trader is at another step.
LEMMA TraderMoves ==
    ASSUME trader \in [pc : TraderPcs, tx : Nat], NEW pc \in TraderPcs, trader' = [trader EXCEPT !.pc = pc]
    PROVE  trader' \in [pc : TraderPcs, tx : Nat] /\ trader'.pc = pc /\ trader'.tx = trader.tx
<1>1. trader' = [pc |-> pc, tx |-> trader.tx] /\ trader.tx \in Nat
    OBVIOUS
<1> QED
    BY <1>1, TraderFields

\* The trader has one swap under way, and books what landed.
LEMMA TraderKept ==
    ASSUME Next, ChainInv, TraderInv
    PROVE  TraderInv'
<1>1. /\ Grows /\ ChainInv' /\ processed \subseteq processed'
      /\ Landed \subseteq Landed' /\ \A i \in Landed : IsBot(i)' <=> IsBot(i)
      /\ Len(txs) \in Nat /\ processed \subseteq Landed
    BY TransactionsGrow, ChainKept, LandedStays DEF ChainInv
<1>2. CASE OutsideTrade
    <2>1. PICK k \in {"buy", "sell"} : Len(txs) < MaxTx /\ txs' = Append(txs, k)
        BY <1>2 DEF OutsideTrade
    <2> PICK n : n = Len(txs) + 1
        OBVIOUS
    <2>2. Landed' = Landed \cup {n} /\ txs'[n] = k /\ Len(txs') = n
        BY <2>1, LandsLast DEF Kinds
    <2>3. ~ IsBot(n)'
        BY <2>1, <2>2 DEF IsBot
    <2>4. UNCHANGED <<trader, legs>>
        BY <1>2 DEF OutsideTrade, books
    <2>5. Pending' = Pending
        BY <2>4 DEF Pending
    <2>6. \A i \in Landed' : IsBot(i)' => i \in Landed /\ IsBot(i)
        BY <1>1, <2>2, <2>3
    <2>7. trader'.tx <= Len(txs')
        BY <1>1, <2>2, <2>4 DEF TraderInv
    <2>8. \A i \in legs' : IsBot(i)'
        BY <1>1, <2>4 DEF TraderInv
    <2>9. \A i \in Landed' : IsBot(i)' => i \in legs' \/ i \in Pending'
        BY <2>4, <2>5, <2>6 DEF TraderInv
    <2> QED
        BY <1>1, <2>4, <2>7, <2>8, <2>9 DEF TraderInv
<1>3. CASE Land
    <2>1. PICK k \in {"dca", "sale"} : Len(txs) < MaxTx /\ txs' = Append(txs, k)
        BY <1>3 DEF Land
    <2> PICK n : n = Len(txs) + 1
        OBVIOUS
    <2>2. /\ Landed' = Landed \cup {n} /\ txs'[n] = k /\ Len(txs') = n /\ n \notin Landed /\ n \in Nat
        BY <1>1, <2>1, LandsLast DEF Kinds
    <2>3. IsBot(n)'
        BY <2>1, <2>2 DEF IsBot
    <2>4. trader.pc = "sent" /\ trader' = [pc |-> "landed", tx |-> n] /\ UNCHANGED legs
        BY <1>3 DEF Land, books
    <2>5. trader' \in [pc : TraderPcs, tx : Nat] /\ trader'.pc = "landed" /\ trader'.tx = n
        BY <2>2, <2>4, TraderFields DEF TraderPcs
    <2>6. Pending' = {n} /\ Pending = {}
        BY <2>4, <2>5 DEF Pending
    <2>7. n \notin legs'
        BY <1>1, <2>2, <2>4 DEF TraderInv
    <2>8. \A i \in Landed' : IsBot(i)' => i \in legs' \/ i \in Pending'
        BY <1>1, <2>2, <2>4, <2>6 DEF TraderInv
    <2>9. \A i \in legs' : IsBot(i)'
        BY <1>1, <2>4 DEF TraderInv
    <2> QED
        BY <1>1, <2>2, <2>3, <2>4, <2>5, <2>7, <2>8, <2>9 DEF TraderInv
<1>4. CASE Send \/ Clear
    <2>1. /\ UNCHANGED <<txs, legs>>
          /\ \E pc \in TraderPcs : pc \in {"sent", "idle"} /\ trader' = [pc |-> pc, tx |-> 0]
          /\ trader.pc \notin {"landed", "verified"}
        BY <1>4 DEF Send, Clear, books, TraderPcs
    <2>2. trader' \in [pc : TraderPcs, tx : Nat] /\ trader'.pc \in {"sent", "idle"} /\ trader'.tx = 0
        BY <2>1, TraderFields
    <2>3. Pending = {} /\ Pending' = {} /\ Landed' = Landed /\ Len(txs') = Len(txs)
        BY <2>1, <2>2 DEF Pending, Landed
    <2>4. \A i \in Landed' : IsBot(i)' => i \in legs' \/ i \in Pending'
        BY <1>1, <2>1, <2>3 DEF TraderInv
    <2>5. \A i \in legs' : IsBot(i)'
        BY <1>1, <2>1 DEF TraderInv
    <2> QED
        BY <1>1, <2>1, <2>2, <2>3, <2>4, <2>5 DEF TraderInv
<1>5. CASE Verify
    <2>1. /\ UNCHANGED <<txs, legs>> /\ trader.pc = "landed" /\ trader' = [trader EXCEPT !.pc = "verified"]
          /\ trader.tx \in processed'
        BY <1>5 DEF Verify, books
    <2>2. trader' \in [pc : TraderPcs, tx : Nat] /\ trader'.pc = "verified" /\ trader'.tx = trader.tx
        BY <2>1, TraderMoves DEF TraderInv, TraderPcs
    <2>3. Pending' = Pending /\ Landed' = Landed /\ Len(txs') = Len(txs)
        BY <2>1, <2>2 DEF Pending, Landed
    <2>4. \A i \in Landed' : IsBot(i)' => i \in legs' \/ i \in Pending'
        BY <1>1, <2>1, <2>3 DEF TraderInv
    <2>5. \A i \in legs' : IsBot(i)'
        BY <1>1, <2>1 DEF TraderInv
    <2> PICK t : t = trader.tx
        OBVIOUS
    <2>6. t \in Landed /\ t \in Landed' /\ IsBot(t) /\ t \notin legs'
        BY <2>1, <2>3 DEF TraderInv
    <2>7. IsBot(t)'
        BY <1>1, <2>6
    <2>8. IsBot(trader.tx)'
        BY <2>2, <2>7
    <2> QED
        BY <1>1, <2>1, <2>2, <2>3, <2>4, <2>5, <2>6, <2>8 DEF TraderInv
<1>6. CASE Book
    <2>1. /\ UNCHANGED txs /\ trader.pc = "verified" /\ trader' = [trader EXCEPT !.pc = "booked"]
          /\ legs' = legs \cup {trader.tx}
        BY <1>6 DEF Book
    <2>2. trader' \in [pc : TraderPcs, tx : Nat] /\ trader'.pc = "booked" /\ trader'.tx = trader.tx
        BY <2>1, TraderMoves DEF TraderInv, TraderPcs
    <2>3. Pending' = {} /\ Pending = {trader.tx} /\ Landed' = Landed /\ Len(txs') = Len(txs)
        BY <2>1, <2>2 DEF Pending, Landed
    <2>4. \A i \in Landed' : IsBot(i)' => i \in legs' \/ i \in Pending'
        BY <1>1, <2>1, <2>3 DEF TraderInv
    <2>5. \A i \in legs' : IsBot(i)'
        BY <1>1, <2>1 DEF TraderInv
    <2>6. legs' \subseteq processed'
        BY <1>1, <2>1 DEF TraderInv
    <2> QED
        BY <1>1, <2>1, <2>2, <2>3, <2>4, <2>5, <2>6 DEF TraderInv
<1>7. ASSUME UNCHANGED <<txs, trader, legs>>
      PROVE  TraderInv'
    <2>1. Pending' = Pending /\ Landed' = Landed
        BY <1>7 DEF Pending, Landed
    <2>2. \A i \in Landed' : IsBot(i)' => i \in legs' \/ i \in Pending'
        BY <1>1, <1>7, <2>1 DEF TraderInv
    <2>3. \A i \in legs' : IsBot(i)'
        BY <1>1, <1>7 DEF TraderInv
    <2>4. trader'.pc \in {"landed", "verified"} =>
            trader'.tx \in Landed' /\ IsBot(trader.tx)' /\ trader'.tx \notin legs'
        BY <1>7, <2>1 DEF TraderInv, IsBot
    <2> QED
        BY <1>1, <1>7, <2>1, <2>2, <2>3, <2>4 DEF TraderInv
<1>8. ASSUME NEW i \in Landed, WatchStores(i) \/ WatchStoresDeltas(i) \/ Activity(i)
      PROVE  UNCHANGED <<txs, trader, legs>>
    BY <1>8 DEF WatchStores, WatchStoresDeltas, Activity, books
<1>9. ASSUME NEW k, SyncStep(k)
      PROVE  UNCHANGED <<txs, trader, legs>>
    BY <1>9 DEF SyncStep, TakeGap, Fill, ReadLegs, ReadHistory, ReadHistoryFails, ReadWallet, Plan, ReadBusy,
               Apply, books
<1>10. ASSUME NEW k \in Tasks, Debounced(k) \/ Locks(k)
      PROVE  UNCHANGED <<txs, trader, legs>>
    BY <1>10 DEF Debounced, Locks, books
<1>11. CASE LoadStarts \/ LoadRepairs
    BY <1>7, <1>11 DEF LoadStarts, LoadRepairs, books
<1> QED
    BY <1>2, <1>3, <1>4, <1>5, <1>6, <1>7, <1>8, <1>9, <1>10, <1>11 DEF Next, TaskStep

-----------------------------------------------------------------------------
(* What the syncs have read.                                                *)

\* The steps before the history is read, and those at which a sync has nothing to write.
Early == {"debounce", "lock", "gap", "fill", "legs", "history"}
Before == Early \cup {"none", "repair"}

\* No leg is taken back.
LEMMA LegsStay ==
    ASSUME Next
    PROVE  legs \subseteq legs'
BY LegsGrow DEF Book

\* A sync that does not move still has reads of the chain.
LEMMA OtherSync ==
    ASSUME ChainInv, SyncInv, Grows, doubt' = doubt, legs \subseteq legs',
           NEW j \in Syncs, sync'[j] = sync[j]
    PROVE  SyncOK(j)'
<1>1. /\ sync[j].legs \subseteq legs /\ sync[j].hist \subseteq Landed /\ sync[j].obs \subseteq Landed
      /\ sync[j].pc \in {"wallet", "plan", "busy", "apply"} /\ "history" \notin doubt =>
           sync[j].legs \subseteq sync[j].hist
      /\ sync[j].pc \in {"plan", "busy", "apply"} /\ doubt # {"history", "wallet"} =>
           sync[j].legs \subseteq sync[j].obs
      /\ sync[j].pc = "apply" /\ ~ sync[j].busy =>
           \A i \in sync[j].hist \cup sync[j].obs : IsBot(i) => i \in legs
    BY DEF SyncInv, SyncOK
<1>2. Landed \subseteq Landed' /\ \A i \in Landed : IsBot(i)' <=> IsBot(i)
    BY LandedStays
<1>3. sync[j].pc = "apply" /\ ~ sync[j].busy =>
        \A i \in sync[j].hist \cup sync[j].obs : IsBot(i)' => i \in legs'
    BY <1>1, <1>2
<1> QED
    BY <1>1, <1>2, <1>3 DEF SyncOK

\* One sync moves: its own reads are what remains to be shown.
LEMMA OneSync ==
    ASSUME ChainInv, SyncInv, Grows, doubt' = doubt, legs \subseteq legs',
           NEW k \in Syncs, NEW pc, NEW lg, NEW h, NEW o, Becomes(k, pc, lg, h, o), SyncOK(k)'
    PROVE  SyncInv'
<1>1. ASSUME NEW j \in Syncs PROVE SyncOK(j)'
    <2>1. CASE j = k
        BY <2>1
    <2>2. CASE j # k
        BY <2>2, OtherSync DEF Becomes
    <2> QED
        BY <2>1, <2>2
<1>2. sync' \in [Syncs -> SyncState]
    BY DEF Becomes
<1> QED
    BY <1>1, <1>2 DEF SyncInv

\* A sync that has read nothing yet that it would write.
LEMMA EarlySync ==
    ASSUME ChainInv, SyncInv, Grows, doubt' = doubt, legs \subseteq legs', NEW k \in Syncs,
           NEW pc \in Before, NEW lg \in SUBSET legs, NEW h \in SUBSET Landed, NEW o \in SUBSET Landed,
           Becomes(k, pc, lg, h, o)
    PROVE  SyncInv'
<1>1. Landed \subseteq Landed'
    BY LandedStays
<1>2. SyncOK(k)'
    BY <1>1 DEF Becomes, SyncOK, Before, Early
<1> QED
    BY <1>2, OneSync

\* What a sync carries.
LEMMA Carries ==
    ASSUME SyncInv, NEW k \in Syncs
    PROVE  sync[k].legs \in SUBSET legs /\ sync[k].hist \in SUBSET Landed /\ sync[k].obs \in SUBSET Landed
BY DEF SyncInv, SyncOK

\* A step before the plan reads nothing of the books.
LEMMA GoEarly ==
    ASSUME ChainInv, SyncInv, Grows, doubt' = doubt, legs \subseteq legs', NEW k \in Syncs,
           NEW pc \in Before, Go(k, pc)
    PROVE  SyncInv'
<1>1. pc \in SyncPcs
    BY DEF Before, Early, SyncPcs
<1> QED
    BY <1>1, GoBecomes, Carries, EarlySync

\* A sync that has ended carries nothing.
LEMMA EndsEarly ==
    ASSUME ChainInv, SyncInv, Grows, doubt' = doubt, legs \subseteq legs', NEW k \in Syncs,
           sync' = [sync EXCEPT ![k] = NoSync]
    PROVE  SyncInv'
<1>1. Becomes(k, "none", {}, {}, {}) /\ "none" \in Before
    BY EndsBecomes DEF Before
<1> QED
    BY <1>1, EarlySync

\* ReadLegs reads legs there are.
LEMMA LegsReadKept ==
    ASSUME ChainInv, SyncInv, Grows, doubt' = doubt, TraderInv, NEW k \in Syncs, ReadLegs(k)
    PROVE  SyncInv' /\ StepsTo(k, "history")
<1>1. PICK seen \in {legs, {}} : sync' = [sync EXCEPT ![k].pc = "history", ![k].legs = seen]
    BY DEF ReadLegs
<1>2. seen \in SUBSET legs /\ seen \in SUBSET Nat /\ "history" \in Before
    BY DEF Before, Early, TraderInv, ChainInv, Landed
<1>3. Becomes(k, "history", seen, sync[k].hist, sync[k].obs)
    BY <1>1, <1>2, LegsRead
<1>4. legs' = legs
    BY DEF ReadLegs, books
<1>5. SyncInv'
    BY <1>2, <1>3, <1>4, Carries, EarlySync
<1> QED
    BY <1>3, <1>5, BecomesSteps

\* ReadHistory reads after the legs, so the legs are in it unless the history is behind.
LEMMA HistoryReadKept ==
    ASSUME ChainInv, SyncInv, Grows, doubt' = doubt, TraderInv, NEW k \in Syncs, ReadHistory(k)
    PROVE  SyncInv' /\ StepsTo(k, "wallet")
<1>1. sync' = [sync EXCEPT ![k].pc = "wallet", ![k].hist = deltas] /\ legs' = legs /\ Landed' = Landed
    BY DEF ReadHistory, books, Landed
<1>2. deltas \in SUBSET Nat /\ deltas \subseteq Landed
    BY DEF ChainInv, Landed
<1>3. Becomes(k, "wallet", sync[k].legs, deltas, sync[k].obs)
    BY <1>1, <1>2, HistoryRead
<1>4. "history" \notin doubt => sync[k].legs \subseteq deltas
    BY Carries DEF ChainInv, TraderInv
<1>5. SyncOK(k)'
    BY <1>1, <1>2, <1>3, <1>4, Carries DEF Becomes, SyncOK
<1>6. SyncInv'
    BY <1>1, <1>3, <1>5, OneSync
<1> QED
    BY <1>3, <1>6, BecomesSteps

\* ReadWallet likewise.
LEMMA WalletReadKept ==
    ASSUME ChainInv, SyncInv, Grows, doubt' = doubt, TraderInv, NEW k \in Syncs, ReadWallet(k)
    PROVE  SyncInv' /\ StepsTo(k, "plan")
<1>1. /\ sync[k].pc = "wallet" /\ legs' = legs /\ Landed' = Landed
      /\ \E slot \in IF "wallet" \in doubt THEN 0 .. Len(txs) ELSE {Len(txs)} :
          LET hist == sync[k].hist
              behind == \E i \in hist : i > slot
              unread == "wallet" \in doubt /\ slot = 0
          IN  sync' = [sync EXCEPT ![k].pc = "plan",
                                   ![k].obs = IF behind \/ unread THEN hist ELSE 1 .. slot]
    BY DEF ReadWallet, books, Landed
<1>2. PICK hist, slot, o :
         /\ hist = sync[k].hist
         /\ slot \in IF "wallet" \in doubt THEN 0 .. Len(txs) ELSE {Len(txs)}
         /\ o = IF (\E i \in hist : i > slot) \/ ("wallet" \in doubt /\ slot = 0) THEN hist ELSE 1 .. slot
         /\ sync' = [sync EXCEPT ![k].pc = "plan", ![k].obs = o]
    <2>1. PICK hist : hist = sync[k].hist
        OBVIOUS
    <2>2. PICK slot \in IF "wallet" \in doubt THEN 0 .. Len(txs) ELSE {Len(txs)} :
             sync' = [sync EXCEPT ![k].pc = "plan",
                        ![k].obs = IF (\E i \in hist : i > slot) \/ ("wallet" \in doubt /\ slot = 0)
                                   THEN hist ELSE 1 .. slot]
        BY <1>1, <2>1
    <2>3. PICK o : o = IF (\E i \in hist : i > slot) \/ ("wallet" \in doubt /\ slot = 0)
                       THEN hist ELSE 1 .. slot
        OBVIOUS
    <2>4. sync' = [sync EXCEPT ![k].pc = "plan", ![k].obs = o]
        BY <2>2, <2>3
    <2> QED
        BY <2>1, <2>2, <2>3, <2>4
<1>3. Len(txs) \in Nat /\ slot \in 0 .. Len(txs) /\ hist \subseteq Landed /\ sync[k].legs \subseteq Landed
    BY <1>2, Carries DEF ChainInv, TraderInv
<1>4. o \subseteq Landed /\ o \in SUBSET Nat
    BY <1>2, <1>3 DEF Landed
<1>5. Becomes(k, "plan", sync[k].legs, hist, o)
    BY <1>2, <1>4, WalletRead
<1>6. "history" \notin doubt => sync[k].legs \subseteq hist
    BY <1>1, <1>2 DEF SyncInv, SyncOK
<1>7. hist \subseteq o
    BY <1>2, <1>3 DEF Landed
<1>8. doubt # {"history", "wallet"} => sync[k].legs \subseteq o
    <2>1. CASE "history" \notin doubt
        BY <1>6, <1>7, <2>1
    <2>2. CASE "wallet" \notin doubt
        <3>1. slot = Len(txs)
            BY <1>2, <2>2
        <3>2. ~ (\E i \in hist : i > slot)
            BY <1>3, <3>1 DEF Landed
        <3>3. o = Landed
            BY <1>2, <2>2, <3>1, <3>2 DEF Landed
        <3> QED
            BY <1>3, <3>3
    <2>3. "history" \in doubt /\ "wallet" \in doubt => doubt = {"history", "wallet"}
        BY LedgerConstants DEF ChainInv, LedgerConstants
    <2> QED
        BY <2>1, <2>2, <2>3
<1>9. SyncOK(k)'
    BY <1>1, <1>3, <1>4, <1>5, <1>6, <1>8, Carries DEF Becomes, SyncOK
<1>10. SyncInv'
    BY <1>1, <1>5, <1>9, OneSync
<1> QED
    BY <1>5, <1>10, BecomesSteps

\* Plan goes on with what was read.
LEMMA PlanKept ==
    ASSUME ChainInv, SyncInv, Grows, doubt' = doubt, TraderInv, NEW k \in Syncs, Plan(k)
    PROVE  SyncInv'
<1>1. legs' = legs /\ Landed' = Landed /\ sync[k].pc = "plan"
    BY DEF Plan, books, Landed
<1>2. CASE Ends(k)
    BY <1>1, <1>2, EndsEarly DEF Ends
<1>3. CASE Go(k, "busy")
    <2>1. Becomes(k, "busy", sync[k].legs, sync[k].hist, sync[k].obs)
        BY <1>3, GoBecomes DEF SyncPcs
    <2>2. SyncOK(k)
        BY DEF SyncInv
    <2>3. SyncOK(k)'
        BY <1>1, <2>1, <2>2 DEF Becomes, SyncOK
    <2> QED
        BY <1>1, <2>1, <2>3, OneSync
<1> QED
    BY <1>2, <1>3 DEF Plan

\* No mark of a swap in flight: every transaction of the bot that landed is a booked leg.
LEMMA BusyReadKept ==
    ASSUME ChainInv, SyncInv, Grows, doubt' = doubt, TraderInv, NEW k \in Syncs, ReadBusy(k)
    PROVE  SyncInv' /\ StepsTo(k, "apply")
<1>1. /\ legs' = legs /\ Landed' = Landed /\ txs' = txs /\ sync[k].pc = "busy"
      /\ sync' = [sync EXCEPT ![k].pc = "apply", ![k].busy = Busy]
    BY DEF ReadBusy, books, Landed
<1>2. Busy \in BOOLEAN
    BY DEF Busy
<1>3. Becomes(k, "apply", sync[k].legs, sync[k].hist, sync[k].obs) /\ sync'[k].busy = Busy
    <2>1. PICK b \in BOOLEAN : b = Busy
        BY <1>2
    <2>2. sync' = [sync EXCEPT ![k].pc = "apply", ![k].busy = b]
        BY <1>1, <2>1
    <2> QED
        BY <2>1, <2>2, BusyRead
<1>4. ~ Busy => \A i \in Landed : IsBot(i) => i \in legs
    BY DEF Busy, Pending, TraderInv
<1>5. \A i : IsBot(i)' <=> IsBot(i)
    BY <1>1 DEF IsBot
<1>6. SyncOK(k)
    BY DEF SyncInv
<1>7. /\ sync'[k].pc = "apply" /\ sync'[k].legs = sync[k].legs /\ sync'[k].hist = sync[k].hist
      /\ sync'[k].obs = sync[k].obs
    BY <1>3 DEF Becomes
<1>8. sync'[k].pc = "apply" /\ ~ sync'[k].busy =>
        \A i \in sync'[k].hist \cup sync'[k].obs : IsBot(i)' => i \in legs'
    BY <1>1, <1>3, <1>4, <1>5, <1>7, Carries
<1>9. /\ sync[k].legs \subseteq legs /\ sync[k].hist \subseteq Landed /\ sync[k].obs \subseteq Landed
      /\ "history" \notin doubt => sync[k].legs \subseteq sync[k].hist
      /\ doubt # {"history", "wallet"} => sync[k].legs \subseteq sync[k].obs
    BY <1>1, <1>6 DEF SyncOK
<1>10. SyncOK(k)'
    BY <1>1, <1>7, <1>8, <1>9 DEF SyncOK
<1>11. SyncInv'
    BY <1>1, <1>3, <1>10, OneSync
<1> QED
    BY <1>3, <1>11, BecomesSteps

\* Every step keeps what the syncs have read in order.
LEMMA SyncKept ==
    ASSUME Next, ChainInv, TraderInv, SyncInv
    PROVE  SyncInv'
<1>1. Grows /\ doubt' = doubt /\ legs \subseteq legs'
    BY TransactionsGrow, LegsStay
<1>2. ASSUME sync' = sync PROVE SyncInv'
    <2>1. \A j \in Syncs : SyncOK(j)'
        BY <1>1, <1>2, OtherSync
    <2> QED
        BY <1>2, <2>1 DEF SyncInv
<1>3. CASE OutsideTrade \/ Send \/ Land \/ Verify \/ Book \/ Clear
    BY <1>2, <1>3 DEF OutsideTrade, Send, Land, Verify, Book, Clear, resync
<1>4. ASSUME NEW i \in Landed, WatchStores(i) \/ WatchStoresDeltas(i) PROVE SyncInv'
    BY <1>2, <1>4 DEF WatchStores, WatchStoresDeltas, resync
<1>5. Tasks \subseteq Syncs /\ "load" \in Syncs
      /\ {"debounce", "lock", "gap", "repair", "fill", "legs"} \subseteq Before
    BY DEF Syncs, Before, Early
<1>6. ASSUME NEW i \in Landed, Activity(i) PROVE SyncInv'
    <2>1. sync' = sync \/ \E k \in Tasks : Go(k, "debounce")
        BY <1>6 DEF Activity, Go
    <2> QED
        BY <1>1, <1>2, <1>5, <2>1, GoEarly
<1>7. ASSUME NEW k \in Tasks, Debounced(k) \/ Locks(k) PROVE SyncInv'
    <2>1. \E pc \in Before : Go(k, pc)
        BY <1>5, <1>7 DEF Debounced, Locks
    <2> QED
        BY <1>1, <1>5, <2>1, GoEarly
<1>8. CASE LoadStarts \/ LoadRepairs
    <2>1. \E pc \in Before : Go("load", pc)
        BY <1>5, <1>8 DEF LoadStarts, LoadRepairs
    <2> QED
        BY <1>1, <1>5, <2>1, GoEarly
<1>9. ASSUME NEW k \in Syncs, TakeGap(k) \/ Fill(k) \/ ReadHistoryFails(k) \/ Apply(k) PROVE SyncInv'
    <2>1. (\E pc \in Before : Go(k, pc)) \/ sync' = [sync EXCEPT ![k] = NoSync]
        BY <1>5, <1>9 DEF TakeGap, Fill, ReadHistoryFails, Apply, Ends
    <2> QED
        BY <1>1, <2>1, GoEarly, EndsEarly
<1>10. ASSUME NEW k \in Syncs, ReadLegs(k) \/ ReadHistory(k) \/ ReadWallet(k) \/ Plan(k) \/ ReadBusy(k) PROVE SyncInv'
    BY <1>1, <1>10, LegsReadKept, HistoryReadKept, WalletReadKept, PlanKept, BusyReadKept
<1> QED
    BY <1>3, <1>4, <1>5, <1>6, <1>7, <1>8, <1>9, <1>10 DEF Next, TaskStep, SyncStep

-----------------------------------------------------------------------------
(* The resyncs.                                                             *)

\* The types of the resync marks.
MarksTyped ==
    /\ lock \in Tasks \cup {"free"} /\ loads \in 0 .. MaxLoads /\ scheduled \in BOOLEAN
    /\ covered \subseteq told /\ told \subseteq watched

\* A task that waits is there for every mark, and for activity that nothing looked for.
Waits ==
    /\ scheduled => \E k \in Tasks : sync[k].pc = "debounce"
    /\ told # covered => \E k \in Tasks : sync[k].pc \in Early

\* The parts of ResyncInv, before and after a step.
LEMMA ResyncParts ==
    /\ ResyncInv <=> MarksTyped /\ Waits
    /\ ResyncInv' <=> MarksTyped' /\ Waits'
BY DEF ResyncInv, MarksTyped, Waits, NotSwallowed, Early

\* A sync that neither leaves its debounce nor stops waiting.
LEMMA StillWaits ==
    ASSUME Waits, UNCHANGED <<scheduled, told>>, covered' \in {covered, told},
           NEW k \in Syncs, NEW pc, StepsTo(k, pc),
           k \in Tasks => sync[k].pc # "debounce"
                          /\ (sync[k].pc \in Early /\ covered' = covered => pc \in Early)
    PROVE  Waits'
<1>1. sync'[k].pc = pc /\ \A j \in Syncs : j # k => sync'[j] = sync[j]
    BY DEF StepsTo
<1>2. scheduled' => \E j \in Tasks : sync'[j].pc = "debounce"
    <2>1. SUFFICES ASSUME scheduled PROVE \E j \in Tasks : sync'[j].pc = "debounce"
        OBVIOUS
    <2>2. PICK j \in Tasks : sync[j].pc = "debounce"
        BY <2>1 DEF Waits
    <2> QED
        BY <1>1, <2>2 DEF Syncs
<1>3. told' # covered' => \E j \in Tasks : sync'[j].pc \in Early
    <2>1. SUFFICES ASSUME told # covered, covered' = covered PROVE \E j \in Tasks : sync'[j].pc \in Early
        OBVIOUS
    <2>2. PICK j \in Tasks : sync[j].pc \in Early
        BY <2>1 DEF Waits
    <2> QED
        BY <1>1, <2>1, <2>2 DEF Syncs
<1> QED
    BY <1>2, <1>3 DEF Waits

\* A sync past its debounce that ends has looked for what was handed over.
LEMMA EndsLooked ==
    ASSUME Waits, SyncInv, NEW k \in Syncs, Ends(k), sync[k].pc # "debounce",
           UNCHANGED <<scheduled, told>>, covered' = told
    PROVE  Waits'
<1>1. Becomes(k, "none", {}, {}, {})
    BY EndsBecomes DEF Ends
<1>2. scheduled' => \E j \in Tasks : sync'[j].pc = "debounce"
    <2>1. SUFFICES ASSUME scheduled PROVE \E j \in Tasks : sync'[j].pc = "debounce"
        OBVIOUS
    <2>2. PICK j \in Tasks : sync[j].pc = "debounce"
        BY <2>1 DEF Waits
    <2> QED
        BY <1>1, <2>2 DEF Becomes, Syncs
<1> QED
    BY <1>2 DEF Waits

\* Every step keeps the marks within what was handed over.
LEMMA MarksKept ==
    ASSUME Next, ChainInv, ResyncInv
    PROVE  MarksTyped'
<1> USE DEF MarksTyped
<1>1. MarksTyped
    BY ResyncParts
<1>2. CASE OutsideTrade \/ Send \/ Land \/ Verify \/ Book \/ Clear \/ LoadRepairs
    BY <1>1, <1>2 DEF OutsideTrade, Send, Land, Verify, Book, Clear, LoadRepairs, resync, records
<1>3. ASSUME NEW i \in Landed, WatchStores(i) \/ WatchStoresDeltas(i) PROVE MarksTyped'
    BY <1>1, <1>3 DEF WatchStores, WatchStoresDeltas, resync
<1>4. ASSUME NEW i \in Landed, Activity(i) PROVE MarksTyped'
    BY <1>1, <1>4 DEF Activity, records
<1>5. CASE LoadStarts
    BY <1>1, <1>5, LedgerConstants DEF LoadStarts, records, LedgerConstants
<1>6. ASSUME NEW k \in Tasks, Debounced(k) \/ Locks(k) PROVE MarksTyped'
    BY <1>1, <1>6 DEF Debounced, Locks, records
<1>7. ASSUME NEW k, TakeGap(k) \/ ReadLegs(k) \/ ReadHistory(k) \/ ReadWallet(k) \/ ReadBusy(k) PROVE MarksTyped'
    BY <1>1, <1>7 DEF TakeGap, ReadLegs, ReadHistory, ReadWallet, ReadBusy, records
<1>8. ASSUME NEW k, Fill(k) \/ ReadHistoryFails(k) \/ Plan(k) \/ Apply(k) PROVE MarksTyped'
    BY <1>1, <1>8 DEF Fill, ReadHistoryFails, Plan, Apply, Ends, Go, records
<1> QED
    BY <1>2, <1>3, <1>4, <1>5, <1>6, <1>7, <1>8 DEF Next, TaskStep, SyncStep

\* schedule_resync: activity handed over waits for a sync to come, after every step.
LEMMA WaitsKept ==
    ASSUME Next, ChainInv, TraderInv, SyncInv, ResyncInv
    PROVE  Waits'
<1>1. Waits /\ MarksTyped
    BY ResyncParts
<1>2. CASE OutsideTrade \/ Send \/ Land \/ Verify \/ Book \/ Clear
    BY <1>1, <1>2 DEF OutsideTrade, Send, Land, Verify, Book, Clear, resync, Waits
<1>3. ASSUME NEW i \in Landed, WatchStores(i) \/ WatchStoresDeltas(i) PROVE Waits'
    BY <1>1, <1>3 DEF WatchStores, WatchStoresDeltas, resync, Waits
<1>4. ASSUME NEW i \in Landed, Activity(i) PROVE Waits'
    <2>1. CASE scheduled
        <3>1. PICK k \in Tasks : sync[k].pc = "debounce"
            BY <1>1, <2>1 DEF Waits
        <3>2. sync' = sync
            BY <1>4, <2>1 DEF Activity
        <3> QED
            BY <3>1, <3>2 DEF Waits, Early
    <2>2. CASE ~ scheduled
        <3>1. PICK k \in Tasks : Go(k, "debounce")
            BY <1>4, <2>2 DEF Activity, Go
        <3>2. sync'[k].pc = "debounce"
            BY <3>1, GoBecomes DEF Becomes, Syncs, SyncPcs
        <3> QED
            BY <3>1, <3>2 DEF Waits, Early
    <2> QED
        BY <2>1, <2>2
<1>5. ASSUME NEW k \in Tasks, Debounced(k) PROVE Waits'
    <2>1. Go(k, "lock") /\ scheduled' = FALSE
        BY <1>5 DEF Debounced
    <2>2. sync'[k].pc = "lock"
        BY <2>1, GoBecomes DEF Becomes, Syncs, SyncPcs
    <2> QED
        BY <2>1, <2>2 DEF Waits, Early
<1>6. ASSUME NEW k \in Tasks, Locks(k) PROVE Waits'
    <2>1. Go(k, "gap") /\ sync[k].pc = "lock" /\ UNCHANGED <<scheduled, told, covered>>
        BY <1>6 DEF Locks
    <2>2. Becomes(k, "gap", sync[k].legs, sync[k].hist, sync[k].obs) /\ "gap" \in Early
        BY <2>1, GoBecomes DEF Syncs, SyncPcs, Early
    <2> QED
        BY <1>1, <2>1, <2>2, BecomesSteps, StillWaits DEF Syncs
<1>7. CASE LoadStarts \/ LoadRepairs
    <2>1. (Go("load", "repair") \/ Go("load", "gap")) /\ UNCHANGED <<scheduled, told, covered>>
        BY <1>7 DEF LoadStarts, LoadRepairs
    <2>2. "load" \in Syncs /\ "load" \notin Tasks /\ {"repair", "gap"} \subseteq SyncPcs
        BY LedgerConstants DEF Syncs, SyncPcs, LedgerConstants
    <2>3. PICK pc : Becomes("load", pc, sync["load"].legs, sync["load"].hist, sync["load"].obs)
        BY <2>1, <2>2, GoBecomes
    <2> QED
        BY <1>1, <2>1, <2>2, <2>3, BecomesSteps, StillWaits
<1>8. ASSUME NEW k \in Syncs, TakeGap(k) PROVE Waits'
    <2>1. PICK pc \in {"fill", "legs"} : Go(k, pc)
        BY <1>8 DEF TakeGap
    <2>2. sync[k].pc = "gap" /\ UNCHANGED <<scheduled, told, covered>>
        BY <1>8 DEF TakeGap
    <2>3. Becomes(k, pc, sync[k].legs, sync[k].hist, sync[k].obs) /\ pc \in Early
        BY <2>1, GoBecomes DEF SyncPcs, Early
    <2> QED
        BY <1>1, <2>2, <2>3, BecomesSteps, StillWaits
<1>9. ASSUME NEW k \in Syncs, Fill(k) PROVE Waits'
    <2>1. sync[k].pc = "fill" /\ UNCHANGED <<scheduled, told>>
        BY <1>9 DEF Fill
    <2>2. CASE Go(k, "legs") /\ covered' = covered
        <3>1. Becomes(k, "legs", sync[k].legs, sync[k].hist, sync[k].obs) /\ "legs" \in Early
            BY <2>2, GoBecomes DEF SyncPcs, Early
        <3> QED
            BY <1>1, <2>1, <2>2, <3>1, BecomesSteps, StillWaits
    <2>3. CASE Ends(k) /\ covered' = told
        BY <1>1, <2>1, <2>3, EndsLooked
    <2> QED
        BY <1>9, <2>2, <2>3 DEF Fill
<1>10. Grows /\ doubt' = doubt
    BY TransactionsGrow
<1>11. {"wallet", "plan", "busy", "apply", "none"} \cap Early = {}
    BY DEF Early
<1>12. ASSUME NEW k \in Syncs, ReadLegs(k) PROVE Waits'
    <2>1. sync[k].pc = "legs" /\ UNCHANGED <<scheduled, told, covered>> /\ "history" \in Early
        BY <1>12 DEF ReadLegs, Early
    <2>2. StepsTo(k, "history")
        BY <1>10, <1>12, LegsReadKept
    <2> QED
        BY <1>1, <2>1, <2>2, StillWaits
<1>13. ASSUME NEW k \in Syncs, ReadHistory(k) PROVE Waits'
    <2>1. sync[k].pc = "history" /\ UNCHANGED <<scheduled, told>> /\ covered' = told
        BY <1>13 DEF ReadHistory
    <2>2. StepsTo(k, "wallet")
        BY <1>10, <1>13, HistoryReadKept
    <2>3. scheduled' => \E j \in Tasks : sync'[j].pc = "debounce"
        <3>1. SUFFICES ASSUME scheduled PROVE \E j \in Tasks : sync'[j].pc = "debounce"
            BY <2>1
        <3>2. PICK j \in Tasks : sync[j].pc = "debounce"
            BY <1>1, <3>1 DEF Waits
        <3> QED
            BY <2>1, <2>2, <3>2 DEF StepsTo, Syncs
    <2> QED
        BY <2>1, <2>3 DEF Waits
<1>14. ASSUME NEW k \in Syncs, ReadHistoryFails(k) PROVE Waits'
    BY <1>1, <1>14, EndsLooked DEF ReadHistoryFails
<1>15. ASSUME NEW k \in Syncs, ReadWallet(k) \/ ReadBusy(k) PROVE Waits'
    <2>1. sync[k].pc \in {"wallet", "busy"} /\ UNCHANGED <<scheduled, told, covered>>
        BY <1>15 DEF ReadWallet, ReadBusy
    <2>2. StepsTo(k, "plan") \/ StepsTo(k, "apply")
        BY <1>10, <1>15, WalletReadKept, BusyReadKept
    <2> QED
        BY <1>1, <1>11, <2>1, <2>2, StillWaits
<1>16. ASSUME NEW k \in Syncs, Plan(k) \/ Apply(k) PROVE Waits'
    <2>1. sync[k].pc \in {"plan", "apply"} /\ UNCHANGED <<scheduled, told, covered>>
        BY <1>16 DEF Plan, Apply
    <2>2. Ends(k) \/ Go(k, "busy")
        BY <1>16 DEF Plan, Apply
    <2>3. StepsTo(k, "none") \/ StepsTo(k, "busy")
        BY <2>2, EndsBecomes, GoBecomes, BecomesSteps DEF Ends, SyncPcs
    <2> QED
        BY <1>1, <1>11, <2>1, <2>3, StillWaits
<1> QED
    BY <1>2, <1>3, <1>4, <1>5, <1>6, <1>7, <1>8, <1>9, <1>12, <1>13, <1>14, <1>15,
       <1>16
    DEF Next, TaskStep, SyncStep, Syncs

-----------------------------------------------------------------------------
(* The row.                                                                 *)

\* RowInv of any row, counts, transactions and pending ones.
RowOf(r, c, q, P) ==
    /\ r \in [held : Nat, exited : Nat]
    /\ c \in [1 .. MaxTx -> {0, 1}]
    /\ \A i \in 1 .. MaxTx : c[i] = 1 => i \in 1 .. Len(q) /\ i \notin P
    /\ r.held = Net(q, {i \in 1 .. Len(q) : c[i] = 1})
    /\ r.held + r.exited <= Got(q, (1 .. Len(q)) \ P)

\* RowInv speaks of the row, of what is counted and of the transactions alone.
LEMMA RowParts ==
    /\ RowInv <=> RowOf(row, counted, txs, Pending)
    /\ RowInv' <=> RowOf(row', counted', txs', Pending')
<1>1. Balance(In) = Net(txs, In) /\ Bought(Landed \ Pending) = Got(txs, Landed \ Pending)
    BY Zenon DEF Bought, Balance, Sold, IsBuy, Got, Net, Left, Buys, Sells
<1>2. Balance(In)' = Net(txs', In') /\ Bought(Landed \ Pending)' = Got(txs', Landed' \ Pending')
    BY Zenon DEF Bought, Balance, Sold, IsBuy, Got, Net, Left, Buys, Sells
<1>3. In = {i \in 1 .. Len(txs) : counted[i] = 1} /\ In' = {i \in 1 .. Len(txs') : counted'[i] = 1}
      /\ Landed = 1 .. Len(txs) /\ Landed' = 1 .. Len(txs')
    BY DEF In, Landed
<1> QED
    BY <1>1, <1>2, <1>3 DEF RowInv, RowOf

\* The fields of a row.
LEMMA RowFields ==
    ASSUME NEW h \in Nat, NEW e \in Nat
    PROVE  /\ [held |-> h, exited |-> e] \in [held : Nat, exited : Nat]
           /\ [held |-> h, exited |-> e].held = h /\ [held |-> h, exited |-> e].exited = e
BY Zenon

\* A transaction outside the tokens held lands, and may be pending.
LEMMA RowLands ==
    ASSUME ChainInv, NEW k \in Kinds, Len(txs) < MaxTx, txs' = Append(txs, k),
           UNCHANGED <<row, counted>>, RowInv, Pending' = Pending \/ (Pending = {} /\ Pending' = {Len(txs) + 1})
    PROVE  RowInv'
<1> PICK q, q2, n, P, P2 : q = txs /\ q2 = txs' /\ n = Len(txs) + 1 /\ P = Pending /\ P2 = Pending'
    OBVIOUS
<1>1. /\ q \in Seq(Kinds) /\ q2 \in Seq(Kinds) /\ Len(q) \in Nat /\ Len(q2) = n /\ n = Len(q) + 1
      /\ 1 .. Len(q2) = (1 .. Len(q)) \cup {n} /\ n \notin 1 .. Len(q)
      /\ \A i \in 1 .. Len(q) : q2[i] = q[i]
      /\ n \in 1 .. MaxTx
    BY LandsLast, LedgerConstants DEF ChainInv, Landed, LedgerConstants
<1>2. RowOf(row, counted, q, P)
    BY RowParts
<1>3. counted[n] # 1
    BY <1>1, <1>2 DEF RowOf
<1>0. ASSUME NEW S \in SUBSET (1 .. Len(q)) PROVE Got(q2, S) = Got(q, S) /\ Net(q2, S) = Net(q, S)
    <2>1. \A i \in S : q2[i] = q[i]
        BY <1>1
    <2> QED
        BY <2>1, SameTokens
<1> PICK I, I2, T, T2 :
        /\ I = {i \in 1 .. Len(q) : counted[i] = 1} /\ I2 = {i \in 1 .. Len(q2) : counted[i] = 1}
        /\ T = (1 .. Len(q)) \ P /\ T2 = (1 .. Len(q2)) \ P2
    OBVIOUS
<1>4. I2 = I /\ I \in SUBSET (1 .. Len(q)) /\ T \in SUBSET (1 .. Len(q))
    BY <1>1, <1>3
<1>5. Net(q2, I2) = Net(q, I)
    BY <1>0, <1>4
<1>6. Got(q2, T) = Got(q, T)
    BY <1>0, <1>4
<1>8. T \in SUBSET T2 /\ T2 \in SUBSET (1 .. Len(q2))
    <2>1. CASE P2 = P
        BY <1>1, <2>1
    <2>2. CASE P = {} /\ P2 = {n}
        BY <1>1, <2>2
    <2> QED
        BY <2>1, <2>2
<1>9. Got(q2, T) <= Got(q2, T2) /\ Got(q2, T) \in Nat /\ Got(q2, T2) \in Nat
    BY <1>1, <1>8, GotGrows, LedgerConstants
<1>10. row.held \in Nat /\ row.exited \in Nat /\ row.held + row.exited <= Got(q, T) /\ row.held = Net(q, I)
    BY <1>2 DEF RowOf
<1>11. row.held + row.exited <= Got(q2, T2) /\ row.held = Net(q2, I2)
    BY <1>5, <1>6, <1>9, <1>10
<1>12. \A i \in 1 .. MaxTx : counted[i] = 1 => i \in 1 .. Len(q2) /\ i \notin P2
    BY <1>1, <1>2, <1>3 DEF RowOf
<1>13. RowOf(row, counted, q2, P2)
    BY <1>2, <1>11, <1>12 DEF RowOf
<1> QED
    BY <1>13, RowParts

\* Book: the pending transaction joins the tokens held.
LEMMA RowBooked ==
    ASSUME ChainInv, TraderInv, RowInv, Book
    PROVE  RowInv' /\ \A i \in 1 .. MaxTx : counted'[i] = IF i = trader.tx THEN 1 ELSE counted[i]
<1> PICK q, t : q = txs /\ t = trader.tx
    OBVIOUS
<1>1. /\ q \in Seq(Kinds) /\ Len(q) \in Nat /\ Len(q) <= MaxTx /\ t \in 1 .. Len(q) /\ t \in 1 .. MaxTx
    BY LedgerConstants DEF ChainInv, TraderInv, Book, Landed, LedgerConstants
<1>2. /\ trader.pc = "verified" /\ trader' = [trader EXCEPT !.pc = "booked"] /\ txs' = txs
      /\ row' = IF IsBuy(t) THEN [row EXCEPT !.held = @ + 1]
                ELSE [held |-> row.held - 1, exited |-> row.exited + 1]
      /\ counted' = [counted EXCEPT ![t] = @ + 1]
    BY DEF Book
<1>3. Pending = {t} /\ Pending' = {}
    <2>1. trader'.pc = "booked"
        BY <1>2, TraderMoves DEF TraderInv, TraderPcs
    <2> QED
        BY <1>2, <2>1 DEF Pending
<1>4. RowOf(row, counted, q, {t})
    BY <1>3, RowParts
<1>5. counted[t] = 0
    BY <1>1, <1>4 DEF RowOf
<1>6. /\ counted' \in [1 .. MaxTx -> {0, 1}]
      /\ \A i \in 1 .. MaxTx : counted'[i] = IF i = t THEN 1 ELSE counted[i]
    BY <1>1, <1>2, <1>4, <1>5 DEF RowOf
<1>0. ASSUME NEW S \in SUBSET (1 .. Len(q)), t \notin S
      PROVE  /\ q[t] \in {"dca", "buy"} =>
                  Net(q, S \cup {t}) = Net(q, S) + 1 /\ Got(q, S \cup {t}) = Got(q, S) + 1
             /\ q[t] \notin {"dca", "buy"} =>
                  Net(q, S \cup {t}) = Net(q, S) - 1 /\ Got(q, S \cup {t}) = Got(q, S)
    <2>1. q \in Seq(Kinds) /\ S \in SUBSET (1 .. Len(q)) /\ t \in 1 .. Len(q) /\ t \notin S
        BY <1>0, <1>1
    <2>2. q[t] \in {"dca", "buy"} => Net(q, S \cup {t}) = Net(q, S) + 1
        BY <2>1, TokenAdded, LedgerConstants, ZenonT(30)
    <2>3. q[t] \in {"dca", "buy"} => Got(q, S \cup {t}) = Got(q, S) + 1
        BY <2>1, TokenAdded, LedgerConstants, ZenonT(30)
    <2>4. q[t] \notin {"dca", "buy"} => Net(q, S \cup {t}) = Net(q, S) - 1
        BY <2>1, TokenAdded, LedgerConstants, ZenonT(30)
    <2>5. q[t] \notin {"dca", "buy"} => Got(q, S \cup {t}) = Got(q, S)
        BY <2>1, TokenAdded, LedgerConstants, ZenonT(30)
    <2> QED
        BY <2>2, <2>3, <2>4, <2>5
<1> PICK I, I2, T, T2 :
        /\ I = {i \in 1 .. Len(q) : counted[i] = 1} /\ I2 = {i \in 1 .. Len(q) : counted'[i] = 1}
        /\ T = (1 .. Len(q)) \ {t} /\ T2 = (1 .. Len(q)) \ {}
    OBVIOUS
<1>7. I2 = I \cup {t} /\ t \notin I /\ T2 = T \cup {t} /\ t \notin T
      /\ I \in SUBSET (1 .. Len(q)) /\ I2 \in SUBSET (1 .. Len(q)) /\ T \in SUBSET (1 .. Len(q)) /\ T2 \in SUBSET (1 .. Len(q))
    <2>1. t \notin I /\ t \notin T /\ T2 = T \cup {t}
        BY <1>1, <1>5
    <2>2. \A i \in 1 .. Len(q) : i \in 1 .. MaxTx
        BY <1>1, LedgerConstants DEF LedgerConstants
    <2>3. I2 = I \cup {t}
        BY <1>1, <1>6, <2>2
    <2> QED
        BY <2>1, <2>3
<1>8. /\ q[t] \in {"dca", "buy"} => Net(q, I2) = Net(q, I) + 1 /\ Got(q, T2) = Got(q, T) + 1
      /\ q[t] \notin {"dca", "buy"} => Net(q, I2) = Net(q, I) - 1 /\ Got(q, T2) = Got(q, T)
    BY <1>0, <1>7
<1>9. Net(q, I2) \in Nat /\ Net(q, I) \in Nat /\ Got(q, T) \in Nat /\ Got(q, T2) \in Nat
    BY <1>1, <1>7, Tokens, LedgerConstants
<1>10. row.held \in Nat /\ row.exited \in Nat /\ row.held + row.exited <= Got(q, T) /\ row.held = Net(q, I)
       /\ row \in [held : Nat, exited : Nat]
    BY <1>4 DEF RowOf
<1>11. IsBuy(t) <=> q[t] \in {"dca", "buy"}
    BY DEF IsBuy
<1>12. row' \in [held : Nat, exited : Nat] /\ row'.held = Net(q, I2) /\ row'.held + row'.exited <= Got(q, T2)
    <2>1. CASE IsBuy(t)
        <3>1. row' = [held |-> row.held + 1, exited |-> row.exited] /\ row.held + 1 \in Nat
            BY <1>2, <1>10, <2>1
        <3>2. row' \in [held : Nat, exited : Nat] /\ row'.held = row.held + 1 /\ row'.exited = row.exited
            BY <1>10, <3>1, RowFields
        <3>3. (row.held + 1) + row.exited <= Got(q, T2) /\ row.held + 1 = Net(q, I2)
            BY <1>8, <1>9, <1>10, <1>11, <2>1
        <3> QED
            BY <3>2, <3>3
    <2>2. CASE ~ IsBuy(t)
        <3>1. row.held - 1 = Net(q, I2) /\ row.held - 1 \in Nat /\ row.exited + 1 \in Nat
              /\ (row.held - 1) + (row.exited + 1) <= Got(q, T2)
            BY <1>8, <1>9, <1>10, <1>11, <2>2
        <3>2. row' = [held |-> row.held - 1, exited |-> row.exited + 1]
            BY <1>2, <2>2
        <3>3. row' \in [held : Nat, exited : Nat] /\ row'.held = row.held - 1 /\ row'.exited = row.exited + 1
            BY <3>1, <3>2, RowFields
        <3> QED
            BY <3>1, <3>3
    <2> QED
        BY <2>1, <2>2
<1>13. \A i \in 1 .. MaxTx : counted'[i] = 1 => i \in 1 .. Len(q) /\ i \notin {}
    BY <1>1, <1>4, <1>6 DEF RowOf
<1>14. RowOf(row', counted', q, {})
    BY <1>6, <1>12, <1>13 DEF RowOf
<1> QED
    BY <1>2, <1>3, <1>6, <1>14, RowParts

\* What Apply writes: the row as it was, or the balance observed with what was sold or left.
LEMMA ApplyWrites ==
    ASSUME NEW k \in Syncs, Apply(k)
    PROVE  \/ row' = row /\ counted' = counted
           \/ /\ ~ sync[k].busy /\ legs \subseteq sync[k].legs
              /\ counted' = [i \in 1 .. MaxTx |-> IF i \in sync[k].obs THEN 1 ELSE 0]
              /\ \/ /\ Net(txs, sync[k].obs) = Net(txs, sync[k].hist)
                    /\ row' = [held |-> Net(txs, sync[k].obs), exited |-> Left(txs, sync[k].hist)]
                 \/ /\ row.held > Net(txs, sync[k].obs)
                    /\ row' = [held |-> Net(txs, sync[k].obs),
                               exited |-> row.exited + row.held - Net(txs, sync[k].obs)]
<1> PICK s : s = sync[k]
    OBVIOUS
<1>1. PICK fresh : /\ fresh = (IF s.busy \/ booked_since(k) THEN row ELSE Rewrite(s, legs))
                   /\ row' = fresh
                   /\ counted' = IF fresh = row THEN counted
                                 ELSE [i \in 1 .. MaxTx |-> IF i \in s.obs THEN 1 ELSE 0]
    BY DEF Apply
<1>2. CASE fresh = row
    BY <1>1, <1>2
<1>3. CASE fresh # row
    <2>1. ~ s.busy /\ ~ booked_since(k)
        BY <1>1, <1>3
    <2>2. row' = Rewrite(s, legs) /\ counted' = [i \in 1 .. MaxTx |-> IF i \in s.obs THEN 1 ELSE 0]
        BY <1>1, <1>3, <2>1
    <2>3. Balance(s.obs) = Net(txs, s.obs) /\ Balance(s.hist) = Net(txs, s.hist) /\ Sold(s.hist) = Left(txs, s.hist)
        BY Zenon DEF Balance, Bought, Sold, IsBuy, Net, Got, Left, Buys, Sells
    <2>4. \/ Balance(s.obs) = Balance(s.hist) /\ row' = [held |-> Balance(s.obs), exited |-> Sold(s.hist)]
          \/ /\ row.held > Balance(s.obs)
             /\ row' = [held |-> Balance(s.obs), exited |-> row.exited + row.held - Balance(s.obs)]
          \/ row' = row
        BY <2>2 DEF Rewrite
    <2>5. legs \subseteq s.legs
        BY <2>1 DEF booked_since
    <2> QED
        BY <1>1, <1>3, <2>1, <2>2, <2>3, <2>4, <2>5
<1> QED
    BY <1>2, <1>3

\* Apply: what the sync read holds no transaction that is still to be booked.
LEMMA RowApplied ==
    ASSUME ChainInv, TraderInv, SyncInv, RowInv, NEW k \in Syncs, Apply(k)
    PROVE  RowInv'
<1>1. txs' = txs /\ Pending' = Pending /\ sync[k].pc = "apply"
    BY DEF Apply, Pending
<1>2. CASE row' = row /\ counted' = counted
    <2>1. RowOf(row, counted, txs, Pending)
        BY RowParts
    <2> QED
        BY <1>1, <1>2, <2>1, RowParts
<1>3. CASE ~ (row' = row /\ counted' = counted)
    <2> PICK q, P, hist, obs : q = txs /\ P = Pending /\ hist = sync[k].hist /\ obs = sync[k].obs
        OBVIOUS
    <2>1. /\ ~ sync[k].busy
          /\ counted' = [i \in 1 .. MaxTx |-> IF i \in obs THEN 1 ELSE 0]
          /\ \/ Net(q, obs) = Net(q, hist) /\ row' = [held |-> Net(q, obs), exited |-> Left(q, hist)]
             \/ /\ row.held > Net(q, obs)
                /\ row' = [held |-> Net(q, obs), exited |-> row.exited + row.held - Net(q, obs)]
        BY <1>3, ApplyWrites
    <2>2. q \in Seq(Kinds) /\ Len(q) \in Nat /\ Len(q) <= MaxTx /\ hist \subseteq 1 .. Len(q) /\ obs \subseteq 1 .. Len(q)
        BY Carries DEF ChainInv, Landed
    <2>3. \A i \in hist \cup obs : i \notin P
        <3>1. \A i \in hist \cup obs : IsBot(i) => i \in legs
            BY <1>1, <2>1 DEF SyncInv, SyncOK
        <3>2. \A i \in P : IsBot(i) /\ i \notin legs
            BY DEF Pending, TraderInv
        <3> QED
            BY <3>1, <3>2
    <2>4. PICK T : T = (1 .. Len(q)) \ P
        OBVIOUS
    <2>5. hist \in SUBSET T /\ T \in SUBSET (1 .. Len(q))
        BY <2>2, <2>3, <2>4
    <2>6. Got(q, hist) <= Got(q, T) /\ Got(q, T) \in Nat
        BY <2>2, <2>5, GotGrows, LedgerConstants
    <2>7. /\ Net(q, obs) \in Nat /\ Net(q, hist) \in Nat /\ Left(q, hist) \in Nat
          /\ Net(q, hist) + Left(q, hist) = Got(q, hist)
        BY <2>2, Tokens, LedgerConstants
    <2>8. RowOf(row, counted, q, P)
        BY RowParts
    <2>9. row.held \in Nat /\ row.exited \in Nat /\ row.held + row.exited <= Got(q, T)
        BY <2>4, <2>8 DEF RowOf
    <2>10. row' \in [held : Nat, exited : Nat] /\ row'.held = Net(q, obs) /\ row'.held + row'.exited <= Got(q, T)
        <3>1. CASE Net(q, obs) = Net(q, hist) /\ row' = [held |-> Net(q, obs), exited |-> Left(q, hist)]
            <4>1. row' \in [held : Nat, exited : Nat] /\ row'.held = Net(q, obs) /\ row'.exited = Left(q, hist)
                BY <2>7, <3>1, RowFields
            <4> QED
                BY <2>6, <2>7, <3>1, <4>1
        <3>2. CASE /\ row.held > Net(q, obs)
                   /\ row' = [held |-> Net(q, obs), exited |-> row.exited + row.held - Net(q, obs)]
            <4>1. PICK e : e = row.exited + row.held - Net(q, obs)
                OBVIOUS
            <4>2. e \in Nat /\ Net(q, obs) + e = row.held + row.exited
                BY <2>7, <2>9, <3>2, <4>1
            <4>3. row' \in [held : Nat, exited : Nat] /\ row'.held = Net(q, obs) /\ row'.exited = e
                BY <2>7, <3>2, <4>1, <4>2, RowFields
            <4> QED
                BY <2>9, <4>2, <4>3
        <3> QED
            BY <2>1, <3>1, <3>2
    <2>11. /\ counted' \in [1 .. MaxTx -> {0, 1}]
           /\ \A i \in 1 .. MaxTx : counted'[i] = 1 => i \in obs
        BY <2>1
    <2>12. obs = {i \in 1 .. Len(q) : counted'[i] = 1}
        <3>1. \A i \in 1 .. Len(q) : i \in 1 .. MaxTx
            BY <2>2, LedgerConstants DEF LedgerConstants
        <3> QED
            BY <2>1, <2>2, <3>1
    <2>13. \A i \in 1 .. MaxTx : counted'[i] = 1 => i \in 1 .. Len(q) /\ i \notin P
        BY <2>2, <2>3, <2>11
    <2>14. RowOf(row', counted', q, P)
        BY <2>4, <2>10, <2>11, <2>12, <2>13 DEF RowOf
    <2> QED
        BY <1>1, <2>14, RowParts
<1> QED
    BY <1>2, <1>3

\* Every step keeps the row at what is counted.
LEMMA RowKept ==
    ASSUME Next, ChainInv, TraderInv, SyncInv, RowInv
    PROVE  RowInv'
<1>1. ASSUME UNCHANGED <<row, counted, txs>>, Pending' = Pending PROVE RowInv'
    <2>1. RowOf(row, counted, txs, Pending)
        BY RowParts
    <2> QED
        BY <1>1, <2>1, RowParts
<1>2. ASSUME UNCHANGED <<row, counted, txs, trader>> PROVE RowInv'
    BY <1>1, <1>2 DEF Pending
<1>3. CASE OutsideTrade
    <2>1. PICK k \in Kinds : Len(txs) < MaxTx /\ txs' = Append(txs, k)
        BY <1>3 DEF OutsideTrade, Kinds
    <2>2. UNCHANGED <<row, counted>> /\ Pending' = Pending
        BY <1>3 DEF OutsideTrade, books, Pending
    <2> QED
        BY <2>1, <2>2, RowLands
<1>4. CASE Land
    <2>1. PICK k \in Kinds : Len(txs) < MaxTx /\ txs' = Append(txs, k)
        BY <1>4 DEF Land, Kinds
    <2>2. UNCHANGED <<row, counted>> /\ trader.pc = "sent" /\ trader' = [pc |-> "landed", tx |-> Len(txs) + 1]
        BY <1>4 DEF Land, books
    <2>3. Pending = {} /\ Pending' = {Len(txs) + 1}
        BY <2>2 DEF Pending
    <2> QED
        BY <2>1, <2>2, <2>3, RowLands
<1>5. CASE Send \/ Clear
    <2>1. /\ UNCHANGED <<row, counted, txs>> /\ trader.pc \notin {"landed", "verified"}
          /\ trader'.pc \in {"sent", "idle"}
        BY <1>5 DEF Send, Clear, books
    <2> QED
        BY <1>1, <2>1 DEF Pending
<1>6. CASE Verify
    <2>1. UNCHANGED <<row, counted, txs>> /\ trader.pc = "landed" /\ trader' = [trader EXCEPT !.pc = "verified"]
        BY <1>6 DEF Verify, books
    <2>2. trader'.pc = "verified" /\ trader'.tx = trader.tx
        BY <2>1, TraderMoves DEF TraderInv, TraderPcs
    <2> QED
        BY <1>1, <2>1, <2>2 DEF Pending
<1>7. CASE Book
    BY <1>7, RowBooked
<1>8. ASSUME NEW i \in Landed, WatchStores(i) \/ WatchStoresDeltas(i) \/ Activity(i) PROVE RowInv'
    BY <1>2, <1>8 DEF WatchStores, WatchStoresDeltas, Activity, books
<1>9. CASE LoadStarts \/ LoadRepairs
    BY <1>2, <1>9 DEF LoadStarts, LoadRepairs, books
<1>10. ASSUME NEW k \in Tasks, Debounced(k) \/ Locks(k) PROVE RowInv'
    BY <1>2, <1>10 DEF Debounced, Locks, books
<1>11. ASSUME NEW k \in Syncs, TakeGap(k) \/ Fill(k) \/ ReadLegs(k) \/ ReadHistory(k) \/ ReadHistoryFails(k) PROVE RowInv'
    BY <1>2, <1>11 DEF TakeGap, Fill, ReadLegs, ReadHistory, ReadHistoryFails, books
<1>12. ASSUME NEW k \in Syncs, ReadWallet(k) \/ Plan(k) \/ ReadBusy(k) PROVE RowInv'
    BY <1>2, <1>12 DEF ReadWallet, Plan, ReadBusy, books
<1>13. ASSUME NEW k \in Syncs, Apply(k) PROVE RowInv'
    BY <1>13, RowApplied
<1> QED
    BY <1>3, <1>4, <1>5, <1>6, <1>7, <1>8, <1>9, <1>10, <1>11, <1>12, <1>13
    DEF Next, TaskStep, SyncStep, Syncs

\* A booked leg is counted by its booking, and a sync that writes observed every leg there is.
LEMMA LegKept ==
    ASSUME Next, ChainInv, TraderInv, SyncInv, RowInv, LegInv
    PROVE  LegInv'
<1>1. doubt' = doubt
    BY TransactionsGrow
<1>2. ASSUME UNCHANGED <<counted, legs>> PROVE LegInv'
    BY <1>1, <1>2 DEF LegInv
<1>3. legs \subseteq 1 .. MaxTx /\ legs \subseteq Landed
    BY LedgerConstants DEF ChainInv, TraderInv, Landed, LedgerConstants
<1>4. CASE OutsideTrade \/ Land \/ Send \/ Clear \/ Verify \/ LoadStarts \/ LoadRepairs
    BY <1>2, <1>4 DEF OutsideTrade, Land, Send, Clear, Verify, LoadStarts, LoadRepairs, books
<1>5. CASE Book
    <2>1. /\ \A i \in 1 .. MaxTx : counted'[i] = IF i = trader.tx THEN 1 ELSE counted[i]
          /\ legs' = legs \cup {trader.tx}
        BY <1>5, RowBooked DEF Book
    <2>2. trader.tx \in 1 .. MaxTx
        BY <1>5, LedgerConstants DEF Book, ChainInv, TraderInv, Landed, LedgerConstants
    <2> QED
        BY <1>1, <1>3, <2>1, <2>2 DEF LegInv
<1>6. ASSUME NEW i \in Landed, WatchStores(i) \/ WatchStoresDeltas(i) \/ Activity(i) PROVE LegInv'
    BY <1>2, <1>6 DEF WatchStores, WatchStoresDeltas, Activity, books
<1>7. ASSUME NEW k \in Tasks, Debounced(k) \/ Locks(k) PROVE LegInv'
    BY <1>2, <1>7 DEF Debounced, Locks, books
<1>8. ASSUME NEW k \in Syncs, TakeGap(k) \/ Fill(k) \/ ReadLegs(k) \/ ReadHistory(k) \/ ReadHistoryFails(k) PROVE LegInv'
    BY <1>2, <1>8 DEF TakeGap, Fill, ReadLegs, ReadHistory, ReadHistoryFails, books
<1>9. ASSUME NEW k \in Syncs, ReadWallet(k) \/ Plan(k) \/ ReadBusy(k) PROVE LegInv'
    BY <1>2, <1>9 DEF ReadWallet, Plan, ReadBusy, books
<1>10. ASSUME NEW k \in Syncs, Apply(k) PROVE LegInv'
    <2>1. legs' = legs /\ sync[k].pc = "apply"
        BY <1>10 DEF Apply
    <2>2. CASE counted' = counted
        BY <1>2, <2>1, <2>2
    <2>3. CASE counted' # counted
        <3>1. legs \subseteq sync[k].legs /\ counted' = [i \in 1 .. MaxTx |-> IF i \in sync[k].obs THEN 1 ELSE 0]
            BY <1>10, <2>3, ApplyWrites
        <3>2. doubt # {"history", "wallet"} => sync[k].legs \subseteq sync[k].obs
            BY <2>1 DEF SyncInv, SyncOK
        <3> QED
            BY <1>1, <1>3, <2>1, <3>1, <3>2 DEF LegInv
    <2> QED
        BY <2>2, <2>3
<1> QED
    BY <1>4, <1>5, <1>6, <1>7, <1>8, <1>9, <1>10 DEF Next, TaskStep, SyncStep, Syncs

-----------------------------------------------------------------------------
(* The invariant.                                                           *)

\* Nothing has landed, is booked or runs at the start.
LEMMA InitInv ==
    ASSUME Init
    PROVE  Inv
<1> USE LedgerConstants
<1>1. txs = <<>> /\ Len(txs) = 0 /\ Landed = {}
    BY DEF Init, Landed
<1>2. ChainInv
    <2>1. txs \in Seq(Kinds) /\ Len(txs) <= MaxTx
        BY <1>1 DEF LedgerConstants
    <2>2. /\ doubt \in Doubts /\ processed = {} /\ deltas = {} /\ recording = {} /\ watched = {}
          /\ gap = FALSE
        BY DEF Init
    <2> QED
        BY <2>1, <2>2 DEF ChainInv
<1>3. trader \in [pc : TraderPcs, tx : Nat] /\ trader.pc = "idle" /\ trader.tx = 0
    BY TraderFields DEF Init, TraderPcs
<1>4. TraderInv
    BY <1>1, <1>3 DEF Init, TraderInv
<1>5. Pending = {}
    BY <1>3 DEF Pending
<1>6. RowInv
    <2>1. Start \in Nat /\ row = [held |-> Start, exited |-> 0] /\ counted = [i \in 1 .. MaxTx |-> 0]
        BY DEF Init, LedgerConstants
    <2>2. row \in [held : Nat, exited : Nat] /\ row.held = Start /\ row.exited = 0
        BY <2>1, RowFields
    <2>3. Got(txs, {}) = Start /\ Net(txs, {}) = Start
        <3>1. Buys(txs, {}) = {} /\ Sells(txs, {}) = {}
            BY DEF Buys, Sells
        <3>2. Cardinality({}) = 0
            BY FS_EmptySet
        <3>3. Got(txs, {}) = Start + 0 /\ Left(txs, {}) = 0
            BY <3>1, <3>2 DEF Got, Left
        <3>4. Net(txs, {}) = (Start + 0) - 0
            BY <3>3 DEF Net
        <3> QED
            BY <2>1, <3>3, <3>4
    <2>4. {i \in 1 .. Len(txs) : counted[i] = 1} = {} /\ (1 .. Len(txs)) \ Pending = {}
        BY <1>1
    <2>5. counted \in [1 .. MaxTx -> {0, 1}] /\ \A i \in 1 .. MaxTx : counted[i] # 1
        BY <2>1
    <2>6. /\ row.held = Net(txs, {i \in 1 .. Len(txs) : counted[i] = 1})
          /\ Got(txs, (1 .. Len(txs)) \ Pending) = Start
        BY <2>2, <2>3, <2>4
    <2>7. row.held + row.exited <= Got(txs, (1 .. Len(txs)) \ Pending)
        BY <2>1, <2>2, <2>6
    <2>8. RowOf(row, counted, txs, Pending)
        BY <2>2, <2>5, <2>6, <2>7 DEF RowOf
    <2> QED
        BY <2>8, RowParts
<1>7. \A k \in Syncs : sync[k] = NoSync
    BY DEF Init
<1>8. NoSync \in SyncState /\ NoSync.pc = "none" /\ NoSync.legs = {} /\ NoSync.hist = {} /\ NoSync.obs = {}
    <2>1. "none" \in SyncPcs /\ {} \in SUBSET Nat /\ FALSE \in BOOLEAN
        BY DEF SyncPcs
    <2> QED
        BY <2>1, SyncFields, Zenon DEF NoSync
<1>9. SyncInv
    BY <1>7, <1>8 DEF Init, SyncInv, SyncOK
<1>10. ResyncInv
    <2>1. scheduled = FALSE /\ lock = "free" /\ loads = 0 /\ told = {} /\ covered = {} /\ watched = {}
        BY DEF Init
    <2>2. loads \in 0 .. MaxLoads
        BY <2>1 DEF LedgerConstants
    <2> QED
        BY <2>1, <2>2 DEF ResyncInv, NotSwallowed
<1>11. LegInv
    BY DEF Init, LegInv
<1> QED
    BY <1>2, <1>4, <1>6, <1>9, <1>10, <1>11 DEF Inv

\* Every step keeps the invariant.
LEMMA NextInv ==
    ASSUME Inv, [Next]_vars
    PROVE  Inv'
<1>1. CASE Next
    <2>1. ChainInv' /\ TraderInv' /\ SyncInv' /\ RowInv' /\ LegInv'
        BY <1>1, ChainKept, TraderKept, SyncKept, RowKept, LegKept DEF Inv
    <2>2. MarksTyped' /\ Waits'
        BY <1>1, MarksKept, WaitsKept DEF Inv
    <2>3. ResyncInv'
        BY <2>2, ResyncParts
    <2> QED
        BY <2>1, <2>3 DEF Inv
<1>2. CASE UNCHANGED vars
    <2> USE <1>2 DEF vars, records, books, resync
    <2>1. ChainInv'
        BY DEF Inv, ChainInv, Landed
    <2>2. TraderInv'
        BY DEF Inv, TraderInv, Landed, Pending, IsBot
    <2>3. Pending' = Pending
        BY DEF Pending
    <2>4. RowInv'
        <3>1. RowOf(row, counted, txs, Pending)
            BY RowParts DEF Inv
        <3> QED
            BY <2>3, <3>1, RowParts
    <2>5. SyncInv'
        BY DEF Inv, SyncInv, SyncOK, Landed, IsBot
    <2>6. ResyncInv' /\ LegInv'
        BY DEF Inv, ResyncInv, NotSwallowed, LegInv
    <2> QED
        BY <2>1, <2>2, <2>4, <2>5, <2>6 DEF Inv
<1> QED
    BY <1>1, <1>2

\* The invariant holds throughout.
LEMMA Invariant == Spec => []Inv
BY InitInv, NextInv, PTL DEF Spec

\* The sets a sync carries are of transactions that landed.
LEMMA SyncInChain ==
    ASSUME NEW pc \in SyncPcs, NEW D, NEW lg \in SUBSET D, NEW h \in SUBSET D, NEW o \in SUBSET D,
           NEW b \in BOOLEAN
    PROVE  [pc |-> pc, legs |-> lg, hist |-> h, obs |-> o, busy |-> b]
             \in [pc : SyncPcs, legs : SUBSET D, hist : SUBSET D, obs : SUBSET D, busy : BOOLEAN]
BY Zenon

\* It implies the types.
LEMMA InvTyped ==
    ASSUME Inv
    PROVE  TypeOK
<1> USE LedgerConstants
<1>1. ChainInv /\ TraderInv /\ RowInv /\ SyncInv /\ ResyncInv
    BY DEF Inv
<1>2. trader \in [pc : {"idle", "sent", "landed", "verified", "booked"}, tx : 0 .. Len(txs)]
    <2>1. trader = [pc |-> trader.pc, tx |-> trader.tx] /\ trader.pc \in TraderPcs
          /\ trader.tx \in Nat /\ trader.tx <= Len(txs) /\ Len(txs) \in Nat
        BY <1>1 DEF TraderInv, ChainInv
    <2>2. trader.tx \in 0 .. Len(txs)
        BY <2>1
    <2> QED
        BY <2>1, <2>2, Zenon DEF TraderPcs
<1>3. row \in [held : 0 .. Start + MaxTx, exited : 0 .. MaxTx]
    <2> PICK q, T, I, G : /\ q = txs /\ T = 1 .. Len(q) /\ I = {i \in 1 .. Len(q) : counted[i] = 1}
                          /\ G = T \ Pending
        OBVIOUS
    <2>1. RowOf(row, counted, txs, Pending)
        BY <1>1, RowParts
    <2>2. q \in Seq(Kinds) /\ Len(q) <= MaxTx /\ I \in SUBSET T /\ G \in SUBSET T
        BY <1>1 DEF ChainInv
    <2>3. /\ row = [held |-> row.held, exited |-> row.exited] /\ row.held \in Nat /\ row.exited \in Nat
          /\ row.held = Net(q, I) /\ row.held + row.exited <= Got(q, G)
        BY <2>1 DEF RowOf
    <2>4. /\ Net(q, I) \in Nat /\ Net(q, I) <= Start + MaxTx /\ Got(q, T) - Net(q, I) <= MaxTx
          /\ Got(q, G) <= Got(q, T) /\ Got(q, G) \in Nat /\ Got(q, T) \in Nat
        BY <2>2, Tokens
    <2>5. row.held \in 0 .. Start + MaxTx /\ row.exited \in 0 .. MaxTx
        BY <2>3, <2>4 DEF LedgerConstants
    <2> QED
        BY <2>3, <2>5, Zenon
<1>4. sync \in [Syncs -> [pc : SyncPcs, legs : SUBSET Landed, hist : SUBSET Landed, obs : SUBSET Landed,
                          busy : BOOLEAN]]
    <2> PICK D : D = Landed
        OBVIOUS
    <2>1. ASSUME NEW k \in Syncs
          PROVE  sync[k] \in [pc : SyncPcs, legs : SUBSET D, hist : SUBSET D, obs : SUBSET D, busy : BOOLEAN]
        <3> PICK m \in SyncState : m = sync[k]
            BY <1>1 DEF SyncInv
        <3>1. m.legs \in SUBSET D /\ m.hist \in SUBSET D /\ m.obs \in SUBSET D
            BY <1>1, Carries DEF TraderInv, ChainInv
        <3>2. m \in [pc : SyncPcs, legs : SUBSET D, hist : SUBSET D, obs : SUBSET D, busy : BOOLEAN]
            <4>1. /\ m.pc \in SyncPcs /\ m.busy \in BOOLEAN
                  /\ m = [pc |-> m.pc, legs |-> m.legs, hist |-> m.hist, obs |-> m.obs, busy |-> m.busy]
                BY SyncTyped
            <4>2. [pc |-> m.pc, legs |-> m.legs, hist |-> m.hist, obs |-> m.obs, busy |-> m.busy]
                    \in [pc : SyncPcs, legs : SUBSET D, hist : SUBSET D, obs : SUBSET D, busy : BOOLEAN]
                BY <3>1, <4>1, SyncInChain
            <4> QED
                BY <4>1, <4>2, Zenon
        <3> QED
            BY <3>2
    <2>2. sync \in [Syncs -> SyncState]
        BY <1>1 DEF SyncInv
    <2> QED
        BY <2>1, <2>2
<1>5. legs \subseteq {i \in Landed : IsBot(i)}
    BY <1>1 DEF TraderInv, ChainInv
<1>6. counted \in [1 .. MaxTx -> 0 .. 2]
    BY <1>1 DEF RowInv
<1>7. /\ doubt \in Doubts
      /\ txs \in Seq({"dca", "sale", "buy", "sell"}) /\ Len(txs) <= MaxTx
      /\ deltas \subseteq processed /\ processed \subseteq Landed
      /\ recording \union watched \subseteq processed /\ recording \intersect watched = {}
      /\ gap \in BOOLEAN /\ scheduled \in BOOLEAN
      /\ lock \in Tasks \union {"free"} /\ loads \in 0 .. MaxLoads
      /\ covered \subseteq told /\ told \subseteq watched
    BY <1>1 DEF ChainInv, ResyncInv, Kinds
<1> QED
    BY <1>2, <1>3, <1>4, <1>5, <1>6, <1>7 DEF TypeOK, SyncPcs

-----------------------------------------------------------------------------
(* Theorems *)

\* Every variable keeps its type, whatever lags behind: what the row holds and has exited
\* stays within the tokens there are, and no sync ever reads a transaction that has not
\* landed.
THEOREM LedgerTyped == Spec => []TypeOK
BY Invariant, InvTyped, PTL

\* schedule_resync: activity is never swallowed by a resync that is scheduled, or under way,
\* whatever fails.
THEOREM ActivityNotSwallowed == Spec => []NotSwallowed
<1>1. Inv => NotSwallowed
    BY DEF Inv, ResyncInv
<1> QED
    BY <1>1, Invariant, PTL

\* apply_plan, booked_since: as long as only one of history and wallet is behind the bookings,
\* no sync books the bot's own fill again or takes a booked one away, however its reads fall
\* between the steps of the trader.  With both behind a booked fill can be lost, as the
\* configuration MCLedgerDoubt.cfg shows.
THEOREM FillsOnce ==
    ASSUME \A d \in Doubts : d # {"history", "wallet"}
    PROVE  Spec => []EachFillOnce
<1>1. Inv => EachFillOnce
    <2> SUFFICES ASSUME Inv PROVE EachFillOnce
        OBVIOUS
    <2>1. row.held = Balance(In) /\ counted \in [1 .. MaxTx -> {0, 1}]
        BY DEF Inv, RowInv
    <2>2. Landed \subseteq 1 .. MaxTx
        BY LedgerConstants DEF Inv, ChainInv, Landed, LedgerConstants
    <2>3. \A i \in Landed : counted[i] <= 1
        BY <2>1, <2>2
    <2>4. \A i \in legs : counted[i] = 1
        BY DEF Inv, ChainInv, LegInv
    <2> QED
        BY <2>1, <2>3, <2>4 DEF EachFillOnce, In
<1> QED
    BY <1>1, Invariant, PTL

=============================================================================
