---------------------------- MODULE LedgerSync ----------------------------
(***************************************************************************)
(* The wallet-history ledger against the trader that books the same row    *)
(* (positions/ledger/sync.rs, with transactions/database/deltas.rs,        *)
(* wallets/watch/recorder.rs, positions/state_pending_queries.rs and       *)
(* transactions/service/bootstrap.rs).                                     *)
(*                                                                         *)
(* One mint with one open bot position, which owns the whole round and     *)
(* never empties.  Transactions of one token each land on the wallet: the  *)
(* trader's own adds and partial exits, which the verifier books on the    *)
(* row, and buys and sells made outside the bot, which a sync books.  A    *)
(* sync reads the booked legs, the history, the wallet, and at the end     *)
(* writes the row in a transaction of its own: every read may be stale     *)
(* when the write happens, and the marks of a swap in flight and the legs  *)
(* booked since are what tells.                                            *)
(***************************************************************************)
EXTENDS Naturals, Sequences, FiniteSets

CONSTANTS
    Start,     \* tokens of the position in the beginning
    Tasks,     \* resync tasks that may live at a time
    Doubts,    \* what may lag behind a booked fill: sets of "history" and "wallet"
    MaxTx,     \* bound: transactions of the mint
    MaxLoads   \* bound: history loads

ASSUME LedgerConstants ==
    /\ MaxTx \in Nat /\ MaxLoads \in Nat
    /\ Start \in Nat /\ Start > MaxTx
    /\ IsFiniteSet(Tasks) /\ "load" \notin Tasks
    /\ Doubts \subseteq SUBSET {"history", "wallet"}

VARIABLES
    doubt,      \* the sources that may be behind in this behaviour
    txs,        \* kinds of the transactions that landed
    processed,  \* raw and processed transactions
    deltas,     \* transactions with their rows in subject_asset_deltas
    recording,  \* transactions the watch stored without their deltas so far
    watched,    \* transactions the watch is done with
    gap,        \* SUBJECT_DELTA_GAP
    trader,     \* the swap of the mint in flight, and its transaction
    legs,       \* legs the trader booked
    row,        \* tokens held and exited
    scheduled,  \* RESYNC_SCHEDULED
    lock,       \* RESYNC_LOCK
    sync,       \* sync[k]: where a sync stands and what it read
    loads,
    told,       \* transactions handed to schedule_resync
    covered,    \* history: those a sync looked for since
    counted     \* history: how often a transaction is in the tokens held

books == <<legs, row, counted>>
records == <<processed, deltas, recording, watched>>
resync == <<scheduled, lock, sync, loads, told, covered>>
vars == <<doubt, txs, records, gap, trader, books, resync>>

Landed == 1 .. Len(txs)
Syncs == Tasks \union {"load"}
IsBot(i) == txs[i] \in {"dca", "sale"}
IsBuy(i) == txs[i] \in {"dca", "buy"}
Bought(S) == Start + Cardinality({i \in S : IsBuy(i)})
Sold(S) == Cardinality({i \in S : ~ IsBuy(i)})
Balance(S) == Bought(S) - Sold(S)

NoSync == [pc |-> "none", legs |-> {}, hist |-> {}, obs |-> {}, busy |-> FALSE]

TypeOK ==
    /\ doubt \in Doubts
    /\ txs \in Seq({"dca", "sale", "buy", "sell"}) /\ Len(txs) <= MaxTx
    /\ deltas \subseteq processed /\ processed \subseteq Landed
    /\ recording \union watched \subseteq processed /\ recording \intersect watched = {}
    /\ gap \in BOOLEAN /\ scheduled \in BOOLEAN
    /\ trader \in [pc : {"idle", "sent", "landed", "verified", "booked"}, tx : 0 .. Len(txs)]
    /\ legs \subseteq {i \in Landed : IsBot(i)}
    /\ row \in [held : 0 .. Start + MaxTx, exited : 0 .. MaxTx]
    /\ lock \in Tasks \union {"free"}
    /\ sync \in [Syncs -> [pc : {"none", "debounce", "lock", "repair", "gap", "fill", "legs",
                                 "history", "wallet", "plan", "busy", "apply"},
                           legs : SUBSET Landed, hist : SUBSET Landed, obs : SUBSET Landed,
                           busy : BOOLEAN]]
    /\ loads \in 0 .. MaxLoads
    /\ covered \subseteq told /\ told \subseteq watched
    /\ counted \in [1 .. MaxTx -> 0 .. 2]

Init ==
    /\ doubt \in Doubts
    /\ txs = <<>>
    /\ processed = {} /\ deltas = {} /\ recording = {} /\ watched = {}
    /\ gap = FALSE
    /\ trader = [pc |-> "idle", tx |-> 0]
    /\ legs = {} /\ row = [held |-> Start, exited |-> 0]
    /\ counted = [i \in 1 .. MaxTx |-> 0]
    /\ scheduled = FALSE /\ lock = "free"
    /\ sync = [k \in Syncs |-> NoSync]
    /\ loads = 0 /\ told = {} /\ covered = {}

----------------------------------------------------------------------------
(* The wallet and the watch *)

\* The user trades the token in another wallet app.
OutsideTrade ==
    /\ Len(txs) < MaxTx
    /\ \E k \in {"buy", "sell"} : txs' = Append(txs, k)
    /\ UNCHANGED <<doubt, records, gap, trader, books, resync>>

\* recorder::record stores the processed row, then the deltas.
WatchStores(i) ==
    /\ i \notin recording \union watched
    /\ processed' = processed \union {i}
    /\ IF "history" \in doubt
       THEN /\ recording' = recording \union {i}
            /\ UNCHANGED <<deltas, watched>>
       ELSE /\ deltas' = deltas \union {i}
            /\ watched' = watched \union {i}
            /\ recording' = recording
    /\ UNCHANGED <<doubt, txs, gap, trader, books, resync>>

\* The deltas follow, or fail: a failure is only logged.
WatchStoresDeltas(i) ==
    /\ i \in recording
    /\ recording' = recording \ {i}
    /\ watched' = watched \union {i}
    /\ \/ deltas' = deltas \union {i}
       \/ deltas' = deltas
    /\ UNCHANGED <<doubt, txs, processed, gap, trader, books, resync>>

\* Defect of Activity: the resync is scheduled as soon as the row is stored.
ActivityEarly(i) ==
    /\ i \in processed \ told
    /\ told' = told \union {i}
    /\ IF scheduled THEN UNCHANGED <<scheduled, sync>>
       ELSE /\ scheduled' = TRUE
            /\ \E k \in Tasks : /\ sync[k].pc = "none"
                                /\ sync' = [sync EXCEPT ![k].pc = "debounce"]
    /\ UNCHANGED <<doubt, txs, records, gap, trader, books, lock, loads, covered>>

\* handle_own_wallet_activity, which calls schedule_resync: a resync is scheduled unless one
\* is that has not started.
Activity(i) ==
    /\ i \in watched \ told
    /\ told' = told \union {i}
    /\ IF scheduled THEN UNCHANGED <<scheduled, sync>>
       ELSE /\ scheduled' = TRUE
            /\ \E k \in Tasks : /\ sync[k].pc = "none"
                                /\ sync' = [sync EXCEPT ![k].pc = "debounce"]
    /\ UNCHANGED <<doubt, txs, records, gap, trader, books, lock, loads, covered>>

----------------------------------------------------------------------------
(* The trader: one swap of the mint at a time, marked from before it is sent until after it
   is booked *)

\* mints_with_pending_swaps
Busy == trader.pc # "idle"

Send ==
    /\ trader.pc = "idle" /\ Len(txs) < MaxTx
    /\ trader' = [pc |-> "sent", tx |-> 0]
    /\ UNCHANGED <<doubt, txs, records, gap, books, resync>>

Land ==
    /\ trader.pc = "sent" /\ Len(txs) < MaxTx
    /\ \E k \in {"dca", "sale"} : txs' = Append(txs, k)
    /\ trader' = [pc |-> "landed", tx |-> Len(txs) + 1]
    /\ UNCHANGED <<doubt, records, gap, books, resync>>

\* verify_transaction reads the processed row, or has the transaction processed: a failed
\* write of its deltas is noted.
Verify ==
    /\ trader.pc = "landed"
    /\ trader' = [trader EXCEPT !.pc = "verified"]
    /\ processed' = processed \union {trader.tx}
    /\ \/ trader.tx \in processed /\ UNCHANGED <<deltas, gap>>
       \/ /\ trader.tx \notin processed
          /\ deltas' = deltas \union {trader.tx}
          /\ gap' = gap
       \/ /\ trader.tx \notin processed /\ "history" \in doubt
          /\ deltas' = deltas
          /\ gap' = TRUE
    /\ UNCHANGED <<doubt, txs, recording, watched, books, resync>>

\* The booking transaction of the verified swap.
Book ==
    /\ trader.pc = "verified"
    /\ trader' = [trader EXCEPT !.pc = "booked"]
    /\ legs' = legs \union {trader.tx}
    /\ row' = IF IsBuy(trader.tx) THEN [row EXCEPT !.held = @ + 1]
              ELSE [held |-> row.held - 1, exited |-> row.exited + 1]
    /\ counted' = [counted EXCEPT ![trader.tx] = @ + 1]
    /\ UNCHANGED <<doubt, txs, records, gap, resync>>

\* The pending mark goes after the booking, or with a swap that failed.
Clear ==
    /\ \/ trader.pc = "booked"
       \/ trader.pc = "sent"
    /\ trader' = [pc |-> "idle", tx |-> 0]
    /\ UNCHANGED <<doubt, txs, records, gap, books, resync>>

----------------------------------------------------------------------------
(* A sync *)

Go(k, pc) == sync' = [sync EXCEPT ![k].pc = pc]

\* The sync ends; a resync lets go of the lock.
Ends(k) ==
    /\ sync' = [sync EXCEPT ![k] = NoSync]
    /\ lock' = IF lock = k THEN "free" ELSE lock

\* Defect of Debounced: the mark is not cleared when the work starts.
DebouncedMarked(k) ==
    /\ sync[k].pc = "debounce"
    /\ Go(k, "lock")
    /\ UNCHANGED <<doubt, txs, records, gap, trader, books, scheduled, lock, loads, told, covered>>

\* The mark is cleared before the work starts.
Debounced(k) ==
    /\ sync[k].pc = "debounce"
    /\ scheduled' = FALSE
    /\ Go(k, "lock")
    /\ UNCHANGED <<doubt, txs, records, gap, trader, books, lock, loads, told, covered>>

Locks(k) ==
    /\ sync[k].pc = "lock" /\ lock = "free"
    /\ lock' = k
    /\ Go(k, "gap")
    /\ UNCHANGED <<doubt, txs, records, gap, trader, books, scheduled, loads, told, covered>>

\* A history load syncs without the lock, after a repair of its own.
LoadStarts ==
    /\ loads < MaxLoads /\ sync["load"].pc = "none"
    /\ loads' = loads + 1
    /\ Go("load", "repair")
    /\ UNCHANGED <<doubt, txs, records, gap, trader, books, scheduled, lock, told, covered>>

LoadRepairs ==
    /\ sync["load"].pc = "repair"
    /\ \/ deltas' = processed /\ gap' = gap
       \/ deltas' = deltas /\ gap' = TRUE
    /\ Go("load", "gap")
    /\ UNCHANGED <<doubt, txs, processed, recording, watched, trader, books, scheduled, lock, loads, told, covered>>

TakeGap(k) ==
    /\ sync[k].pc = "gap"
    /\ gap' = FALSE
    /\ Go(k, IF gap THEN "fill" ELSE "legs")
    /\ UNCHANGED <<doubt, txs, records, trader, books, scheduled, lock, loads, told, covered>>

\* A repair that fails notes the gap again and nothing is reduced.
Fill(k) ==
    /\ sync[k].pc = "fill"
    /\ \/ /\ deltas' = processed
          /\ Go(k, "legs")
          /\ UNCHANGED <<gap, lock, covered>>
       \/ /\ gap' = TRUE
          /\ Ends(k)
          /\ covered' = told
          /\ deltas' = deltas
    /\ UNCHANGED <<doubt, txs, processed, recording, watched, trader, books, scheduled, loads, told>>

\* The legs booked so far, before the history; none when they cannot be read.
ReadLegs(k) ==
    /\ sync[k].pc = "legs"
    /\ \E seen \in {legs, {}} : sync' = [sync EXCEPT ![k].pc = "history", ![k].legs = seen]
    /\ UNCHANGED <<doubt, txs, records, gap, trader, books, scheduled, lock, loads, told, covered>>

ReadHistory(k) ==
    /\ sync[k].pc = "history"
    /\ sync' = [sync EXCEPT ![k].pc = "wallet", ![k].hist = deltas]
    /\ covered' = told
    /\ UNCHANGED <<doubt, txs, records, gap, trader, books, scheduled, lock, loads, told>>

\* A history that cannot be read ends the sync with a log line, and nothing schedules another.
ReadHistoryFails(k) ==
    /\ sync[k].pc = "history"
    /\ Ends(k)
    /\ covered' = told
    /\ UNCHANGED <<doubt, txs, records, gap, trader, books, scheduled, loads, told>>

\* reconcile_with_wallet: the balance the wallet shows wins over the history, unless it is
\* older than the round or was not read.
ReadWallet(k) ==
    /\ sync[k].pc = "wallet"
    /\ \E slot \in IF "wallet" \in doubt THEN 0 .. Len(txs) ELSE {Len(txs)} :
          LET hist == sync[k].hist
              behind == \E i \in hist : i > slot
              unread == "wallet" \in doubt /\ slot = 0
          IN  sync' = [sync EXCEPT ![k].pc = "plan",
                                   ![k].obs = IF behind \/ unread THEN hist ELSE 1 .. slot]
    /\ UNCHANGED <<doubt, txs, records, gap, trader, books, scheduled, lock, loads, told, covered>>

\* reconcile_owned_position: an outside buy the row does not carry is adopted while the
\* history reconciles with the wallet, else what left the wallet is booked as exited.
Rewrite(s, booked) ==
    LET complete == Balance(s.obs) = Balance(s.hist)
        outside == \E i \in s.hist : IsBuy(i) /\ i \notin booked
    IN  IF complete /\ outside /\ Bought(s.hist) > row.held + row.exited
        THEN [held |-> Balance(s.obs), exited |-> Sold(s.hist)]
        ELSE IF row.held > Balance(s.obs)
        THEN [held |-> Balance(s.obs), exited |-> row.exited + row.held - Balance(s.obs)]
        ELSE row

\* plan_position_writes: a busy row, or one that would not change, is not planned.
Plan(k) ==
    /\ sync[k].pc = "plan"
    /\ IF Busy \/ Rewrite(sync[k], sync[k].legs) = row
       THEN Ends(k)
       ELSE Go(k, "busy") /\ lock' = lock
    /\ UNCHANGED <<doubt, txs, records, gap, trader, books, scheduled, loads, told, covered>>

\* apply_plan reads the mints in flight before it opens the booking transaction.
ReadBusy(k) ==
    /\ sync[k].pc = "busy"
    /\ sync' = [sync EXCEPT ![k].pc = "apply", ![k].busy = Busy]
    /\ UNCHANGED <<doubt, txs, records, gap, trader, books, scheduled, lock, loads, told, covered>>

\* Defect of booked_since: legs booked after the history was read do not matter.
booked_since_ignored(k) == FALSE

\* A leg the trader booked after the sync read the legs.
booked_since(k) == ~ (legs \subseteq sync[k].legs)

\* The booking transaction of the update, on the row and the legs it reads itself.
Apply(k) ==
    /\ sync[k].pc = "apply"
    /\ LET s == sync[k]
           fresh == IF s.busy \/ booked_since(k) THEN row ELSE Rewrite(s, legs)
       IN  /\ row' = fresh
           /\ counted' = IF fresh = row THEN counted
                         ELSE [i \in 1 .. MaxTx |-> IF i \in s.obs THEN 1 ELSE 0]
    /\ Ends(k)
    /\ UNCHANGED <<doubt, txs, records, gap, trader, legs, scheduled, loads, told, covered>>

SyncStep(k) ==
    \/ TakeGap(k) \/ Fill(k) \/ ReadLegs(k) \/ ReadHistory(k) \/ ReadHistoryFails(k)
    \/ ReadWallet(k) \/ Plan(k) \/ ReadBusy(k) \/ Apply(k)

TaskStep(k) == Debounced(k) \/ Locks(k) \/ SyncStep(k)

Next ==
    \/ OutsideTrade
    \/ \E i \in Landed : WatchStores(i) \/ WatchStoresDeltas(i) \/ Activity(i)
    \/ Send \/ Land \/ Verify \/ Book \/ Clear
    \/ LoadStarts \/ LoadRepairs \/ SyncStep("load")
    \/ \E k \in Tasks : TaskStep(k)

Spec == Init /\ [][Next]_vars

----------------------------------------------------------------------------
(* Properties *)

\* The tokens held are those of the transactions counted, none of them twice, and a fill the
\* trader booked stays in them once: a sync neither books the bot's own fill as an outside
\* trade nor takes a booked one away, however its reads fall between the trader's steps.
EachFillOnce ==
    /\ row.held = Balance({i \in Landed : counted[i] = 1})
    /\ \A i \in Landed : counted[i] <= 1
    /\ \A i \in legs : counted[i] = 1

\* Activity is never swallowed: while no sync has looked for it, one that has not read the
\* history yet is on its way.  A sync whose history read fails has looked in vain.
NotSwallowed ==
    told # covered => \E k \in Tasks :
       sync[k].pc \in {"debounce", "lock", "gap", "fill", "legs", "history"}
=============================================================================
