--------------------------- MODULE PositionBooks ---------------------------
(***************************************************************************)
(* The token amounts of the positions of one mint (positions/booking.rs,   *)
(* positions/holdings.rs, positions/round_state.rs, the bookings of        *)
(* positions/apply.rs, the sizing of positions/operations/exit_sizing.rs   *)
(* and the wallet readings of positions/verifier.rs).                      *)
(*                                                                         *)
(* A position buys with its entry and its adds and sells with partial      *)
(* exits and a full exit.  Swaps land in any order, one worker verifies    *)
(* them one at a time in any order, and a row may be closed, by a full     *)
(* exit or a write-off, while swaps of it are still unbooked.  A fill that *)
(* is verified then is late: the wallet's holding decides whether its row  *)
(* reopens, and beside another open position of the mint the holding is    *)
(* handed to that one.                                                     *)
(*                                                                         *)
(* Costs, prices and fees are left out, and so are wallet-history rows,    *)
(* held swaps, archiving and quote assets.                                 *)
(***************************************************************************)
EXTENDS Naturals, Sequences, FiniteSets, FiniteSetsExt

CONSTANTS
    Positions,    \* the positions of the mint, in the order they are opened
    Amounts,      \* tokens a buy may bring
    DustFloor,    \* DUST_FLOOR_RAW
    DustDivisor,  \* DUST_DIVISOR
    MaxAdds,      \* adds in flight: one for the auto-trader, any number by hand
    EarlyTrades,  \* whether a position is traded before its entry is verified
    MaxSwaps      \* bound: swaps sent

ASSUME BooksConstants ==
    /\ IsFiniteSet(Positions) /\ Positions \subseteq Nat
    /\ IsFiniteSet(Amounts) /\ Amounts # {} /\ Amounts \subseteq Nat \ {0}
    /\ DustFloor \in Nat /\ DustDivisor \in Nat \ {0}
    /\ MaxAdds \in Nat /\ EarlyTrades \in BOOLEAN /\ MaxSwaps \in Nat

VARIABLES
    rows,       \* the rows of the positions
    swaps,      \* the swaps in the order they were sent
    records,    \* entry and exit records: a position and a swap
    wallet,     \* tokens of the mint in the wallet
    item,       \* the verification in hand and the holding it read
    writtenOff, \* history: whether a position was written off
    overlapped  \* history: whether a position had two swaps ("own") or two sales ("sales") in
                \* flight, or the wallet was divided while a sale was in flight ("shared")

vars == <<rows, swaps, records, wallet, item, writtenOff, overlapped>>
history == <<writtenOff, overlapped>>

Sigs == DOMAIN swaps
Buys == {"entry", "dca"}
Sales == {"partial", "exit"}

\* st, whether the entry is verified, token_amount, remaining_token_amount,
\* total_exited_amount, synthetic_exit and the signature of the full exit (0: none).
NoRow == [st |-> "none", entry |-> FALSE, tok |-> 0, held |-> 0, exited |-> 0,
          synth |-> FALSE, exit |-> 0]
NoItem == [sig |-> 0, held |-> 0, residual |-> FALSE]

MaxTokens == MaxSwaps * Max(Amounts)

TypeOK ==
    /\ rows \in [Positions -> [st : {"none", "open", "closed"}, entry : BOOLEAN,
                               tok : 0 .. MaxTokens, held : 0 .. 2 * MaxTokens,
                               exited : 0 .. 2 * MaxTokens,
                               synth : BOOLEAN, exit : 0 .. MaxSwaps]]
    /\ swaps \in Seq([kind : Buys \union Sales, pos : Positions, amount : 1 .. MaxTokens,
                      st : {"sent", "landed", "settled"}])
    /\ Len(swaps) <= MaxSwaps
    /\ records \subseteq Positions \X Sigs
    /\ wallet \in 0 .. MaxTokens
    /\ item \in [sig : 0 .. Len(swaps), held : 0 .. MaxTokens, residual : BOOLEAN]
    /\ writtenOff \in BOOLEAN /\ overlapped \subseteq {"own", "sales", "shared"}

Init ==
    /\ rows = [p \in Positions |-> NoRow]
    /\ swaps = <<>> /\ records = {} /\ wallet = 0
    /\ item = NoItem /\ writtenOff = FALSE /\ overlapped = {}

----------------------------------------------------------------------------
(* The pure rules of round_state.rs, holdings.rs and booking.rs *)

Monus(a, b) == IF a > b THEN a - b ELSE 0
Least(a, b) == IF a < b THEN a ELSE b

acquired_amount(r) == r.held + r.exited

DustLimit(acquired) == Max({acquired \div DustDivisor, DustFloor})
is_dust(held, acquired) == held <= DustLimit(acquired)

\* Defect of attributable_held: tokens of the other open rows are counted too.
attributable_with_others(holding, others, acquired) == Least(holding, acquired)

attributable_held(holding, others, acquired) == Least(Monus(holding, others), acquired)

apply_entry_fill(r, tokens) == [r EXCEPT !.entry = TRUE, !.tok = tokens, !.held = tokens]

book_acquisition(r, tokens) == [r EXCEPT !.held = @ + tokens]

\* Defect of book_exit: the sale is not floored at what the row holds.
book_exit_unfloored(r, tokens) == [r EXCEPT !.held = @ - tokens, !.exited = @ + tokens]

book_exit(r, tokens) == [r EXCEPT !.held = Monus(@, tokens), !.exited = @ + tokens]

book_remaining_as_exited(r) == [r EXCEPT !.held = 0, !.exited = @ + r.held]

\* A full sale of more than the row holds brings the rest onto the row.
absorb_unbooked_sale(r, sold) ==
    LET excess == Monus(sold, r.held)
    IN  IF is_dust(excess, acquired_amount(r)) \/ excess = 0 THEN r ELSE book_acquisition(r, excess)

clear_close(r, held) ==
    [r EXCEPT !.st = "open", !.held = held, !.exited = acquired_amount(r) - held,
              !.synth = FALSE, !.exit = 0]

\* Defect of follow_round: the row books its late fill and stays closed.
follow_round_closed(r, held) == [r EXCEPT !.held = 0, !.exited = acquired_amount(r)]

\* A closed row reopens with what is held, or stays closed when that is dust.
follow_round(r, held) ==
    IF is_dust(held, acquired_amount(r))
    THEN [r EXCEPT !.held = 0, !.exited = acquired_amount(r)]
    ELSE clear_close(r, Least(held, acquired_amount(r)))

\* The row after a handover, and the tokens that left it.
Kept(r, exited, handed) == [row |-> [r EXCEPT !.held = 0, !.exited = exited], tokens |-> handed]

\* Beside an open position what is held leaves the closed row.
hand_over_round(r, held) ==
    LET handed == Least(held, acquired_amount(r))
    IN  IF is_dust(held, acquired_amount(r)) THEN [row |-> follow_round(r, held), tokens |-> 0]
        ELSE Kept(r, acquired_amount(r) - handed, handed)

\* Defect of hand_over_leg: the closed row books the whole buy and hands over what is held.
hand_over_leg_whole(r, bought, held) ==
    LET acquired == acquired_amount(r) + bought
    IN  IF is_dust(held, acquired)
        THEN [row |-> follow_round(book_acquisition(r, bought), held), tokens |-> 0]
        ELSE Kept(r, acquired, Least(held, acquired))

\* A buy that lands on a closed row: the part still held is handed over, then the earlier
\* tokens still held beyond it; the rest of the buy is booked as acquired and exited.
hand_over_leg(r, bought, held) ==
    LET before == acquired_amount(r)
        handed == Least(held, before + bought)
        leg == Least(handed, bought)
        earlier == handed - leg
    IN  IF is_dust(held, before + bought)
        THEN [row |-> follow_round(book_acquisition(r, bought), held), tokens |-> 0]
        ELSE Kept(r, Monus(before, earlier) + (bought - leg), handed)

----------------------------------------------------------------------------
(* What the calls and the bookings read *)

OpenRows == {p \in Positions : rows[p].st = "open"}
Pending(kinds) == {s \in Sigs : swaps[s].kind \in kinds /\ swaps[s].st # "settled"}

\* query_other_open_held: what the other open rows hold, unless an entry is not verified.
Beside(p) == OpenRows \ {p}
Attributable(p) == \A q \in Beside(p) : rows[q].entry
other_open_held(p) == MapThenSumSet(LAMBDA q : rows[q].held, Beside(p))

\* A bot swap of another position may still move the holding: late fills of closed rows wait
\* for the ones sent before them, and for every one of an open row.
other_swap_in_flight(p, s) ==
    \E t \in Pending({"dca", "partial"}) :
       /\ swaps[t].pos # p
       /\ ~ (swaps[s].kind \in {"dca", "partial"} /\ t > s /\ rows[swaps[t].pos].st = "closed")

----------------------------------------------------------------------------
(* The calls: a swap is sized and sent *)

\* A share below 100% of what the row and the wallet both hold.
partial_exit_amount(p) == 1 .. Monus(Least(rows[p].held, wallet), 1)

\* What the primary account holds, up to the tokens that the other open rows do not hold.
full_exit_amount(p) ==
    1 .. (IF Attributable(p) THEN Monus(wallet, other_open_held(p)) ELSE Least(wallet, rows[p].held))

\* The swaps of p that are unsettled when it sends another.
Unsettled(p) == {s \in Sigs : swaps[s].pos = p /\ swaps[s].st # "settled"}
Overlap(kind, p) ==
    {o \in {"own", "sales"} :
       \E s \in Unsettled(p) : o = "sales" => {kind, swaps[s].kind} \subseteq Sales}

\* A full exit is sized by all the wallet holds, with what a sale sent before it will take.
ExitBesideSale(kind) ==
    /\ kind = "exit"
    /\ \E s \in Sigs : swaps[s].kind \in Sales /\ swaps[s].st = "sent"

Send(kind, p, amount) ==
    /\ Len(swaps) < MaxSwaps
    /\ swaps' = Append(swaps, [kind |-> kind, pos |-> p, amount |-> amount, st |-> "sent"])
    /\ overlapped' = overlapped \union Overlap(kind, p)
                                 \union (IF ExitBesideSale(kind) THEN {"shared"} ELSE {})

\* open_position: a mint has one open round.
SendEntry(p) ==
    /\ OpenRows = {} /\ rows[p] = NoRow
    /\ \A q \in Positions : q < p => rows[q].st = "closed"
    /\ \E a \in Amounts : Send("entry", p, a)
    /\ rows' = [rows EXCEPT ![p].st = "open"]
    /\ UNCHANGED <<records, wallet, item, writtenOff>>

\* dca: refused while a full exit of the position is pending.
SendAdd(p) ==
    /\ rows[p].st = "open" /\ rows[p].exit = 0
    /\ rows[p].entry \/ EarlyTrades
    /\ Cardinality(Pending({"dca"})) < MaxAdds
    /\ \E a \in Amounts : Send("dca", p, a)
    /\ UNCHANGED <<rows, records, wallet, item, writtenOff>>

\* partial_close_position: one at a time.
SendPartial(p) ==
    /\ rows[p].st = "open"
    /\ Pending({"partial"}) = {}
    /\ \E a \in partial_exit_amount(p) : Send("partial", p, a)
    /\ UNCHANGED <<rows, records, wallet, item, writtenOff>>

\* close_position_direct: a pending partial exit does not block it.
SendExit(p) ==
    /\ rows[p].st = "open" /\ rows[p].exit = 0
    /\ rows[p].entry \/ EarlyTrades
    /\ \E a \in full_exit_amount(p) : Send("exit", p, a)
    /\ rows' = [rows EXCEPT ![p].exit = Len(swaps) + 1]
    /\ UNCHANGED <<records, wallet, item, writtenOff>>

\* force_close_position
WriteOff(p) ==
    /\ rows[p].st = "open"
    /\ rows' = [rows EXCEPT ![p] = [book_remaining_as_exited(rows[p])
                                       EXCEPT !.st = "closed", !.synth = TRUE]]
    /\ writtenOff' = TRUE
    /\ UNCHANGED <<swaps, records, wallet, item, overlapped>>

----------------------------------------------------------------------------
(* The chain *)

Land(s) ==
    /\ swaps[s].st = "sent"
    /\ swaps[s].kind \in Sales => wallet >= swaps[s].amount
    /\ wallet' = IF swaps[s].kind \in Buys THEN wallet + swaps[s].amount
                 ELSE wallet - swaps[s].amount
    /\ swaps' = [swaps EXCEPT ![s].st = "landed"]
    /\ UNCHANGED <<rows, records, item, history>>

\* clear_exit_for_retry
clear_exit_for_retry(r, s) ==
    IF r.exit = s /\ (r.st = "open" \/ r.synth) THEN [r EXCEPT !.exit = 0] ELSE r

\* RemoveOrphanEntry: the row describes nothing but the entry that did not land.
Orphan(p, s) ==
    /\ rows[p].st = "open" /\ ~ rows[p].entry /\ rows[p].exit = 0
    /\ \A t \in Pending({"dca", "partial"}) : swaps[t].pos # p
    /\ \A t \in Sigs : <<p, t>> \notin records

\* The swap never landed, and is settled so.
NotLanded(s) ==
    /\ swaps[s].st = "sent"
    /\ swaps' = [swaps EXCEPT ![s].st = "settled"]
    /\ LET p == swaps[s].pos
       IN  rows' = IF swaps[s].kind = "exit"
                   THEN [rows EXCEPT ![p] = clear_exit_for_retry(@, s)]
                   ELSE IF swaps[s].kind = "entry" /\ Orphan(p, s)
                   THEN [rows EXCEPT ![p] = NoRow]
                   ELSE rows
    /\ UNCHANGED <<records, wallet, item, history>>

----------------------------------------------------------------------------
(* The verifier *)

\* classify_exit_residual and unsold_own_holding: whether a full exit left more than dust of
\* the position's own tokens.
LeavesResidual(p, s) ==
    LET r == rows[p]
        own == IF r.held > 0 THEN r.held ELSE r.tok
        acquired == own + r.exited
    IN  /\ wallet # 0
        /\ \/ own = 0
           \/ /\ ~ is_dust(wallet, acquired)
              /\ IF Attributable(p)
                 THEN ~ is_dust(attributable_held(wallet, other_open_held(p), acquired), acquired)
                 ELSE ~ is_dust(Monus(r.held, swaps[s].amount), acquired_amount(r))

\* verify_transaction reads the wallet after the swap.
Read(s) ==
    /\ item = NoItem /\ swaps[s].st = "landed"
    /\ item' = [sig |-> s, held |-> wallet,
                residual |-> swaps[s].kind = "exit" /\ LeavesResidual(swaps[s].pos, s)]
    /\ UNCHANGED <<rows, swaps, records, wallet, history>>

\* A late fill is booked while another sale of the mint is unsettled: other_swap_in_flight waits
\* for no full exit, and not for a partial exit of a closed row that was sent later.
FillBesideSale(s) ==
    /\ records' # records /\ rows[swaps[s].pos].st = "closed"
    /\ Pending(Sales) \ {s} # {}

\* The verification ends; when the queue or the pending mark keeps the swap it is verified again.
Ends(s) ==
    /\ item' = NoItem
    /\ overlapped' = overlapped \union (IF FillBesideSale(s) THEN {"shared"} ELSE {})
    /\ \/ swaps' = [swaps EXCEPT ![s].st = "settled"]
       \/ swaps' = swaps

\* late_fill_holding, with the tokens of a buy the row has not booked.
LateHolding(p, r, unbooked) ==
    attributable_held(item.held, other_open_held(p), acquired_amount(r) + unbooked)

\* A closed row takes the outcome of a handover, its tokens go to the open row, and each row
\* that booked part of the swap records it.
HandOver(p, s, out, recorded) ==
    LET q == CHOOSE q \in Beside(p) : TRUE
    IN  /\ out.tokens > 0 => <<q, s>> \notin records
        /\ rows' = [rows EXCEPT ![p] = out.row, ![q] = book_acquisition(@, out.tokens)]
        /\ records' = records \union (IF recorded THEN {<<p, s>>} ELSE {})
                              \union (IF out.tokens > 0 THEN {<<q, s>>} ELSE {})

\* late_fill: row r, with the leg of swap s booked, follows its round.
LateFill(p, s, r) ==
    /\ ~ other_swap_in_flight(p, s) /\ Attributable(p)
    /\ IF Beside(p) = {}
       THEN /\ rows' = [rows EXCEPT ![p] = follow_round(r, LateHolding(p, r, 0))]
            /\ records' = records \union {<<p, s>>}
       ELSE HandOver(p, s, hand_over_round(r, LateHolding(p, r, 0)), TRUE)

\* late_dca
LateDca(p, s) ==
    LET r == rows[p]
        bought == swaps[s].amount
        held == LateHolding(p, r, bought)
        split == hand_over_leg(r, bought, held)
    IN  /\ ~ other_swap_in_flight(p, s) /\ Attributable(p)
        /\ IF Beside(p) = {}
           THEN /\ rows' = [rows EXCEPT ![p] = follow_round(book_acquisition(r, bought), held)]
                /\ records' = records \union {<<p, s>>}
           ELSE HandOver(p, s, split, split.tokens < bought)

OnRow(p, s, r) ==
    /\ rows' = [rows EXCEPT ![p] = r]
    /\ records' = records \union {<<p, s>>}

\* An entry counts no more than the wallet held after it, unless it read an empty wallet.
EntryTokens(s) ==
    IF item.held > 0 THEN Least(item.held, swaps[s].amount) ELSE swaps[s].amount

\* EntryVerified
BookEntry(s) ==
    LET p == swaps[s].pos
        r == apply_entry_fill(rows[p], EntryTokens(s))
    IN  /\ item.sig = s /\ swaps[s].kind = "entry" /\ rows[p].st # "none"
        /\ IF rows[p].entry \/ <<p, s>> \in records THEN UNCHANGED <<rows, records>>
           ELSE IF rows[p].st = "closed" THEN LateFill(p, s, r)
           ELSE OnRow(p, s, r)
        /\ Ends(s)
        /\ UNCHANGED <<wallet, writtenOff>>

\* A buy handed over is recorded on the row that took it.
entry_recorded_for_mint(p, s) == \E q \in Positions : <<q, s>> \in records

\* DcaVerified
BookAdd(s) ==
    LET p == swaps[s].pos
    IN  /\ item.sig = s /\ swaps[s].kind = "dca" /\ rows[p].st # "none"
        /\ IF entry_recorded_for_mint(p, s) THEN UNCHANGED <<rows, records>>
           ELSE IF rows[p].st = "closed" THEN LateDca(p, s)
           ELSE OnRow(p, s, book_acquisition(rows[p], swaps[s].amount))
        /\ Ends(s)
        /\ UNCHANGED <<wallet, writtenOff>>

\* PartialExitVerified
BookPartial(s) ==
    LET p == swaps[s].pos
    IN  /\ item.sig = s /\ swaps[s].kind = "partial" /\ rows[p].st # "none"
        /\ IF <<p, s>> \in records THEN UNCHANGED <<rows, records>>
           ELSE IF rows[p].st = "closed" THEN LateFill(p, s, rows[p])
           ELSE OnRow(p, s, book_exit(rows[p], swaps[s].amount))
        /\ Ends(s)
        /\ UNCHANGED <<wallet, writtenOff>>

\* ExitVerified.  What an unbooked add of the position bought is left to that add.
BookExit(s) ==
    LET p == swaps[s].pos
        r == rows[p]
        own_add_pending == \E t \in Pending({"dca"}) : swaps[t].pos = p
        sold == IF own_add_pending THEN r ELSE absorb_unbooked_sale(r, swaps[s].amount)
    IN  /\ item.sig = s /\ swaps[s].kind = "exit" /\ ~ item.residual /\ r.st # "none"
        /\ IF <<p, s>> \in records \/ (r.st = "closed" /\ ~ r.synth /\ r.exit = s)
           THEN UNCHANGED <<rows, records>>
           ELSE IF r.st = "closed"
           THEN LateFill(p, s, [r EXCEPT !.synth = FALSE, !.exit = IF r.synth THEN s ELSE @])
           ELSE OnRow(p, s, [book_remaining_as_exited(sold)
                                EXCEPT !.st = "closed", !.exit = IF r.exit = 0 THEN s ELSE @])
        /\ Ends(s)
        /\ UNCHANGED <<wallet, writtenOff>>

\* ExitResidualClearForRetry: the sale is booked as a partial exit, and the exit is cleared.
BookResidual(s) ==
    LET p == swaps[s].pos
        cleared(r) == clear_exit_for_retry(r, s)
    IN  /\ item.sig = s /\ item.residual /\ rows[p].st # "none"
        /\ IF <<p, s>> \in records
           THEN rows' = [rows EXCEPT ![p] = cleared(@)] /\ records' = records
           ELSE IF rows[p].st = "open" THEN OnRow(p, s, cleared(book_exit(rows[p], swaps[s].amount)))
           ELSE /\ ~ other_swap_in_flight(p, s) /\ Attributable(p)
                /\ LET held == LateHolding(p, rows[p], 0)
                       out == hand_over_round(rows[p], held)
                   IN  IF Beside(p) = {} THEN OnRow(p, s, cleared(follow_round(rows[p], held)))
                       ELSE HandOver(p, s, [out EXCEPT !.row = cleared(@)], TRUE)
        /\ Ends(s)
        /\ UNCHANGED <<wallet, writtenOff>>

\* A booking that must wait, or whose row is gone, is read again later.
Retry ==
    /\ item # NoItem
    /\ item' = NoItem
    /\ UNCHANGED <<rows, swaps, records, wallet, history>>

Book(s) == BookEntry(s) \/ BookAdd(s) \/ BookPartial(s) \/ BookExit(s) \/ BookResidual(s)

Next ==
    \/ \E p \in Positions : SendEntry(p) \/ SendAdd(p) \/ SendPartial(p) \/ SendExit(p) \/ WriteOff(p)
    \/ \E s \in Sigs : Land(s) \/ NotLanded(s) \/ Read(s) \/ Book(s)
    \/ Retry

Spec == Init /\ [][Next]_vars

----------------------------------------------------------------------------
(* Properties *)

Settled == \A s \in Sigs : swaps[s].st = "settled"
Claimed == MapThenSumSet(LAMBDA p : rows[p].held, OpenRows)
Acquired == MapThenSumSet(LAMBDA p : acquired_amount(rows[p]), Positions)

\* The open rows never claim more tokens than the wallet holds, once no swap of the mint is
\* unsettled: what a late fill gives back or hands over is there to be sold.  Excepted are a
\* position with two swaps in flight, and a wallet divided, by a late fill or a full exit, beside
\* another sale.
HoldingsBacked == Settled /\ overlapped \subseteq {"sales"} => Claimed <= wallet

\* A full exit that leaves dust of what its position acquired closes the row, and so does a late
\* fill of which only dust is held.  An exit judges a row that holds nothing by its entry.
left_as_dust(r) ==
    IF r.st = "closed" THEN Least(acquired_amount(r), DustLimit(r.tok + acquired_amount(r))) ELSE 0
Left == MapThenSumSet(LAMBDA p : left_as_dust(rows[p]), Positions)

\* Without a write-off, with one sale of a position at a time and a wallet that was not divided
\* beside another sale, tokens that no open row claims are the dust of the closed rows: no fill,
\* however late, leaves tokens in the wallet that no position will sell.
NothingLost ==
    Settled /\ ~ writtenOff /\ overlapped \subseteq {"own"} => wallet <= Claimed + Left

\* A late fill moves tokens between the rows of the mint and makes or loses none: what the rows
\* acquired together grows by the buy and by nothing else.
LateFillsConserve ==
    [][\A s \in Sigs :
          /\ item.sig = s /\ rows[swaps[s].pos].st = "closed"
          /\ records' # records
          => Acquired' = Acquired + IF swaps[s].kind = "dca" THEN swaps[s].amount
                                    ELSE IF swaps[s].kind = "entry" THEN EntryTokens(s) ELSE 0]_vars
=============================================================================
