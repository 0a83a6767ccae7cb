---------------------------- MODULE OrderLedger ----------------------------
(***************************************************************************)
(* The ledger of one simulated account (src/apps/simulated_trading): its   *)
(* cash, its positions, the order reservations that hold cash and shares,  *)
(* the daily match decisions, the fills that consume the holds, direct     *)
(* trades, the T+n settlement of bought shares and fee corrections.        *)
(*                                                                         *)
(* Every writer first locks the account row and commits in one             *)
(* transaction, so each operation is one step.  A refused operation rolls  *)
(* back and a replayed one returns the stored row: neither is a step.      *)
(*                                                                         *)
(* The code checks its books again wherever it reads them (holds above the *)
(* cash, pending above the position, ...) and refuses to go on.  Those     *)
(* checks are not guards here: the invariants say that none of them fires. *)
(***************************************************************************)
EXTENDS Integers, FiniteSets, Totals

CONSTANTS
  Keys,         \* idempotency keys of orders and of direct trades
  Events,       \* operation keys of daily match decisions
  Assets,
  InitialCash,  \* initial capital, in cents
  Quantities,   \* shares an order or a trade may ask for
  Prices,       \* limit and close prices, in 1/CentUnits of a cent
  Budgets,      \* what a BUY's fee budget adds to the fee estimate
  Lags,         \* settlement lags, in sessions
  Capacities,   \* shares of an asset the account may match in a session: the
                \* volume published so far and the policy in force when asked
  Steps,        \* share steps of the match policies
  CentUnits,    \* price units in a cent
  MinFee, FeeRate, DutyRate,  \* fee policy: cents, percent, percent
  Corrections,  \* fees a correction may post
  MaxSession    \* bound on the sessions of a run

ASSUME LedgerAssumption ==
  /\ IsFiniteSet(Keys) /\ IsFiniteSet(Events) /\ Keys \cap Events = {}
  /\ InitialCash \in Nat /\ MaxSession \in Nat
  /\ Quantities \subseteq Nat \ {0} /\ Prices \subseteq Nat \ {0}
  /\ Budgets \subseteq Nat /\ Lags \subseteq Nat /\ Corrections \subseteq Nat
  /\ Capacities \subseteq Nat /\ Steps \subseteq Nat \ {0} /\ CentUnits \in Nat \ {0}
  /\ MinFee \in Nat /\ FeeRate \in Nat /\ DutyRate \in Nat

VARIABLES
  active,   \* the account's is_active
  session,  \* the current open session
  cash,     \* the account's current_cash
  qty,      \* shares of each position; no row is 0
  avail,    \* its available_quantity
  order,    \* the reservation kept under each key
  match,    \* the decision kept under each operation key
  trade     \* direct trades by idempotency key, fills by operation key

vars == <<active, session, cash, qty, avail, order, match, trade>>

Sides == {"buy", "sell"}
Rows == Keys \cup Events
NoOrder == [status |-> "none"]
NoMatch == [outcome |-> "none"]
NoTrade == [side |-> "none"]

Orders == [status : {"ACTIVE", "COMPLETED", "CANCELLED"}, side : Sides,
           asset : Assets, quantity : Nat, limit : Nat, lag : Nat,
           session : Nat, reserved : Nat, filled : Nat, gross : Nat,
           consumed : Nat]
Matches == [outcome : {"MATCHED", "NO_MATCH"}, order : Keys, session : Nat,
            capacity : Nat, price : Nat, quantity : Nat, final : BOOLEAN]
Trades == [side : Sides, asset : Assets, quantity : Nat, gross : Nat,
           fee : Nat, charged : Nat, corrected : BOOLEAN, session : Nat,
           lag : Nat, settlement : {"pending", "released", "none"}]

-----------------------------------------------------------------------------
(* Money. *)

\* n / d rounded half-even, as Decimal.quantize does.
HalfEven(n, d) ==
  LET whole == n \div d
      twice == 2 * (n % d)
  IN  IF twice > d \/ (twice = d /\ whole % 2 = 1) THEN whole + 1 ELSE whole

Gross(q, p) == HalfEven(q * p, CentUnits)

\* The fee owed on a cumulative gross; nothing is owed before the first fill.
Fee(side, gross) ==
  LET commission == HalfEven(gross * FeeRate, 100)
      duty == IF side = "sell" THEN HalfEven(gross * DutyRate, 100) ELSE 0
  IN  IF gross = 0 THEN 0
      ELSE (IF commission < MinFee THEN MinFee ELSE commission) + duty

\* Cash a trade takes out of what is held for it.
Spent(side, gross, fee) ==
  IF side = "buy" THEN gross + fee ELSE IF fee > gross THEN fee - gross ELSE 0

-----------------------------------------------------------------------------
(* Holds, settlement and history, as every operation reads them. *)

Active(k) == order[k].status = "ACTIVE"
Traded(t) == trade[t].side # "none"
Matched(e) == match[e].outcome = "MATCHED"
\* A matched event without a receipt.
Unapplied(e) == Matched(e) /\ ~Traded(e)
Remaining(k) == order[k].quantity - order[k].filled

\* A key no order and no trade has used.
KeyFree(k) == ~Traded(k) /\ order[k] = NoOrder

Held(k) == IF Active(k) THEN order[k].reserved - order[k].consumed ELSE 0
HeldCash == Total([k \in Keys |-> Held(k)])

HeldOf(k, a) ==
  IF Active(k) /\ order[k].side = "sell" /\ order[k].asset = a
  THEN Remaining(k) ELSE 0
HeldShares(a) == Total([k \in Keys |-> HeldOf(k, a)])

FreeCash == cash - HeldCash

Pending(t, a) ==
  Traded(t) /\ trade[t].asset = a /\ trade[t].settlement = "pending"
\* Mutant: the session of the trade counts as the first of its lag.
Due_Early(t, a) == Pending(t, a) /\ session - trade[t].session + 1 >= trade[t].lag

Due(t, a) == Pending(t, a) /\ session - trade[t].session >= trade[t].lag
DueOf(t, a) == IF Due(t, a) THEN trade[t].quantity ELSE 0
DueQuantity(a) == Total([t \in Rows |-> DueOf(t, a)])

\* What is sellable, and the trade rows, once the due rows of a are released.
AvailableNow(a) == avail[a] + DueQuantity(a)
SellableShares_All(a) == AvailableNow(a)  \* mutant: the holds are ignored
SellableShares(a) == AvailableNow(a) - HeldShares(a)
ReleasedRows(a) ==
  [t \in Rows |-> IF Due(t, a) THEN [trade[t] EXCEPT !.settlement = "released"]
                  ELSE trade[t]]

\* Shares of a already matched in session s, by any order of the account.
MatchedOf(e, a, s) ==
  IF Matched(e) /\ match[e].session = s /\ order[match[e].order].asset = a
  THEN match[e].quantity ELSE 0
MatchedShares(a, s) == Total([e \in Events |-> MatchedOf(e, a, s)])

-----------------------------------------------------------------------------
Init ==
  /\ active = TRUE
  /\ session = 0
  /\ cash = InitialCash
  /\ qty = [a \in Assets |-> 0]
  /\ avail = [a \in Assets |-> 0]
  /\ order = [k \in Keys |-> NoOrder]
  /\ match = [e \in Events |-> NoMatch]
  /\ trade = [t \in Rows |-> NoTrade]

\* What an order must hold: a BUY its notional and fee budget, a SELL only the
\* fee its proceeds do not cover.
HoldFor_NoFee(side, q, p, budget) ==  \* mutant: a BUY holds its notional only
  LET notional == Gross(q, p)
  IN  IF side = "buy" THEN notional + budget
      ELSE Spent(side, notional, Fee(side, notional))

HoldFor(side, q, p, budget) ==
  LET notional == Gross(q, p)
      fee == Fee(side, notional)
  IN  IF side = "buy" THEN notional + fee + budget ELSE Spent(side, notional, fee)

Reserve(k, side, a, q, p, lag, budget) ==
  LET hold == HoldFor(side, q, p, budget)
  IN /\ active
     /\ KeyFree(k)
     /\ Gross(q, p) > 0
     /\ hold > 0 => hold <= FreeCash
     /\ side = "sell" => q <= SellableShares(a)
     /\ order' = [order EXCEPT ![k] =
          [status |-> "ACTIVE", side |-> side, asset |-> a, quantity |-> q,
           limit |-> p, lag |-> lag, session |-> session, reserved |-> hold,
           filled |-> 0, gross |-> 0, consumed |-> 0]]
     /\ avail' = [avail EXCEPT ![a] = AvailableNow(a)]
     /\ trade' = ReleasedRows(a)
     /\ UNCHANGED <<active, session, cash, qty, match>>

Cancellable_Always(k) == TRUE  \* mutant: the pending match is not looked for

\* require_no_pending_local_daily_match
Cancellable(k) == ~\E e \in Events : Unapplied(e) /\ match[e].order = k

\* Mutant: a terminal order is cancelled again.
Cancel_Terminal(k) ==
  /\ order[k] # NoOrder
  /\ Cancellable(k)
  /\ order' = [order EXCEPT ![k].status = "CANCELLED"]
  /\ UNCHANGED <<active, session, cash, qty, avail, match, trade>>

\* Allowed on an inactive account as well.
Cancel(k) ==
  /\ Active(k)
  /\ Cancellable(k)
  /\ order' = [order EXCEPT ![k].status = "CANCELLED"]
  /\ UNCHANGED <<active, session, cash, qty, avail, match, trade>>

-----------------------------------------------------------------------------
(* The daily matcher: one decision per order and session. *)

FloorStep(n, step) == (n \div step) * step
Least(m, n) == IF m <= n THEN m ELSE n

Crosses(k, close) ==
  IF order[k].side = "buy" THEN close <= order[k].limit
  ELSE close >= order[k].limit

\* What is left of the session's capacity, in whole steps.
Room_Alone(a, s, capacity, step) == FloorStep(capacity, step)  \* mutant: own order only
Room(a, s, capacity, step) == FloorStep(capacity - MatchedShares(a, s), step)

MatchQuantity(k, s, close, capacity, step) ==
  LET room == Room(order[k].asset, s, capacity, step)
  IN  IF Crosses(k, close) THEN FloorStep(Least(room, Remaining(k)), step) ELSE 0

\* Close, volume and policy are read anew for every decision, inside its
\* transaction, and kept with it: two decisions of a session may see two
\* capacities, and the smaller one of what is already matched is refused.
RecordMatch(e, k, s, close, capacity, step) ==
  /\ active
  /\ match[e] = NoMatch
  /\ Active(k)
  /\ order[k].session <= s
  /\ \A d \in Events : match[d] # NoMatch => ~(match[d].order = k /\ match[d].session = s)
  /\ Cancellable(k)
  /\ MatchedShares(order[k].asset, s) <= capacity
  /\ LET q == MatchQuantity(k, s, close, capacity, step)
     IN match' = [match EXCEPT ![e] =
          [outcome |-> IF q > 0 THEN "MATCHED" ELSE "NO_MATCH", order |-> k,
           session |-> s, capacity |-> capacity, price |-> close, quantity |-> q,
           final |-> q = Remaining(k)]]
  /\ UNCHANGED <<active, session, cash, qty, avail, order, trade>>

-----------------------------------------------------------------------------
(* Booking a trade or a fill: cash, position, settlement. *)

Book(t, side, a, q, gross, fee, s, lag) ==
  /\ trade' = [ReleasedRows(a) EXCEPT ![t] =
       [side |-> side, asset |-> a, quantity |-> q, gross |-> gross,
        fee |-> fee, charged |-> fee, corrected |-> FALSE, session |-> s,
        lag |-> lag, settlement |-> IF side = "sell" THEN "none"
                                    ELSE IF lag = 0 THEN "released" ELSE "pending"]]
  /\ \/ /\ side = "buy"
        /\ cash' = cash - (gross + fee)
        /\ qty' = [qty EXCEPT ![a] = @ + q]
        /\ avail' = [avail EXCEPT ![a] =
             AvailableNow(a) + (IF lag = 0 THEN q ELSE 0)]
     \/ /\ side = "sell"
        /\ cash' = cash + gross - fee
        /\ qty' = [qty EXCEPT ![a] = @ - q]
        /\ avail' = [avail EXCEPT ![a] =
             IF qty[a] = q THEN 0 ELSE AvailableNow(a) - q]

\* The fill of event e: its gross, its share of the cumulative fee, the cash it
\* takes from the order's hold.
FillGross(e) == Gross(match[e].quantity, match[e].price)
FillFee_Alone(e) ==  \* mutant: the fee of the fill by itself
  Fee(order[match[e].order].side, FillGross(e))

FillFee(e) ==
  LET o == order[match[e].order]
  IN  Fee(o.side, o.gross + FillGross(e)) - Fee(o.side, o.gross)
\* Mutant: the fee of a BUY is not taken from its hold.
FillSpent_NoFee(e) ==
  IF order[match[e].order].side = "buy" THEN FillGross(e)
  ELSE Spent(order[match[e].order].side, FillGross(e), FillFee(e))

FillSpent(e) == Spent(order[match[e].order].side, FillGross(e), FillFee(e))

\* Everything apply_fill and prepare_order_reservation_fill require of the
\* order's own resources.
FillFits(e) ==
  LET o == order[match[e].order]
      full == o.filled + match[e].quantity = o.quantity
  IN /\ FillGross(e) > 0
     /\ FillFee(e) >= 0
     /\ Crosses(match[e].order, match[e].price)
     /\ o.filled + match[e].quantity <= o.quantity
     /\ o.consumed + FillSpent(e) <= o.reserved
     /\ o.side = "buy" /\ ~full /\ ~match[e].final
          => o.consumed + FillSpent(e) < o.reserved

ApplyFill(e) ==
  LET m == match[e]
      o == order[m.order]
      full == o.filled + m.quantity = o.quantity
  IN /\ active
     /\ Unapplied(e)
     /\ Active(m.order)
     /\ FillFits(e)
     /\ Book(e, o.side, o.asset, m.quantity, FillGross(e), FillFee(e), m.session, o.lag)
     /\ order' = [order EXCEPT ![m.order] =
          [o EXCEPT !.filled = @ + m.quantity,
                    !.gross = @ + FillGross(e),
                    !.consumed = @ + FillSpent(e),
                    !.status = IF full THEN "COMPLETED"
                               ELSE IF m.final THEN "CANCELLED" ELSE @]]
     /\ UNCHANGED <<active, session, match>>

\* A direct trade: its key must never have belonged to an order, and it may
\* touch neither held cash nor held shares.
ExecuteTrade(k, side, a, q, p, lag) ==
  LET gross == Gross(q, p)
      fee == Fee(side, gross)
  IN /\ active
     /\ KeyFree(k)
     /\ gross > 0
     /\ side = "buy" => gross + fee <= FreeCash
     /\ side = "sell" => /\ q <= SellableShares(a)
                         /\ cash + gross - fee >= HeldCash
     /\ Book(k, side, a, q, gross, fee, session, lag)
     /\ UNCHANGED <<active, session, order, match>>

\* Also on an inactive account.
ReleaseDue(a) ==
  /\ \E t \in Rows : Due(t, a)
  /\ avail' = [avail EXCEPT ![a] = AvailableNow(a)]
  /\ trade' = ReleasedRows(a)
  /\ UNCHANGED <<active, session, cash, qty, order, match>>

-----------------------------------------------------------------------------
(* The account itself. *)

NoActiveOrders == \A k \in Keys : ~Active(k)

\* Mutant: the second correction starts from the booked fee again.
CorrectFee_Booked(t, fee) ==
  /\ active
  /\ Traded(t)
  /\ NoActiveOrders
  /\ cash + trade[t].fee - fee >= 0
  /\ cash' = cash + trade[t].fee - fee
  /\ trade' = [trade EXCEPT ![t].charged = fee, ![t].corrected = TRUE]
  /\ UNCHANGED <<active, session, qty, avail, order, match>>

\* A correction of the fee of trade t moves the account's cash; it is refused
\* while any order is active, since it knows nothing of holds.
CorrectFee(t, fee) ==
  /\ active
  /\ Traded(t)
  /\ NoActiveOrders
  /\ cash + trade[t].charged - fee >= 0
  /\ cash' = cash + trade[t].charged - fee
  /\ trade' = [trade EXCEPT ![t].charged = fee, ![t].corrected = TRUE]
  /\ UNCHANGED <<active, session, qty, avail, order, match>>

\* A save of the account may stop it at any time; only an account without
\* active orders may be started again.
Deactivate ==
  /\ active
  /\ active' = FALSE
  /\ UNCHANGED <<session, cash, qty, avail, order, match, trade>>

Reactivate ==
  /\ ~active
  /\ NoActiveOrders
  /\ active' = TRUE
  /\ UNCHANGED <<session, cash, qty, avail, order, match, trade>>

\* Reset deletes positions and trades; reservations stay.  Any fill, any match
\* decision and (by PROTECT) any fee correction forbids it.
Reset ==
  /\ NoActiveOrders
  /\ \A e \in Events : match[e] = NoMatch /\ ~Traded(e)
  /\ \A t \in Rows : Traded(t) => ~trade[t].corrected
  /\ cash' = InitialCash
  /\ qty' = [a \in Assets |-> 0]
  /\ avail' = [a \in Assets |-> 0]
  /\ trade' = [t \in Rows |-> NoTrade]
  /\ UNCHANGED <<active, session, order, match>>

NextSession ==
  /\ session < MaxSession
  /\ session' = session + 1
  /\ UNCHANGED <<active, cash, qty, avail, order, match, trade>>

Next ==
  \/ \E k \in Keys, side \in Sides, a \in Assets, q \in Quantities, p \in Prices, lag \in Lags :
       \/ \E budget \in Budgets : Reserve(k, side, a, q, p, lag, budget)
       \/ ExecuteTrade(k, side, a, q, p, lag)
  \/ \E k \in Keys : Cancel(k)
  \/ \E e \in Events, k \in Keys, s \in 0 .. session, close \in Prices,
        capacity \in Capacities, step \in Steps :
       RecordMatch(e, k, s, close, capacity, step)
  \/ \E e \in Events : ApplyFill(e)
  \/ \E a \in Assets : ReleaseDue(a)
  \/ \E t \in Rows, fee \in Corrections : CorrectFee(t, fee)
  \/ Deactivate
  \/ Reactivate
  \/ Reset
  \/ NextSession

Spec == Init /\ [][Next]_vars

-----------------------------------------------------------------------------
(* Properties. *)

\* Type invariant: amounts, holds and counters are never negative.
TypeOK ==
  /\ active \in BOOLEAN
  /\ session \in Nat
  /\ cash \in Nat
  /\ qty \in [Assets -> Nat]
  /\ avail \in [Assets -> Nat]
  /\ order \in [Keys -> {NoOrder} \cup Orders]
  /\ match \in [Events -> {NoMatch} \cup Matches]
  /\ trade \in [Rows -> {NoTrade} \cup Trades]

\* The cash and the shares all active orders hold together are always there: no
\* fill, direct trade, release or correction ever takes what another order
\* holds, and BOOK_CASH_OVERHELD and SELLABLE_SHARES_OVERHELD never fire.
HoldsCovered ==
  /\ HeldCash <= cash
  /\ \A a \in Assets : HeldShares(a) <= avail[a]

PendingOf(t, a) == IF Pending(t, a) THEN trade[t].quantity ELSE 0
PendingShares(a) == Total([t \in Rows |-> PendingOf(t, a)])

\* A bought share becomes sellable exactly when its row is released, and no row
\* is released before its lag has passed: sellable and pending shares add up to
\* the position, so PENDING_SETTLEMENT_INVALID never fires.
SettledOnly ==
  /\ \A a \in Assets : avail[a] + PendingShares(a) = qty[a]
  /\ \A t \in Rows :
       Traded(t) /\ trade[t].settlement = "released"
         => session >= trade[t].session + trade[t].lag

PaidBy(t) ==
  IF trade[t].side = "buy" THEN trade[t].gross + trade[t].charged
  ELSE IF trade[t].side = "sell" THEN trade[t].charged ELSE 0
ReceivedBy(t) == IF trade[t].side = "sell" THEN trade[t].gross ELSE 0
SharesOf(t, side, a) ==
  IF trade[t].side = side /\ trade[t].asset = a THEN trade[t].quantity ELSE 0
SharesTraded(side, a) == Total([t \in Rows |-> SharesOf(t, side, a)])

\* Cash and positions are what the trade rows and the fee corrections make of
\* the initial capital, as validate_cash_ledger and the position replay of the
\* fee correction require before they touch the books.
BooksReconcile ==
  /\ cash + Total([t \in Rows |-> PaidBy(t)])
       = InitialCash + Total([t \in Rows |-> ReceivedBy(t)])
  /\ \A a \in Assets : qty[a] + SharesTraded("sell", a) = SharesTraded("buy", a)

IsFillOf(e, k) == Matched(e) /\ Traded(e) /\ match[e].order = k
FilledBy(e, k) == IF IsFillOf(e, k) THEN trade[e].quantity ELSE 0
GrossBy(e, k) == IF IsFillOf(e, k) THEN trade[e].gross ELSE 0
FeeBy(e, k) == IF IsFillOf(e, k) THEN trade[e].fee ELSE 0
SpentBy(e, k) ==
  IF IsFillOf(e, k) THEN Spent(trade[e].side, trade[e].gross, trade[e].fee) ELSE 0

\* The counters of every order are the sums over its fill rows, and the fees of
\* its fills add up to the fee of its cumulative gross: the chain of receipts
\* that each new fill validates is never broken.
OrderIsItsFills ==
  \A k \in Keys : order[k] # NoOrder =>
    /\ order[k].filled = Total([e \in Events |-> FilledBy(e, k)])
    /\ order[k].gross = Total([e \in Events |-> GrossBy(e, k)])
    /\ order[k].consumed = Total([e \in Events |-> SpentBy(e, k)])
    /\ Fee(order[k].side, order[k].gross) = Total([e \in Events |-> FeeBy(e, k)])

\* A matched event that waits for its fill belongs to an active order that can
\* still take its quantity, and no other event of that order waits.
MatchHonoured ==
  \A e \in Events : Unapplied(e) =>
    /\ Active(match[e].order)
    /\ match[e].quantity \in 1 .. Remaining(match[e].order)
    /\ match[e].final <=> match[e].quantity = Remaining(match[e].order)
    /\ Crosses(match[e].order, match[e].price)
    /\ \A d \in Events \ {e} : Unapplied(d) => match[d].order # match[e].order

WithinCapacity(e) ==
  MatchedShares(order[match[e].order].asset, match[e].session) <= match[e].capacity

\* Every decision leaves all that the account's orders have matched of the asset
\* in that session, applied or not, within the capacity that this decision read:
\* also when a republished volume or a new policy made it smaller in between.
DailyCapacity ==
  [][\A e \in Events : match'[e] # match[e] => WithinCapacity(e)']_vars

\* With prices in whole cents the hold of a BUY always covers its next fill: a
\* matched BUY is never refused for lack of held cash.
BuyMatchFits ==
  CentUnits = 1 =>
    \A e \in Events :
      Unapplied(e) /\ order[match[e].order].side = "buy" => FillFits(e)

\* A key serves one order or one direct trade, never both.
KeyUsedOnce == \A k \in Keys : ~(order[k] # NoOrder /\ Traded(k))

\* What was decided or booked stays: decisions, fills (but for the fee charged
\* and the settlement) and terminal orders are never rewritten.
HistoryKept ==
  [][/\ \A e \in Events : match[e] # NoMatch => match'[e] = match[e]
     /\ \A e \in Events : Traded(e) =>
          /\ trade'[e].side = trade[e].side
          /\ trade'[e].asset = trade[e].asset
          /\ trade'[e].quantity = trade[e].quantity
          /\ trade'[e].gross = trade[e].gross
          /\ trade'[e].fee = trade[e].fee
     /\ \A k \in Keys : order[k].status \in {"COMPLETED", "CANCELLED"}
                          => order'[k] = order[k]]_vars

\* The ledger keeps the promise its reservations make to their owner.
Stage(k) ==
  IF order[k] = NoOrder THEN "fresh" ELSE IF Active(k) THEN "open" ELSE "closed"
Promise == INSTANCE HoldPromise WITH
  free <- cash - HeldCash,
  held <- [k \in Keys |-> Held(k)],
  stage <- [k \in Keys |-> Stage(k)]
KeepsHoldPromise == Promise!Spec

\* "必须先处理该事件" (local_daily_match_repository.py:785): a matched event that
\* blocks its order can be processed, so its fill fits the order's hold.
MatchedIsFillable == \A e \in Events : Unapplied(e) => FillFits(e)
=============================================================================
