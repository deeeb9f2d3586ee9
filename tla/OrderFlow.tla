----------------------------- MODULE OrderFlow ------------------------------
(***************************************************************************)
(* The order path of eph-fix: RiskChecker::check_order before an order is  *)
(* sent, OrderManager for its life, PositionTracker for what it filled.    *)
(* One thread calls them all.  The exchange is external: it acknowledges,  *)
(* fills, cancels and rejects, and its reports arrive in order; after a    *)
(* ResendRequest it may send an old report again (PossDup), which the      *)
(* session layer passes on and nothing here recognises.                    *)
(***************************************************************************)
EXTENDS Integers, FiniteSetsExt, Sequences

-----------------------------------------------------------------------------
(***************************************************************************)
(* eph::fix::PositionTracker and RiskChecker: what one fill does to a      *)
(* position, and what an order is checked against.  Both are functions of  *)
(* a tracker state and their arguments.  Prices are positive integers;     *)
(* doubles are fractions <<n, d>> in lowest terms, so that averages are    *)
(* exact and equality decides.                                             *)
(***************************************************************************)

Abs(n) == IF n < 0 THEN -n ELSE n
Divides(k, n) == n % k = 0

\* <<n, d>> in lowest terms.
Frac(n, d) ==
    LET g == Max({k \in 1..d : Divides(k, d) /\ Divides(k, Abs(n))})
    IN  <<(IF n < 0 THEN -1 ELSE 1) * (Abs(n) \div g), d \div g>>
Int2Frac(n) == <<n, 1>>
Plus(p, q) == Frac(p[1] * q[2] + q[1] * p[2], p[2] * q[2])
Minus(p, q) == Frac(p[1] * q[2] - q[1] * p[2], p[2] * q[2])
Times(n, q) == Frac(n * q[1], q[2])
Over(q, n) == Frac(q[1], q[2] * n)
Exceeds(q, n) == q[1] > n * q[2]

\* FIX Side: '1' buys, '2' sells.
Signed(side, qty) == IF side = "Buy" THEN qty ELSE -qty

\* Position{}: what get() returns for a symbol never filled.
Flat == [qty |-> 0, avg_price |-> Int2Frac(0), realized_pnl |-> Int2Frac(0)]

\* Same sign, or flat: the average moves towards the fill price.
Increase(pos, q, price) ==
    [pos EXCEPT !.avg_price =
        Plus(@, Over(Times(Abs(q), Minus(Int2Frac(price), @)), Abs(pos.qty + q)))]

\* Opposite sign: the closed part realizes its profit; past zero the rest is a
\* new position at the fill price.
Reduce(pos, q, price) ==
    LET closed == Min({Abs(q), Abs(pos.qty)})
        gain == Minus(Int2Frac(price), pos.avg_price)
    IN  [pos EXCEPT !.realized_pnl = Plus(@, Times(IF pos.qty > 0 THEN closed ELSE -closed, gain)),
                    !.avg_price = IF Abs(q) > Abs(pos.qty) THEN Int2Frac(price) ELSE @]

\* on_fill ignores a fill whose quantity or price is not positive.
OnFill(pos, side, qty, price) ==
    LET q == Signed(side, qty)
        reducing == pos.qty # 0 /\ (pos.qty > 0) # (q > 0)
        moved == IF reducing THEN Reduce(pos, q, price) ELSE Increase(pos, q, price)
    IN  IF qty <= 0 \/ price <= 0 THEN pos
        ELSE [moved EXCEPT !.qty = @ + q]

Notional(pos) == Times(Abs(pos.qty), pos.avg_price)
NetExposure(positions) ==
    FoldSet(LAMBDA s, sum : Plus(sum, Notional(positions[s])), Int2Frac(0), DOMAIN positions)

-----------------------------------------------------------------------------

\* A limit of 0 is disabled.
Breaks(limit, q) == limit > 0 /\ Exceeds(q, limit)

\* check_order: the first limit the order would break, projected from filled
\* positions alone.
CheckOrder(limits, positions, symbol, side, qty, price) ==
    LET pos == positions[symbol]
        projected == Abs(pos.qty + Signed(side, qty))
        exposure == Plus(Minus(NetExposure(positions), Notional(pos)), Int2Frac(projected * price))
    IN  CASE qty <= 0 \/ price <= 0 -> "InvalidInput"
          [] Breaks(limits.max_order_qty, Int2Frac(qty)) -> "OrderQtyExceeded"
          [] Breaks(limits.max_order_notional, Int2Frac(qty * price)) -> "OrderNotionalExceeded"
          [] Breaks(limits.max_position_qty, Int2Frac(projected)) -> "PositionQtyExceeded"
          [] Breaks(limits.max_position_notional, Int2Frac(projected * price)) -> "PositionNotionalExceeded"
          [] Breaks(limits.max_total_exposure, exposure) -> "TotalExposureExceeded"
          [] OTHER -> "Ok"

-----------------------------------------------------------------------------

CONSTANTS OrderIds,    \* ClOrdIDs, each used once
          Symbols,
          MaxQty,      \* orders are for 1..MaxQty
          FillPrices,  \* positive integers
          LimitSets,   \* the RiskLimits the caller sets
          MaxInFlight, \* bound: reports on their way
          MaxCancels,  \* bound: cancel requests for one order
          MaxResends   \* bound: reports the exchange sends again

ASSUME QtyAssumption == MaxQty \in Nat \ {0} /\ FillPrices \subseteq Nat \ {0}
ASSUME LimitsAssumption == \A l \in LimitSets : l.max_position_qty \in Nat
ASSUME BoundsAssumption == MaxCancels \in Nat /\ MaxInFlight \in Nat /\ MaxResends \in Nat

VARIABLES
    orders,      \* orders_: ClOrdID -> ManagedOrder
    positions,   \* positions_
    limits,      \* RiskChecker::limits_
    exch,        \* external: the exchange's view of each order
    wire,        \* its reports on their way, in order
    past,        \* reports delivered that will come again
    resends,     \* how many that were
    overlapped,  \* history: symbols that had two open orders at once
    base,        \* history: quantity of purged orders, less cleared positions
    cash         \* history: money received less money paid, by symbol

OFvars == <<orders, positions, limits, exch, wire, past, resends, overlapped, base, cash>>

Terminal == {"Filled", "Canceled", "Rejected"}
OrderStates == {"PendingNew", "New", "PartiallyFilled", "PendingCancel"} \cup Terminal

Known == DOMAIN orders
is_terminal(id) == orders[id].state \in Terminal
active_count == Cardinality({id \in Known : ~is_terminal(id)})

\* The exchange's side of an order: not yet seen, open, or done; cancels:
\* requests it has not answered, of the asked it was sent.
Unseen == [phase |-> "unseen", leaves |-> 0, filled |-> 0, cancels |-> 0, asked |-> 0]

Report(id, type, qty, px) == [id |-> id, type |-> type, qty |-> qty, px |-> px]

OFInit ==
    /\ orders = << >>
    /\ positions = [s \in Symbols |-> Flat]
    /\ limits \in LimitSets
    /\ exch = [id \in OrderIds |-> Unseen]
    /\ wire = << >> /\ past = {} /\ resends = 0
    /\ overlapped = {}
    /\ base = [s \in Symbols |-> 0] /\ cash = [s \in Symbols |-> 0]

external == <<exch, wire, past, resends>>
manager == <<orders, positions>>
bookkeeping == <<base, cash>>

-----------------------------------------------------------------------------
(* The caller. *)

\* check_order, the message on the wire, then submit.
Submit(id, symbol, side, qty, price) ==
    /\ exch[id].phase = "unseen" /\ id \notin Known
    /\ CheckOrder(limits, positions, symbol, side, qty, price) = "Ok"
    /\ orders' = [i \in Known \cup {id} |->
                    IF i = id
                    THEN [symbol |-> symbol, side |-> side, orig_qty |-> qty, filled_qty |-> 0,
                          avg_fill_price |-> Int2Frac(0), leaves_qty |-> qty, state |-> "PendingNew"]
                    ELSE orders[i]]
    /\ exch' = [exch EXCEPT ![id] = [phase |-> "received", leaves |-> qty, filled |-> 0, cancels |-> 0, asked |-> 0]]
    /\ overlapped' = IF \E i \in Known : orders[i].symbol = symbol /\ ~is_terminal(i)
                     THEN overlapped \cup {symbol} ELSE overlapped
    /\ UNCHANGED <<positions, limits, wire, past, resends, bookkeeping>>

\* mark_pending_cancel, and the request on the wire.
CancelOrder(id) ==
    /\ id \in Known /\ ~is_terminal(id) /\ exch[id].asked < MaxCancels
    /\ orders' = [orders EXCEPT ![id].state = "PendingCancel"]
    /\ exch' = [exch EXCEPT ![id].cancels = @ + 1, ![id].asked = @ + 1]
    /\ UNCHANGED <<positions, limits, wire, past, resends, overlapped, bookkeeping>>

SignedFill(order) == Signed(order.side, order.filled_qty)
SumOver(ids, book, s) ==
    FoldSet(LAMBDA i, sum : sum + SignedFill(book[i]), 0, {i \in ids : book[i].symbol = s})

Purged == {id \in Known : is_terminal(id)}
purge_terminal ==
    /\ Purged # {}
    /\ orders' = [id \in Known \ Purged |-> orders[id]]
    /\ base' = [s \in Symbols |-> base[s] + SumOver(Purged, orders, s)]
    /\ UNCHANGED <<positions, limits, external, overlapped, cash>>

\* Explored while there is an order left that the limits may meet.
set_limits(l) ==
    /\ l # limits /\ \E id \in OrderIds : exch[id].phase = "unseen"
    /\ limits' = l
    /\ UNCHANGED <<manager, external, overlapped, bookkeeping>>

\* PositionTracker::clear, between two days of trading.
clear ==
    /\ active_count = 0 /\ \E s \in Symbols : positions[s] # Flat
    /\ positions' = [s \in Symbols |-> Flat]
    /\ base' = [s \in Symbols |-> base[s] - positions[s].qty]
    /\ cash' = [s \in Symbols |-> 0]
    /\ UNCHANGED <<orders, limits, external, overlapped>>

-----------------------------------------------------------------------------
(* Reports.  A handler's effect is a record of the order, the position and *)
(* the cash it leaves.                                                     *)

SetOrder(id, order) ==
    /\ orders' = [orders EXCEPT ![id] = order]
    /\ UNCHANGED <<positions, cash>>

OverFill(order, qty) == order.filled_qty + qty > order.orig_qty

\* Mutant: LastQty is taken for CumQty.
FilledNotCumulative(order, qty, px) ==
    [order EXCEPT !.filled_qty = qty, !.avg_fill_price = Int2Frac(px)]

\* The fields both fill cases update; avg_fill_price is the running VWAP.
Filled(order, qty, px) ==
    LET total == order.filled_qty + qty
        paid == Plus(Times(order.filled_qty, order.avg_fill_price), Int2Frac(px * qty))
    IN  [order EXCEPT !.filled_qty = total,
                      !.avg_fill_price = IF total > 0 THEN Over(paid, total) ELSE @]

\* What is left of the order: a Fill leaves nothing, whatever the quantities say.
LeavesIn(order, state) == IF state = "Filled" THEN 0 ELSE order.orig_qty - order.filled_qty

\* A report without LastQty or LastPx (qty = -1) changes the state alone.
ApplyFill(r, state) ==
    LET order == orders[r.id]
        done == Filled(order, r.qty, r.px)
    IN  IF r.qty < 0 THEN SetOrder(r.id, [order EXCEPT !.state = state])
        ELSE IF OverFill(order, r.qty) THEN UNCHANGED <<manager, cash>>
        ELSE /\ orders' = [orders EXCEPT ![r.id] =
                             [done EXCEPT !.leaves_qty = LeavesIn(done, state), !.state = state]]
             /\ positions' = [positions EXCEPT ![order.symbol] = OnFill(@, order.side, r.qty, r.px)]
             /\ cash' = [cash EXCEPT ![order.symbol] = @ - Signed(order.side, r.qty) * r.px]

Close(order, state) == [order EXCEPT !.state = state, !.leaves_qty = 0]

ApplyReport(r) ==
    LET order == orders[r.id]
    IN  CASE r.type \in {"New", "PendingNew"} -> SetOrder(r.id, [order EXCEPT !.state = "New"])
          [] r.type \in {"PartialFill", "Trade"} -> ApplyFill(r, "PartiallyFilled")
          [] r.type = "Fill" -> ApplyFill(r, "Filled")
          [] r.type \in {"Canceled", "Rejected"} -> SetOrder(r.id, Close(order, r.type))
          [] r.type = "PendingCancel" -> SetOrder(r.id, [order EXCEPT !.state = "PendingCancel"])
          [] OTHER -> UNCHANGED <<manager, cash>>

\* Mutant: reports are ignored while a cancel is pending.
ReportUnlessCancelling(r) ==
    IF r.id \in Known /\ ~is_terminal(r.id)
       /\ (orders[r.id].state = "PendingCancel" => r.type \in Terminal)
    THEN ApplyReport(r) ELSE UNCHANGED <<manager, cash>>

\* Unknown orders are refused, terminal ones ignore every report.
on_execution_report(r) ==
    IF r.id \in Known /\ ~is_terminal(r.id) THEN ApplyReport(r) ELSE UNCHANGED <<manager, cash>>

\* Only a PendingCancel order reverts.
on_cancel_reject(r) ==
    IF r.id \in Known /\ orders[r.id].state = "PendingCancel"
    THEN SetOrder(r.id, [orders[r.id] EXCEPT
            !.state = IF orders[r.id].filled_qty > 0 THEN "PartiallyFilled" ELSE "New"])
    ELSE UNCHANGED <<manager, cash>>

Handle(r) == IF r.type = "CancelReject" THEN on_cancel_reject(r) ELSE on_execution_report(r)

\* The exchange will send this report again, or it will not.
Deliver ==
    /\ wire # << >>
    /\ Handle(Head(wire))
    /\ wire' = Tail(wire)
    /\ \/ UNCHANGED <<past, resends>>
       \/ resends < MaxResends /\ past' = past \cup {Head(wire)} /\ resends' = resends + 1
    /\ UNCHANGED <<limits, exch, overlapped, base>>

DeliverAgain(r) ==
    /\ Handle(r)
    /\ past' = past \ {r}
    /\ UNCHANGED <<limits, exch, wire, resends, overlapped, base>>

-----------------------------------------------------------------------------
(* The exchange. *)

Emit(r, e) ==
    /\ Len(wire) < MaxInFlight
    /\ wire' = Append(wire, r)
    /\ exch' = [exch EXCEPT ![r.id] = e]
    /\ UNCHANGED <<manager, limits, past, resends, overlapped, bookkeeping>>

Live(id) == exch[id].phase = "open" /\ exch[id].leaves > 0

ExchangeAccepts(id) ==
    /\ exch[id].phase = "received"
    /\ \/ Emit(Report(id, "New", 0, 0), [exch[id] EXCEPT !.phase = "open"])
       \/ Emit(Report(id, "Rejected", 0, 0), [exch[id] EXCEPT !.phase = "done", !.leaves = 0])

\* The last fill is reported as Fill or as Trade, the others as PartialFill, which
\* the manager handles as it does Trade.
ExchangeFills(id) ==
    /\ Live(id)
    /\ \E qty \in 1..exch[id].leaves, px \in FillPrices,
          type \in {"PartialFill", "Fill", "Trade"} :
        /\ qty = exch[id].leaves <=> type # "PartialFill"
        /\ Emit(Report(id, type, qty, px),
                [exch[id] EXCEPT !.leaves = @ - qty, !.filled = @ + qty])

\* A status report that carries no fill: unhandled ExecTypes, a Trade without
\* its quantity, a PendingCancel while a request waits.
ExchangeStatus(id) ==
    /\ Live(id) /\ exch[id].cancels > 0
    /\ \A k \in 1..Len(wire) : wire[k].type \notin {"PendingCancel", "Suspended"}
    /\ \/ Emit(Report(id, "PendingCancel", 0, 0), exch[id])
       \/ Emit(Report(id, "Suspended", 0, 0), exch[id])
       \/ exch[id].filled > 0 /\ Emit(Report(id, "Trade", -1, 0), exch[id])

ExchangeAnswersCancel(id) ==
    /\ exch[id].cancels > 0 /\ exch[id].phase # "received"
    /\ LET answered == [exch[id] EXCEPT !.cancels = @ - 1]
       IN \/ Emit(Report(id, "CancelReject", 0, 0), answered)
          \/ /\ Live(id)
             /\ Emit(Report(id, "Canceled", 0, 0), [answered EXCEPT !.leaves = 0])

-----------------------------------------------------------------------------

OFNext ==
    \/ \E id \in OrderIds :
        \/ \E symbol \in Symbols, side \in {"Buy", "Sell"}, qty \in 1..MaxQty, price \in FillPrices :
                Submit(id, symbol, side, qty, price)
        \/ CancelOrder(id)
        \/ ExchangeAccepts(id) \/ ExchangeFills(id)
        \/ ExchangeStatus(id) \/ ExchangeAnswersCancel(id)
    \/ Deliver
    \/ \E r \in past : DeliverAgain(r)
    \/ purge_terminal \/ clear
    \/ \E l \in LimitSets : set_limits(l)

OFSpec == OFInit /\ [][OFNext]_OFvars

-----------------------------------------------------------------------------
(* Properties *)

OFTypeOK ==
    /\ Known \subseteq OrderIds
    /\ \A id \in Known :
        /\ orders[id].state \in OrderStates
        /\ orders[id].filled_qty \in 0..MaxQty /\ orders[id].leaves_qty \in 0..MaxQty
        /\ orders[id].orig_qty \in 1..MaxQty
    /\ \A s \in Symbols : positions[s].qty \in Int
    /\ limits \in LimitSets
    /\ Len(wire) <= MaxInFlight /\ resends \in 0..MaxResends

\* The two books agree, whatever the exchange repeats: a symbol's position is
\* what the orders on it filled, those purged since included.
PositionsFollowOrders ==
    \A s \in Symbols : positions[s].qty = base[s] + SumOver(Known, orders, s)

\* Profit is accounted to the cent: realized profit is the cash that came in,
\* plus the open quantity at its average price.
PnlAccountsForCash ==
    \A s \in Symbols :
        positions[s].realized_pnl =
            Plus(Int2Frac(cash[s]), Times(positions[s].qty, positions[s].avg_price))

\* A fill of a non-terminal order leaves leaves_qty = orig - filled, and no
\* repetition of reports fills more than was ordered.
LeavesConsistent ==
    \A id \in Known :
        /\ orders[id].filled_qty <= orders[id].orig_qty
        /\ orders[id].leaves_qty = IF is_terminal(id) THEN 0
                                   ELSE orders[id].orig_qty - orders[id].filled_qty

Delivered == wire = << >>

\* With every report delivered once, the order book and the positions are the
\* exchange's: a cancel that crossed a fill, in either order, loses nothing.
AgreesWithExchange ==
    Delivered /\ resends = 0 =>
        \A id \in Known :
            /\ orders[id].filled_qty = exch[id].filled
            /\ exch[id].phase # "received" => orders[id].leaves_qty = exch[id].leaves

\* on_cancel_reject keeps an order from being stuck: with every request
\* answered and every report delivered once, none is PendingCancel.
NoStuckCancel ==
    Delivered /\ resends = 0 =>
        \A id \in Known : orders[id].state = "PendingCancel" => exch[id].cancels > 0

\* check_order looks at filled positions only: where orders of a symbol never
\* overlapped and the limit was never disabled, that keeps the position within
\* the widest limit set, whatever part of an order fills and however often its
\* reports are repeated.
Permitted(qty) == \E l \in LimitSets : Abs(qty) <= l.max_position_qty
PositionWithinLimit ==
    (\A l \in LimitSets : l.max_position_qty > 0) =>
        \A s \in Symbols \ overlapped : Permitted(positions[s].qty)

\* Orders, positions, profit and limits agree with each other after any
\* sequence of reports, repeated ones included.
LedgerTrue ==
    /\ OFTypeOK /\ PositionsFollowOrders /\ PnlAccountsForCash
    /\ LeavesConsistent /\ NoStuckCancel /\ PositionWithinLimit
=============================================================================
