------------------------------- MODULE Books -------------------------------
(***************************************************************************)
(* eph-book: the price-level books ArrayBook (the MaxLevels best levels in *)
(* an array) and MapBook (all levels), fed with the same updates; the ITCH *)
(* adapter, which keeps orders and per-price totals and pushes every total *)
(* into an ArrayBook; the Binance adapter, which replaces the best level.  *)
(* Prices are ticks: both feeds deliver decimal prices, which the code     *)
(* rounds to a common grid before it compares them.  A book that is full   *)
(* drops or evicts a level and does not get it back when room returns.     *)
(***************************************************************************)
EXTENDS Integers, Sequences, FiniteSets, SequencesExt, Functions

CONSTANTS MaxLevels,   \* the template parameter
          Prices,      \* ticks
          MaxShares,   \* the largest quantity of one update or order
          Refs         \* order reference numbers

ASSUME BooksAssumption ==
    MaxLevels \in Nat \ {0} /\ Prices \subseteq Nat \ {0} /\ MaxShares \in Nat \ {0} /\ IsFiniteSet(Refs)

Sides == {"bid", "ask"}
NonFinite == -2                            \* NaN or infinity, as a quantity
Quantities == NonFinite..MaxShares
Level(p, q) == [price |-> p, qty |-> q]
NoOrder == [side |-> "none", price |-> 0, qty |-> 0]

VARIABLES feed,     \* which part is exercised: "direct", "itch" or "binance"
          array,    \* the ArrayBook: a sequence of levels per side
          maps,     \* per side and price: MapBook's quantity, or the adapter's total
          itch_orders, \* the ITCH adapter's live orders
          lossy,    \* history: sides on which the ArrayBook dropped or evicted a level
          bbo,      \* Binance: per side, the price of the last ticker if it had quantity
          ticker,   \* history: per side, the level the last ticker reported
          loaded    \* history: a depth snapshot has been loaded

bkvars == <<feed, array, maps, itch_orders, lossy, bbo, ticker, loaded>>

EmptyBook == [s \in Sides |-> <<>>]
NoQuantity == [s \in Sides |-> [p \in Prices |-> 0]]

BKInit ==
    /\ feed \in {"direct", "itch", "binance"}
    /\ array = EmptyBook /\ maps = NoQuantity /\ lossy = {}
    /\ itch_orders = [r \in Refs |-> NoOrder]
    /\ bbo = [s \in Sides |-> 0] /\ ticker = [s \in Sides |-> Level(0, 0)] /\ loaded = FALSE
-----------------------------------------------------------------------------
Better(s, p, q) == IF s = "bid" THEN p > q ELSE p < q

\* Where a new price goes: before the first level it is better than.
Position(levels, s, p) ==
    LET worse == {i \in DOMAIN levels : Better(s, p, levels[i].price)}
    IN  IF worse = {} THEN Len(levels) + 1 ELSE Min(worse)

Full(levels) == Len(levels) >= MaxLevels

\* Into a full book a price goes only if it beats the worst level, which it evicts.
Insert(levels, s, p, q) ==
    IF ~Full(levels) THEN InsertAt(levels, Position(levels, s, p), Level(p, q))
    ELSE IF Position(levels, s, p) > MaxLevels THEN levels
    ELSE SubSeq(InsertAt(levels, Position(levels, s, p), Level(p, q)), 1, MaxLevels)

Clamp(q) == IF q < 0 THEN 0 ELSE q

\* ArrayBook::update_side: replace or remove the level of that price, else insert.
update_side(levels, s, p, q) ==
    LET at == {i \in DOMAIN levels : levels[i].price = p}
    IN  IF q = NonFinite THEN levels
        ELSE CASE at # {} /\ Clamp(q) = 0 -> RemoveAt(levels, Min(at))
               [] at # {} /\ Clamp(q) > 0 -> [levels EXCEPT ![Min(at)].qty = q]
               [] at = {} /\ Clamp(q) = 0 -> levels
               [] OTHER -> Insert(levels, s, p, q)

Loses(levels, p, q) == q # NonFinite /\ q > 0 /\ Full(levels) /\ \A i \in DOMAIN levels : levels[i].price # p
Losing(lost, s, levels, p, q) == IF Loses(levels, p, q) THEN lost \cup {s} ELSE lost

\* MapBook::update_side.
map_update(m, p, q) == IF q = NonFinite THEN m ELSE [m EXCEPT ![p] = Clamp(q)]

\* update_bid / update_ask of both books.
Update(s, p, q) ==
    /\ feed = "direct"
    /\ array' = [array EXCEPT ![s] = update_side(@, s, p, q)]
    /\ maps' = [maps EXCEPT ![s] = map_update(@, p, q)]
    /\ lossy' = Losing(lossy, s, array[s], p, q)
    /\ UNCHANGED <<feed, itch_orders, bbo, ticker, loaded>>

\* clear(), of the books and of the ITCH adapter.
clear_book ==
    /\ feed # "binance"
    /\ array' = EmptyBook /\ maps' = NoQuantity /\ lossy' = {}
    /\ itch_orders' = [r \in Refs |-> NoOrder]
    /\ UNCHANGED <<feed, bbo, ticker, loaded>>
-----------------------------------------------------------------------------
\* The ITCH adapter, as functions over its state.
State == [array |-> array, maps |-> maps, orders |-> itch_orders, lossy |-> lossy]

Push(st, s, p, total) ==
    [array |-> [st.array EXCEPT ![s] = update_side(@, s, p, total)],
     maps |-> [st.maps EXCEPT ![s][p] = total], orders |-> st.orders,
     lossy |-> Losing(st.lossy, s, st.array[s], p, total)]

add_qty(st, s, p, q) == Push(st, s, p, st.maps[s][p] + q)

\* A price the adapter holds nothing at is removed from the book as well.
sub_qty(st, s, p, q) == Push(st, s, p, Clamp(st.maps[s][p] - q))

Erase(st, r) == [st EXCEPT !.orders[r] = NoOrder]

\* The quantity of an order that is replaced or whose reference is reused leaves
\* its old level first.
evict_existing_ref(st, r) ==
    LET o == st.orders[r]
    IN  IF o = NoOrder THEN st ELSE sub_qty(Erase(st, r), o.side, o.price, o.qty)

Place(st, r, s, p, q) ==
    add_qty([st EXCEPT !.orders[r] = [side |-> s, price |-> p, qty |-> q]], s, p, q)

SetState(st) ==
    /\ array' = st.array /\ maps' = st.maps /\ itch_orders' = st.orders /\ lossy' = st.lossy
    /\ UNCHANGED <<feed, bbo, ticker, loaded>>

\* A second add of a live reference without draining the first.
PlaceOver(st, r, s, p, q) == Place(st, r, s, p, q)
AddAfterEvict(st, r, s, p, q) == Place(evict_existing_ref(st, r), r, s, p, q)

handle_add_order(r, s, p, q) == feed = "itch" /\ SetState(AddAfterEvict(State, r, s, p, q))

Clamped(o, q) == IF q < o.qty THEN q ELSE o.qty

\* OrderExecuted, OrderExecutedWithPrice and OrderCancel.
ReduceOrder(r, q) ==
    LET o == itch_orders[r]
        rest == o.qty - Clamped(o, q)
        st == IF rest <= 0 THEN Erase(State, r) ELSE [State EXCEPT !.orders[r].qty = rest]
    IN  feed = "itch" /\ o # NoOrder /\ SetState(sub_qty(st, o.side, o.price, Clamped(o, q)))

handle_order_delete(r) ==
    /\ feed = "itch" /\ itch_orders[r] # NoOrder
    /\ SetState(sub_qty(Erase(State, r), itch_orders[r].side, itch_orders[r].price, itch_orders[r].qty))

\* The original leaves, a live order under the new reference leaves, the new one enters.
handle_order_replace(orig, new, p, q) ==
    /\ feed = "itch" /\ itch_orders[orig] # NoOrder
    /\ SetState(LET o == itch_orders[orig]
                    gone == sub_qty(Erase(State, orig), o.side, o.price, o.qty)
                IN  AddAfterEvict(gone, new, o.side, p, q))
-----------------------------------------------------------------------------
Retire(levels, s, p) == IF bbo[s] # 0 /\ bbo[s] # p THEN update_side(levels, s, bbo[s], 0) ELSE levels

\* BinanceBookAdapter::update_from_ticker: the level of the last ticker is retired
\* when the price moves, the new one installed.  Fields that do not parse change nothing.
update_from_ticker(pb, qb, pa, qa) ==
    LET new(s) == IF s = "bid" THEN Level(pb, qb) ELSE Level(pa, qa)
    IN  /\ feed = "binance"
        /\ array' = [s \in Sides |-> update_side(Retire(array[s], s, new(s).price), s, new(s).price, new(s).qty)]
        /\ bbo' = [s \in Sides |-> IF new(s).qty > 0 THEN new(s).price ELSE 0]
        /\ ticker' = [s \in Sides |-> new(s)]
        /\ UNCHANGED <<feed, maps, itch_orders, lossy, loaded>>

LoadAll(levels, s) ==
    LET load[k \in 0..Len(levels)] ==
            IF k = 0 THEN <<>> ELSE update_side(load[k - 1], s, levels[k].price, levels[k].qty)
    IN  load[Len(levels)]

load_snapshot(bids, asks) ==
    /\ feed = "binance" /\ ~loaded
    /\ array' = [s \in Sides |-> LoadAll(IF s = "bid" THEN bids ELSE asks, s)]
    /\ bbo' = [s \in Sides |-> 0] /\ loaded' = TRUE
    /\ ticker' = [s \in Sides |-> Level(0, 0)]
    /\ UNCHANGED <<feed, maps, itch_orders, lossy>>

\* Up to two levels, at the same price or not.
Snapshots == UNION {[1..n -> {Level(p, 1) : p \in Prices}] : n \in 0..2}
Shares == 0..MaxShares

BKNext ==
    \/ \E s \in Sides, p \in Prices, q \in Quantities : Update(s, p, q)
    \/ clear_book
    \/ \E r \in Refs, s \in Sides, p \in Prices, q \in Shares : handle_add_order(r, s, p, q)
    \/ \E r \in Refs, q \in Shares : ReduceOrder(r, q)
    \/ \E r \in Refs : handle_order_delete(r)
    \/ \E r, n \in Refs, p \in Prices, q \in Shares : handle_order_replace(r, n, p, q)
    \/ \E pb, pa \in Prices, qb, qa \in Shares : update_from_ticker(pb, qb, pa, qa)
    \/ \E b \in Snapshots, a \in Snapshots : load_snapshot(b, a)

BKSpec == BKInit /\ [][BKNext]_bkvars
-----------------------------------------------------------------------------
\* signals.hpp: the midpoint weighted by the opposite quantity, as a fraction.
Best(s) == array[s][1]
weighted_num == Best("bid").price * Best("ask").qty + Best("ask").price * Best("bid").qty
weighted_den == Best("bid").qty + Best("ask").qty
-----------------------------------------------------------------------------
BKTypeOK ==
    /\ feed \in {"direct", "itch", "binance"} /\ lossy \subseteq Sides /\ loaded \in BOOLEAN
    /\ \A s \in Sides : /\ Len(array[s]) <= MaxLevels
                        /\ Range(array[s]) \subseteq [price : Prices, qty : Nat \ {0}]
                        /\ bbo[s] \in {0} \cup Prices
    /\ maps \in [Sides -> [Prices -> Nat]]
    /\ \A r \in Refs : itch_orders[r] = NoOrder \/ itch_orders[r] \in [side : Sides, price : Prices, qty : Shares]

\* Each side of the array book is sorted from the best price on, with one level
\* per price and something at each, so the best level is the first one.
LevelsSorted ==
    \A s \in Sides : \A i, j \in DOMAIN array[s] : i < j => Better(s, array[s][i].price, array[s][j].price)

\* The array book never shows a quantity that is not there: each of its levels
\* has the quantity of the full book (or of the adapter's totals), and as long
\* as no level was dropped it shows all of them.
LevelsTrue ==
    feed # "binance" => \A s \in Sides :
        LET shown == {array[s][i].price : i \in DOMAIN array[s]}
        IN  /\ \A i \in DOMAIN array[s] : array[s][i].qty = maps[s][array[s][i].price]
            /\ s \notin lossy => shown = {p \in Prices : maps[s][p] > 0}

OrdersAt(orders, s, p) == {r \in Refs : orders[r].side = s /\ orders[r].price = p}
Total(orders, s, p) == SumFunctionOnSet([r \in Refs |-> orders[r].qty], OrdersAt(orders, s, p))

\* The totals are those of the live orders, through over-executions, references
\* that are reused and replacements onto a live reference: no order is counted
\* twice and none stays behind after it is gone.
TotalsFollowOrders ==
    feed = "itch" => \A s \in Sides, p \in Prices : maps[s][p] = Total(itch_orders, s, p)

\* Fed by tickers alone, the book is the last ticker: no level of an earlier one
\* outlives it, whatever prices and empty sides came between.
TickerOnlyBook ==
    (feed = "binance" /\ ~loaded) => \A s \in Sides :
        array[s] = IF ticker[s].qty > 0 THEN <<ticker[s]>> ELSE <<>>

\* The weighted midpoint leans away from the larger side: it is above the plain
\* midpoint exactly when there is more to buy than to sell at the best prices.
MidLeansToDemand ==
    (array["bid"] # <<>> /\ array["ask"] # <<>> /\ Best("bid").price < Best("ask").price) =>
        (2 * weighted_num > (Best("bid").price + Best("ask").price) * weighted_den
            <=> Best("bid").qty > Best("ask").qty)

\* binance_adapter.hpp says of the ticker stream that "each message represents the
\* new best bid and best ask" and that a level left over would be "a phantom BBO that
\* only exists in our state": after a ticker with quantity the best level is the ticker's.
BestIsTicker ==
    feed = "binance" => \A s \in Sides : ticker[s].qty > 0 => Best(s) = ticker[s]

\* The books show what the feed said, level by level and in order, for each of
\* the three feeds.
BooksTrue ==
    /\ BKTypeOK /\ LevelsSorted /\ LevelsTrue /\ TotalsFollowOrders
    /\ TickerOnlyBook /\ MidLeansToDemand
=============================================================================
