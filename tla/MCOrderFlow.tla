---------------------------- MODULE MCOrderFlow ----------------------------
EXTENDS OrderFlow, TLC
Symmetry == Permutations(OrderIds) \cup Permutations(Symbols)
Limit(oq, on, pq, pn, te) ==
    [max_order_qty |-> oq, max_order_notional |-> on, max_position_qty |-> pq,
     max_position_notional |-> pn, max_total_exposure |-> te]
Limits == {Limit(2, 4, 2, 4, 5), Limit(1, 0, 2, 3, 0)}
============================================================================
