--------------------------- MODULE MCBreakoutCard ---------------------------
(* Three days of history, each flat, wide or without a trade, then three   *)
(* live days that trade at the ends of the wide one; windows of three and  *)
(* two candles, an ATR over two, and one task beside the refresh.          *)
EXTENDS BreakoutCard

CONSTANT t1

Flat == [high |-> 1, low |-> 1, close |-> 1]
Wide == [high |-> 2, low |-> 0, close |-> 1]

MCHistories ==
    {[d \in Days |-> IF d < FirstDay THEN past[d] ELSE None] :
        past \in [1 .. FirstDay - 1 -> {Flat, Wide, None}]}

MCTotals == {999, 100000}
MCYields == {-50, 0, 25}
MCPointValues == {1, 7}

=============================================================================
