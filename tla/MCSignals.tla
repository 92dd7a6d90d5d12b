----------------------------- MODULE MCSignals -----------------------------
(* Signals on small instances: prices 1..5 around a band, two days. *)
EXTENDS Signals

CONSTANTS i1, i2, a1, a2

\* Prices below, on and above the levels of Narrow, and between its 20- and
\* 55-day bounds.
MCPrices == {1, 2, 3, 4, 5}

Narrow == [long_55 |-> 5, short_55 |-> 1, long_20 |-> 4, short_20 |-> 2]
\* Too few candles for the 55-day window (a new instrument)
Young == [long_55 |-> None, short_55 |-> None, long_20 |-> 4, short_20 |-> 2]

OneBand == {Narrow}
TwoBands == {Narrow, Young}

Holding(i, d) == [NoPositions EXCEPT ![i] = d]
LongOrFlat == {NoPositions, Holding(i1, "long")}
AnyPosition == LongOrFlat \cup {Holding(i1, "short")}

=============================================================================
