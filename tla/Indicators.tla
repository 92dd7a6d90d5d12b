----------------------------- MODULE Indicators -----------------------------
(***************************************************************************)
(* IndicatorCalculator and the rows its results are stored in: what the    *)
(* channel levels and the ATR of one instrument are, and what becomes of   *)
(* them while days pass, some of them without a trade, and the morning     *)
(* refresh or a task of a dialog or of the bus recomputes them or fails    *)
(* to.  A task reads the row, awaits the candles and writes: the row may   *)
(* have been rewritten meanwhile, and midnight may have passed.            *)
(*                                                                         *)
(* The candle of a day is the entry of that day; the broker marks it       *)
(* complete once the day is over.  An answer holds the candles of the      *)
(* last Horizon days; sorting it by time is the order of the day numbers.  *)
(***************************************************************************)
EXTENDS Integers, FiniteSets, FiniteSetsExt

CONSTANTS
    MaxPrice,       \* bound: prices are 0 .. MaxPrice
    Traded,         \* prices of the trades while the model runs
    MaxDay,         \* bound: days
    FirstDay,       \* the day the model starts
    Histories,      \* candles of the days before it
    Horizon,        \* days of candles the broker is asked for (100)
    LongWindow,     \* candles in the long channel (54)
    ShortWindow,    \* candles in the short channel (19)
    Period,         \* candles the ATR is smoothed over (14)
    Tasks,          \* handlers that may be computing the row at once
    None            \* NULL, a day without a trade, a missing row

Prices == 0 .. MaxPrice
Days == 1 .. MaxDay
Candle == {c \in [high : Prices, low : Prices, close : Prices] :
              c.low <= c.close /\ c.close <= c.high}

\* The ATR is a fraction: the smoothing divides by Period again and again.
Fraction == [num : Nat, den : Nat \ {0}]
Level == Prices \cup {None}
Row == [long_55 : Level, short_55 : Level, long_20 : Level, short_20 : Level,
        atr14 : Fraction \cup {None}, last_update : Days, whole : BOOLEAN, as_of : Days]
Task == [pc : {"idle", "fetch", "write"}, old : Row \cup {None}, got : Row \cup {None}]
Idle == [pc |-> "idle", old |-> None, got |-> None]

ASSUME IndicatorsAssumption ==
    /\ MaxPrice \in Nat /\ Traded \subseteq Prices
    /\ FirstDay \in Nat \ {0} /\ MaxDay \in Nat /\ FirstDay <= MaxDay
    /\ Horizon \in Nat
    /\ ShortWindow \in Nat \ {0} /\ LongWindow \in Nat /\ ShortWindow <= LongWindow
    /\ Period \in Nat \ {0}
    /\ None \notin Int /\ None \notin Candle /\ None \notin Fraction /\ None \notin Row
    /\ Histories \subseteq [Days -> Candle \cup {None}]
    /\ \A h \in Histories : \A d \in FirstDay .. MaxDay : h[d] = None

VARIABLES
    day,        \* today
    candles,    \* the instrument's daily candles, the one of today still forming
    row,        \* its row of the instruments table, with two fields of history:
                \* whole, its levels and the ATR come from one computation, and
                \* as_of, the day that computation fetched its candles
    task        \* each task: the row it read and what it has computed

vars == <<day, candles, row, task>>

TypeOK ==
    /\ day \in Days
    /\ candles \in [Days -> Candle \cup {None}]
    /\ row \in Row \cup {None}
    /\ task \in [Tasks -> Task]

-----------------------------------------------------------------------------
(* IndicatorCalculator *)

Answer == {d \in Days : day - Horizon < d /\ d <= day /\ candles[d] # None}

\* Mutant: the forming candle is not filtered out.
AllCandles == Answer

\* if c.is_complete
Completed == {d \in Answer : d < day}

\* xs[-window:] of the candles sorted by time
LastOf(S, n) == {d \in S : Cardinality({e \in S : e >= d}) <= n}

LastWindowMax(n) ==
    IF Cardinality(Completed) < n THEN None
    ELSE Max({candles[d].high : d \in LastOf(Completed, n)})

\* Mutant: the minimum wants one candle more, len(xs) > window.
LastWindowMinLate(n) ==
    IF Cardinality(Completed) <= n THEN None
    ELSE Min({candles[d].low : d \in LastOf(Completed, n)})

LastWindowMin(n) ==
    IF Cardinality(Completed) < n THEN None
    ELSE Min({candles[d].low : d \in LastOf(Completed, n)})

\* The k-th complete candle in order of time
Nth(k) == candles[CHOOSE d \in Completed : Cardinality({e \in Completed : e <= d}) = k]

Distance(x, y) == IF x >= y THEN x - y ELSE y - x

TrueRange(k) ==
    LET bar == Nth(k + 1)
        prev_c == Nth(k).close
    IN  Max({bar.high - bar.low, Distance(bar.high, prev_c), Distance(bar.low, prev_c)})

\* Mutant: the smoothing weighs the old average Period times.
SmoothHeavy(atr, tr) ==
    [num |-> atr.num * Period + tr * atr.den, den |-> atr.den * Period]

Smooth(atr, tr) ==
    [num |-> atr.num * (Period - 1) + tr * atr.den, den |-> atr.den * Period]

\* The average of the first Period ranges, then Wilder's smoothing over the rest
Smoothed[k \in Nat] ==
    IF k = 0 THEN [num |-> 0, den |-> Period]
    ELSE IF k <= Period THEN [Smoothed[k - 1] EXCEPT !.num = @ + TrueRange(k)]
    ELSE Smooth(Smoothed[k - 1], TrueRange(k))

Atr == IF Cardinality(Completed) < Period + 1 THEN None
       ELSE Smoothed[Cardinality(Completed) - 1]

\* Mutant: the lower level of the short channel is taken from the highs.
BuildFromHighs ==
    [long_55  |-> LastWindowMax(LongWindow),  short_55 |-> LastWindowMin(LongWindow),
     long_20  |-> LastWindowMax(ShortWindow),
     short_20 |-> IF LastWindowMin(ShortWindow) = None THEN None
                  ELSE Min({candles[d].high : d \in LastOf(Completed, ShortWindow)}),
     atr14    |-> Atr, last_update |-> day, whole |-> TRUE, as_of |-> day]

BuildInstrumentUpdate ==
    [long_55  |-> LastWindowMax(LongWindow),  short_55 |-> LastWindowMin(LongWindow),
     long_20  |-> LastWindowMax(ShortWindow), short_20 |-> LastWindowMin(ShortWindow),
     atr14    |-> Atr, last_update |-> day, whole |-> TRUE, as_of |-> day]

-----------------------------------------------------------------------------
(* The row *)

Stale == row # None /\ row.last_update # day

(***************************************************************************)
(* update_instrument_from_patch of the morning refresh: what is None       *)
(* becomes NULL.  The job runs hours away from midnight, so its fetch and  *)
(* its stamp are of one day and one step.                                  *)
(***************************************************************************)
Refresh ==
    /\ Stale
    /\ row' = BuildInstrumentUpdate
    /\ UNCHANGED <<day, candles, task>>

OrElse(new, old) == IF new = None THEN old ELSE new

Coalesced(new) ==
    [long_55  |-> OrElse(new.long_55, row.long_55),
     short_55 |-> OrElse(new.short_55, row.short_55),
     long_20  |-> OrElse(new.long_20, row.long_20),
     short_20 |-> OrElse(new.short_20, row.short_20),
     atr14    |-> OrElse(new.atr14, row.atr14),
     last_update |-> new.last_update,
     whole    |-> /\ new.whole
                  /\ new.long_55 = None => row.long_55 = None
                  /\ new.long_20 = None => row.long_20 = None
                  /\ new.atr14 = None => row.atr14 = None,
     as_of    |-> new.as_of]

\* INSERT ... ON CONFLICT DO UPDATE: the old value stays where the new one is None.
Upserted(new) == IF row = None THEN new ELSE Coalesced(new)

\* A dialog or a portfolio update reads the row: candles are for a new or stale one.
ReadRow(t) ==
    /\ task[t] = Idle
    /\ task' = [task EXCEPT ![t] = [pc  |-> IF row = None \/ Stale THEN "fetch" ELSE "write",
                                   old |-> row, got |-> None]]
    /\ UNCHANGED <<day, candles, row>>

FetchCandles(t) ==
    /\ task[t].pc = "fetch"
    /\ task' = [task EXCEPT ![t].pc = "write", ![t].got = BuildInstrumentUpdate]
    /\ UNCHANGED <<day, candles, row>>

\* add_account_id goes on without the candles that could not be fetched.
FetchFails(t) ==
    /\ task[t].pc = "fetch"
    /\ task' = [task EXCEPT ![t].pc = "write"]
    /\ UNCHANGED <<day, candles, row>>

\* The other handlers end on a failed call; so does every one on a failed write.
TaskRaises(t) ==
    /\ task[t] # Idle
    /\ task' = [task EXCEPT ![t] = Idle]
    /\ UNCHANGED <<day, candles, row>>

\* The row is stamped when it is written, whenever its candles were fetched.
Upsert(t) ==
    /\ task[t].pc = "write" /\ task[t].got # None
    /\ row' = Upserted([task[t].got EXCEPT !.last_update = day])
    /\ task' = [task EXCEPT ![t] = Idle]
    /\ UNCHANGED <<day, candles>>

\* Mutant: the row without candles is written without a stamp.
PutBackUnstamped(t) ==
    /\ task[t].pc = "write" /\ task[t].got = None
    /\ row' = Upserted(IF task[t].old # None THEN task[t].old
                       ELSE [long_55 |-> None, short_55 |-> None,
                             long_20 |-> None, short_20 |-> None, atr14 |-> None,
                             last_update |-> None, whole |-> FALSE, as_of |-> day])
    /\ task' = [task EXCEPT ![t] = Idle]
    /\ UNCHANGED <<day, candles>>

\* Without candles add_account_id puts the row back as it was read, stale or not, and
\* a new one without levels.
PutBack(t) ==
    /\ task[t].pc = "write" /\ task[t].got = None
    /\ row' = Upserted(IF task[t].old # None THEN task[t].old
                       ELSE [long_55 |-> None, short_55 |-> None,
                             long_20 |-> None, short_20 |-> None, atr14 |-> None,
                             last_update |-> day, whole |-> FALSE, as_of |-> day])
    /\ task' = [task EXCEPT ![t] = Idle]
    /\ UNCHANGED <<day, candles>>

-----------------------------------------------------------------------------
(* The market *)

Widened(c, p) == [high  |-> IF p > c.high THEN p ELSE c.high,
                  low   |-> IF p < c.low THEN p ELSE c.low,
                  close |-> p]

\* A trade of today at price p
Trade(p) ==
    /\ candles' = [candles EXCEPT ![day] =
                      IF @ = None THEN [high |-> p, low |-> p, close |-> p]
                      ELSE Widened(@, p)]
    /\ UNCHANGED <<day, row, task>>

NextDay ==
    /\ day < MaxDay
    /\ day' = day + 1
    /\ UNCHANGED <<candles, row, task>>

Init ==
    /\ day = FirstDay
    /\ candles \in Histories
    /\ row = None
    /\ task = [t \in Tasks |-> Idle]

Next ==
    \/ Refresh
    \/ \E t \in Tasks : \/ ReadRow(t) \/ FetchCandles(t) \/ FetchFails(t) \/ TaskRaises(t)
                        \/ Upsert(t) \/ PutBack(t)
    \/ \E p \in Traded : Trade(p)
    \/ NextDay

Spec == Init /\ [][Next]_vars

-----------------------------------------------------------------------------
(* Properties *)

\* Computed today and from candles of today: not one that was fetched before midnight
\* and stamped after it, nor one in which an upsert has kept an older level.
Fresh == row # None /\ row.last_update = day /\ row.as_of = day /\ row.whole

\* A price that opens a position (55) and meets the stop of that position (20) at once
\* (market_proc.py:114, 136: both tests hold on the level itself)
EntryIsStop(p) ==
    \/ p >= row.long_55 /\ p <= row.short_20
    \/ p <= row.short_55 /\ p >= row.long_20

(***************************************************************************)
(* The short channel lies within the long one, so an entry price is its    *)
(* own stop only in a market that has not moved: every day of the short    *)
(* window, and with it the whole channel, is flat at that very price.      *)
(* Rows in which an upsert has kept an older level are excepted: their     *)
(* levels belong to different days.                                        *)
(***************************************************************************)
ChannelsNest ==
    row # None /\ row.whole /\ row.long_55 # None =>
        /\ row.long_20 # None /\ row.short_20 # None /\ row.short_55 # None
        /\ row.short_55 <= row.short_20 /\ row.short_20 <= row.long_20
        /\ row.long_20 <= row.long_55
        /\ Fresh => \A p \in Prices : EntryIsStop(p) =>
                      \A d \in LastOf(Completed, ShortWindow) :
                          candles[d].high = p /\ candles[d].low = p

\* The price handler tests donchian_long_55 alone and then compares the price with
\* donchian_short_55 (market_proc.py:135-157): no sequence of refreshes, upserts, rows
\* put back and failures gives a row one of the two levels of a channel without the other.
LevelsComeInPairs ==
    row # None =>
        /\ row.long_55 = None <=> row.short_55 = None
        /\ row.long_20 = None <=> row.short_20 = None

(***************************************************************************)
(* What a breakout of a row computed today means: every day with a higher  *)
(* high is at least LongWindow traded days back, so with today the price   *)
(* is the highest of LongWindow + 1 days (55) - whenever within the day    *)
(* the row was computed and whatever today's candle has been so far.       *)
(***************************************************************************)
BreakoutIsExtreme ==
    Fresh /\ row.long_55 # None =>
        \A p \in Prices :
            /\ p >= row.long_55 <=>
                  \A d \in Days : d < day /\ candles[d] # None /\ candles[d].high > p =>
                      \/ Cardinality({e \in Days : d < e /\ e < day /\ candles[e] # None})
                             >= LongWindow
                      \/ d <= day - Horizon
            /\ p <= row.short_55 <=>
                  \A d \in Days : d < day /\ candles[d] # None /\ candles[d].low < p =>
                      \/ Cardinality({e \in Days : d < e /\ e < day /\ candles[e] # None})
                             >= LongWindow
                      \/ d <= day - Horizon

\* The ATR is an average: it lies between the smallest and the largest true range
\* of the fetched days, and it is there as soon as there are Period of them.
AtrWithinRanges ==
    Fresh =>
        LET ranges == {TrueRange(k) : k \in 1 .. Cardinality(Completed) - 1} IN
        IF Cardinality(Completed) <= Period THEN row.atr14 = None
        ELSE /\ Min(ranges) * row.atr14.den <= row.atr14.num
             /\ row.atr14.num <= Max(ranges) * row.atr14.den

=============================================================================
