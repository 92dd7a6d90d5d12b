-------------------------- MODULE IndicatorsProofs --------------------------
(***************************************************************************)
(* For windows of any length, any horizon, any smoothing period and any    *)
(* prices: rows are typed, channels nest, levels come in pairs, a breakout *)
(* is an extreme of the whole window, the ATR lies between the ranges it   *)
(* averages and the card risks what it says.                               *)
(*                                                                         *)
(* The invariant behind them is RowIsCurrent.  The ATR is a recursive      *)
(* function: its equations and bounds are proved by induction, and the     *)
(* induction from the least element of a set of naturals.                  *)
(***************************************************************************)
EXTENDS BreakoutCard, FiniteSetTheorems, WellFoundedInduction, TLAPS

-----------------------------------------------------------------------------
(* Maxima and minima of bounded sets of naturals *)

\* A nonempty set of naturals has a least element.
LEMMA MinExists ==
  ASSUME NEW S, S \subseteq Nat, S # {}
  PROVE  Min(S) \in S /\ \A y \in S : Min(S) <= y
<1> DEFINE R == OpToRel(<, Nat)
<1>0. \A x, y \in Nat : y < x => <<y, x>> \in R
  BY DEF OpToRel
<1>1. PICK x \in S : \A y \in S : ~ (<<y, x>> \in R)
  BY NatLessThanWellFounded, WFMin
<1> HIDE DEF R
<1>2. ASSUME NEW y \in S PROVE x <= y
  <2>1. x \in Nat /\ y \in Nat
    OBVIOUS
  <2>2. ~ (y < x)
    BY <1>0, <1>1, <2>1
  <2>3. QED
    BY <2>1, <2>2
<1>3. QED
  BY <1>1, <1>2 DEF Min

\* A nonempty bounded set of naturals has a greatest element.
LEMMA MaxExists ==
  ASSUME NEW B \in Nat, NEW S, S \subseteq 0 .. B, S # {}
  PROVE  Max(S) \in S /\ \A y \in S : y <= Max(S)
<1> DEFINE T == {B - s : s \in S}
<1>1. T \subseteq Nat /\ T # {}
  <2>1. \A s \in S : B - s \in Nat
    OBVIOUS
  <2>2. QED
    BY <2>1
<1>2. Min(T) \in T /\ \A t \in T : Min(T) <= t
  BY <1>1, MinExists
<1>3. PICK x \in S : Min(T) = B - x
  BY <1>2
<1>4. \A y \in S : x >= y
  <2>1. SUFFICES ASSUME NEW y \in S PROVE x >= y
    OBVIOUS
  <2>2. B - y \in T
    OBVIOUS
  <2>3. B - x <= B - y
    BY <1>2, <1>3, <2>2
  <2>4. QED
    BY <2>3
<1>5. QED
  BY <1>4 DEF Max

-----------------------------------------------------------------------------
(* Induction, from the least number that is missing *)

\* A set with 0 that is closed under successor holds every natural.
LEMMA SetInduction ==
  ASSUME NEW S, 0 \in S, \A n \in Nat : n \in S => n + 1 \in S
  PROVE  \A n \in Nat : n \in S
<1> DEFINE T == Nat \ S
<1>1. SUFFICES ASSUME T # {} PROVE FALSE
  OBVIOUS
<1>2. Min(T) \in T /\ \A y \in T : Min(T) <= y
  <2>1. T \subseteq Nat
    OBVIOUS
  <2> HIDE DEF T
  <2>2. QED
    BY <1>1, <2>1, MinExists
<1> DEFINE m == Min(T)
<1>3. m \in Nat /\ m \notin S /\ \A y \in Nat : y \notin S => m <= y
  BY <1>2
<1> HIDE DEF m
<1>4. m # 0
  BY <1>3
<1>5. m - 1 \in Nat
  BY <1>3, <1>4
<1>6. m - 1 \in S
  <2>1. ~ (m <= m - 1)
    BY <1>3, <1>5
  <2>2. QED
    BY <1>3, <1>5, <2>1
<1>7. (m - 1) + 1 = m
  BY <1>3
<1>8. m \in S
  <2>1. (m - 1) + 1 \in S
    BY <1>5, <1>6
  <2>2. QED
    BY <1>7, <2>1
<1>9. QED
  BY <1>3, <1>8

-----------------------------------------------------------------------------
(* The windows *)

\* There are finitely many complete candles.
LEMMA CompletedFinite ==
  /\ Completed \subseteq Days /\ IsFiniteSet(Completed)
  /\ Cardinality(Completed) \in Nat
  /\ \A d : /\ IsFiniteSet({e \in Completed : e >= d})
            /\ Cardinality({e \in Completed : e >= d}) \in Nat
<1>1. Completed \subseteq Days
  BY DEF Completed, Answer
<1>2. IsFiniteSet(Days)
  BY IndicatorsAssumption, FS_Interval DEF Days
<1>3. \A S \in SUBSET Days : IsFiniteSet(S) /\ Cardinality(S) \in Nat
  BY <1>2, FS_Subset, FS_CardinalityType
<1>4. \A d : {e \in Completed : e >= d} \in SUBSET Days
  BY <1>1
<1>5. QED
  BY <1>1, <1>3, <1>4

\* A shorter window is part of a longer one.
LEMMA WindowsNest == LastOf(Completed, ShortWindow) \subseteq LastOf(Completed, LongWindow)
<1>1. SUFFICES ASSUME NEW d \in LastOf(Completed, ShortWindow)
               PROVE  d \in LastOf(Completed, LongWindow)
  OBVIOUS
<1>2. d \in Completed /\ Cardinality({e \in Completed : e >= d}) <= ShortWindow
  BY DEF LastOf
<1>3. Cardinality({e \in Completed : e >= d}) \in Nat
  BY CompletedFinite
<1>4. Cardinality({e \in Completed : e >= d}) <= LongWindow
  BY <1>2, <1>3, IndicatorsAssumption
<1>5. QED
  BY <1>2, <1>4 DEF LastOf

\* A window with enough candles holds one: the last complete candle.
LEMMA WindowHolds ==
  ASSUME NEW n \in Nat \ {0}, Cardinality(Completed) >= n
  PROVE  LastOf(Completed, n) # {}
<1>1. Completed # {}
  BY FS_EmptySet, CompletedFinite
<1>2. Completed \subseteq 0 .. MaxDay
  BY CompletedFinite DEF Days
<1>3. Max(Completed) \in Completed /\ \A y \in Completed : y <= Max(Completed)
  BY <1>1, <1>2, MaxExists, IndicatorsAssumption
<1> DEFINE m == Max(Completed)
<1>4. {e \in Completed : e >= m} = {m}
  <2>1. \A e \in Completed : e \in Int
    BY <1>2
  <2>2. QED
    BY <1>3, <2>1
<1>5. Cardinality({e \in Completed : e >= m}) <= n
  BY <1>4, FS_Singleton
<1>6. m \in LastOf(Completed, n)
  BY <1>3, <1>5 DEF LastOf
<1>7. QED
  BY <1>6

CandlesTyped == candles \in [Days -> Candle \cup {None}]

\* A complete candle is a candle: its low is not above its high.
LEMMA CompleteCandle ==
  ASSUME CandlesTyped, NEW d \in Completed
  PROVE  /\ candles[d].high \in Prices /\ candles[d].low \in Prices
         /\ candles[d].low <= candles[d].high
<1>1. candles[d] \in Candle
  BY DEF CandlesTyped, Completed, Answer
<1>2. \A c \in Candle : /\ c.high \in Prices /\ c.low \in Prices /\ c.close \in Prices
                        /\ c.low <= c.close /\ c.close <= c.high
  BY DEF Candle
<1>3. Prices \subseteq Int
  BY DEF Prices
<1>4. candles[d].low <= candles[d].high
  <2>1. /\ candles[d].high \in Int /\ candles[d].low \in Int /\ candles[d].close \in Int
        /\ candles[d].low <= candles[d].close /\ candles[d].close <= candles[d].high
    BY <1>1, <1>2, <1>3
  <2>2. QED
    BY <2>1
<1>5. QED
  BY <1>1, <1>2, <1>4

Highs(n) == {candles[d].high : d \in LastOf(Completed, n)}
Lows(n) == {candles[d].low : d \in LastOf(Completed, n)}

\* The extremes of a filled window are prices of candles in it.
LEMMA HighsAndLows ==
  ASSUME CandlesTyped, NEW n \in Nat \ {0}, Cardinality(Completed) >= n
  PROVE  /\ Highs(n) # {} /\ Highs(n) \subseteq Prices
         /\ Lows(n) # {} /\ Lows(n) \subseteq Prices
         /\ Max(Highs(n)) \in Highs(n) /\ \A y \in Highs(n) : y <= Max(Highs(n))
         /\ Min(Lows(n)) \in Lows(n) /\ \A y \in Lows(n) : Min(Lows(n)) <= y
<1>1. \A d \in LastOf(Completed, n) :
          candles[d].high \in Prices /\ candles[d].low \in Prices
  BY CompleteCandle DEF LastOf
<1>2. LastOf(Completed, n) # {}
  BY WindowHolds
<1>3. Highs(n) # {} /\ Highs(n) \subseteq Prices
  BY <1>1, <1>2 DEF Highs
<1>4. Lows(n) # {} /\ Lows(n) \subseteq Prices
  BY <1>1, <1>2 DEF Lows
<1>5. Max(Highs(n)) \in Highs(n) /\ \A y \in Highs(n) : y <= Max(Highs(n))
  BY <1>3, MaxExists, IndicatorsAssumption DEF Prices
<1>6. Lows(n) \subseteq Nat
  BY <1>4 DEF Prices
<1>7. Min(Lows(n)) \in Lows(n) /\ \A y \in Lows(n) : Min(Lows(n)) <= y
  BY <1>4, <1>6, MinExists
<1>8. QED
  BY <1>3, <1>4, <1>5, <1>7

-----------------------------------------------------------------------------
(* The levels of one computation *)

\* A level is a price, or missing when the window is not filled.
LEMMA LevelOf ==
  ASSUME CandlesTyped, NEW n \in Nat \ {0}
  PROVE  /\ LastWindowMax(n) \in Level /\ LastWindowMin(n) \in Level
         /\ LastWindowMax(n) = None <=> Cardinality(Completed) < n
         /\ LastWindowMin(n) = None <=> Cardinality(Completed) < n
<1>1. Cardinality(Completed) \in Nat
  BY CompletedFinite
<1>2. None \notin Prices
  BY IndicatorsAssumption DEF Prices
<1>3. CASE Cardinality(Completed) < n
  BY <1>3 DEF LastWindowMax, LastWindowMin, Level
<1>4. CASE ~ (Cardinality(Completed) < n)
  <2>1. Cardinality(Completed) >= n
    BY <1>1, <1>4
  <2>2. Max(Highs(n)) \in Prices /\ Min(Lows(n)) \in Prices
    BY <2>1, HighsAndLows
  <2>3. LastWindowMax(n) = Max(Highs(n)) /\ LastWindowMin(n) = Min(Lows(n))
    BY <1>4 DEF LastWindowMax, LastWindowMin, Highs, Lows
  <2>4. QED
    BY <1>2, <1>4, <2>2, <2>3 DEF Level
<1>5. QED
  BY <1>3, <1>4

\* The channels of one computation nest.
LEMMA Nested ==
  ASSUME CandlesTyped, LastWindowMax(LongWindow) # None
  PROVE  /\ LastWindowMax(ShortWindow) # None /\ LastWindowMin(ShortWindow) # None
         /\ LastWindowMin(LongWindow) # None
         /\ LastWindowMax(ShortWindow) <= LastWindowMax(LongWindow)
         /\ LastWindowMin(LongWindow) <= LastWindowMin(ShortWindow)
         /\ LastWindowMin(ShortWindow) <= LastWindowMax(ShortWindow)
<1>1. /\ LongWindow \in Nat \ {0} /\ ShortWindow \in Nat \ {0}
      /\ ShortWindow <= LongWindow
  BY IndicatorsAssumption
<1>2. Cardinality(Completed) \in Nat
  BY CompletedFinite
<1>3. /\ Cardinality(Completed) >= LongWindow
      /\ Cardinality(Completed) >= ShortWindow
  BY <1>1, <1>2, LevelOf
<1>4. /\ LastWindowMax(LongWindow) = Max(Highs(LongWindow))
      /\ LastWindowMin(LongWindow) = Min(Lows(LongWindow))
      /\ LastWindowMax(ShortWindow) = Max(Highs(ShortWindow))
      /\ LastWindowMin(ShortWindow) = Min(Lows(ShortWindow))
  BY <1>1, <1>2, <1>3 DEF LastWindowMax, LastWindowMin, Highs, Lows
<1>5. Highs(ShortWindow) \subseteq Highs(LongWindow) /\ Lows(ShortWindow) \subseteq Lows(LongWindow)
  BY WindowsNest DEF Highs, Lows
<1>6. Max(Highs(ShortWindow)) \in Highs(ShortWindow) /\ Min(Lows(ShortWindow)) \in Lows(ShortWindow)
  BY <1>1, <1>3, HighsAndLows
<1>7. Max(Highs(ShortWindow)) <= Max(Highs(LongWindow))
  BY <1>1, <1>3, <1>5, <1>6, HighsAndLows
<1>8. Min(Lows(LongWindow)) <= Min(Lows(ShortWindow))
  BY <1>1, <1>3, <1>5, <1>6, HighsAndLows
<1>9. Min(Lows(ShortWindow)) <= Max(Highs(ShortWindow))
  <2>1. PICK d \in LastOf(Completed, ShortWindow) : TRUE
    BY <1>1, <1>3, WindowHolds
  <2>2. d \in Completed /\ candles[d].low \in Prices /\ candles[d].high \in Prices
        /\ candles[d].low <= candles[d].high
    BY <2>1, CompleteCandle DEF LastOf
  <2>3. candles[d].low \in Lows(ShortWindow) /\ candles[d].high \in Highs(ShortWindow)
    BY <2>1 DEF Lows, Highs
  <2>4. /\ Min(Lows(ShortWindow)) <= candles[d].low /\ Min(Lows(ShortWindow)) \in Prices
        /\ candles[d].high <= Max(Highs(ShortWindow)) /\ Max(Highs(ShortWindow)) \in Prices
    BY <1>1, <1>3, <2>3, HighsAndLows
  <2>5. QED
    BY <2>2, <2>4 DEF Prices
<1>10. QED
  BY <1>1, <1>2, <1>3, <1>4, <1>7, <1>8, <1>9, LevelOf

-----------------------------------------------------------------------------
(* The order of the candles *)

UpTo(d) == {e \in Completed : e <= d}

\* The candles up to a day can be counted.
LEMMA UpToFinite ==
  ASSUME NEW d
  PROVE  IsFiniteSet(UpTo(d)) /\ Cardinality(UpTo(d)) \in Nat
<1>1. UpTo(d) \subseteq Completed
  BY DEF UpTo
<1>2. QED
  BY <1>1, CompletedFinite, FS_Subset, FS_CardinalityType

\* The first k complete candles end with one of them.
LEMMA NthExists ==
  ASSUME NEW k \in 1 .. Cardinality(Completed)
  PROVE  \E d \in Completed : Cardinality(UpTo(d)) = k
<1> DEFINE N == Cardinality(Completed)
           S == {n \in Nat : n <= N => \E d \in 0 .. MaxDay :
                                /\ Cardinality(UpTo(d)) = n
                                /\ n # 0 => d \in Completed}
<1>1. N \in Nat /\ IsFiniteSet(Completed)
  BY CompletedFinite
<1>2. MaxDay \in Nat /\ \A e \in Completed : e \in Nat /\ 1 <= e /\ e <= MaxDay
  BY CompletedFinite, IndicatorsAssumption DEF Days
<1>3. 0 \in S
  <2>1. UpTo(0) = {}
    BY <1>2 DEF UpTo
  <2>2. Cardinality(UpTo(0)) = 0
    BY <2>1, FS_EmptySet
  <2>3. 0 \in 0 .. MaxDay
    BY <1>2
  <2>4. QED
    BY <2>2, <2>3
<1>4. ASSUME NEW n \in Nat, n \in S PROVE n + 1 \in S
  <2>1. SUFFICES ASSUME n + 1 <= N
                 PROVE  \E d \in Completed : Cardinality(UpTo(d)) = n + 1
    <3>1. Completed \subseteq 0 .. MaxDay /\ n + 1 \in Nat
      BY <1>2
    <3>2. QED
      BY <3>1
  <2>2. n <= N /\ n # N
    BY <1>1, <2>1
  <2>3. PICK d \in 0 .. MaxDay : Cardinality(UpTo(d)) = n
    BY <1>4, <2>2
  <2> DEFINE Rest == Completed \ UpTo(d)
             m == Min(Rest)
  <2>4. Rest # {}
    <3>1. UpTo(d) \subseteq Completed
      BY DEF UpTo
    <3>2. UpTo(d) # Completed
      BY <2>2, <2>3
    <3>3. QED
      BY <3>1, <3>2
  <2>5. Rest \subseteq Nat
    BY <1>2
  <2>6. m \in Rest /\ \A y \in Rest : m <= y
    <3> HIDE DEF Rest
    <3>1. QED
      BY <2>4, <2>5, MinExists
  <2>7. m \in Completed /\ m \notin UpTo(d) /\ m > d
    <3>1. m \in Completed /\ m \notin UpTo(d)
      BY <2>6
    <3>2. m \in Nat /\ ~ (m <= d)
      BY <1>2, <3>1 DEF UpTo
    <3>3. QED
      BY <3>1, <3>2
  <2>8. UpTo(m) = UpTo(d) \cup {m}
    <3>1. ASSUME NEW e \in UpTo(m) PROVE e \in UpTo(d) \cup {m}
      <4>1. e \in Completed /\ e <= m
        BY DEF UpTo
      <4>2. CASE e \in Rest
        <5>1. m <= e /\ e \in Nat /\ m \in Nat
          BY <1>2, <2>6, <2>7, <4>1, <4>2
        <5>2. e = m
          BY <4>1, <5>1
        <5>3. QED
          BY <5>2
      <4>3. QED
        BY <4>1, <4>2
    <3>2. ASSUME NEW e \in UpTo(d) PROVE e \in UpTo(m)
      <4>1. e \in Completed /\ e <= d /\ e \in Nat /\ m \in Nat /\ d \in Nat
        BY <1>2, <2>7, <2>3 DEF UpTo
      <4>2. e <= m
        BY <2>7, <4>1
      <4>3. QED
        BY <4>1, <4>2 DEF UpTo
    <3>3. m \in UpTo(m)
      BY <1>2, <2>7 DEF UpTo
    <3>4. QED
      BY <3>1, <3>2, <3>3
  <2>9. Cardinality(UpTo(m)) = n + 1
    BY <2>3, <2>7, <2>8, UpToFinite, FS_AddElement
  <2>10. QED
    BY <2>7, <2>9
<1>5. k \in Nat /\ k <= N /\ k # 0
  BY <1>1
<1>6. k \in S
  <2> HIDE DEF S
  <2>1. \A n \in Nat : n \in S => n + 1 \in S
    BY <1>4
  <2>2. QED
    BY <1>3, <1>5, <2>1, SetInduction
<1>7. QED
  BY <1>5, <1>6

\* The k-th candle is a complete candle.
LEMMA NthTyped ==
  ASSUME CandlesTyped, NEW k \in 1 .. Cardinality(Completed)
  PROVE  /\ Nth(k) \in Candle
         /\ \E d \in Completed : Nth(k) = candles[d]
<1> DEFINE c == CHOOSE d \in Completed : Cardinality(UpTo(d)) = k
<1>1. c \in Completed
  BY NthExists
<1>2. Nth(k) = candles[c]
  BY DEF Nth, UpTo
<1>3. \A d \in Completed : candles[d] \in Candle
  BY DEF CandlesTyped, Completed, Answer
<1>4. QED
  BY <1>1, <1>2, <1>3

\* A true range is at most the highest price.
LEMMA TrueRangeTyped ==
  ASSUME CandlesTyped, NEW k \in 1 .. Cardinality(Completed) - 1
  PROVE  TrueRange(k) \in 0 .. MaxPrice
<1>1. Cardinality(Completed) \in Nat
  BY CompletedFinite
<1>2. k \in 1 .. Cardinality(Completed) /\ k + 1 \in 1 .. Cardinality(Completed)
  BY <1>1
<1>3. Nth(k) \in Candle /\ Nth(k + 1) \in Candle
  BY <1>2, NthTyped
<1> DEFINE bar == Nth(k + 1)
           prev_c == Nth(k).close
<1>4. /\ bar.high \in 0 .. MaxPrice /\ bar.low \in 0 .. MaxPrice /\ bar.close \in 0 .. MaxPrice
      /\ prev_c \in 0 .. MaxPrice /\ bar.low <= bar.close /\ bar.close <= bar.high
  BY <1>3 DEF Candle, Prices
<1>5. TrueRange(k) = Max({bar.high - bar.low, Distance(bar.high, prev_c), Distance(bar.low, prev_c)})
  BY DEF TrueRange
<1> HIDE DEF bar, prev_c
<1>6. /\ bar.high - bar.low \in 0 .. MaxPrice
      /\ Distance(bar.high, prev_c) \in 0 .. MaxPrice
      /\ Distance(bar.low, prev_c) \in 0 .. MaxPrice
  BY <1>4, IndicatorsAssumption DEF Distance
<1> DEFINE S == {bar.high - bar.low, Distance(bar.high, prev_c), Distance(bar.low, prev_c)}
<1>7. S \subseteq 0 .. MaxPrice /\ S # {}
  BY <1>6
<1>8. Max(S) \in 0 .. MaxPrice
  <2> HIDE DEF S
  <2>1. QED
    BY <1>7, MaxExists, IndicatorsAssumption
<1>9. QED
  BY <1>5, <1>8

-----------------------------------------------------------------------------
(* The recursion of the ATR *)

SmoothedFrom(v, k) ==
    IF k <= Period THEN [v EXCEPT !.num = @ + TrueRange(k)] ELSE Smooth(v, TrueRange(k))

\* The recursion of g as far as n
SmoothedUpTo(g, n) ==
    g = [k \in 0 .. n |-> IF k = 0 THEN [num |-> 0, den |-> Period]
                          ELSE SmoothedFrom(g[k - 1], k)]

\* The recursion can be carried as far as any number.
LEMMA SmoothedUpToExists ==
  \A n \in Nat : \E g : SmoothedUpTo(g, n)
<1> DEFINE S == {n \in Nat : \E g : SmoothedUpTo(g, n)}
           zero == [num |-> 0, den |-> Period]
<1>1. 0 \in S
  <2> DEFINE g == [k \in 0 .. 0 |-> zero]
  <2>1. g = [k \in 0 .. 0 |-> IF k = 0 THEN zero ELSE SmoothedFrom(g[k - 1], k)]
    <3>1. \A k \in 0 .. 0 : k = 0
      OBVIOUS
    <3>2. QED
      BY <3>1
  <2>2. SmoothedUpTo(g, 0)
    BY <2>1 DEF SmoothedUpTo
  <2>3. QED
    BY <2>2
<1>2. ASSUME NEW n \in Nat, n \in S PROVE n + 1 \in S
  <2>1. PICK g : SmoothedUpTo(g, n)
    BY <1>2
  <2>2. \A k \in 0 .. n : g[k] = IF k = 0 THEN zero ELSE SmoothedFrom(g[k - 1], k)
    <3> DEFINE F(k) == IF k = 0 THEN zero ELSE SmoothedFrom(g[k - 1], k)
    <3>1. g = [k \in 0 .. n |-> F(k)]
      BY <2>1 DEF SmoothedUpTo
    <3> HIDE DEF F
    <3>2. \A k \in 0 .. n : g[k] = F(k)
      BY <3>1
    <3>3. QED
      BY <3>2 DEF F
  <2> DEFINE h == [k \in 0 .. n + 1 |-> IF k <= n THEN g[k] ELSE SmoothedFrom(g[n], n + 1)]
  <2>3. \A k \in 0 .. n + 1 : h[k] = IF k = 0 THEN zero ELSE SmoothedFrom(h[k - 1], k)
    <3>1. SUFFICES ASSUME NEW k \in 0 .. n + 1
                   PROVE  h[k] = IF k = 0 THEN zero ELSE SmoothedFrom(h[k - 1], k)
      OBVIOUS
    <3>2. CASE k = 0
      <4>1. k <= n /\ k \in 0 .. n
        BY <3>2
      <4>2. h[k] = g[k]
        BY <4>1
      <4>3. QED
        BY <2>2, <3>2, <4>1, <4>2
    <3>3. CASE k # 0 /\ k <= n
      <4>1. k - 1 \in 0 .. n + 1 /\ k - 1 <= n /\ k \in 0 .. n
        BY <3>3
      <4>2. h[k] = g[k] /\ h[k - 1] = g[k - 1]
        BY <3>3, <4>1
      <4> HIDE DEF h
      <4>3. QED
        BY <2>2, <3>3, <4>1, <4>2
    <3>4. CASE k # 0 /\ ~ (k <= n)
      <4>1. k = n + 1 /\ n \in 0 .. n + 1 /\ k - 1 = n /\ n <= n
        BY <3>4
      <4>2. h[k] = SmoothedFrom(g[n], n + 1) /\ h[n] = g[n]
        BY <3>4, <4>1
      <4> HIDE DEF h
      <4>3. QED
        BY <3>4, <4>1, <4>2
    <3>5. QED
      BY <3>2, <3>3, <3>4
  <2>4. h = [k \in 0 .. n + 1 |-> h[k]]
    OBVIOUS
  <2>5. SmoothedUpTo(h, n + 1)
    <3> HIDE DEF h
    <3>1. QED
      BY <2>3, <2>4 DEF SmoothedUpTo
  <2>6. QED
    BY <2>5
<1>3. \A n \in Nat : n \in S
  <2> HIDE DEF S
  <2>1. \A n \in Nat : n \in S => n + 1 \in S
    BY <1>2
  <2>2. QED
    BY <1>1, <2>1, SetInduction
<1>4. QED
  BY <1>3

\* What a recursion as far as n says of each index
LEMMA SmoothedUpToAt ==
  ASSUME NEW n \in Nat, NEW g, SmoothedUpTo(g, n), NEW k \in 0 .. n
  PROVE  /\ k = 0 => g[k] = [num |-> 0, den |-> Period]
         /\ k # 0 => g[k] = SmoothedFrom(g[k - 1], k)
<1> DEFINE F(i) == IF i = 0 THEN [num |-> 0, den |-> Period] ELSE SmoothedFrom(g[i - 1], i)
<1>1. g = [i \in 0 .. n |-> F(i)]
  BY DEF SmoothedUpTo
<1>2. g[k] = F(k)
  <2> HIDE DEF F
  <2>1. QED
    BY <1>1
<1>3. QED
  BY <1>2

\* Two recursions agree as far as both go.
LEMMA SmoothedUpToAgrees ==
  ASSUME NEW n \in Nat, NEW m \in Nat, NEW g, NEW h, SmoothedUpTo(g, n), SmoothedUpTo(h, m)
  PROVE  \A k \in Nat : k <= n /\ k <= m => g[k] = h[k]
<1> DEFINE S == {k \in Nat : k <= n /\ k <= m => g[k] = h[k]}
<1>1. 0 \in S
  <2>1. 0 \in 0 .. n /\ 0 \in 0 .. m
    OBVIOUS
  <2>2. QED
    BY <2>1, SmoothedUpToAt
<1>2. ASSUME NEW k \in Nat, k \in S PROVE k + 1 \in S
  <2>1. SUFFICES ASSUME k + 1 <= n, k + 1 <= m PROVE g[k + 1] = h[k + 1]
    OBVIOUS
  <2>2. /\ k <= n /\ k <= m /\ k + 1 \in 0 .. n /\ k + 1 \in 0 .. m /\ k + 1 # 0
        /\ (k + 1) - 1 = k
    BY <2>1
  <2>3. g[k] = h[k]
    BY <1>2, <2>2
  <2>4. g[k + 1] = SmoothedFrom(g[(k + 1) - 1], k + 1)
    BY <2>2, SmoothedUpToAt
  <2>5. h[k + 1] = SmoothedFrom(h[(k + 1) - 1], k + 1)
    BY <2>2, SmoothedUpToAt
  <2>6. QED
    BY <2>2, <2>3, <2>4, <2>5
<1>3. \A k \in Nat : k \in S
  <2> HIDE DEF S
  <2>1. \A k \in Nat : k \in S => k + 1 \in S
    BY <1>2
  <2>2. QED
    BY <1>1, <2>1, SetInduction
<1>4. QED
  BY <1>3

\* The recursion has a solution, so the ATR is what its equations say.
LEMMA SmoothedUnfolds ==
  \A k \in Nat : Smoothed[k] = IF k = 0 THEN [num |-> 0, den |-> Period]
                               ELSE SmoothedFrom(Smoothed[k - 1], k)
<1> DEFINE G(k) == CHOOSE g : SmoothedUpTo(g, k)
           f == [k \in Nat |-> G(k)[k]]
<1>1. \A k \in Nat : SmoothedUpTo(G(k), k)
  BY SmoothedUpToExists
<1>2. ASSUME NEW k \in Nat
      PROVE  f[k] = IF k = 0 THEN [num |-> 0, den |-> Period] ELSE SmoothedFrom(f[k - 1], k)
  <2>1. f[k] = G(k)[k] /\ k \in 0 .. k /\ SmoothedUpTo(G(k), k)
    BY <1>1
  <2>2. CASE k = 0
    <3> HIDE DEF f, G
    <3>1. QED
      BY <2>1, <2>2, SmoothedUpToAt
  <2>3. CASE k # 0
    <3>1. k - 1 \in Nat /\ k - 1 <= k /\ k - 1 <= k - 1
      BY <2>3
    <3>2. f[k - 1] = G(k - 1)[k - 1] /\ SmoothedUpTo(G(k - 1), k - 1)
      BY <1>1, <3>1
    <3> HIDE DEF f, G
    <3>3. G(k)[k - 1] = G(k - 1)[k - 1]
      BY <2>1, <3>1, <3>2, SmoothedUpToAgrees
    <3>4. G(k)[k] = SmoothedFrom(G(k)[k - 1], k)
      BY <2>1, <2>3, SmoothedUpToAt
    <3>5. QED
      BY <2>1, <2>3, <3>2, <3>3, <3>4
  <2>4. QED
    BY <2>2, <2>3
<1> DEFINE Solves(h) ==
      h = [k \in Nat |-> IF k = 0 THEN [num |-> 0, den |-> Period]
                         ELSE IF k <= Period THEN [h[k - 1] EXCEPT !.num = @ + TrueRange(k)]
                         ELSE Smooth(h[k - 1], TrueRange(k))]
<1>3. Solves(f)
  <2>1. f = [k \in Nat |-> f[k]]
    OBVIOUS
  <2> HIDE DEF f
  <2>2. QED
    BY <1>2, <2>1 DEF SmoothedFrom
<1>4. Smoothed = CHOOSE h : Solves(h)
  BY DEF Smoothed
<1>5. Solves(Smoothed)
  <2> HIDE DEF Solves
  <2>1. QED
    BY <1>3, <1>4
<1> DEFINE E(k) == IF k = 0 THEN [num |-> 0, den |-> Period]
                   ELSE SmoothedFrom(Smoothed[k - 1], k)
<1>6. Smoothed = [k \in Nat |-> E(k)]
  BY <1>5 DEF SmoothedFrom
<1>7. \A k \in Nat : Smoothed[k] = E(k)
  <2> HIDE DEF E
  <2>1. QED
    BY <1>6
<1>8. QED
  BY <1>7

-----------------------------------------------------------------------------
(* The bounds of the ATR *)

\* Multiplying by a natural keeps the order.
LEMMA ProductMonotone ==
  ASSUME NEW a \in Nat, NEW b \in Nat, NEW c \in Nat, a <= b
  PROVE  a * c <= b * c /\ a * c \in Nat /\ b * c \in Nat
<1>1. PICK e \in Nat : b = a + e
  <2>1. b - a \in Nat /\ b = a + (b - a)
    OBVIOUS
  <2>2. QED
    BY <2>1
<1>2. b * c = a * c + e * c /\ a * c \in Nat /\ e * c \in Nat
  BY <1>1
<1>3. QED
  BY <1>2

\* One step of the smoothing takes a weighted average.
LEMMA SmoothBounds ==
  ASSUME NEW atr \in Fraction, NEW tr \in Nat, NEW lo \in Nat, NEW hi \in Nat,
         lo * atr.den <= atr.num, atr.num <= hi * atr.den, lo <= tr, tr <= hi
  PROVE  /\ Smooth(atr, tr) \in Fraction
         /\ lo * Smooth(atr, tr).den <= Smooth(atr, tr).num
         /\ Smooth(atr, tr).num <= hi * Smooth(atr, tr).den
<1> DEFINE a == atr.num
           d == atr.den
           q == Period - 1
<1>1. a \in Nat /\ d \in Nat /\ d # 0
  BY DEF Fraction
<1>2. q \in Nat /\ Period = q + 1 /\ Period \in Nat \ {0}
  BY IndicatorsAssumption
<1>3. /\ Smooth(atr, tr) = [num |-> a * q + tr * d, den |-> d * Period]
  BY DEF Smooth
<1>4. lo * d <= a /\ a <= hi * d
  OBVIOUS
<1> HIDE DEF a, d, q
<1>5. lo * d \in Nat /\ hi * d \in Nat
  BY <1>1
<1>6. (lo * d) * q <= a * q /\ a * q <= (hi * d) * q
  BY <1>1, <1>2, <1>4, <1>5, ProductMonotone
<1>7. lo * d <= tr * d /\ tr * d <= hi * d
  BY <1>1, ProductMonotone
<1>8. d * Period = d * q + d
  BY <1>1, <1>2
<1>9. \A x \in Nat : x * (d * Period) = (x * d) * q + x * d
  <2>1. SUFFICES ASSUME NEW x \in Nat PROVE x * (d * q + d) = (x * d) * q + x * d
    BY <1>8
  <2>2. QED
    BY <1>1, <1>2
<1>10. /\ a * q \in Nat /\ tr * d \in Nat /\ (lo * d) * q \in Nat /\ (hi * d) * q \in Nat
       /\ d * Period \in Nat /\ d * Period # 0
  <2>1. d * q \in Nat
    BY <1>1, <1>2
  <2>2. d * Period \in Nat /\ d * Period # 0
    BY <1>1, <1>8, <2>1
  <2>3. QED
    BY <1>1, <1>2, <1>5, <2>2
<1>11. /\ lo * (d * Period) <= a * q + tr * d
       /\ a * q + tr * d <= hi * (d * Period)
  BY <1>5, <1>6, <1>7, <1>9, <1>10
<1>12. a * q + tr * d \in Nat
  BY <1>10
<1>13. QED
  BY <1>3, <1>10, <1>11, <1>12 DEF Fraction

\* Every average of the recursion is a fraction between the bounds of the ranges.
LEMMA SmoothedBounds ==
  ASSUME CandlesTyped, NEW lo \in Nat, NEW hi \in Nat,
         \A i \in 1 .. Cardinality(Completed) - 1 : lo <= TrueRange(i) /\ TrueRange(i) <= hi
  PROVE  \A k \in Nat : k <= Cardinality(Completed) - 1 =>
           /\ Smoothed[k] \in Fraction
           /\ k <= Period => /\ Smoothed[k].den = Period
                             /\ lo * k <= Smoothed[k].num /\ Smoothed[k].num <= hi * k
           /\ k >= Period => /\ lo * Smoothed[k].den <= Smoothed[k].num
                             /\ Smoothed[k].num <= hi * Smoothed[k].den
<1> DEFINE N == Cardinality(Completed)
           Sum(k) == /\ Smoothed[k].den = Period
                     /\ lo * k <= Smoothed[k].num /\ Smoothed[k].num <= hi * k
           Mean(k) == /\ lo * Smoothed[k].den <= Smoothed[k].num
                      /\ Smoothed[k].num <= hi * Smoothed[k].den
           P(k) == /\ Smoothed[k] \in Fraction
                   /\ k <= Period => Sum(k)
                   /\ k >= Period => Mean(k)
           S == {k \in Nat : k <= N - 1 => P(k)}
<1>1. N \in Nat
  BY CompletedFinite
<1>2. Period \in Nat \ {0}
  BY IndicatorsAssumption
<1>3. ASSUME NEW k \in Nat, Sum(k), k = Period PROVE Mean(k)
  BY <1>3
<1>4. 0 \in S
  <2>1. Smoothed[0] = [num |-> 0, den |-> Period]
    BY SmoothedUnfolds
  <2>2. Smoothed[0] \in Fraction
    BY <1>2, <2>1 DEF Fraction
  <2>3. Sum(0)
    <3>1. lo * 0 = 0 /\ hi * 0 = 0
      OBVIOUS
    <3>2. QED
      BY <2>1, <3>1
  <2>4. ~ (0 >= Period)
    BY <1>2
  <2>5. QED
    BY <2>2, <2>3, <2>4
<1>5. ASSUME NEW k \in Nat, k \in S PROVE k + 1 \in S
  <2>1. SUFFICES ASSUME k + 1 <= N - 1 PROVE P(k + 1)
    OBVIOUS
  <2>2. k <= N - 1 /\ k + 1 \in 1 .. N - 1 /\ k + 1 # 0 /\ (k + 1) - 1 = k
    BY <1>1, <2>1
  <2>3. P(k)
    BY <1>5, <2>2
  <2> DEFINE tr == TrueRange(k + 1)
  <2>4. tr \in Nat /\ lo <= tr /\ tr <= hi
    BY <2>2, TrueRangeTyped, IndicatorsAssumption
  <2>5. Smoothed[k + 1] = SmoothedFrom(Smoothed[k], k + 1)
    BY <2>2, SmoothedUnfolds
  <2>6. CASE k + 1 <= Period
    <3>1. k <= Period /\ Sum(k) /\ Smoothed[k] \in Fraction
      BY <1>2, <2>3, <2>6
    <3>2. Smoothed[k + 1] = [Smoothed[k] EXCEPT !.num = @ + tr]
      BY <2>5, <2>6 DEF SmoothedFrom
    <3> HIDE DEF tr
    <3>3. /\ Smoothed[k + 1].num = Smoothed[k].num + tr
          /\ Smoothed[k + 1].den = Smoothed[k].den
          /\ Smoothed[k + 1] \in Fraction
      <4>1. ASSUME NEW v \in Fraction
            PROVE  LET w == [v EXCEPT !.num = @ + tr]
                   IN  w.num = v.num + tr /\ w.den = v.den /\ w \in Fraction
        BY <2>4 DEF Fraction
      <4>2. QED
        BY <3>1, <3>2, <4>1
    <3>4. lo * (k + 1) = lo * k + lo /\ hi * (k + 1) = hi * k + hi
      OBVIOUS
    <3>5. lo * k \in Nat /\ hi * k \in Nat /\ Smoothed[k].num \in Nat
      BY <3>1 DEF Fraction
    <3>6. Sum(k + 1)
      <4>1. lo * (k + 1) <= Smoothed[k + 1].num
        BY <2>4, <3>1, <3>3, <3>4, <3>5
      <4>2. Smoothed[k + 1].num <= hi * (k + 1)
        BY <2>4, <3>1, <3>3, <3>4, <3>5
      <4>3. QED
        BY <3>1, <3>3, <4>1, <4>2
    <3>7. k + 1 >= Period => Mean(k + 1)
      <4>1. SUFFICES ASSUME k + 1 >= Period PROVE Mean(k + 1)
        OBVIOUS
      <4>2. k + 1 = Period /\ k + 1 \in Nat
        BY <1>2, <2>6, <4>1
      <4> HIDE DEF Sum, Mean
      <4>3. QED
        BY <1>3, <3>6, <4>2
    <3>8. QED
      BY <3>3, <3>6, <3>7
  <2>7. CASE ~ (k + 1 <= Period)
    <3>1. k >= Period /\ Mean(k) /\ Smoothed[k] \in Fraction
      BY <1>2, <2>3, <2>7
    <3>2. Smoothed[k + 1] = Smooth(Smoothed[k], tr)
      BY <2>5, <2>7 DEF SmoothedFrom
    <3> HIDE DEF tr
    <3>3. Smoothed[k + 1] \in Fraction /\ Mean(k + 1)
      BY <2>4, <3>1, <3>2, SmoothBounds
    <3>4. QED
      BY <2>7, <3>3
  <2>8. QED
    BY <2>6, <2>7
<1>6. \A k \in Nat : k \in S
  <2> HIDE DEF S
  <2>1. \A k \in Nat : k \in S => k + 1 \in S
    BY <1>5
  <2>2. QED
    BY <1>4, <2>1, SetInduction
<1>7. QED
  BY <1>6

Ranges == {TrueRange(k) : k \in 1 .. Cardinality(Completed) - 1}

\* The smallest and the largest range bound them all.
LEMMA RangesBounded ==
  ASSUME CandlesTyped, Cardinality(Completed) > Period
  PROVE  /\ Min(Ranges) \in Nat /\ Max(Ranges) \in Nat
         /\ \A k \in 1 .. Cardinality(Completed) - 1 :
                Min(Ranges) <= TrueRange(k) /\ TrueRange(k) <= Max(Ranges)
<1>1. Cardinality(Completed) \in Nat /\ Period \in Nat \ {0} /\ MaxPrice \in Nat
  BY CompletedFinite, IndicatorsAssumption
<1>2. 1 \in 1 .. Cardinality(Completed) - 1
  BY <1>1
<1>3. Ranges # {}
  BY <1>2 DEF Ranges
<1>4. Ranges \subseteq 0 .. MaxPrice
  BY TrueRangeTyped DEF Ranges
<1>5. Ranges \subseteq Nat
  BY <1>4
<1>6. Min(Ranges) \in Ranges /\ \A y \in Ranges : Min(Ranges) <= y
  BY <1>3, <1>5, MinExists
<1>7. Max(Ranges) \in Ranges /\ \A y \in Ranges : y <= Max(Ranges)
  BY <1>1, <1>3, <1>4, MaxExists
<1>8. \A k \in 1 .. Cardinality(Completed) - 1 : TrueRange(k) \in Ranges
  BY DEF Ranges
<1>9. QED
  BY <1>5, <1>6, <1>7, <1>8

\* The ATR that a computation writes is a fraction between two of the ranges.
LEMMA AtrOfComputation ==
  ASSUME CandlesTyped
  PROVE  /\ Atr \in Fraction \cup {None}
         /\ Atr = None <=> Cardinality(Completed) <= Period
         /\ Atr # None => /\ Min(Ranges) * Atr.den <= Atr.num
                          /\ Atr.num <= Max(Ranges) * Atr.den
<1> DEFINE N == Cardinality(Completed)
<1>1. N \in Nat /\ Period \in Nat \ {0} /\ None \notin Fraction
  BY CompletedFinite, IndicatorsAssumption
<1>2. CASE N <= Period
  BY <1>1, <1>2 DEF Atr
<1>3. CASE ~ (N <= Period)
  <2>1. Atr = Smoothed[N - 1] /\ N - 1 \in Nat /\ N - 1 >= Period /\ N - 1 <= N - 1
    BY <1>1, <1>3 DEF Atr
  <2>2. /\ Min(Ranges) \in Nat /\ Max(Ranges) \in Nat
        /\ \A k \in 1 .. N - 1 : Min(Ranges) <= TrueRange(k) /\ TrueRange(k) <= Max(Ranges)
    <3>1. N > Period
      BY <1>1, <1>3
    <3>2. QED
      BY <3>1, RangesBounded
  <2>3. /\ Smoothed[N - 1] \in Fraction
        /\ Min(Ranges) * Smoothed[N - 1].den <= Smoothed[N - 1].num
        /\ Smoothed[N - 1].num <= Max(Ranges) * Smoothed[N - 1].den
    BY <2>1, <2>2, SmoothedBounds
  <2>4. QED
    BY <1>1, <1>3, <2>1, <2>3
<1>4. QED
  BY <1>2, <1>3

-----------------------------------------------------------------------------
(* A computation depends on the complete candles alone *)

SmoothedEquations ==
    \A k \in Nat : Smoothed[k] = IF k = 0 THEN [num |-> 0, den |-> Period]
                                 ELSE SmoothedFrom(Smoothed[k - 1], k)

SamePast ==
    /\ CandlesTyped /\ day \in Days /\ day' = day
    /\ \A d \in Days : d < day => candles'[d] = candles[d]

\* The equations hold in this state and in the next.
LEMMA SmoothedHolds == SmoothedEquations /\ SmoothedEquations'
<1>1. SmoothedEquations
  BY SmoothedUnfolds DEF SmoothedEquations
<1>2. QED
  BY <1>1, PTL

\* Trades of today leave the complete candles alone.
LEMMA SameCompleted ==
  ASSUME SamePast
  PROVE  /\ Completed' = Completed
         /\ \A d \in Completed : candles'[d] = candles[d]
<1>1. \A d \in Days : d < day => candles'[d] = candles[d]
  BY DEF SamePast
<1>2. Completed = {d \in Days : day - Horizon < d /\ d <= day /\ candles[d] # None /\ d < day}
  BY DEF Completed, Answer
<1>3. Completed' = {d \in Days : day - Horizon < d /\ d <= day /\ candles'[d] # None /\ d < day}
  BY DEF Completed, Answer, SamePast
<1>4. QED
  BY <1>1, <1>2, <1>3

\* They leave the levels alone.
LEMMA SameLevels ==
  ASSUME SamePast, NEW n
  PROVE  LastWindowMax(n)' = LastWindowMax(n) /\ LastWindowMin(n)' = LastWindowMin(n)
<1>1. Completed' = Completed /\ \A d \in Completed : candles'[d] = candles[d]
  BY SameCompleted
<1>2. LastOf(Completed, n)' = LastOf(Completed, n)
  BY <1>1 DEF LastOf
<1>3. LastOf(Completed, n) \subseteq Completed
  BY DEF LastOf
<1>4. Highs(n)' = Highs(n) /\ Lows(n)' = Lows(n)
  BY <1>1, <1>2, <1>3 DEF Highs, Lows
<1>5. /\ LastWindowMax(n) = IF Cardinality(Completed) < n THEN None ELSE Max(Highs(n))
      /\ LastWindowMin(n) = IF Cardinality(Completed) < n THEN None ELSE Min(Lows(n))
  BY DEF LastWindowMax, LastWindowMin, Highs, Lows
<1>6. /\ LastWindowMax(n)' = IF Cardinality(Completed') < n THEN None ELSE Max(Highs(n)')
      /\ LastWindowMin(n)' = IF Cardinality(Completed') < n THEN None ELSE Min(Lows(n)')
  BY DEF LastWindowMax, LastWindowMin, Highs, Lows
<1>7. QED
  BY <1>1, <1>4, <1>5, <1>6

\* They leave the order of the candles alone.
LEMMA SameNth ==
  ASSUME SamePast, NEW k \in 1 .. Cardinality(Completed)
  PROVE  Nth(k)' = Nth(k)
<1>1. Completed' = Completed /\ \A d \in Completed : candles'[d] = candles[d]
  BY SameCompleted
<1> DEFINE c == CHOOSE d \in Completed : Cardinality({e \in Completed : e <= d}) = k
<1>2. c \in Completed
  BY NthExists DEF UpTo
<1>3. Nth(k) = candles[c] /\ Nth(k)' = candles'[c']
  BY DEF Nth
<1>4. c' = c
  BY <1>1
<1>5. QED
  BY <1>1, <1>2, <1>3, <1>4

\* They leave the true ranges alone.
LEMMA SameTrueRange ==
  ASSUME SamePast, NEW k \in 1 .. Cardinality(Completed) - 1
  PROVE  TrueRange(k)' = TrueRange(k)
<1>1. Cardinality(Completed) \in Nat
  BY CompletedFinite
<1>2. k \in 1 .. Cardinality(Completed) /\ k + 1 \in 1 .. Cardinality(Completed)
  BY <1>1
<1>3. Nth(k)' = Nth(k) /\ Nth(k + 1)' = Nth(k + 1)
  BY <1>2, SameNth
<1>4. QED
  BY <1>3 DEF TrueRange

\* They leave the smoothed average alone.
LEMMA SameAtr ==
  ASSUME SamePast
  PROVE  Atr' = Atr
<1> DEFINE N == Cardinality(Completed)
           S == {k \in Nat : k <= N - 1 => Smoothed'[k] = Smoothed[k]}
<1>1. Completed' = Completed /\ N \in Nat /\ Period \in Nat \ {0}
  BY SameCompleted, CompletedFinite, IndicatorsAssumption
<1>2. 0 \in S
  BY SmoothedHolds DEF SmoothedEquations
<1>3. ASSUME NEW k \in Nat, k \in S PROVE k + 1 \in S
  <2>1. SUFFICES ASSUME k + 1 <= N - 1 PROVE Smoothed'[k + 1] = Smoothed[k + 1]
    OBVIOUS
  <2>2. /\ k <= N - 1 /\ k + 1 \in 1 .. N - 1 /\ k + 1 \in Nat /\ k + 1 # 0
        /\ (k + 1) - 1 = k
    BY <1>1, <2>1
  <2>3. Smoothed'[k] = Smoothed[k]
    BY <1>3, <2>2
  <2>4. TrueRange(k + 1)' = TrueRange(k + 1)
    BY <2>2, SameTrueRange
  <2>5. Smoothed[k + 1] = SmoothedFrom(Smoothed[k], k + 1)
    BY <2>2, SmoothedHolds DEF SmoothedEquations
  <2>6. Smoothed'[k + 1] = SmoothedFrom(Smoothed[k], k + 1)'
    BY <2>2, SmoothedHolds DEF SmoothedEquations
  <2>7. SmoothedFrom(Smoothed[k], k + 1)' = SmoothedFrom(Smoothed[k], k + 1)
    BY <2>3, <2>4 DEF SmoothedFrom, Smooth
  <2>8. QED
    BY <2>5, <2>6, <2>7
<1>4. \A k \in Nat : k \in S
  <2> HIDE DEF S
  <2>1. \A k \in Nat : k \in S => k + 1 \in S
    BY <1>3
  <2>2. QED
    BY <1>2, <2>1, SetInduction
<1>5. CASE N < Period + 1
  BY <1>1, <1>5 DEF Atr
<1>6. CASE ~ (N < Period + 1)
  <2>1. N - 1 \in Nat /\ N - 1 <= N - 1
    BY <1>1, <1>6
  <2>2. Smoothed'[N - 1] = Smoothed[N - 1]
    BY <1>4, <2>1
  <2>3. QED
    BY <1>1, <1>6, <2>2 DEF Atr
<1>7. QED
  BY <1>5, <1>6

\* The same past gives the same computation, whatever is traded today.
LEMMA SameComputation ==
  ASSUME SamePast
  PROVE  BuildInstrumentUpdate' = BuildInstrumentUpdate
<1>1. Atr' = Atr /\ day' = day
  BY SameAtr DEF SamePast
<1>2. QED
  BY <1>1, SameLevels DEF BuildInstrumentUpdate

-----------------------------------------------------------------------------
(* What a breakout of levels computed now means *)

Later(d) == {e \in Days : d < e /\ e < day /\ candles[e] # None}

\* The window from a complete candle on holds it and the traded days after it.
LEMMA LaterCount ==
  ASSUME day \in Days, NEW d \in Completed
  PROVE  /\ Cardinality(Later(d)) \in Nat
         /\ Cardinality({e \in Completed : e >= d}) = Cardinality(Later(d)) + 1
<1>1. /\ Days \subseteq Nat /\ Horizon \in Nat
      /\ \A e \in Days : e \in Nat
  BY IndicatorsAssumption DEF Days
<1>2. d \in Days /\ day - Horizon < d /\ d < day /\ candles[d] # None
  BY DEF Completed, Answer
<1>3. {e \in Completed : e >= d} = Later(d) \cup {d}
  <2>1. ASSUME NEW e \in Completed, e >= d PROVE e \in Later(d) \cup {d}
    <3>1. e \in Days /\ e < day /\ candles[e] # None /\ e \in Nat /\ d \in Nat
      BY <1>1, <1>2 DEF Completed, Answer
    <3>2. e = d \/ d < e
      BY <2>1, <3>1
    <3>3. QED
      BY <3>1, <3>2 DEF Later
  <2>2. ASSUME NEW e \in Later(d) PROVE e \in Completed /\ e >= d
    <3>1. e \in Days /\ d < e /\ e < day /\ candles[e] # None
      BY DEF Later
    <3>2. day - Horizon < e /\ e <= day /\ e >= d
      BY <1>1, <1>2, <3>1
    <3>3. QED
      BY <3>1, <3>2 DEF Completed, Answer
  <2>3. d >= d
    BY <1>1, <1>2
  <2>4. QED
    BY <2>1, <2>2, <2>3
<1>4. d \notin Later(d)
  BY <1>1, <1>2 DEF Later
<1>5. IsFiniteSet(Later(d)) /\ Cardinality(Later(d)) \in Nat
  <2>1. Later(d) \subseteq Days
    BY DEF Later
  <2>2. IsFiniteSet(Days)
    BY IndicatorsAssumption, FS_Interval DEF Days
  <2>3. QED
    BY <2>1, <2>2, FS_Subset, FS_CardinalityType
<1>6. QED
  BY <1>3, <1>4, <1>5, FS_AddElement

\* Outside the window there is a whole window of traded days after the candle.
LEMMA OutsideWindow ==
  ASSUME day \in Days, NEW d \in Days, d < day, candles[d] # None, NEW n \in Nat
  PROVE  ~ (d \in LastOf(Completed, n)) <=> (Cardinality(Later(d)) >= n \/ d <= day - Horizon)
<1>1. d \in Int /\ day \in Int /\ Horizon \in Nat
  BY IndicatorsAssumption DEF Days
<1>2. CASE d <= day - Horizon
  BY <1>1, <1>2 DEF LastOf, Completed, Answer
<1>3. CASE ~ (d <= day - Horizon)
  <2>1. d \in Completed
    BY <1>1, <1>3 DEF Completed, Answer
  <2>2. /\ Cardinality(Later(d)) \in Nat
        /\ Cardinality({e \in Completed : e >= d}) = Cardinality(Later(d)) + 1
    BY <2>1, LaterCount
  <2>3. d \in LastOf(Completed, n) <=> Cardinality({e \in Completed : e >= d}) <= n
    BY <2>1 DEF LastOf
  <2>4. QED
    BY <1>3, <2>2, <2>3
<1>4. QED
  BY <1>2, <1>3

\* A day of the window is a traded day before today.
LEMMA WindowMember ==
  ASSUME CandlesTyped, NEW n, NEW d \in LastOf(Completed, n)
  PROVE  /\ d \in Days /\ d < day /\ candles[d] # None
         /\ candles[d].high \in Nat /\ candles[d].low \in Nat
<1>1. d \in Completed
  BY DEF LastOf
<1>2. candles[d].high \in 0 .. MaxPrice /\ candles[d].low \in 0 .. MaxPrice
  BY <1>1, CompleteCandle DEF Prices
<1>3. d \in Days /\ d < day /\ candles[d] # None
  BY <1>1 DEF Completed, Answer
<1>4. QED
  BY <1>2, <1>3

\* The candle of a traded day has prices.
LEMMA TradedCandle ==
  ASSUME CandlesTyped, NEW d \in Days, candles[d] # None
  PROVE  candles[d].high \in Nat /\ candles[d].low \in Nat
<1>1. candles[d] \in Candle
  BY DEF CandlesTyped
<1>2. \A c \in Candle : c.high \in 0 .. MaxPrice /\ c.low \in 0 .. MaxPrice
  BY DEF Candle, Prices
<1>3. QED
  BY <1>1, <1>2

HigherAreOld(p) ==
    \A d \in Days : d < day /\ candles[d] # None /\ candles[d].high > p =>
        Cardinality(Later(d)) >= LongWindow \/ d <= day - Horizon
LowerAreOld(p) ==
    \A d \in Days : d < day /\ candles[d] # None /\ candles[d].low < p =>
        Cardinality(Later(d)) >= LongWindow \/ d <= day - Horizon

\* A price is beyond the channel if and only if what exceeds it is a window old.
LEMMA BreakoutMeans ==
  ASSUME CandlesTyped, day \in Days, LastWindowMax(LongWindow) # None, NEW p \in Nat
  PROVE  /\ p >= LastWindowMax(LongWindow) <=> HigherAreOld(p)
         /\ p <= LastWindowMin(LongWindow) <=> LowerAreOld(p)
<1>1. LongWindow \in Nat \ {0} /\ LongWindow \in Nat /\ Cardinality(Completed) \in Nat
  BY IndicatorsAssumption, CompletedFinite
<1>2. ~ (Cardinality(Completed) < LongWindow)
  BY <1>1, LevelOf
<1> DEFINE W == LastOf(Completed, LongWindow)
           top == LastWindowMax(LongWindow)
           bot == LastWindowMin(LongWindow)
<1>3. /\ top \in {candles[d].high : d \in W} /\ \A d \in W : candles[d].high <= top
      /\ bot \in {candles[d].low : d \in W} /\ \A d \in W : bot <= candles[d].low
  <2>1. top = Max(Highs(LongWindow)) /\ bot = Min(Lows(LongWindow))
    BY <1>2 DEF LastWindowMax, LastWindowMin, Highs, Lows
  <2>2. Cardinality(Completed) >= LongWindow
    BY <1>1, <1>2
  <2>3. /\ top \in Highs(LongWindow) /\ \A y \in Highs(LongWindow) : y <= top
        /\ bot \in Lows(LongWindow) /\ \A y \in Lows(LongWindow) : bot <= y
    BY <1>1, <2>1, <2>2, HighsAndLows
  <2>4. QED
    BY <2>3 DEF Highs, Lows
<1>4. PICK h \in W : top = candles[h].high
  BY <1>3
<1>5. PICK l \in W : bot = candles[l].low
  BY <1>3
<1> HIDE DEF top, bot
<1>6. \A d \in W : /\ d \in Days /\ d < day /\ candles[d] # None
                   /\ candles[d].high \in Nat /\ candles[d].low \in Nat
  BY WindowMember
<1>7. \A d \in Days : d < day /\ candles[d] # None =>
          (d \notin W <=> (Cardinality(Later(d)) >= LongWindow \/ d <= day - Horizon))
  BY <1>1, OutsideWindow
<1>8. top \in Nat /\ bot \in Nat
  BY <1>4, <1>5, <1>6
<1>9. \A d \in Days : candles[d] # None => candles[d].high \in Nat /\ candles[d].low \in Nat
  BY TradedCandle
<1> HIDE DEF W
<1>10. ASSUME p >= top PROVE HigherAreOld(p)
  <2>1. SUFFICES ASSUME NEW d \in Days, d < day, candles[d] # None, candles[d].high > p
                 PROVE  d \notin W
    BY <1>7 DEF HigherAreOld
  <2>2. candles[d].high \in Nat
    BY <1>9, <2>1
  <2>3. ~ (candles[d].high <= top)
    BY <1>8, <1>10, <2>1, <2>2
  <2>4. QED
    BY <1>3, <2>3
<1>11. ASSUME HigherAreOld(p) PROVE p >= top
  <2>1. SUFFICES ASSUME ~ (p >= top) PROVE FALSE
    OBVIOUS
  <2>2. candles[h].high > p
    BY <1>4, <1>8, <2>1
  <2>3. h \notin W
    BY <1>6, <1>7, <1>11, <2>2 DEF HigherAreOld
  <2>4. QED
    BY <2>3
<1>12. ASSUME p <= bot PROVE LowerAreOld(p)
  <2>1. SUFFICES ASSUME NEW d \in Days, d < day, candles[d] # None, candles[d].low < p
                 PROVE  d \notin W
    BY <1>7 DEF LowerAreOld
  <2>2. candles[d].low \in Nat
    BY <1>9, <2>1
  <2>3. ~ (bot <= candles[d].low)
    BY <1>8, <1>12, <2>1, <2>2
  <2>4. QED
    BY <1>3, <2>3
<1>13. ASSUME LowerAreOld(p) PROVE p <= bot
  <2>1. SUFFICES ASSUME ~ (p <= bot) PROVE FALSE
    OBVIOUS
  <2>2. candles[l].low < p
    BY <1>5, <1>8, <2>1
  <2>3. l \notin W
    BY <1>6, <1>7, <1>13, <2>2 DEF LowerAreOld
  <2>4. QED
    BY <2>3
<1>14. QED
  BY <1>10, <1>11, <1>12, <1>13 DEF top, bot

-----------------------------------------------------------------------------
(* The inductive invariant *)

\* The levels of a channel come in pairs.
Paired(r) ==
    /\ r.long_55 = None <=> r.short_55 = None
    /\ r.long_20 = None <=> r.short_20 = None

\* The channels nest.
Nests(r) ==
    r.long_55 # None =>
        /\ r.long_20 # None /\ r.short_20 # None /\ r.short_55 # None
        /\ r.short_55 <= r.short_20 /\ r.short_20 <= r.long_20 /\ r.long_20 <= r.long_55

\* The levels of r are those of the computation b.
AsComputed(r, b) ==
    /\ r.long_55 = b.long_55 /\ r.short_55 = b.short_55
    /\ r.long_20 = b.long_20 /\ r.short_20 = b.short_20
    /\ r.atr14 = b.atr14

\* What can be said on day d of a row in the table or in the hands of a task, b being
\* what a computation of this moment gives.
Sound(r, d, b) ==
    r # None =>
        /\ r.last_update <= d /\ r.as_of <= d
        /\ Paired(r)
        /\ r.whole => Nests(r)
        /\ r.whole /\ r.as_of = d => AsComputed(r, b)

\* A whole row of today is what a computation of this moment would write, whatever
\* has been traded since.
RowIsCurrent == Fresh => row = BuildInstrumentUpdate

TaskSound(t) ==
    /\ Sound(task[t].old, day, BuildInstrumentUpdate)
    /\ Sound(task[t].got, day, BuildInstrumentUpdate)

Inv ==
    /\ TypeOK
    /\ Sound(row, day, BuildInstrumentUpdate)
    /\ \A t \in Tasks : TaskSound(t)

\* The invariant holds before anything has been computed.
LEMMA InitInv == Init => Inv
<1> SUFFICES ASSUME Init PROVE Inv
  OBVIOUS
<1>1. candles \in [Days -> Candle \cup {None}]
  BY IndicatorsAssumption DEF Init
<1>2. day \in Days
  BY IndicatorsAssumption DEF Init, Days
<1>3. Idle \in Task
  BY DEF Idle, Task
<1>4. task \in [Tasks -> Task] /\ \A t \in Tasks : task[t].old = None /\ task[t].got = None
  BY <1>3 DEF Init, Idle
<1>5. QED
  BY <1>1, <1>2, <1>4 DEF Init, Inv, TypeOK, TaskSound, Sound

\* What is computed is a row, stamped today.
LEMMA ComputationTyped ==
  ASSUME CandlesTyped, day \in Days
  PROVE  /\ BuildInstrumentUpdate \in Row
         /\ BuildInstrumentUpdate.last_update = day /\ BuildInstrumentUpdate.as_of = day
         /\ BuildInstrumentUpdate.whole = TRUE
<1>1. LongWindow \in Nat \ {0} /\ ShortWindow \in Nat \ {0}
  BY IndicatorsAssumption
<1>2. /\ LastWindowMax(LongWindow) \in Level /\ LastWindowMin(LongWindow) \in Level
      /\ LastWindowMax(ShortWindow) \in Level /\ LastWindowMin(ShortWindow) \in Level
  BY <1>1, LevelOf
<1>3. Atr \in Fraction \cup {None}
  BY AtrOfComputation
<1>4. QED
  BY <1>2, <1>3 DEF BuildInstrumentUpdate, Row

\* One computation is sound.
LEMMA ComputationSound ==
  ASSUME CandlesTyped, day \in Days
  PROVE  Sound(BuildInstrumentUpdate, day, BuildInstrumentUpdate)
<1> DEFINE b == BuildInstrumentUpdate
<1>1. /\ b.long_55 = LastWindowMax(LongWindow) /\ b.short_55 = LastWindowMin(LongWindow)
      /\ b.long_20 = LastWindowMax(ShortWindow) /\ b.short_20 = LastWindowMin(ShortWindow)
      /\ b.last_update = day /\ b.as_of = day
  BY DEF BuildInstrumentUpdate
<1>2. LongWindow \in Nat \ {0} /\ ShortWindow \in Nat \ {0} /\ day <= day
  BY IndicatorsAssumption DEF Days
<1> HIDE DEF b
<1>3. Nests(b)
  BY <1>1, Nested DEF Nests
<1>4. Paired(b)
  BY <1>1, <1>2, LevelOf DEF Paired
<1>5. Sound(b, day, b)
  BY <1>1, <1>2, <1>3, <1>4 DEF Sound, AsComputed
<1>6. QED
  BY <1>5 DEF b

\* A stamp of today leaves a computation sound.
LEMMA StampSound ==
  ASSUME NEW d \in Days, NEW b, NEW got \in Row, Sound(got, d, b)
  PROVE  /\ [got EXCEPT !.last_update = d] \in Row
         /\ Sound([got EXCEPT !.last_update = d], d, b)
<1> DEFINE new == [got EXCEPT !.last_update = d]
<1>1. /\ new \in Row /\ new.last_update = d /\ new.as_of = got.as_of
      /\ new.whole = got.whole
      /\ new.long_55 = got.long_55 /\ new.short_55 = got.short_55
      /\ new.long_20 = got.long_20 /\ new.short_20 = got.short_20
      /\ new.atr14 = got.atr14
  BY DEF Row
<1>2. got # None /\ d <= d
  BY IndicatorsAssumption DEF Days
<1> HIDE DEF new
<1>3. Sound(new, d, b)
  BY <1>1, <1>2 DEF Sound, Paired, Nests, AsComputed
<1>4. QED
  BY <1>1, <1>3 DEF new

\* An upsert of a sound row over a sound row gives a sound row: one that it calls whole
\* has the levels of the new one.
LEMMA UpsertSound ==
  ASSUME NEW d \in Days, NEW b, NEW new \in Row, row \in Row \cup {None},
         Sound(new, d, b), Sound(row, d, b)
  PROVE  Upserted(new) \in Row /\ Sound(Upserted(new), d, b)
<1>1. CASE row = None
  BY <1>1 DEF Upserted
<1>2. CASE row # None
  <2> DEFINE up == Upserted(new)
  <2>1. up = Coalesced(new) /\ row \in Row /\ new # None
    BY <1>2, IndicatorsAssumption DEF Upserted
  <2>2. /\ up.long_55 = OrElse(new.long_55, row.long_55)
        /\ up.short_55 = OrElse(new.short_55, row.short_55)
        /\ up.long_20 = OrElse(new.long_20, row.long_20)
        /\ up.short_20 = OrElse(new.short_20, row.short_20)
        /\ up.atr14 = OrElse(new.atr14, row.atr14)
        /\ up.last_update = new.last_update /\ up.as_of = new.as_of
        /\ up.whole = (/\ new.whole
                       /\ new.long_55 = None => row.long_55 = None
                       /\ new.long_20 = None => row.long_20 = None
                       /\ new.atr14 = None => row.atr14 = None)
    BY <2>1 DEF Coalesced
  <2>3. /\ \A x, y \in Level : OrElse(x, y) \in Level
        /\ \A x, y \in Fraction \cup {None} : OrElse(x, y) \in Fraction \cup {None}
    BY DEF OrElse
  <2>4. up \in Row
    <3>1. /\ OrElse(new.long_55, row.long_55) \in Level
          /\ OrElse(new.short_55, row.short_55) \in Level
          /\ OrElse(new.long_20, row.long_20) \in Level
          /\ OrElse(new.short_20, row.short_20) \in Level
          /\ OrElse(new.atr14, row.atr14) \in Fraction \cup {None}
          /\ new.last_update \in Days /\ new.as_of \in Days /\ new.whole \in BOOLEAN
      BY <2>1, <2>3 DEF Row
    <3>2. QED
      BY <2>1, <3>1 DEF Coalesced, Row
  <2>5. Paired(new) /\ Paired(row) /\ new.last_update <= d /\ new.as_of <= d
    BY <1>2, <2>1 DEF Sound
  <2> HIDE DEF up
  <2>6. up.whole => new.whole /\ AsComputed(up, new)
    BY <2>2, <2>5 DEF AsComputed, Paired, OrElse
  <2>7. Paired(up)
    BY <2>2, <2>5 DEF Paired, OrElse
  <2>8. up.whole => Nests(up)
    BY <2>1, <2>6 DEF Sound, Nests, AsComputed
  <2>9. up.whole /\ up.as_of = d => AsComputed(up, b)
    BY <2>1, <2>2, <2>6 DEF Sound, AsComputed
  <2>10. Sound(up, d, b)
    BY <2>2, <2>5, <2>7, <2>8, <2>9 DEF Sound
  <2>11. QED
    BY <2>4, <2>10 DEF up
<1>3. QED
  BY <1>1, <1>2

\* What was sound is sound on the next day: nothing is claimed of today any more.
LEMMA NextDaySound ==
  ASSUME NEW d \in Nat, NEW b, NEW c, NEW r \in Row \cup {None}, Sound(r, d, b)
  PROVE  Sound(r, d + 1, c)
<1>1. SUFFICES ASSUME r # None PROVE Sound(r, d + 1, c)
  BY DEF Sound
<1>2. r.last_update \in Nat /\ r.as_of \in Nat
  BY <1>1 DEF Row, Days
<1>3. r.last_update <= d + 1 /\ r.as_of <= d + 1 /\ r.as_of # d + 1
  BY <1>1, <1>2 DEF Sound
<1>4. QED
  BY <1>1, <1>3 DEF Sound

\* A trade widens a candle or begins one.
LEMMA TradeKeepsCandles ==
  ASSUME CandlesTyped, day \in Days, NEW p \in Prices, Trade(p)
  PROVE  CandlesTyped'
<1>1. \A q \in Prices : q \in Int
  BY DEF Prices
<1>2. [high |-> p, low |-> p, close |-> p] \in Candle
  BY <1>1 DEF Candle
<1>3. \A c \in Candle : Widened(c, p) \in Candle
  BY <1>1 DEF Widened, Candle
<1>4. candles[day] = None \/ candles[day] \in Candle
  BY DEF CandlesTyped
<1>5. candles' = [candles EXCEPT ![day] = candles'[day]] /\ candles'[day] \in Candle
  BY <1>2, <1>3, <1>4 DEF Trade, CandlesTyped
<1>6. QED
  BY <1>5 DEF CandlesTyped

\* On one day, what is sound before a step and what it writes is sound after it.
LEMMA SameDayInv ==
  ASSUME SamePast, TypeOK',
         Sound(row', day, BuildInstrumentUpdate),
         \A t \in Tasks : /\ Sound(task'[t].old, day, BuildInstrumentUpdate)
                          /\ Sound(task'[t].got, day, BuildInstrumentUpdate)
  PROVE  Inv'
<1>1. day' = day /\ BuildInstrumentUpdate' = BuildInstrumentUpdate
  BY SameComputation DEF SamePast
<1>2. QED
  BY <1>1 DEF Inv, TaskSound

\* A task that has ended holds nothing.
LEMMA TaskEnds ==
  ASSUME Inv, NEW t \in Tasks, task' = [task EXCEPT ![t] = Idle]
  PROVE  /\ task' \in [Tasks -> Task]
         /\ \A u \in Tasks : /\ Sound(task'[u].old, day, BuildInstrumentUpdate)
                             /\ Sound(task'[u].got, day, BuildInstrumentUpdate)
<1>1. Idle \in Task /\ Idle.old = None /\ Idle.got = None
  BY DEF Idle, Task
<1>2. \A u \in Tasks : task'[u] = IF u = t THEN Idle ELSE task[u]
  BY DEF Inv, TypeOK
<1>3. QED
  BY <1>1, <1>2 DEF Inv, TypeOK, TaskSound, Sound

\* Every step keeps the invariant.
LEMMA StepInv == Inv /\ [Next]_vars => Inv'
<1> SUFFICES ASSUME Inv, [Next]_vars PROVE Inv'
  OBVIOUS
<1> DEFINE b == BuildInstrumentUpdate
<1>1. /\ CandlesTyped /\ day \in Days /\ day \in Nat
      /\ row \in Row \cup {None} /\ task \in [Tasks -> Task]
      /\ Sound(row, day, b) /\ \A t \in Tasks : Sound(task[t].old, day, b) /\ Sound(task[t].got, day, b)
  BY DEF Inv, TypeOK, CandlesTyped, Days, TaskSound
<1>2. b \in Row /\ Sound(b, day, b)
  BY <1>1, ComputationTyped, ComputationSound
<1>3. ASSUME UNCHANGED <<day, candles>>, row' \in Row \cup {None}, Sound(row', day, b),
             task' \in [Tasks -> Task],
             \A t \in Tasks : Sound(task'[t].old, day, b) /\ Sound(task'[t].got, day, b)
      PROVE  Inv'
  <2>1. SamePast
    BY <1>1, <1>3 DEF SamePast
  <2>2. TypeOK'
    BY <1>1, <1>3 DEF TypeOK, CandlesTyped
  <2>3. QED
    BY <1>3, <2>1, <2>2, SameDayInv
<1> HIDE DEF b
<1>4. CASE Refresh
  BY <1>1, <1>2, <1>3, <1>4 DEF Refresh, b
<1>5. ASSUME NEW t \in Tasks, ReadRow(t) \/ FetchCandles(t) \/ FetchFails(t) PROVE Inv'
  <2>1. UNCHANGED <<day, candles, row>> /\ \A u \in Tasks \ {t} : task'[u] = task[u]
    BY <1>1, <1>5 DEF ReadRow, FetchCandles, FetchFails
  <2>2. task[t] \in Task
    BY <1>1
  <2>3. CASE ReadRow(t)
    <3> DEFINE new == [pc |-> IF row = None \/ Stale THEN "fetch" ELSE "write", old |-> row, got |-> None]
    <3>1. task' = [task EXCEPT ![t] = new]
      BY <2>3 DEF ReadRow
    <3>2. new \in Task /\ new.old = row /\ new.got = None
      BY <1>1 DEF Task
    <3> HIDE DEF new
    <3>3. task' \in [Tasks -> Task] /\ task'[t] = new
      BY <1>1, <3>1, <3>2
    <3>4. QED
      BY <1>1, <1>3, <2>1, <3>2, <3>3 DEF Sound
  <2>4. CASE FetchCandles(t) \/ FetchFails(t)
    <3>1. PICK g \in {b, task[t].got} : task' = [task EXCEPT ![t].pc = "write", ![t].got = g]
      <4>1. CASE FetchCandles(t)
        BY <4>1 DEF FetchCandles, b
      <4>2. CASE FetchFails(t)
        <5>1. [task[t] EXCEPT !.pc = "write"] = [task[t] EXCEPT !.pc = "write", !.got = task[t].got]
          BY <2>2 DEF Task
        <5>2. task' = [task EXCEPT ![t] = [task[t] EXCEPT !.pc = "write", !.got = task[t].got]]
          BY <4>2, <5>1 DEF FetchFails
        <5>3. QED
          BY <5>2
      <4>3. QED
        BY <2>4, <4>1, <4>2
    <3> DEFINE new == [task[t] EXCEPT !.pc = "write", !.got = g]
    <3>2. task' = [task EXCEPT ![t] = new]
      BY <3>1
    <3>3. new \in Task /\ new.old = task[t].old /\ new.got = g
      BY <1>2, <2>2 DEF Task
    <3>4. Sound(g, day, b)
      BY <1>1, <1>2
    <3> HIDE DEF new
    <3>5. task' \in [Tasks -> Task] /\ task'[t] = new
      BY <1>1, <3>2, <3>3
    <3>6. QED
      BY <1>1, <1>3, <2>1, <3>3, <3>4, <3>5
  <2>5. QED
    BY <1>5, <2>3, <2>4
<1>6. ASSUME NEW t \in Tasks, TaskRaises(t) PROVE Inv'
  <2>1. UNCHANGED <<day, candles, row>> /\ task' = [task EXCEPT ![t] = Idle]
    BY <1>6 DEF TaskRaises
  <2>2. QED
    BY <1>1, <1>3, <2>1, TaskEnds DEF b
<1>7. ASSUME NEW t \in Tasks, NEW new \in Row, Sound(new, day, b),
             row' = Upserted(new), task' = [task EXCEPT ![t] = Idle], UNCHANGED <<day, candles>>
      PROVE  Inv'
  <2>1. row' \in Row /\ Sound(row', day, b)
    BY <1>1, <1>7, UpsertSound
  <2>2. QED
    BY <1>3, <1>7, <2>1, TaskEnds DEF b
<1>8. ASSUME NEW t \in Tasks, Upsert(t) PROVE Inv'
  <2>1. task[t].got \in Row /\ Sound(task[t].got, day, b)
    BY <1>1, <1>8 DEF Upsert, Task
  <2>2. /\ [task[t].got EXCEPT !.last_update = day] \in Row
        /\ Sound([task[t].got EXCEPT !.last_update = day], day, b)
    BY <1>1, <2>1, StampSound
  <2>3. QED
    BY <1>7, <1>8, <2>2 DEF Upsert
<1>9. ASSUME NEW t \in Tasks, PutBack(t) PROVE Inv'
  <2> DEFINE empty == [long_55 |-> None, short_55 |-> None, long_20 |-> None, short_20 |-> None,
                       atr14 |-> None, last_update |-> day, whole |-> FALSE, as_of |-> day]
  <2>1. empty \in Row /\ Sound(empty, day, b)
    BY <1>1 DEF Row, Level, Sound, Paired
  <2>2. task[t].old \in Row \cup {None} /\ Sound(task[t].old, day, b)
    BY <1>1 DEF Task
  <2>3. row' = Upserted(IF task[t].old # None THEN task[t].old ELSE empty)
    BY <1>9 DEF PutBack
  <2>4. task' = [task EXCEPT ![t] = Idle] /\ UNCHANGED <<day, candles>>
    BY <1>9 DEF PutBack
  <2> HIDE DEF empty
  <2>5. QED
    BY <1>7, <2>1, <2>2, <2>3, <2>4
<1>10. CASE \E p \in Traded : Trade(p)
  <2>1. PICK p \in Traded : Trade(p)
    BY <1>10
  <2>2. p \in Prices
    BY IndicatorsAssumption
  <2>3. CandlesTyped' /\ day' = day /\ row' = row /\ task' = task
    BY <1>1, <2>1, <2>2, TradeKeepsCandles DEF Trade
  <2>4. SamePast
    <3>1. \A d \in Days : d < day => candles'[d] = candles[d]
      <4>1. SUFFICES ASSUME NEW d \in Days, d < day PROVE candles'[d] = candles[d]
        OBVIOUS
      <4>2. d # day
        BY <1>1, <4>1 DEF Days
      <4>3. QED
        BY <1>1, <2>1, <4>2 DEF Trade, CandlesTyped
    <3>2. QED
      BY <1>1, <2>3, <3>1 DEF SamePast
  <2>5. TypeOK'
    BY <1>1, <2>3 DEF TypeOK, CandlesTyped
  <2>6. QED
    BY <1>1, <2>3, <2>4, <2>5, SameDayInv DEF b
<1>11. CASE NextDay
  <2>1. day' \in Days /\ day' = day + 1
    BY <1>1, <1>11, IndicatorsAssumption DEF NextDay, Days
  <2>2. row' = row /\ candles' = candles /\ task' = task
    BY <1>11 DEF NextDay
  <2>3. \A t \in Tasks : task[t].old \in Row \cup {None} /\ task[t].got \in Row \cup {None}
    BY <1>1 DEF Task
  <2>4. /\ Sound(row, day + 1, BuildInstrumentUpdate')
        /\ \A t \in Tasks : /\ Sound(task[t].old, day + 1, BuildInstrumentUpdate')
                            /\ Sound(task[t].got, day + 1, BuildInstrumentUpdate')
    BY <1>1, <2>3, NextDaySound
  <2>5. TypeOK'
    BY <1>1, <2>1, <2>2 DEF TypeOK, CandlesTyped
  <2>6. QED
    BY <2>1, <2>2, <2>4, <2>5 DEF Inv, TaskSound
<1>12. CASE UNCHANGED vars
  BY <1>1, <1>3, <1>12 DEF vars
<1>13. QED
  BY <1>4, <1>5, <1>6, <1>8, <1>9, <1>10, <1>11, <1>12 DEF Next

\* The invariant holds in every state.
LEMMA SpecInv == Spec => []Inv
<1>1. QED
  BY InitInv, StepInv, PTL DEF Spec

\* A sound row that is fresh is what a computation of this moment would write.
LEMMA InvCurrent ==
  ASSUME Inv
  PROVE  RowIsCurrent
<1>1. SUFFICES ASSUME Fresh PROVE row = BuildInstrumentUpdate
  BY DEF RowIsCurrent
<1> DEFINE b == BuildInstrumentUpdate
<1>2. CandlesTyped /\ day \in Days /\ row \in Row /\ Sound(row, day, b)
  BY <1>1 DEF Inv, TypeOK, CandlesTyped, Fresh
<1>3. b \in Row /\ b.last_update = day /\ b.as_of = day /\ b.whole = TRUE
  BY <1>2, ComputationTyped
<1> HIDE DEF b
<1>4. row.last_update = day /\ row.as_of = day /\ row.whole = TRUE /\ AsComputed(row, b)
  BY <1>1, <1>2 DEF Fresh, Sound, Row
<1>5. \A r, q \in Row :
        AsComputed(r, q) /\ r.last_update = q.last_update /\ r.as_of = q.as_of /\ r.whole = q.whole
          => r = q
  BY DEF Row, AsComputed
<1>6. row = b
  BY <1>2, <1>3, <1>4, <1>5
<1>7. QED
  BY <1>6 DEF b

\* A price above the highest and below the lowest price of a window is the only price
\* in it.
LEMMA FlatWindow ==
  ASSUME CandlesTyped, NEW n \in Nat \ {0}, Cardinality(Completed) >= n, NEW p \in Prices,
         Max(Highs(n)) <= p, p <= Min(Lows(n)), NEW d \in LastOf(Completed, n)
  PROVE  candles[d].high = p /\ candles[d].low = p
<1>1. /\ candles[d].high \in Prices /\ candles[d].low \in Prices
      /\ candles[d].low <= candles[d].high
  BY CompleteCandle DEF LastOf
<1>2. candles[d].high \in Highs(n) /\ candles[d].low \in Lows(n)
  BY DEF Highs, Lows
<1>3. /\ candles[d].high <= Max(Highs(n)) /\ Max(Highs(n)) \in Prices
      /\ Min(Lows(n)) <= candles[d].low /\ Min(Lows(n)) \in Prices
  BY <1>2, HighsAndLows
<1>4. QED
  BY <1>1, <1>3 DEF Prices

\* In a fresh row an entry price that meets its stop is the one price of the window.
LEMMA FlatEntry ==
  ASSUME Inv, Fresh, row.long_55 # None, NEW p \in Prices, EntryIsStop(p),
         NEW d \in LastOf(Completed, ShortWindow)
  PROVE  candles[d].high = p /\ candles[d].low = p
<1>1. CandlesTyped /\ row = BuildInstrumentUpdate /\ row \in Row /\ row.whole
      /\ Sound(row, day, BuildInstrumentUpdate) /\ row # None
  BY InvCurrent DEF Inv, TypeOK, CandlesTyped, RowIsCurrent, Fresh
<1>2. /\ row.long_20 # None /\ row.short_20 # None /\ row.short_55 # None
      /\ row.short_55 <= row.short_20 /\ row.short_20 <= row.long_20 /\ row.long_20 <= row.long_55
  BY <1>1 DEF Sound, Nests
<1>3. /\ row.long_20 \in Nat /\ row.short_20 \in Nat /\ row.short_55 \in Nat /\ row.long_55 \in Nat
      /\ p \in Nat
  BY <1>1, <1>2 DEF Row, Level, Prices
<1>4. row.long_20 <= p /\ p <= row.short_20
  BY <1>2, <1>3 DEF EntryIsStop
<1>5. row.long_20 = LastWindowMax(ShortWindow) /\ row.short_20 = LastWindowMin(ShortWindow)
  BY <1>1 DEF BuildInstrumentUpdate
<1>6. ShortWindow \in Nat \ {0} /\ Cardinality(Completed) \in Nat
  BY IndicatorsAssumption, CompletedFinite
<1>7. ~ (Cardinality(Completed) < ShortWindow)
  BY <1>1, <1>2, <1>5, <1>6, LevelOf
<1>8. row.long_20 = Max(Highs(ShortWindow)) /\ row.short_20 = Min(Lows(ShortWindow))
  BY <1>5, <1>7 DEF LastWindowMax, LastWindowMin, Highs, Lows
<1>9. QED
  BY <1>1, <1>4, <1>6, <1>7, <1>8, FlatWindow

\* For any windows, the short channel of a row lies within the long one, and a fresh row
\* has an entry price that is its own stop only after a short window flat at that price.
THEOREM ChannelsAlwaysNest == Spec => []ChannelsNest
<1>1. Inv => ChannelsNest
  <2>1. SUFFICES ASSUME Inv, row # None, row.whole, row.long_55 # None PROVE ChannelsNest
    BY DEF ChannelsNest
  <2>2. Sound(row, day, BuildInstrumentUpdate)
    BY <2>1 DEF Inv
  <2>3. Nests(row)
    BY <2>1, <2>2 DEF Sound
  <2>4. Fresh => \A p \in Prices : EntryIsStop(p) =>
                    \A d \in LastOf(Completed, ShortWindow) :
                        candles[d].high = p /\ candles[d].low = p
    BY <2>1, FlatEntry
  <2>5. QED
    BY <2>1, <2>3, <2>4 DEF ChannelsNest, Nests
<1>2. QED
  BY <1>1, SpecInv, PTL

\* For any windows, the two levels of a channel are there or missing together.
THEOREM LevelsAlwaysPaired == Spec => []LevelsComeInPairs
<1>1. Inv => LevelsComeInPairs
  BY DEF Inv, Sound, Paired, LevelsComeInPairs
<1>2. QED
  BY <1>1, SpecInv, PTL

-----------------------------------------------------------------------------
(* The card *)

\* The rounded quotient is the largest that fits.
LEMMA QuotientBounds ==
  ASSUME NEW a \in Nat, NEW d \in Nat \ {0}
  PROVE  /\ a \div d \in Nat
         /\ (a \div d) * d <= a /\ a < ((a \div d) + 1) * d
<1>1. a \div d \in Nat /\ a % d \in 0 .. d - 1 /\ a = (d * (a \div d)) + (a % d)
  OBVIOUS
<1> DEFINE q == a \div d
           r == a % d
<1>2. q \in Nat /\ r \in Nat /\ r < d /\ a = d * q + r
  BY <1>1
<1> HIDE DEF q, r
<1>3. q * d = d * q /\ (q + 1) * d = d * q + d /\ d * q \in Nat
  BY <1>2
<1>4. q * d <= a /\ a < (q + 1) * d
  BY <1>2, <1>3
<1>5. QED
  BY <1>2, <1>4 DEF q

\* A positive factor can be cancelled.
LEMMA CancelFactor ==
  ASSUME NEW a \in Nat, NEW b \in Nat, NEW c \in Nat \ {0}, a * c <= b * c
  PROVE  a <= b
<1>1. SUFFICES ASSUME b + 1 <= a PROVE FALSE
  OBVIOUS
<1>2. (b + 1) * c <= a * c /\ a * c \in Nat
  BY <1>1, ProductMonotone
<1>3. (b + 1) * c = b * c + c /\ b * c \in Nat
  OBVIOUS
<1>4. QED
  BY <1>2, <1>3

\* The money put in is never more than the portfolio.
LEMMA OwnMoneyBounds ==
  ASSUME NEW total \in Totals, NEW yield \in Yields
  PROVE  /\ OwnMoney(total, yield).num \in Nat /\ OwnMoney(total, yield).den \in Nat \ {0}
         /\ total \in Nat
         /\ OwnMoney(total, yield).num <= total * OwnMoney(total, yield).den
<1>1. total \in Nat /\ yield \in Int
  BY BreakoutCardAssumption
<1>2. CASE yield <= 0
  BY <1>1, <1>2 DEF OwnMoney
<1>3. CASE ~ (yield <= 0)
  <2>1. /\ OwnMoney(total, yield).num = total * 100
        /\ OwnMoney(total, yield).den = 100 + yield
    BY <1>3 DEF OwnMoney
  <2>2. 100 + yield \in Nat \ {0} /\ total * 100 \in Nat
    BY <1>1, <1>3
  <2>3. PICK y \in Nat : yield = y
    BY <1>1, <1>3
  <2>4. total * (100 + y) = total * 100 + total * y /\ total * y \in Nat
    BY <1>1
  <2>5. QED
    BY <1>1, <2>1, <2>2, <2>3, <2>4
<1>4. QED
  BY <1>2, <1>3

\* Level -1- and the protective level are half a unit's ATR apart, on both sides.
LEMMA CardDistance ==
  ASSUME NEW ins, ins.atr14 \in Fraction, ins.atr14 # None,
         ins.long_55 \in Prices, ins.short_55 \in Prices,
         NEW side \in {"long", "short"}, NEW last_price \in Prices, NEW from \in BOOLEAN
  PROVE  LET card == Card(ins, side, last_price, from)
         IN  /\ Distance(card.levels[1], card.protect) = ins.atr14.num
             /\ card.unit = 2 * ins.atr14.den
<1> DEFINE boundary == IF side = "long" THEN ins.long_55 ELSE ins.short_55
           bound == IF from THEN last_price ELSE boundary
           num == ins.atr14.num
           den == ins.atr14.den
           sign == IF side = "long" THEN 1 ELSE -1
           x == bound * (2 * den)
           card == Card(ins, side, last_price, from)
<1>1. num \in Nat /\ den \in Nat /\ bound \in Nat
  BY DEF Fraction, Prices
<1>2. AtrOf(ins) = ins.atr14
  BY DEF AtrOf
<1>3. card.unit = 2 * den /\ card.protect = x - sign * num /\ card.levels[1] = x
  BY <1>2 DEF Card
<1>4. sign * num = IF side = "long" THEN num ELSE -num
  <2> HIDE DEF num
  <2>1. QED
    BY <1>1
<1>5. x \in Nat
  <2> HIDE DEF bound, den
  <2>1. QED
    BY <1>1
<1> HIDE DEF num, x, sign, card, den
<1>6. Distance(x, x - sign * num) = num
  <2>1. CASE side = "long"
    BY <1>1, <1>4, <1>5, <2>1 DEF Distance
  <2>2. CASE side # "long"
    BY <1>1, <1>4, <1>5, <2>2 DEF Distance
  <2>3. QED
    BY <2>1, <2>2
<1>7. QED
  BY <1>3, <1>6 DEF num, den, card

\* The rounded quotient of one percent and the loss per contract
LEMMA CountRisk ==
  ASSUME NEW num \in Nat, NEW den \in Nat \ {0}, NEW pp \in Nat, NEW total \in Nat,
         NEW own \in Nat, NEW part \in Nat \ {0}, own <= total * part,
         num # 0, pp # 0,
         NEW n, n = (own * den) \div (part * num * pp * 100)
  PROVE  /\ n * (num * pp) * 200 <= total * (2 * den)
         /\ (n + 1) * (num * pp) * 200 * part > own * (2 * den)
<1> DEFINE loss == num * pp
           D == part * num * pp * 100
<1>1. loss \in Nat \ {0} /\ part * num * pp = part * loss
  <2>1. num * pp \in Nat /\ num * pp # 0
    OBVIOUS
  <2>2. part * num * pp = part * (num * pp)
    OBVIOUS
  <2>3. QED
    BY <2>1, <2>2
<1> HIDE DEF loss
<1>2. D = (part * loss) * 100 /\ part * loss \in Nat \ {0}
  BY <1>1
<1>3. D \in Nat \ {0} /\ own * den \in Nat
  BY <1>2
<1> HIDE DEF D
<1>4. n \in Nat /\ n * D <= own * den /\ own * den < (n + 1) * D
  BY <1>3, QuotientBounds DEF D
<1>5. \A m \in Nat : m * D = (m * loss * 100) * part
  <2>1. SUFFICES ASSUME NEW m \in Nat PROVE m * ((part * loss) * 100) = (m * loss * 100) * part
    BY <1>2
  <2>2. loss \in Nat
    BY <1>1
  <2>3. QED
    BY <2>2
<1>6. own * den <= (total * den) * part
  <2>1. total * part \in Nat
    OBVIOUS
  <2>2. own * den <= (total * part) * den
    BY <2>1, ProductMonotone
  <2>3. (total * part) * den = (total * den) * part
    OBVIOUS
  <2>4. QED
    BY <2>2, <2>3
<1>7. n * loss * 100 <= total * den
  <2>1. n * loss * 100 \in Nat /\ total * den \in Nat
    BY <1>1, <1>4
  <2>2. (n * loss * 100) * part = n * D
    BY <1>4, <1>5
  <2>3. (n * loss * 100) * part \in Nat /\ (total * den) * part \in Nat
    BY <2>1
  <2>4. (n * loss * 100) * part <= (total * den) * part
    BY <1>3, <1>4, <1>6, <2>2, <2>3
  <2>5. QED
    BY <2>1, <2>4, CancelFactor
<1>8. n * loss * 200 <= total * (2 * den)
  <2>1. n * loss \in Nat /\ total * den \in Nat
    BY <1>1, <1>4
  <2>2. total * (2 * den) = 2 * (total * den)
    OBVIOUS
  <2>3. QED
    BY <1>7, <2>1, <2>2
<1>9. (n + 1) * loss * 200 * part > own * (2 * den)
  <2>1. (n + 1) * D = ((n + 1) * loss * 100) * part /\ (n + 1) * D \in Nat
    BY <1>3, <1>4, <1>5
  <2>2. (n + 1) * loss * 200 * part = 2 * (((n + 1) * loss * 100) * part)
    BY <1>1, <1>4
  <2>3. own * (2 * den) = 2 * (own * den)
    OBVIOUS
  <2>4. QED
    BY <1>3, <1>4, <2>1, <2>2, <2>3
<1>10. QED
  BY <1>8, <1>9 DEF loss

\* The card of a typed row with paired levels risks what it says.
LEMMA CardRiskHolds ==
  ASSUME TypeOK, LevelsComeInPairs
  PROVE  CardRisk
<1>1. SUFFICES ASSUME row # None, row.long_55 # None, row.atr14 # None,
                      NEW side \in {"long", "short"}, NEW last_price \in Prices,
                      NEW from \in BOOLEAN,
                      NEW total \in Totals, NEW yield \in Yields, NEW pp \in PointValues
               PROVE  LET card == Card(row, side, last_price, from)
                          n    == CalcCountContracts(total, yield, AtrOf(row), pp)
                          loss == Distance(card.levels[1], card.protect) * pp
                          own  == OwnMoney(total, yield)
                      IN  /\ n * loss * 200 <= total * card.unit
                          /\ loss > 0 => (n + 1) * loss * 200 * own.den > own.num * card.unit
  BY DEF CardRisk
<1>2. row.long_55 \in Prices /\ row.short_55 \in Prices /\ row.atr14 \in Fraction
  BY <1>1 DEF TypeOK, Row, Level, LevelsComeInPairs
<1> DEFINE num == row.atr14.num
           den == row.atr14.den
           card == Card(row, side, last_price, from)
           n == CalcCountContracts(total, yield, AtrOf(row), pp)
           own == OwnMoney(total, yield)
<1>3. num \in Nat /\ den \in Nat \ {0}
  BY <1>2 DEF Fraction
<1>4. Distance(card.levels[1], card.protect) = num /\ card.unit = 2 * den
  BY <1>1, <1>2, CardDistance
<1>5. /\ own.num \in Nat /\ own.den \in Nat \ {0} /\ total \in Nat
      /\ own.num <= total * own.den
  BY OwnMoneyBounds
<1>6. pp \in Nat
  BY BreakoutCardAssumption
<1>7. n = IF num = 0 \/ pp = 0 THEN 0
          ELSE (own.num * den) \div (own.den * num * pp * 100)
  BY <1>1 DEF CalcCountContracts, AtrOf
<1> HIDE DEF num, den, card, n, own
<1>8. CASE num = 0 \/ pp = 0
  <2>1. num * pp = 0 /\ n = 0
    BY <1>3, <1>6, <1>7, <1>8
  <2>2. total * (2 * den) \in Nat
    BY <1>3, <1>5
  <2>3. n * (num * pp) * 200 <= total * (2 * den) /\ ~ (num * pp > 0)
    BY <2>1, <2>2
  <2>4. QED
    BY <1>4, <2>3 DEF card, n, own
<1>9. CASE ~ (num = 0 \/ pp = 0)
  <2>1. /\ n * (num * pp) * 200 <= total * (2 * den)
        /\ (n + 1) * (num * pp) * 200 * own.den > own.num * (2 * den)
    <3>1. num # 0 /\ pp # 0 /\ n = (own.num * den) \div (own.den * num * pp * 100)
      BY <1>7, <1>9
    <3> DEFINE money == own.num
               part == own.den
    <3>2. /\ money \in Nat /\ part \in Nat \ {0} /\ money <= total * part /\ total \in Nat
          /\ n = (money * den) \div (part * num * pp * 100)
      BY <1>5, <3>1
    <3> HIDE DEF money, part
    <3>3. /\ n * (num * pp) * 200 <= total * (2 * den)
          /\ (n + 1) * (num * pp) * 200 * part > money * (2 * den)
      BY <1>3, <1>6, <3>1, <3>2, CountRisk
    <3>4. QED
      BY <3>3 DEF money, part
  <2>2. QED
    BY <1>4, <2>1 DEF card, n, own
<1>10. QED
  BY <1>8, <1>9

-----------------------------------------------------------------------------
(* What holds in every state *)

\* A current row breaks out where a computation of this moment would.
LEMMA CurrentBreakout ==
  ASSUME Inv
  PROVE  BreakoutIsExtreme
<1>1. SUFFICES ASSUME Fresh, row.long_55 # None, NEW p \in Prices
               PROVE  /\ p >= row.long_55 <=> HigherAreOld(p)
                      /\ p <= row.short_55 <=> LowerAreOld(p)
  BY DEF BreakoutIsExtreme, HigherAreOld, LowerAreOld, Later
<1>2. CandlesTyped /\ day \in Days /\ row = BuildInstrumentUpdate
  BY <1>1, InvCurrent DEF Inv, TypeOK, CandlesTyped, RowIsCurrent
<1>3. row.long_55 = LastWindowMax(LongWindow) /\ row.short_55 = LastWindowMin(LongWindow)
  BY <1>2 DEF BuildInstrumentUpdate
<1>4. p \in Nat
  BY DEF Prices
<1>5. QED
  BY <1>1, <1>2, <1>3, <1>4, BreakoutMeans

\* A current row holds the ATR of a computation of this moment.
LEMMA CurrentAtr ==
  ASSUME Inv
  PROVE  AtrWithinRanges
<1>1. SUFFICES ASSUME Fresh
               PROVE  IF Cardinality(Completed) <= Period THEN row.atr14 = None
                      ELSE /\ Min(Ranges) * row.atr14.den <= row.atr14.num
                           /\ row.atr14.num <= Max(Ranges) * row.atr14.den
  BY DEF AtrWithinRanges, Ranges
<1>2. CandlesTyped /\ row.atr14 = Atr
  BY <1>1, InvCurrent DEF Inv, TypeOK, CandlesTyped, RowIsCurrent, BuildInstrumentUpdate
<1>3. QED
  BY <1>2, AtrOfComputation

\* Whatever is traded and however rows are computed, upserted or left without
\* candles, every level is a price or missing and the ATR a fraction or missing.
THEOREM RowsAreTyped == Spec => []TypeOK
<1>1. Inv => TypeOK
  BY DEF Inv
<1>2. QED
  BY <1>1, SpecInv, PTL

\* A row stamped today, built from one computation and from candles of today stays what
\* a computation of this moment would write: neither today's trades touch it nor rows
\* that slow tasks put back.
THEOREM FreshRowsAreCurrent == Spec => []RowIsCurrent
<1>1. Inv => RowIsCurrent
  BY InvCurrent
<1>2. QED
  BY <1>1, SpecInv, PTL

\* For any windows and horizon, a breakout of the long channel is the highest or
\* lowest price of a whole window of traded days.
THEOREM BreakoutsAreExtreme == Spec => []BreakoutIsExtreme
<1>1. QED
  BY CurrentBreakout, SpecInv, PTL

\* For any period, the recursively smoothed ATR stays between the smallest and the
\* largest true range it is made of.
THEOREM AtrStaysWithinRanges == Spec => []AtrWithinRanges
<1>1. QED
  BY CurrentAtr, SpecInv, PTL

\* For any portfolio, yield, point value and ATR, a position of the advised size
\* risks half a percent, and one contract more would exceed it.
THEOREM CardsKeepRisk == Spec => []CardRisk
<1>1. Inv => LevelsComeInPairs
  BY DEF Inv, Sound, Paired, LevelsComeInPairs
<1>2. Inv => CardRisk
  BY <1>1, CardRiskHolds DEF Inv
<1>3. QED
  BY <1>2, SpecInv, PTL

=============================================================================
