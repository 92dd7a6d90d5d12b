---------------------------- MODULE BreakoutCard ----------------------------
(***************************************************************************)
(* The numbers of the message about a breakout and of the /instr_info      *)
(* card: the price levels to enter and to add at, the protective level and *)
(* the number of contracts for each portfolio.                             *)
(*                                                                         *)
(* A card value is a fraction of the denominator 2 * row.atr14.den, so     *)
(* that half an ATR is a whole number.                                     *)
(***************************************************************************)
EXTENDS Indicators

CONSTANTS
    Totals,         \* total_amount of a portfolio, in rubles
    Yields,         \* expected_yield_percent
    PointValues     \* price_point_value: rubles per point of the price

ASSUME BreakoutCardAssumption ==
    /\ Totals \subseteq Nat
    /\ Yields \subseteq Int /\ \A p \in Yields : p > -100
    /\ PointValues \subseteq Nat

\* atr = ins.atr14 or 0.0
AtrOf(ins) == IF ins.atr14 = None THEN [num |-> 0, den |-> 1] ELSE ins.atr14

\* Mutant: the protective level of a card from the last price starts at the channel.
CardFromBoundary(ins, side, last_price, calculation_from_the_last_price) ==
    LET boundary == IF side = "long" THEN ins.long_55 ELSE ins.short_55
        bound == IF calculation_from_the_last_price THEN last_price ELSE boundary
        sign == IF side = "long" THEN 1 ELSE -1
        half == sign * AtrOf(ins).num
        unit == 2 * AtrOf(ins).den
    IN  [protect |-> boundary * unit - half,
         levels  |-> <<bound * unit, bound * unit + half,
                       bound * unit + 2 * half, bound * unit + 3 * half>>,
         unit    |-> unit]

\* text_favorites_breakout: the levels -v- and -1- to -4-
Card(ins, side, last_price, calculation_from_the_last_price) ==
    LET boundary == IF side = "long" THEN ins.long_55 ELSE ins.short_55
        bound == IF calculation_from_the_last_price THEN last_price ELSE boundary
        sign == IF side = "long" THEN 1 ELSE -1
        half == sign * AtrOf(ins).num
        unit == 2 * AtrOf(ins).den
    IN  [protect |-> bound * unit - half,
         levels  |-> <<bound * unit, bound * unit + half,
                       bound * unit + 2 * half, bound * unit + 3 * half>>,
         unit    |-> unit]

\* total_amount - profit, times 100 + yield: what was put in, or all of it at a loss
OwnMoney(total, yield) ==
    IF yield <= 0 THEN [num |-> total, den |-> 1]
    ELSE [num |-> total * 100, den |-> 100 + yield]

\* _calc_count_contracts: one percent of the own money per ATR, rounded down
CalcCountContracts(total, yield, atr, price_point) ==
    IF atr.num = 0 \/ price_point = 0 THEN 0
    ELSE (OwnMoney(total, yield).num * atr.den)
            \div (OwnMoney(total, yield).den * atr.num * price_point * 100)

-----------------------------------------------------------------------------
(* Properties *)

(***************************************************************************)
(* The levels and the counts of one card agree: a position of the advised  *)
(* size, opened at level -1- and closed at the protective level, loses at  *)
(* most half a percent of the portfolio, at a profit or a loss, for both   *)
(* sides, from the channel or from the last price; and one contract more   *)
(* would lose more than half a percent of the money put in.                *)
(***************************************************************************)
CardRisk ==
    row # None /\ row.long_55 # None /\ row.atr14 # None =>
        \A side \in {"long", "short"}, last_price \in Prices, from \in BOOLEAN,
           total \in Totals, yield \in Yields, pp \in PointValues :
            LET card == Card(row, side, last_price, from)
                n    == CalcCountContracts(total, yield, AtrOf(row), pp)
                loss == Distance(card.levels[1], card.protect) * pp
                own  == OwnMoney(total, yield)
            IN  /\ n * loss * 200 <= total * card.unit
                /\ loss > 0 => (n + 1) * loss * 200 * own.den > own.num * card.unit

=============================================================================
