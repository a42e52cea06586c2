-------------------------------- MODULE FxCosts --------------------------------
(***************************************************************************)
(* What a fill costs in the FX backtest (src/src/fx/backtesting: costs.py, *)
(* execution.py, pnl.py): the bid and the ask of a bar, slippage,          *)
(* commission, overnight financing, and the P&L of a price move.           *)
(*                                                                         *)
(* Prices, rates and amounts are Decimals in the code, where + - * are     *)
(* exact; here they are integers, in the smallest unit.                    *)
(***************************************************************************)
EXTENDS Integers, Sequences, FiniteSets

CONSTANTS
    Lots, VolumeMin, VolumeMax, VolumeStep,
    ContractSize,
    Point,              \* price of one spread or slippage point
    Slippage,           \* adverse points of every fill
    Commission,         \* charge for one side of a round trip
    LongSwap, ShortSwap,\* charge of one rollover, per side; a credit is negative
    TripleWeekday,      \* day of the week charged three times; outside 0..6: none
    DayLength,          \* units of time in a day; bar times are in this unit
    RolloverHours,      \* times of day of the rollovers
    InitialBalance

\* FxEngineConfig.__post_init__: sizes are refused, never clamped.
LotsAccepted(lots, min, max, step) ==
    /\ lots > 0
    /\ min <= lots /\ lots <= max
    /\ (lots - min) % step = 0

ASSUME ConstantsAssumption ==
    /\ {Lots, VolumeMin, VolumeMax, ContractSize} \subseteq Int
    /\ ContractSize > 0
    /\ VolumeStep \in Nat \ {0}
    /\ LotsAccepted(Lots, VolumeMin, VolumeMax, VolumeStep)
    /\ Point \in Nat \ {0}
    /\ Slippage \in Nat
    /\ Commission \in Nat
    /\ LongSwap \in Int /\ ShortSwap \in Int
    /\ TripleWeekday \in Int
    /\ DayLength \in Nat \ {0}
    /\ RolloverHours \subseteq 0..(DayLength - 1)
    /\ InitialBalance \in Int

Sides == {"LONG", "SHORT"}
Targets == Sides \union {"FLAT"}
NoSpread == -1                       \* spread_points is None

\* FxBar, of which the engine reads these fields.
Bars == [time : Nat, open : Nat \ {0}, close : Nat \ {0}, spread : Nat \union {NoSpread}]

Exposure == Lots * ContractSize

-----------------------------------------------------------------------------
(* Prices of a fill.  The bars carry BID prices. *)

\* A missing spread counts as zero.
Spread(bar) == IF bar.spread = NoSpread THEN 0 ELSE bar.spread
Ask(bid, bar) == bid + Spread(bar) * Point

\* A LONG opens and a SHORT closes by buying.
IsBuy(side, opening) == (side = "LONG") = opening

\* The price of a fill at the open of a bar before slippage, and after it.
QuotedPrice(side, opening, bar) ==
    IF IsBuy(side, opening) THEN Ask(bar.open, bar) ELSE bar.open
\* Mutant: the sign of the slippage follows the opening, not the direction.
FillPriceByOpening(side, opening, bar) ==
    IF opening THEN QuotedPrice(side, opening, bar) + Slippage * Point
               ELSE QuotedPrice(side, opening, bar) - Slippage * Point
FillPrice(side, opening, bar) ==
    IF IsBuy(side, opening) THEN QuotedPrice(side, opening, bar) + Slippage * Point
                            ELSE QuotedPrice(side, opening, bar) - Slippage * Point

GrossPnl(side, entry, exit) ==
    IF side = "LONG" THEN (exit - entry) * Exposure ELSE (entry - exit) * Exposure

-----------------------------------------------------------------------------
(* Overnight financing *)

Day(time) == time \div DayLength
Weekday(time) == Day(time) % 7

\* Mutant: both ends are included.
CrossingsClosed(from, to) == {t \in from..to : t % DayLength \in RolloverHours}
\* RolloverSchedule.crossings_between: the rollovers in (from, to].
Crossings(from, to) == {t \in (from + 1)..to : t % DayLength \in RolloverHours}

SwapRate(side) == IF side = "LONG" THEN LongSwap * Lots ELSE ShortSwap * Lots

\* The sum of charge_for_crossing over the crossings.
SwapCharge(side, from, to) ==
    LET crossed == Crossings(from, to)
        tripled == {t \in crossed : Weekday(t) = TripleWeekday}
    IN  SwapRate(side) * (Cardinality(crossed) + 2 * Cardinality(tripled))
=============================================================================
