------------------------------ MODULE FxCashBook ------------------------------
(***************************************************************************)
(* What the FX backtest promises about money, without its bookkeeping: a   *)
(* cash book.  At the open of a bar it may place one netted order that     *)
(* takes the holding to -1, 0 or 1 positions.  The order pays the ask plus *)
(* slippage for what it buys and gets the bid less slippage for what it    *)
(* sells; ending a holding pays the commission of both its sides and the   *)
(* financing of every rollover between its open and its close.             *)
(*                                                                         *)
(* No gross, spread or slippage figure, no accrual and no mark appears.    *)
(***************************************************************************)
EXTENDS FxCosts

VARIABLES
    bars, config,
    at,         \* bars processed
    cash,
    units,      \* -1, 0 or 1 positions
    since       \* the bar that opened the holding

vars == <<bars, config, at, cash, units, since>>

Init == at = 0 /\ cash = InitialBalance /\ units = 0 /\ since = 0

OrderPrice(change, bar) ==
    IF change > 0 THEN Ask(bar.open, bar) + Slippage * Point ELSE bar.open - Slippage * Point

\* What ending the present holding at bar i costs on top of the price.
Fees(i) ==
    LET side == IF units > 0 THEN "LONG" ELSE "SHORT"
    IN  2 * Commission +
        (IF config.schedule /\ config.swap # "none"
         THEN SwapCharge(side, bars[since].time, bars[i].time) ELSE 0)

Order(target, i) ==
    /\ units' = target
    /\ target # units
    /\ since' = IF target = 0 THEN 0 ELSE i
    /\ cash' = cash - (target - units) * Exposure * OrderPrice(target - units, bars[i])
                    - (IF units = 0 THEN 0 ELSE Fees(i))
    /\ UNCHANGED <<bars, config>>

Stay == at < Len(bars) /\ at' = at + 1 /\ UNCHANGED <<bars, config, cash, units, since>>

TradeAtOpen == at < Len(bars) /\ at' = at + 1 /\ \E target \in -1..1 : Order(target, at + 1)

\* The end of the data: sell out at the open of the last bar.
Liquidate == at = Len(bars) /\ Order(0, at) /\ UNCHANGED at

Next == Stay \/ TradeAtOpen \/ Liquidate

Spec == Init /\ [][Next]_vars
=============================================================================
