------------------------------- MODULE FxEngine -------------------------------
(***************************************************************************)
(* The FX backtest engine (src/src/fx/backtesting/engine.py): one symbol,  *)
(* at most one LONG or SHORT position of a fixed size, fills at the open   *)
(* of a bar, and every cost of a round trip accounted for on its own.      *)
(*                                                                         *)
(* FxBacktestEngine.run is one loop over the bars; a step here is one turn *)
(* of it, and FinalClose is what follows the loop.                         *)
(***************************************************************************)
EXTENDS FxCosts

VARIABLES
    \* The arguments of run: never changed.
    bars,           \* the chronological bars
    signals,        \* the target known at the close of each bar
    config,         \* the choices of FxEngineConfig that are not numbers
    \* The locals of run.
    done,           \* bars processed
    phase,          \* where the run stands, or how it ended
    balance, realized,
    position,
    accruedSwap,
    trades,
    equity          \* one point per processed bar

inputs == <<bars, signals, config>>
account == <<balance, realized, position, accruedSwap, trades>>
vars == <<inputs, done, phase, account, equity>>

NoPosition == [side |-> "FLAT"]

-----------------------------------------------------------------------------
(* One turn of the loop *)

Bar == done + 1

\* Mutant: the signal of the bar itself.
TargetUnshifted == signals[Bar]
\* The one-bar shift: what was known at the close of the previous bar.
Target == IF Bar = 1 THEN "FLAT" ELSE signals[Bar - 1]

Charged == config.schedule /\ config.swap # "none"

SwapDue ==
    IF position.side # "FLAT" /\ Charged
    THEN SwapCharge(position.side, bars[done].time, bars[Bar].time)
    ELSE 0

\* Held over midnight under a swap model that does not know when to charge.
ScheduleMissing ==
    /\ position.side # "FLAT"
    /\ ~config.schedule
    /\ config.swap # "none"
    /\ Day(bars[Bar].time) # Day(bars[done].time)

\* FxBacktestEngine._open.
Entry(side, i) ==
    [side      |-> side,
     opened    |-> i,
     bid       |-> bars[i].open,
     quoted    |-> QuotedPrice(side, TRUE, bars[i]),
     execution |-> FillPrice(side, TRUE, bars[i])]

\* Mutant: a round trip within one bar is held for none.
HeldBarsUnrounded(opened, closed) == closed - opened
HeldBars(opened, closed) == IF closed > opened THEN closed - opened ELSE 1

\* FxBacktestEngine._close: three P&L figures of one price move, whose
\* differences are the spread and the slippage.
ClosedTrade(i, swap) ==
    LET side       == position.side
        bar        == bars[i]
        execution  == GrossPnl(side, position.execution, FillPrice(side, FALSE, bar))
        spreadOnly == GrossPnl(side, position.quoted, QuotedPrice(side, FALSE, bar))
        reference  == GrossPnl(side, position.bid, bar.open)
        spread     == reference - spreadOnly
        slippage   == spreadOnly - execution
        fees       == Commission + Commission
    IN  [side       |-> side,
         opened     |-> position.opened,
         closed     |-> i,
         gross      |-> reference,
         spread     |-> spread,
         slippage   |-> slippage,
         commission |-> fees,
         swap       |-> swap,
         net        |-> reference - spread - slippage - fees - swap,
         held       |-> HeldBars(position.opened, i)]

\* Book a closed trade.
Realize(trade) ==
    /\ trades' = Append(trades, trade)
    /\ balance' = balance + trade.net
    /\ realized' = realized + trade.net
    /\ accruedSwap' = 0

\* _unrealized_pnl: a LONG is worth its bid, a SHORT its ask.
Unrealized(held, bar) ==
    IF held.side = "FLAT" THEN 0
    ELSE GrossPnl(held.side, held.execution,
                  IF held.side = "LONG" THEN bar.close ELSE Ask(bar.close, bar))

Ruined(value) == config.terminate /\ value <= 0
AfterLoop(held) == IF held.side = "FLAT" THEN "done" ELSE "closing"

\* The end of the turn: mark the account to the bar and look for insolvency.
MarkBar(cash, held, swap) ==
    LET value == cash + Unrealized(held, bars[Bar]) - swap
    IN  /\ equity' = Append(equity, [value |-> value, side |-> held.side])
        /\ done' = Bar
        /\ phase' = IF Ruined(value) THEN "insolvent"
                    ELSE IF Bar < Len(bars) THEN "running" ELSE AfterLoop(held)
        /\ UNCHANGED inputs

Running == phase = "running" /\ ~ScheduleMissing

KeepPosition ==
    /\ Running
    /\ Target = position.side
    /\ accruedSwap' = accruedSwap + SwapDue
    /\ UNCHANGED <<balance, realized, position, trades>>
    /\ MarkBar(balance, position, accruedSwap + SwapDue)

OpenPosition ==
    /\ Running
    /\ position.side = "FLAT"
    /\ Target # "FLAT"
    /\ config.sameCurrency
    /\ position' = Entry(Target, Bar)
    /\ UNCHANGED <<balance, realized, accruedSwap, trades>>
    /\ MarkBar(balance, Entry(Target, Bar), accruedSwap)

\* Mutant: the rollovers up to the closing bar are not charged.
ClosePositionUncharged ==
    LET trade == ClosedTrade(Bar, accruedSwap)
    IN  /\ Running
        /\ position.side # "FLAT"
        /\ Target # position.side
        /\ Target = "FLAT" \/ Ruined(balance + trade.net)
        /\ Realize(trade)
        /\ position' = NoPosition
        /\ MarkBar(balance + trade.net, NoPosition, 0)
\* A close that leaves nothing to trade with is not followed by an entry.
ClosePosition ==
    LET trade == ClosedTrade(Bar, accruedSwap + SwapDue)
    IN  /\ Running
        /\ position.side # "FLAT"
        /\ Target # position.side
        /\ Target = "FLAT" \/ Ruined(balance + trade.net)
        /\ Realize(trade)
        /\ position' = NoPosition
        /\ MarkBar(balance + trade.net, NoPosition, 0)

\* Mutant: the other half opens although the close has ruined the account.
FlipPositionRegardless ==
    LET trade == ClosedTrade(Bar, accruedSwap + SwapDue)
    IN  /\ Running
        /\ position.side # "FLAT"
        /\ Target \in Sides \ {position.side}
        /\ Realize(trade)
        /\ position' = Entry(Target, Bar)
        /\ MarkBar(balance + trade.net, Entry(Target, Bar), 0)
\* LONG to SHORT and back: two fills at the same open.
FlipPosition ==
    LET trade == ClosedTrade(Bar, accruedSwap + SwapDue)
    IN  /\ Running
        /\ position.side # "FLAT"
        /\ Target \in Sides \ {position.side}
        /\ ~Ruined(balance + trade.net)
        /\ Realize(trade)
        /\ position' = Entry(Target, Bar)
        /\ MarkBar(balance + trade.net, Entry(Target, Bar), 0)

\* SwapRequiredError and UnsupportedCurrencyConversionError: no result.
Fail ==
    /\ phase = "running"
    /\ \/ ScheduleMissing
       \/ position.side = "FLAT" /\ Target # "FLAT" /\ ~config.sameCurrency
    /\ phase' = "error"
    /\ UNCHANGED <<inputs, done, account, equity>>

\* Mutant: the last equity point stays what the loop marked.
FinalCloseUnmarked ==
    LET trade == ClosedTrade(Len(bars), accruedSwap)
    IN  /\ phase = "closing"
        /\ Realize(trade)
        /\ position' = NoPosition
        /\ phase' = "done"
        /\ UNCHANGED <<inputs, done, equity>>
\* After the loop: what is still open closes at the open of the last bar and
\* the last equity point is replaced.
FinalClose ==
    LET trade == ClosedTrade(Len(bars), accruedSwap)
    IN  /\ phase = "closing"
        /\ Realize(trade)
        /\ position' = NoPosition
        /\ equity' = [equity EXCEPT ![Len(equity)] =
                         [value |-> balance + trade.net, side |-> "FLAT"]]
        /\ phase' = "done"
        /\ UNCHANGED <<inputs, done>>

-----------------------------------------------------------------------------
Start ==
    /\ done = 0
    /\ phase = "running"
    /\ balance = InitialBalance
    /\ realized = 0
    /\ position = NoPosition
    /\ accruedSwap = 0
    /\ trades = <<>>
    /\ equity = <<>>

Configs == [schedule : BOOLEAN, swap : {"none", "sided"}, terminate : BOOLEAN,
            sameCurrency : BOOLEAN]

\* What run and FxBar accept: at least two bars, in order, a signal for each.
ValidInputs ==
    /\ bars \in Seq(Bars)
    /\ Len(bars) >= 2
    /\ \A i, j \in 1..Len(bars) : i < j => bars[i].time < bars[j].time
    /\ signals \in [1..Len(bars) -> Targets]
    /\ config \in Configs

Init == ValidInputs /\ Start

Next ==
    \/ KeepPosition \/ OpenPosition \/ ClosePosition \/ FlipPosition
    \/ Fail \/ FinalClose

Spec == Init /\ [][Next]_vars
=============================================================================
