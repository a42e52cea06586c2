----------------------------- MODULE FxProperties -----------------------------
(***************************************************************************)
(* What must be true of one FX backtest, and the cash book it implements.  *)
(***************************************************************************)
EXTENDS FxEngine

Position ==
    {NoPosition} \union
    [side : Sides, opened : Nat, bid : Int, quoted : Int, execution : Int]
Trade ==
    [side : Sides, opened : Nat, closed : Nat, gross : Int, spread : Int, slippage : Int,
     commission : Int, swap : Int, net : Int, held : Nat \ {0}]

\* The types of the locals of FxBacktestEngine.run.
TypeOK ==
    /\ ValidInputs
    /\ done \in 0..Len(bars)
    /\ phase \in {"running", "closing", "done", "insolvent", "error"}
    /\ balance \in Int /\ realized \in Int /\ accruedSwap \in Int
    /\ position \in Position
    /\ trades \in Seq(Trade)
    /\ equity \in Seq([value : Int, side : Targets])

\* The spread that a round trip pays: that of the fill that bought.
CrossedSpread(trade) ==
    Spread(bars[IF trade.side = "LONG" THEN trade.opened ELSE trade.closed])

\* engine.py:271-330: gross, spread and slippage are differences of three P&L
\* figures.  Nothing may be counted twice: a round trip crosses the spread once,
\* of the bar that bought, and slips twice, whatever happened to the price.
CostsAreCountedOnce ==
    \A k \in DOMAIN trades :
        /\ trades[k].spread = CrossedSpread(trades[k]) * Point * Exposure
        /\ trades[k].slippage = 2 * Slippage * Point * Exposure
        /\ trades[k].commission = 2 * Commission

\* engine.py:142-160, costs.py:217-254: swap accrues bar by bar, over gaps that
\* may hold no rollover or many, and must come to one charge for every rollover
\* after the open and up to the close, in the closed trades and in what is open.
SwapBetween(side, from, to) ==
    IF Charged THEN SwapCharge(side, bars[from].time, bars[to].time) ELSE 0
EveryRolloverIsChargedOnce ==
    /\ \A k \in DOMAIN trades :
           trades[k].swap = SwapBetween(trades[k].side, trades[k].opened, trades[k].closed)
    /\ position.side # "FLAT" =>
           accruedSwap = SwapBetween(position.side, position.opened, done)
    /\ position.side = "FLAT" => accruedSwap = 0

\* engine.py:181-207, PHASE5D_PREREGISTRATION.md:57 ("terminate before any
\* same-bar replacement entry"): with terminate_on_insolvency, an equity point at
\* or below zero that the loop records is the last one; and an account whose
\* balance a close has ruined has ended and holds nothing, so a flip whose close
\* ruins the account does not open its other half.  A position that an insolvent
\* run still holds was ruined by a mark, never by what was realized.
NothingAfterInsolvency ==
    config.terminate /\ phase # "done" =>
        /\ \A j \in DOMAIN equity : equity[j].value <= 0 =>
               j = Len(equity) /\ phase = "insolvent"
        /\ phase = "insolvent" => equity[Len(equity)].value <= 0 /\ done = Len(equity)
        /\ done > 0 /\ balance <= 0 => phase = "insolvent" /\ position = NoPosition

\* PHASE5D_PREREGISTRATION.md:57: "If a close realizes balance <= 0, terminate",
\* with an INSOLVENCY record (:56).  A run that ends otherwise was never ruined.
InsolvencyIsRecorded ==
    config.terminate /\ phase = "done" => \A j \in DOMAIN equity : equity[j].value > 0

-----------------------------------------------------------------------------
\* The money is that of a cash book that knows nothing of gross P&L, spread,
\* slippage, accrual or marks, and that nets a flip into one order.
Direction == CASE position.side = "LONG" -> 1 [] position.side = "SHORT" -> -1
               [] position.side = "FLAT" -> 0
Book == INSTANCE FxCashBook WITH
    at <- done,
    units <- Direction,
    since <- IF Direction = 0 THEN 0 ELSE position.opened,
    cash <- IF Direction = 0 THEN balance ELSE balance - Direction * Exposure * position.execution
CashBookRefined == Book!Spec
=============================================================================
