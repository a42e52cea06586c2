------------------------------ MODULE FxBacktest ------------------------------
(***************************************************************************)
(* Two FX backtests side by side, and the books of the first one.          *)
(*                                                                         *)
(* The second backtest gets other bars and other signals.  Both process    *)
(* one bar per step, so whatever they have in common so far can be         *)
(* compared: that is how "no decision uses the future" is stated.          *)
(***************************************************************************)
EXTENDS FxProperties, SequencesExt

VARIABLES bars2, signals2, done2, phase2, balance2, realized2, position2,
          accruedSwap2, trades2, equity2

Other == INSTANCE FxEngine WITH
    bars <- bars2, signals <- signals2, done <- done2, phase <- phase2,
    balance <- balance2, realized <- realized2, position <- position2,
    accruedSwap <- accruedSwap2, trades <- trades2, equity <- equity2

vars2 == <<bars2, signals2, done2, phase2, balance2, realized2, position2,
           accruedSwap2, trades2, equity2>>
pair == <<vars, vars2>>

Ended == phase \in {"done", "insolvent", "error"}
Ended2 == phase2 \in {"done", "insolvent", "error"}

PairInit == Init /\ Other!Init
PairNext ==
    /\ ~Ended \/ ~Ended2
    /\ IF Ended THEN UNCHANGED vars ELSE Next
    /\ IF Ended2 THEN UNCHANGED vars2 ELSE Other!Next
PairSpec == PairInit /\ [][PairNext]_pair

-----------------------------------------------------------------------------
\* What closed trades come to.
Net(closed) == FoldSeq(LAMBDA trade, sum : sum + trade.net, 0, closed)

\* engine.py:170-235: the balance is the initial one and the net results of the
\* trades, each booked once wherever it was closed; a run that ends flat has its
\* balance for its last equity point, and one that ends ruined with a position
\* has not realized it.
BooksBalance ==
    /\ balance = InitialBalance + Net(trades)
    /\ realized = balance - InitialBalance
    /\ phase = "done" => position = NoPosition /\ equity[Len(bars)].value = balance
    /\ phase = "insolvent" =>
           equity[done].value = balance + Unrealized(position, bars[done]) - accruedSwap

\* engine.py:129-133, Section 5 of its docstring: two backtests that saw the same
\* bars up to some bar, and the same signals before it, are in the same account
\* state after it: no fill, charge or mark depends on what comes later.
SawTheSame(n) ==
    /\ n <= Len(bars) /\ n <= Len(bars2)
    /\ SubSeq(bars, 1, n) = SubSeq(bars2, 1, n)
    /\ \A j \in 1..(n - 1) : signals[j] = signals2[j]
NoLookAhead ==
    /\ \A n \in 1..done : n < Len(bars) /\ n < Len(bars2) /\ SawTheSame(n) /\ n <= done2
                          => equity[n] = equity2[n]
    /\ done = done2 /\ SawTheSame(done) /\ {phase, phase2} \subseteq {"running", "closing"}
       => account = <<balance2, realized2, position2, accruedSwap2, trades2>>
=============================================================================
