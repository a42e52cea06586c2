----------------------------- MODULE MCFxBacktest -----------------------------
(***************************************************************************)
(* Small instances of the FX backtest: every sequence of a few bar shapes, *)
(* gaps and signals, against a second backtest that is cut short or whose  *)
(* bars and signals change after some bar.                                 *)
(***************************************************************************)
EXTENDS FxBacktest

CONSTANTS
    Length,     \* bars of the first backtest
    Gaps        \* possible times between two bars

\* A short position is paid for every night.
ShortCredit == -1

\* Price moves within a bar and between bars, with and without a spread.
Shapes == {[open |-> 2, close |-> 2, spread |-> NoSpread],
           [open |-> 2, close |-> 6, spread |-> 1],
           [open |-> 6, close |-> 2, spread |-> 2]}

\* Bars at the given gaps; nothing of the first bar but its time is ever used.
BarsOf(shapes, gaps) ==
    LET time[i \in 1..Length] == IF i = 1 THEN 0 ELSE time[i - 1] + gaps[i]
        first == [open |-> 2, close |-> 2, spread |-> 1]
        shape(i) == IF i = 1 THEN first ELSE shapes[i]
    IN  [i \in 1..Length |-> [time |-> time[i], open |-> shape(i).open,
                              close |-> shape(i).close, spread |-> shape(i).spread]]

\* The last signal is never used.
SignalsOf(used) == [i \in 1..Length |-> IF i = Length THEN "FLAT" ELSE used[i]]

\* The choices that matter: one that each refusal needs, and the solvency policy.
ChosenConfigs ==
    {[schedule |-> s, swap |-> w, terminate |-> t, sameCurrency |-> TRUE] :
        s \in BOOLEAN, w \in {"none", "sided"}, t \in {TRUE}}
    \union {[schedule |-> TRUE, swap |-> "sided", terminate |-> FALSE, sameCurrency |-> c] :
        c \in BOOLEAN}

Changed(bar) == [bar EXCEPT !.open = 8 - @, !.close = 8 - @]
Opposite(signal) == CASE signal = "LONG" -> "SHORT" [] signal = "SHORT" -> "FLAT"
                      [] signal = "FLAT" -> "LONG"

MCInit ==
    /\ config \in ChosenConfigs
    /\ \E shapes \in [2..Length -> Shapes], gaps \in [2..Length -> Gaps],
          used \in [1..(Length - 1) -> Targets] :
           bars = BarsOf(shapes, gaps) /\ signals = SignalsOf(used)
    /\ \/ \E n \in 2..(Length - 1) :
              bars2 = SubSeq(bars, 1, n) /\ signals2 = SubSeq(signals, 1, n)
       \/ \E n \in 1..(Length - 2) :
              /\ bars2 = [i \in 1..Length |-> IF i <= n + 1 THEN bars[i] ELSE Changed(bars[i])]
              /\ signals2 = [i \in 1..Length |->
                                 IF i <= n THEN signals[i] ELSE Opposite(signals[i])]
    /\ Start
    /\ Other!Start

MCSpec == MCInit /\ [][PairNext]_pair
=============================================================================
