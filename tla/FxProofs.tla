-------------------------------- MODULE FxProofs --------------------------------
(***************************************************************************)
(* Proofs about the FX backtest, for any bars, gaps, signals, prices,      *)
(* costs and rollover times: one run, its cash book, the sum of its        *)
(* trades, and two runs side by side.                                      *)
(***************************************************************************)
EXTENDS FxBacktest, FiniteSetTheorems, WellFoundedInduction, TLAPS

-----------------------------------------------------------------------------
(* Prices and products. *)

LEMMA ConstantTypes ==
    /\ Lots \in Int /\ ContractSize \in Int /\ Point \in Int /\ Slippage \in Int
    /\ Commission \in Int /\ LongSwap \in Int /\ ShortSwap \in Int
    /\ DayLength \in Nat \ {0} /\ InitialBalance \in Int
    /\ Exposure \in Int
BY ConstantsAssumption DEF Exposure

LEMMA Products ==
    ASSUME NEW a \in Int, NEW b \in Int, NEW c \in Int
    PROVE  /\ a * b \in Int /\ b * a = a * b
           /\ (a + b) * c = a * c + b * c /\ (a - b) * c = a * c - b * c
OBVIOUS

LEMMA SpreadType ==
    ASSUME NEW bar \in Bars, NEW bid \in Int
    PROVE  Spread(bar) \in Nat /\ Spread(bar) * Point \in Int /\ Ask(bid, bar) \in Int
<1>1. Spread(bar) \in Nat  BY DEF Bars, Spread, NoSpread
<1>2. Spread(bar) * Point \in Int  BY <1>1, ConstantTypes, Products
<1>3. QED  BY <1>1, <1>2 DEF Ask

LEMMA PriceTypes ==
    ASSUME NEW side \in Sides, NEW opening \in BOOLEAN, NEW bar \in Bars
    PROVE  /\ bar.open \in Int /\ bar.close \in Int
           /\ QuotedPrice(side, opening, bar) \in Int
           /\ FillPrice(side, opening, bar) \in Int
<1>1. bar.open \in Int /\ bar.close \in Int  BY DEF Bars
<1>2. QuotedPrice(side, opening, bar) \in Int  BY <1>1, SpreadType DEF QuotedPrice
<1>3. Slippage * Point \in Int  BY ConstantTypes, Products
<1>4. QED  BY <1>1, <1>2, <1>3 DEF FillPrice

LEMMA GrossPnlType ==
    ASSUME NEW side, NEW entry \in Int, NEW exit \in Int
    PROVE  /\ GrossPnl(side, entry, exit) \in Int
           /\ GrossPnl(side, entry, exit) =
                 IF side = "LONG" THEN exit * Exposure - entry * Exposure
                                  ELSE entry * Exposure - exit * Exposure
<1>1. Exposure \in Int  BY ConstantTypes
<1>2. /\ (exit - entry) * Exposure = exit * Exposure - entry * Exposure
      /\ (entry - exit) * Exposure = entry * Exposure - exit * Exposure
      /\ exit * Exposure \in Int /\ entry * Exposure \in Int
  BY <1>1, Products
<1>3. QED  BY <1>2 DEF GrossPnl

\* The spread that separates the P&L of quoted prices from that of bids is the
\* one of the bar that bought, whatever the price did in between.
LEMMA SpreadOfRoundTrip ==
    ASSUME NEW side \in Sides, NEW opened \in Bars, NEW closed \in Bars
    PROVE  GrossPnl(side, opened.open, closed.open)
              - GrossPnl(side, QuotedPrice(side, TRUE, opened), QuotedPrice(side, FALSE, closed))
           = Spread(IF side = "LONG" THEN opened ELSE closed) * Point * Exposure
<1> USE ConstantTypes, Products
<1>1. PICK e : e = Exposure  OBVIOUS
<1>2. e \in Int /\ opened.open \in Int /\ closed.open \in Int
  BY <1>1, PriceTypes
<1>3. PICK s : s = Spread(IF side = "LONG" THEN opened ELSE closed) * Point  OBVIOUS
<1>4. s \in Int  BY <1>3, SpreadType
<1>5. CASE side = "LONG"
  <2>1. QuotedPrice(side, TRUE, opened) = opened.open + s
        /\ QuotedPrice(side, FALSE, closed) = closed.open
    BY <1>3, <1>5 DEF QuotedPrice, IsBuy, Ask
  <2>2. opened.open * e \in Int /\ closed.open * e \in Int /\ s * e \in Int
        /\ (opened.open + s) * e = opened.open * e + s * e
    BY <1>2, <1>4
  <2>3. GrossPnl(side, opened.open, closed.open) = closed.open * e - opened.open * e
    BY <1>1, <1>2, <1>5, GrossPnlType
  <2>4. GrossPnl(side, opened.open + s, closed.open) = closed.open * e - (opened.open + s) * e
    BY <1>1, <1>2, <1>4, <1>5, GrossPnlType
  <2>5. (closed.open * e - opened.open * e) - (closed.open * e - (opened.open + s) * e) = s * e
    BY <2>2
  <2>6. QED  BY <1>1, <1>3, <2>1, <2>3, <2>4, <2>5
<1>6. CASE side = "SHORT"
  <2>1. QuotedPrice(side, TRUE, opened) = opened.open
        /\ QuotedPrice(side, FALSE, closed) = closed.open + s
    BY <1>3, <1>6 DEF QuotedPrice, IsBuy, Ask
  <2>2. opened.open * e \in Int /\ closed.open * e \in Int /\ s * e \in Int
        /\ (closed.open + s) * e = closed.open * e + s * e
    BY <1>2, <1>4
  <2>3. GrossPnl(side, opened.open, closed.open) = opened.open * e - closed.open * e
    BY <1>1, <1>2, <1>6, GrossPnlType
  <2>4. GrossPnl(side, opened.open, closed.open + s) = opened.open * e - (closed.open + s) * e
    BY <1>1, <1>2, <1>4, <1>6, GrossPnlType
  <2>5. (opened.open * e - closed.open * e) - (opened.open * e - (closed.open + s) * e) = s * e
    BY <2>2
  <2>6. QED  BY <1>1, <1>3, <2>1, <2>3, <2>4, <2>5
<1>7. QED  BY <1>5, <1>6 DEF Sides

\* Each of the two fills slips once, against whoever trades.
LEMMA SlippageOfRoundTrip ==
    ASSUME NEW side \in Sides, NEW opened \in Bars, NEW closed \in Bars
    PROVE  GrossPnl(side, QuotedPrice(side, TRUE, opened), QuotedPrice(side, FALSE, closed))
              - GrossPnl(side, FillPrice(side, TRUE, opened), FillPrice(side, FALSE, closed))
           = 2 * Slippage * Point * Exposure
<1>1. PICK e, s, q, r : /\ e = Exposure /\ s = Slippage * Point
                        /\ q = QuotedPrice(side, TRUE, opened)
                        /\ r = QuotedPrice(side, FALSE, closed)
  OBVIOUS
<1>2. e \in Int /\ s \in Int /\ q \in Int /\ r \in Int  BY <1>1, ConstantTypes, Products, PriceTypes
<1>3. 2 * Slippage * Point * Exposure = s * e + s * e
  <2>1. 2 * Slippage * Point = s + s  BY <1>1, ConstantTypes
  <2>2. QED  BY <1>1, <1>2, <2>1, Products
<1>4. /\ q * e \in Int /\ r * e \in Int /\ s * e \in Int
      /\ (q + s) * e = q * e + s * e /\ (q - s) * e = q * e - s * e
      /\ (r + s) * e = r * e + s * e /\ (r - s) * e = r * e - s * e
  BY <1>2, Products
<1>5. \A x, y \in Int : GrossPnl(side, x, y) =
                           IF side = "LONG" THEN y * e - x * e ELSE x * e - y * e
  <2>1. SUFFICES ASSUME NEW x \in Int, NEW y \in Int
                 PROVE  GrossPnl(side, x, y) =
                           IF side = "LONG" THEN y * e - x * e ELSE x * e - y * e
    OBVIOUS
  <2>2. QED  BY <1>1, GrossPnlType
<1>6. q + s \in Int /\ q - s \in Int /\ r + s \in Int /\ r - s \in Int  BY <1>2
<1>7. CASE side = "LONG"
  <2>1. FillPrice(side, TRUE, opened) = q + s /\ FillPrice(side, FALSE, closed) = r - s
    BY <1>1, <1>7 DEF FillPrice, IsBuy
  <2>2. GrossPnl(side, q, r) = r * e - q * e
    BY <1>2, <1>5, <1>6, <1>7
  <2>3. GrossPnl(side, q + s, r - s) = (r - s) * e - (q + s) * e
    BY <1>2, <1>5, <1>6, <1>7
  <2>4. (r * e - q * e) - ((r - s) * e - (q + s) * e) = s * e + s * e
    BY <1>4
  <2>5. QED  BY <1>1, <1>3, <2>1, <2>2, <2>3, <2>4
<1>8. CASE side = "SHORT"
  <2>1. FillPrice(side, TRUE, opened) = q - s /\ FillPrice(side, FALSE, closed) = r + s
    BY <1>1, <1>8 DEF FillPrice, IsBuy
  <2>2. GrossPnl(side, q, r) = q * e - r * e
    BY <1>2, <1>5, <1>6, <1>8
  <2>3. GrossPnl(side, q - s, r + s) = (q - s) * e - (r + s) * e
    BY <1>2, <1>5, <1>6, <1>8
  <2>4. (q * e - r * e) - ((q - s) * e - (r + s) * e) = s * e + s * e
    BY <1>4
  <2>5. QED  BY <1>1, <1>3, <2>1, <2>2, <2>3, <2>4
<1>9. QED  BY <1>7, <1>8 DEF Sides

-----------------------------------------------------------------------------
(* Overnight financing. *)

LEMMA CrossingsFinite ==
    ASSUME NEW from \in Int, NEW to \in Int, NEW S \in SUBSET Crossings(from, to)
    PROVE  IsFiniteSet(S) /\ Cardinality(S) \in Nat
<1>1. S \in SUBSET ((from + 1)..to)  BY DEF Crossings
<1>2. IsFiniteSet((from + 1)..to)  BY FS_Interval
<1>3. QED  BY <1>1, <1>2, FS_Subset, FS_CardinalityType

\* The rollovers counted three times.
Tripled(from, to) == {t \in Crossings(from, to) : Weekday(t) = TripleWeekday}

LEMMA SwapRateType == ASSUME NEW side PROVE SwapRate(side) \in Int
BY ConstantTypes, Products DEF SwapRate

LEMMA SwapChargeIs ==
    ASSUME NEW side, NEW from \in Int, NEW to \in Int
    PROVE  /\ SwapCharge(side, from, to) =
                 SwapRate(side) * (Cardinality(Crossings(from, to)) + 2 * Cardinality(Tripled(from, to)))
           /\ Cardinality(Crossings(from, to)) \in Nat /\ Cardinality(Tripled(from, to)) \in Nat
           /\ SwapCharge(side, from, to) \in Int
<1>1. SwapCharge(side, from, to) =
         SwapRate(side) * (Cardinality(Crossings(from, to)) + 2 * Cardinality(Tripled(from, to)))
  BY DEF SwapCharge, Tripled
<1>2. Tripled(from, to) \in SUBSET Crossings(from, to)  BY DEF Tripled
<1>3. Cardinality(Crossings(from, to)) \in Nat /\ Cardinality(Tripled(from, to)) \in Nat
  BY <1>2, CrossingsFinite
<1>4. QED  BY <1>1, <1>3, SwapRateType, Products

\* The rollovers of two spans of time that follow each other are those of both.
LEMMA CrossingsSplit ==
    ASSUME NEW from \in Int, NEW mid \in Int, NEW to \in Int, from <= mid, mid <= to
    PROVE  /\ Cardinality(Crossings(from, to)) =
                 Cardinality(Crossings(from, mid)) + Cardinality(Crossings(mid, to))
           /\ Cardinality(Tripled(from, to)) =
                 Cardinality(Tripled(from, mid)) + Cardinality(Tripled(mid, to))
<1>1. ASSUME NEW S, NEW T, IsFiniteSet(S), IsFiniteSet(T), S \cap T = {}
      PROVE  Cardinality(S \cup T) = Cardinality(S) + Cardinality(T)
  <2>1. Cardinality(S) \in Nat /\ Cardinality(T) \in Nat  BY <1>1, FS_CardinalityType
  <2>2. QED  BY <1>1, <2>1, FS_Union, FS_EmptySet
<1>2. Crossings(from, to) = Crossings(from, mid) \cup Crossings(mid, to)  BY DEF Crossings
<1>3. Crossings(from, mid) \cap Crossings(mid, to) = {}  BY DEF Crossings
<1>4. Tripled(from, to) = Tripled(from, mid) \cup Tripled(mid, to)  BY <1>2, Zenon DEF Tripled
<1>5. Tripled(from, mid) \cap Tripled(mid, to) = {}  BY <1>3, Zenon DEF Tripled
<1>6. /\ IsFiniteSet(Crossings(from, mid)) /\ IsFiniteSet(Crossings(mid, to))
      /\ IsFiniteSet(Tripled(from, mid)) /\ IsFiniteSet(Tripled(mid, to))
  <2>1. Tripled(from, mid) \in SUBSET Crossings(from, mid)
        /\ Tripled(mid, to) \in SUBSET Crossings(mid, to)
    BY DEF Tripled
  <2>2. QED  BY <2>1, CrossingsFinite
<1>7. QED  BY <1>1, <1>2, <1>3, <1>4, <1>5, <1>6

\* Charging bar by bar comes to charging once.
LEMMA SwapAddsUp ==
    ASSUME NEW side, NEW from \in Int, NEW mid \in Int, NEW to \in Int, from <= mid, mid <= to
    PROVE  SwapCharge(side, from, to) = SwapCharge(side, from, mid) + SwapCharge(side, mid, to)
<1>1. PICK r, a, b, c, d :
         /\ r = SwapRate(side)
         /\ a = Cardinality(Crossings(from, mid)) /\ b = Cardinality(Tripled(from, mid))
         /\ c = Cardinality(Crossings(mid, to)) /\ d = Cardinality(Tripled(mid, to))
  OBVIOUS
<1>2. r \in Int /\ a \in Nat /\ b \in Nat /\ c \in Nat /\ d \in Nat
  BY <1>1, SwapRateType, SwapChargeIs
<1>3. SwapCharge(side, from, to) = r * ((a + c) + 2 * (b + d))
  BY <1>1, CrossingsSplit, SwapChargeIs
<1>4. SwapCharge(side, from, mid) = r * (a + 2 * b) /\ SwapCharge(side, mid, to) = r * (c + 2 * d)
  BY <1>1, SwapChargeIs
<1>5. r * ((a + 2 * b) + (c + 2 * d)) = r * (a + 2 * b) + r * (c + 2 * d)
  BY <1>2, Products
<1>6. (a + c) + 2 * (b + d) = (a + 2 * b) + (c + 2 * d)  BY <1>2
<1>7. QED  BY <1>3, <1>4, <1>5, <1>6

\* At the moment of the entry nothing has been charged.
LEMMA NoSwapAtOnce ==
    ASSUME NEW side, NEW at \in Int
    PROVE  SwapCharge(side, at, at) = 0
<1>1. Crossings(at, at) = {} /\ Tripled(at, at) = {}  BY DEF Crossings, Tripled
<1>2. SwapCharge(side, at, at) = SwapRate(side) * (0 + 2 * 0)
  <2>1. Cardinality(Crossings(at, at)) = 0 /\ Cardinality(Tripled(at, at)) = 0
    BY <1>1, FS_EmptySet
  <2>2. QED  BY <2>1, SwapChargeIs
<1>3. QED  BY <1>2, SwapRateType, Products

-----------------------------------------------------------------------------
(* The inductive invariant. *)

\* Where the run stands, and one equity point per bar.
RunInv ==
    /\ Len(equity) = done
    /\ phase = "running" => done < Len(bars)
    /\ phase = "closing" => done = Len(bars) /\ position.side # "FLAT"

\* A position remembers the prices of the bar that opened it.
HeldInv ==
    position.side # "FLAT" =>
        /\ position.opened \in 1..done
        /\ position.bid = bars[position.opened].open
        /\ position.quoted = QuotedPrice(position.side, TRUE, bars[position.opened])
        /\ position.execution = FillPrice(position.side, TRUE, bars[position.opened])

IInv == /\ TypeOK /\ RunInv /\ HeldInv
        /\ CostsAreCountedOnce /\ EveryRolloverIsChargedOnce /\ NothingAfterInsolvency

LEMMA BarTypes ==
    ASSUME TypeOK, NEW i \in 1..Len(bars)
    PROVE  /\ bars[i] \in Bars /\ bars[i].time \in Int /\ Len(bars) \in Nat
           /\ \A j \in 1..i : bars[j].time <= bars[i].time
<1>1. /\ bars[i] \in Bars /\ Len(bars) \in Nat
      /\ \A j \in 1..Len(bars) : bars[j] \in Bars /\ (j < i => bars[j].time < bars[i].time)
  BY DEF TypeOK, ValidInputs
<1>2. \A b \in Bars : b.time \in Int  BY DEF Bars
<1>3. \A j \in 1..i : bars[j].time <= bars[i].time
  <2>1. SUFFICES ASSUME NEW j \in 1..i PROVE bars[j].time <= bars[i].time  OBVIOUS
  <2>2. j = i \/ j < i  OBVIOUS
  <2>3. QED  BY <1>1, <1>2, <2>2
<1>4. QED  BY <1>1, <1>2, <1>3

LEMMA PositionTypes ==
    ASSUME TypeOK
    PROVE  /\ position.side \in Targets
           /\ position.side = "FLAT" => position = NoPosition
           /\ position.side # "FLAT" =>
                 /\ position.side \in Sides /\ position.opened \in Nat
                 /\ position.bid \in Int /\ position.quoted \in Int /\ position.execution \in Int
BY DEF TypeOK, Position, NoPosition, Targets, Sides

\* What FxBacktestEngine._close returns: the costs of the round trip, and the
\* net result of its two fills.
LEMMA ClosedTradeIs ==
    ASSUME TypeOK, HeldInv, position.side # "FLAT",
           NEW i \in 1..Len(bars), NEW swap \in Int
    PROVE  \E trade \in Trade :
             /\ trade = ClosedTrade(i, swap)
             /\ trade.side = position.side /\ trade.opened = position.opened
             /\ trade.closed = i /\ trade.swap = swap
             /\ trade.spread = CrossedSpread(trade) * Point * Exposure
             /\ trade.slippage = 2 * Slippage * Point * Exposure
             /\ trade.commission = 2 * Commission
             /\ trade.net = GrossPnl(position.side, position.execution,
                                     FillPrice(position.side, FALSE, bars[i]))
                               - 2 * Commission - swap
<1>1. PICK trade : trade = ClosedTrade(i, swap)  OBVIOUS
<1>2. PICK entry \in Bars : entry = bars[position.opened]
  <2>1. position.opened \in 1..Len(bars)
    <3>1. Len(bars) \in Nat /\ done \in 0..Len(bars)  BY DEF TypeOK, ValidInputs
    <3>2. position.opened \in 1..done  BY DEF HeldInv
    <3>3. QED  BY <3>1, <3>2
  <2>2. QED  BY <2>1, BarTypes
<1>3. PICK exit \in Bars : exit = bars[i]  BY BarTypes
<1>4. PICK side \in Sides : side = position.side  BY PositionTypes
<1>5. PICK reference, spreadOnly, execution \in Int :
        /\ reference = GrossPnl(side, entry.open, exit.open)
        /\ spreadOnly = GrossPnl(side, QuotedPrice(side, TRUE, entry), QuotedPrice(side, FALSE, exit))
        /\ execution = GrossPnl(side, FillPrice(side, TRUE, entry), FillPrice(side, FALSE, exit))
  BY PriceTypes, GrossPnlType
<1>6. trade =
        [side |-> side, opened |-> position.opened, closed |-> i,
         gross |-> reference, spread |-> reference - spreadOnly,
         slippage |-> spreadOnly - execution,
         commission |-> Commission + Commission, swap |-> swap,
         net |-> reference - (reference - spreadOnly) - (spreadOnly - execution)
                   - (Commission + Commission) - swap,
         held |-> HeldBars(position.opened, i)]
  BY <1>1, <1>2, <1>3, <1>4, <1>5 DEF ClosedTrade, HeldInv
<1>7. HeldBars(position.opened, i) \in Nat \ {0}
  BY PositionTypes DEF HeldBars
<1>8. trade \in Trade
  BY <1>6, <1>7, PositionTypes, ConstantTypes DEF Trade
<1>9. trade.spread = CrossedSpread(trade) * Point * Exposure
  <2>1. CrossedSpread(trade) = Spread(IF side = "LONG" THEN entry ELSE exit)
    BY <1>2, <1>3, <1>6 DEF CrossedSpread
  <2>2. QED  BY <1>5, <1>6, <2>1, SpreadOfRoundTrip
<1>10. trade.slippage = 2 * Slippage * Point * Exposure
  BY <1>5, <1>6, SlippageOfRoundTrip
<1>11. trade.commission = 2 * Commission  BY <1>6, ConstantTypes
<1>12. trade.net = execution - 2 * Commission - swap  BY <1>6, ConstantTypes
<1>13. execution = GrossPnl(position.side, position.execution,
                            FillPrice(position.side, FALSE, bars[i]))
  BY <1>2, <1>3, <1>4, <1>5 DEF HeldInv
<1>14. QED
  BY <1>1, <1>4, <1>6, <1>8, <1>9, <1>10, <1>11, <1>12, <1>13

LEMMA EntryIs ==
    ASSUME TypeOK, NEW side \in Sides, NEW i \in 1..Len(bars)
    PROVE  \E entry \in Position :
             /\ entry = Entry(side, i) /\ entry.side = side /\ entry.opened = i
             /\ entry.bid = bars[i].open
             /\ entry.quoted = QuotedPrice(side, TRUE, bars[i])
             /\ entry.execution = FillPrice(side, TRUE, bars[i])
<1>1. bars[i] \in Bars  BY BarTypes
<1>2. /\ bars[i].open \in Int /\ QuotedPrice(side, TRUE, bars[i]) \in Int
      /\ FillPrice(side, TRUE, bars[i]) \in Int /\ i \in Nat
  <2>1. TRUE \in BOOLEAN  OBVIOUS
  <2>2. i \in Nat  BY BarTypes
  <2>3. QED  BY <1>1, <2>1, <2>2, PriceTypes
<1>3. Entry(side, i) \in Position  BY <1>2 DEF Entry, Position
<1>4. QED  BY <1>3 DEF Entry

\* What is due at a bar adds to what has accrued.
LEMMA SwapDueIs ==
    ASSUME TypeOK, RunInv, HeldInv, EveryRolloverIsChargedOnce, phase = "running"
    PROVE  /\ SwapDue \in Int
           /\ position.side = "FLAT" => SwapDue = 0
           /\ position.side # "FLAT" =>
                 accruedSwap + SwapDue = SwapBetween(position.side, position.opened, Bar)
<1>1. CASE position.side # "FLAT"
  <2>1. /\ position.opened \in 1..done /\ done \in 1..Len(bars) /\ Bar \in 1..Len(bars)
        /\ position.opened \in 1..Len(bars) /\ done \in 1..Bar
    <3>1. Len(bars) \in Nat /\ done \in 0..Len(bars) /\ done < Len(bars)
      BY DEF RunInv, TypeOK, ValidInputs
    <3>2. position.opened \in 1..done  BY <1>1 DEF HeldInv
    <3>3. QED  BY <3>1, <3>2 DEF Bar
  <2>2. PICK a, b, c \in Int :
          /\ a = bars[position.opened].time /\ b = bars[done].time /\ c = bars[Bar].time
          /\ a <= b /\ b <= c
    BY <2>1, BarTypes
  <2>3. SwapCharge(position.side, a, c) =
           SwapCharge(position.side, a, b) + SwapCharge(position.side, b, c)
    BY <2>2, SwapAddsUp
  <2>4. SwapCharge(position.side, b, c) \in Int /\ SwapCharge(position.side, a, b) \in Int
    BY <2>2, SwapChargeIs
  <2>5. QED
    BY <1>1, <2>2, <2>3, <2>4 DEF SwapDue, SwapBetween, EveryRolloverIsChargedOnce
<1>2. CASE position.side = "FLAT"  BY <1>2 DEF SwapDue
<1>3. QED  BY <1>1, <1>2

LEMMA UnrealizedType ==
    ASSUME NEW held \in Position, NEW bar \in Bars
    PROVE  Unrealized(held, bar) \in Int
<1>1. CASE held.side = "FLAT"  BY <1>1 DEF Unrealized
<1>2. CASE held.side # "FLAT"
  <2>1. held.execution \in Int  BY <1>2 DEF Position, NoPosition
  <2>2. bar.close \in Int  BY DEF Bars
  <2>3. Ask(bar.close, bar) \in Int  BY <2>2, SpreadType
  <2>4. QED  BY <1>2, <2>1, <2>2, <2>3, GrossPnlType DEF Unrealized
<1>3. QED  BY <1>1, <1>2

\* The end of a turn keeps the run's own books.
LEMMA MarkBarKeeps ==
    ASSUME TypeOK, RunInv, NothingAfterInsolvency, phase = "running",
           NEW cash \in Int, NEW held \in Position, NEW swap \in Int,
           MarkBar(cash, held, swap), position' = held, balance' = cash,
           config.terminate /\ cash <= 0 => held = NoPosition /\ swap = 0
    PROVE  /\ ValidInputs' /\ UNCHANGED inputs
           /\ done' \in 0..Len(bars)' /\ done' = Bar /\ Bar \in 1..Len(bars)
           /\ phase' \in {"running", "closing", "done", "insolvent", "error"}
           /\ equity' \in Seq([value : Int, side : Targets])
           /\ RunInv' /\ NothingAfterInsolvency'
<1>1. Bar \in 1..Len(bars) /\ done \in Nat /\ Len(bars) \in Nat
  BY DEF RunInv, TypeOK, ValidInputs, Bar
<1>2. PICK value \in Int : value = cash + Unrealized(held, bars[Bar]) - swap
  BY <1>1, BarTypes, UnrealizedType
<1>3. /\ equity' = Append(equity, [value |-> value, side |-> held.side])
      /\ done' = Bar /\ UNCHANGED <<bars, signals, config>>
      /\ phase' = IF Ruined(value) THEN "insolvent"
                   ELSE IF Bar < Len(bars) THEN "running" ELSE AfterLoop(held)
  BY <1>2 DEF MarkBar, inputs
<1>4. held.side \in Targets  BY DEF Position, NoPosition, Targets, Sides
<1>5. ValidInputs'  BY <1>3 DEF TypeOK, ValidInputs
<1>6. equity \in Seq([value : Int, side : Targets])  BY DEF TypeOK
<1>7. PICK e : e = [value |-> value, side |-> held.side]  OBVIOUS
<1>8. e \in [value : Int, side : Targets] /\ e.value = value  BY <1>4, <1>7
<1>9. /\ equity' \in Seq([value : Int, side : Targets])
      /\ Len(equity') = Bar
      /\ equity'[Bar] = e
      /\ \A j \in 1..done : equity'[j] = equity[j]
  BY <1>3, <1>6, <1>7, <1>8 DEF RunInv, Bar
<1>10. RunInv'
  BY <1>1, <1>3, <1>9 DEF RunInv, AfterLoop
<1>11. NothingAfterInsolvency'
  <2>1. SUFFICES ASSUME config.terminate, phase' # "done"
                 PROVE  /\ \A j \in 1..Bar : equity'[j].value <= 0 => j = Bar /\ phase' = "insolvent"
                        /\ phase' = "insolvent" => equity'[Bar].value <= 0 /\ done' = Bar
                        /\ cash <= 0 => phase' = "insolvent" /\ held = NoPosition
    BY <1>3, <1>9 DEF NothingAfterInsolvency
  <2>2. \A j \in 1..done : ~(equity[j].value <= 0)
    BY <1>6, <2>1 DEF NothingAfterInsolvency, RunInv
  <2>3. Ruined(value) <=> value <= 0  BY <2>1 DEF Ruined
  <2>4. cash <= 0 => held = NoPosition /\ value = cash
    BY <1>2, <2>1 DEF Unrealized, NoPosition
  <2>5. QED  BY <1>1, <1>2, <1>3, <1>8, <1>9, <2>2, <2>3, <2>4 DEF AfterLoop, Bar
<1>12. QED
  BY <1>1, <1>3, <1>5, <1>9, <1>10, <1>11 DEF AfterLoop, inputs

\* What CostsAreCountedOnce and EveryRolloverIsChargedOnce say of closed trades.
CostsCounted(trade) ==
    /\ trade.spread = CrossedSpread(trade) * Point * Exposure
    /\ trade.slippage = 2 * Slippage * Point * Exposure
    /\ trade.commission = 2 * Commission
SwapCounted(trade) == trade.swap = SwapBetween(trade.side, trade.opened, trade.closed)
Counted(ts) == \A k \in DOMAIN ts : CostsCounted(ts[k]) /\ SwapCounted(ts[k])

LEMMA CountedIs ==
    ASSUME CostsAreCountedOnce, EveryRolloverIsChargedOnce
    PROVE  Counted(trades)
BY DEF CostsAreCountedOnce, EveryRolloverIsChargedOnce, Counted, CostsCounted, SwapCounted

\* The bars and the configuration are the same before and after.
LEMMA CountedNext ==
    ASSUME UNCHANGED <<bars, config>>, Counted(trades'),
           position'.side # "FLAT" =>
              accruedSwap' = SwapBetween(position'.side, position'.opened, done'),
           position'.side = "FLAT" => accruedSwap' = 0
    PROVE  CostsAreCountedOnce' /\ EveryRolloverIsChargedOnce'
<1>1. \A k \in DOMAIN trades' : CostsCounted(trades'[k]) /\ SwapCounted(trades'[k])
  BY DEF Counted
<1>2. CostsAreCountedOnce'
  BY <1>1 DEF CostsAreCountedOnce, CostsCounted, CrossedSpread
<1>3. EveryRolloverIsChargedOnce'
  BY <1>1 DEF EveryRolloverIsChargedOnce, SwapCounted, SwapBetween, Charged
<1>4. QED  BY <1>2, <1>3

\* Booking a closed trade keeps what is said of the trades booked before.
LEMMA RealizeKeeps ==
    ASSUME IInv, position.side # "FLAT",
           NEW i \in 1..Len(bars), NEW swap \in Int,
           swap = SwapBetween(position.side, position.opened, i),
           NEW trade, trade = ClosedTrade(i, swap), Realize(trade)
    PROVE  /\ balance' \in Int /\ balance' = balance + trade.net
           /\ realized' \in Int /\ accruedSwap' = 0
           /\ trades' \in Seq(Trade) /\ Counted(trades')
<1>1. trade \in Trade /\ CostsCounted(trade) /\ SwapCounted(trade)
  <2>1. TypeOK /\ HeldInv  BY DEF IInv
  <2>2. PICK t \in Trade :
           /\ t = ClosedTrade(i, swap)
           /\ t.side = position.side /\ t.opened = position.opened
           /\ t.closed = i /\ t.swap = swap
           /\ t.spread = CrossedSpread(t) * Point * Exposure
           /\ t.slippage = 2 * Slippage * Point * Exposure
           /\ t.commission = 2 * Commission
    BY <2>1, ClosedTradeIs
  <2>3. CostsCounted(t) /\ SwapCounted(t)  BY <2>2 DEF CostsCounted, SwapCounted
  <2>4. QED  BY <2>2, <2>3
<1>2. /\ trades' = Append(trades, trade) /\ balance' = balance + trade.net
      /\ realized' = realized + trade.net /\ accruedSwap' = 0
  BY DEF Realize
<1>3. trade.net \in Int  BY <1>1 DEF Trade
<1>4. trades \in Seq(Trade) /\ balance \in Int /\ realized \in Int  BY DEF IInv, TypeOK
<1>5. /\ trades' \in Seq(Trade)
      /\ \A k \in DOMAIN trades' : (k \in DOMAIN trades /\ trades'[k] = trades[k]) \/ trades'[k] = trade
  BY <1>1, <1>2, <1>4
<1>6. \A k \in DOMAIN trades : CostsCounted(trades[k]) /\ SwapCounted(trades[k])
  BY CountedIs DEF IInv, Counted
<1>7. Counted(trades')  BY <1>1, <1>5, <1>6, Zenon DEF Counted
<1>8. QED  BY <1>2, <1>3, <1>4, <1>5, <1>7

\* A new position has been charged nothing.
LEMMA EntryKeeps ==
    ASSUME IInv, UNCHANGED inputs, NEW side \in Sides, Bar \in 1..Len(bars), done' = Bar,
           position' = Entry(side, Bar)
    PROVE  /\ position' \in Position /\ position'.side # "FLAT" /\ HeldInv'
           /\ SwapBetween(position'.side, position'.opened, done') = 0
<1>1. PICK entry \in Position :
         /\ entry = position' /\ entry.side = side /\ entry.opened = Bar
         /\ entry.bid = bars[Bar].open
         /\ entry.quoted = QuotedPrice(side, TRUE, bars[Bar])
         /\ entry.execution = FillPrice(side, TRUE, bars[Bar])
  BY EntryIs DEF IInv
<1>2. UNCHANGED <<bars, config>>  BY DEF inputs
<1>3. HeldInv'  BY <1>1, <1>2 DEF HeldInv
<1>4. bars[Bar].time \in Int  BY BarTypes DEF IInv
<1>5. SwapBetween(side, Bar, Bar) = 0
  BY <1>4, NoSwapAtOnce DEF SwapBetween
<1>6. QED  BY <1>1, <1>3, <1>5 DEF Sides

\* The signal of the previous bar is one of the targets.
LEMMA TargetType == ASSUME TypeOK, RunInv, phase = "running" PROVE Target \in Targets
<1>1. signals \in [1..Len(bars) -> Targets] /\ Len(bars) \in Nat /\ done \in 0..Len(bars)
  BY DEF TypeOK, ValidInputs
<1>2. Bar = 1 \/ Bar - 1 \in 1..Len(bars)  BY <1>1 DEF Bar
<1>3. QED  BY <1>1, <1>2 DEF Target, Targets

\* Before the first bar nothing is held and the target is FLAT; after it the
\* balance of a run that goes on is not ruined.
LEMMA SolventWhileRunning ==
    ASSUME TypeOK, HeldInv, NothingAfterInsolvency, phase = "running", config.terminate, balance <= 0
    PROVE  position = NoPosition /\ Target = "FLAT"
<1>1. done = 0  BY DEF NothingAfterInsolvency, TypeOK
<1>2. position.side = "FLAT"  BY <1>1 DEF HeldInv
<1>3. position = NoPosition
  BY <1>2 DEF TypeOK, Position, Sides
<1>4. Target = "FLAT"  BY <1>1 DEF Target, Bar
<1>5. QED  BY <1>3, <1>4

LEMMA Step == IInv /\ Next => IInv'
<1> SUFFICES ASSUME IInv, Next PROVE IInv'  OBVIOUS
<1>1. TypeOK /\ RunInv /\ HeldInv /\ NothingAfterInsolvency /\ EveryRolloverIsChargedOnce
  BY DEF IInv
<1>2. /\ balance \in Int /\ realized \in Int /\ accruedSwap \in Int /\ position \in Position
      /\ Target \in Targets \/ phase # "running"
  <2>1. balance \in Int /\ realized \in Int /\ accruedSwap \in Int /\ position \in Position
    BY <1>1 DEF TypeOK
  <2>2. phase # "running" \/ Target \in Targets  BY <1>1, TargetType
  <2>3. QED  BY <2>1, <2>2
<1>3. NoPosition \in Position /\ NoPosition.side = "FLAT"  BY DEF Position, NoPosition
<1>4. ASSUME Running, position.side # "FLAT",
             NEW trade, trade = ClosedTrade(Bar, accruedSwap + SwapDue), Realize(trade)
      PROVE  /\ balance' \in Int /\ balance' = balance + trade.net
             /\ realized' \in Int /\ accruedSwap' = 0
             /\ trades' \in Seq(Trade) /\ Counted(trades')
  <2>1. Bar \in 1..Len(bars)
    BY <1>1, <1>4 DEF Running, RunInv, TypeOK, ValidInputs, Bar
  <2>2. accruedSwap + SwapDue \in Int
        /\ accruedSwap + SwapDue = SwapBetween(position.side, position.opened, Bar)
    BY <1>1, <1>2, <1>4, SwapDueIs DEF Running
  <2>3. QED  BY <1>4, <2>1, <2>2, RealizeKeeps
<1>5. CASE KeepPosition
  <2>1. SwapDue \in Int /\ accruedSwap' \in Int /\ accruedSwap' = accruedSwap + SwapDue
    BY <1>1, <1>2, <1>5, SwapDueIs DEF KeepPosition, Running
  <2>2. /\ MarkBar(balance, position, accruedSwap + SwapDue) /\ phase = "running"
        /\ UNCHANGED <<balance, realized, position, trades>>
    BY <1>5 DEF KeepPosition, Running
  <2>3. /\ ValidInputs' /\ UNCHANGED inputs
        /\ done' \in 0..Len(bars)' /\ done' = Bar /\ Bar \in 1..Len(bars)
        /\ phase' \in {"running", "closing", "done", "insolvent", "error"}
        /\ equity' \in Seq([value : Int, side : Targets])
        /\ RunInv' /\ NothingAfterInsolvency'
    <3>1. config.terminate /\ balance <= 0 => position = NoPosition /\ accruedSwap + SwapDue = 0
      <4>1. SUFFICES ASSUME config.terminate, balance <= 0
                     PROVE  position = NoPosition /\ accruedSwap + SwapDue = 0
        OBVIOUS
      <4>2. position = NoPosition  BY <1>1, <2>2, <4>1, SolventWhileRunning
      <4>3. accruedSwap = 0 /\ SwapDue = 0
        BY <1>1, <4>2 DEF EveryRolloverIsChargedOnce, SwapDue, NoPosition
      <4>4. QED  BY <4>2, <4>3
    <3>2. QED  BY <1>1, <1>2, <2>1, <2>2, <3>1, MarkBarKeeps
  <2>4. UNCHANGED <<bars, config>>  BY <2>3 DEF inputs
  <2>5. TypeOK'  BY <1>1, <1>2, <2>1, <2>2, <2>3 DEF TypeOK
  <2>6. HeldInv'
    <3>1. 1..done \subseteq 1..done'  BY <1>1, <2>3 DEF TypeOK, Bar
    <3>2. QED  BY <1>1, <2>2, <2>4, <3>1 DEF HeldInv
  <2>7. CostsAreCountedOnce' /\ EveryRolloverIsChargedOnce'
    <3>1. Counted(trades')  BY <2>2, CountedIs DEF IInv
    <3>2. position'.side # "FLAT" =>
             accruedSwap' = SwapBetween(position'.side, position'.opened, done')
      BY <1>1, <2>1, <2>2, <2>3, SwapDueIs
    <3>3. position'.side = "FLAT" => accruedSwap' = 0
      BY <1>1, <2>1, <2>2, SwapDueIs DEF EveryRolloverIsChargedOnce
    <3>4. QED  BY <2>4, <3>1, <3>2, <3>3, CountedNext
  <2>8. QED  BY <2>3, <2>5, <2>6, <2>7 DEF IInv
<1>6. CASE OpenPosition
  <2>1. /\ Target \in Sides /\ phase = "running" /\ position' = Entry(Target, Bar)
        /\ position.side = "FLAT" /\ UNCHANGED <<balance, realized, accruedSwap, trades>>
        /\ MarkBar(balance, position', accruedSwap)
    BY <1>2, <1>6 DEF OpenPosition, Running, Targets
  <2>2. Bar \in 1..Len(bars) /\ done' = Bar /\ UNCHANGED inputs /\ accruedSwap' = 0
    BY <1>1, <2>1 DEF MarkBar, RunInv, TypeOK, ValidInputs, Bar, EveryRolloverIsChargedOnce
  <2>3. /\ position' \in Position /\ position'.side # "FLAT" /\ HeldInv'
        /\ SwapBetween(position'.side, position'.opened, done') = 0
    BY <2>1, <2>2, EntryKeeps
  <2>4. /\ ValidInputs' /\ done' \in 0..Len(bars)'
        /\ phase' \in {"running", "closing", "done", "insolvent", "error"}
        /\ equity' \in Seq([value : Int, side : Targets])
        /\ RunInv' /\ NothingAfterInsolvency'
    <3>1. ~(config.terminate /\ balance <= 0)
      BY <1>1, <2>1, SolventWhileRunning DEF Sides
    <3>2. QED  BY <1>1, <1>2, <2>1, <2>3, <3>1, MarkBarKeeps
  <2>5. UNCHANGED <<bars, config>>  BY <2>2 DEF inputs
  <2>6. TypeOK'  BY <1>1, <1>2, <2>1, <2>3, <2>4 DEF TypeOK
  <2>7. CostsAreCountedOnce' /\ EveryRolloverIsChargedOnce'
    <3>1. Counted(trades')  BY <2>1, CountedIs DEF IInv
    <3>2. QED  BY <2>2, <2>3, <2>5, <3>1, CountedNext
  <2>8. QED  BY <2>3, <2>4, <2>6, <2>7 DEF IInv
<1>7. CASE ClosePosition
  <2>1. PICK trade : trade = ClosedTrade(Bar, accruedSwap + SwapDue)  OBVIOUS
  <2>2. /\ Running /\ phase = "running" /\ position.side # "FLAT" /\ Realize(trade)
        /\ position' = NoPosition /\ MarkBar(balance + trade.net, NoPosition, 0)
    BY <1>7, <2>1 DEF ClosePosition, Running
  <2>3. UNCHANGED <<bars, config>>  BY <2>2 DEF MarkBar, inputs
  <2>4. /\ balance' \in Int /\ balance' = balance + trade.net
        /\ realized' \in Int /\ accruedSwap' = 0
        /\ trades' \in Seq(Trade) /\ Counted(trades')
    BY <1>4, <2>1, <2>2
  <2>5. PICK cash \in Int : cash = balance + trade.net  BY <2>4
  <2>6. /\ ValidInputs' /\ done' \in 0..Len(bars)'
        /\ phase' \in {"running", "closing", "done", "insolvent", "error"}
        /\ equity' \in Seq([value : Int, side : Targets])
        /\ RunInv' /\ NothingAfterInsolvency'
    <3>1. PICK swap \in Int : swap = 0  OBVIOUS
    <3>2. MarkBar(cash, NoPosition, swap)  BY <2>2, <2>5, <3>1, Zenon
    <3>3. QED  BY <1>1, <1>3, <2>2, <2>4, <2>5, <3>1, <3>2, MarkBarKeeps
  <2>7. TypeOK'  BY <1>3, <2>2, <2>4, <2>6 DEF TypeOK
  <2>8. position'.side = "FLAT" /\ HeldInv'  BY <1>3, <2>2 DEF HeldInv
  <2>9. CostsAreCountedOnce' /\ EveryRolloverIsChargedOnce'
    BY <2>3, <2>4, <2>8, CountedNext
  <2>10. QED  BY <2>6, <2>7, <2>8, <2>9 DEF IInv
<1>8. CASE FlipPosition
  <2>1. PICK trade : trade = ClosedTrade(Bar, accruedSwap + SwapDue)  OBVIOUS
  <2>2. /\ Running /\ phase = "running" /\ position.side # "FLAT" /\ Realize(trade)
        /\ Target \in Sides
        /\ position' = Entry(Target, Bar) /\ MarkBar(balance + trade.net, position', 0)
        /\ ~(config.terminate /\ balance + trade.net <= 0)
    BY <1>8, <2>1 DEF FlipPosition, Running, Ruined
  <2>3. UNCHANGED inputs /\ done' = Bar /\ Bar \in 1..Len(bars)
    BY <1>1, <2>2 DEF MarkBar, RunInv, TypeOK, ValidInputs, Bar
  <2>4. /\ balance' \in Int /\ balance' = balance + trade.net
        /\ realized' \in Int /\ accruedSwap' = 0
        /\ trades' \in Seq(Trade) /\ Counted(trades')
    BY <1>4, <2>1, <2>2
  <2>5. /\ position' \in Position /\ position'.side # "FLAT" /\ HeldInv'
        /\ SwapBetween(position'.side, position'.opened, done') = 0
    BY <2>2, <2>3, EntryKeeps
  <2>6. PICK cash \in Int : cash = balance + trade.net  BY <2>4
  <2>7. /\ ValidInputs' /\ done' \in 0..Len(bars)'
        /\ phase' \in {"running", "closing", "done", "insolvent", "error"}
        /\ equity' \in Seq([value : Int, side : Targets])
        /\ RunInv' /\ NothingAfterInsolvency'
    <3>1. PICK swap \in Int : swap = 0  OBVIOUS
    <3>2. MarkBar(cash, position', swap)  BY <2>2, <2>6, <3>1, Zenon
    <3>3. QED  BY <1>1, <2>2, <2>4, <2>5, <2>6, <3>2, MarkBarKeeps
  <2>8. TypeOK'  BY <2>4, <2>5, <2>7 DEF TypeOK
  <2>9. CostsAreCountedOnce' /\ EveryRolloverIsChargedOnce'
    <3>1. UNCHANGED <<bars, config>>  BY <2>3 DEF inputs
    <3>2. QED  BY <2>4, <2>5, <3>1, CountedNext
  <2>10. QED  BY <2>5, <2>7, <2>8, <2>9 DEF IInv
<1>9. CASE Fail
  <2>1. /\ phase = "running" /\ phase' = "error" /\ UNCHANGED <<bars, signals, config, done, equity>>
        /\ UNCHANGED <<balance, realized, position, accruedSwap, trades>>
    BY <1>9 DEF Fail, inputs, account
  <2>2. TypeOK'  BY <1>1, <2>1 DEF TypeOK, ValidInputs
  <2>3. RunInv' /\ HeldInv'  BY <1>1, <2>1 DEF RunInv, HeldInv
  <2>4. NothingAfterInsolvency'  BY <1>1, <2>1 DEF NothingAfterInsolvency
  <2>5. CostsAreCountedOnce' /\ EveryRolloverIsChargedOnce'
    <3>1. Counted(trades')  BY <2>1, CountedIs DEF IInv
    <3>2. QED  BY <1>1, <2>1, <3>1, CountedNext DEF EveryRolloverIsChargedOnce
  <2>6. QED  BY <2>2, <2>3, <2>4, <2>5 DEF IInv
<1>10. CASE FinalClose
  <2>1. PICK trade : trade = ClosedTrade(Len(bars), accruedSwap)  OBVIOUS
  <2>2. /\ phase = "closing" /\ phase' = "done" /\ Realize(trade) /\ position' = NoPosition
        /\ equity' = [equity EXCEPT ![Len(equity)] =
                          [value |-> balance + trade.net, side |-> "FLAT"]]
        /\ UNCHANGED <<bars, signals, config, done>>
    BY <1>10, <2>1 DEF FinalClose, inputs
  <2>3. /\ Len(bars) \in 1..Len(bars) /\ done = Len(bars) /\ position.side # "FLAT"
        /\ Len(equity) = done
    BY <1>1, <2>2 DEF RunInv, TypeOK, ValidInputs
  <2>4. /\ balance' \in Int /\ balance' = balance + trade.net
        /\ realized' \in Int /\ accruedSwap' = 0
        /\ trades' \in Seq(Trade) /\ Counted(trades')
    BY <1>1, <1>2, <2>1, <2>2, <2>3, RealizeKeeps DEF EveryRolloverIsChargedOnce
  <2>5. equity' \in Seq([value : Int, side : Targets]) /\ Len(equity') = done'
    <3>1. PICK e : e = [value |-> balance + trade.net, side |-> "FLAT"]  OBVIOUS
    <3>2. e \in [value : Int, side : Targets]  BY <2>4, <3>1 DEF Targets
    <3>3. equity \in Seq([value : Int, side : Targets])  BY <1>1 DEF TypeOK
    <3>4. equity' = [equity EXCEPT ![Len(equity)] = e]  BY <2>2, <3>1
    <3>5. QED  BY <2>2, <2>3, <3>2, <3>3, <3>4
  <2>6. TypeOK'
    BY <1>1, <1>3, <2>2, <2>4, <2>5 DEF TypeOK, ValidInputs
  <2>7. RunInv' /\ HeldInv' /\ NothingAfterInsolvency' /\ position'.side = "FLAT"
    BY <1>3, <2>2, <2>5 DEF RunInv, HeldInv, NothingAfterInsolvency
  <2>8. CostsAreCountedOnce' /\ EveryRolloverIsChargedOnce'
    BY <2>2, <2>4, <2>7, CountedNext
  <2>9. QED  BY <2>6, <2>7, <2>8 DEF IInv
<1>11. QED  BY <1>5, <1>6, <1>7, <1>8, <1>9, <1>10 DEF Next

LEMMA Inductive == Spec => []IInv
<1>1. Init => IInv
  <2> SUFFICES ASSUME Init PROVE IInv  OBVIOUS
  <2>1. TypeOK
    BY ConstantTypes DEF Init, Start, TypeOK, ValidInputs, Position
  <2>2. RunInv /\ HeldInv /\ CostsAreCountedOnce /\ EveryRolloverIsChargedOnce
        /\ NothingAfterInsolvency
    BY DEF Init, Start, ValidInputs, RunInv, HeldInv, NoPosition, CostsAreCountedOnce,
           EveryRolloverIsChargedOnce, NothingAfterInsolvency
  <2>3. QED  BY <2>1, <2>2 DEF IInv
<1>2. IInv /\ UNCHANGED vars => IInv'
  <2> SUFFICES ASSUME IInv, UNCHANGED vars PROVE IInv'  OBVIOUS
  <2>1. UNCHANGED <<bars, signals, config, done, phase, equity>>
        /\ UNCHANGED <<balance, realized, position, accruedSwap, trades>>
    BY DEF vars, inputs, account
  <2>2. TypeOK' /\ RunInv' /\ HeldInv'
    BY <2>1 DEF IInv, TypeOK, ValidInputs, RunInv, HeldInv
  <2>3. NothingAfterInsolvency'  BY <2>1 DEF IInv, NothingAfterInsolvency
  <2>4. CostsAreCountedOnce' /\ EveryRolloverIsChargedOnce'
    <3>1. Counted(trades')  BY <2>1, CountedIs DEF IInv
    <3>2. QED  BY <2>1, <3>1, CountedNext DEF IInv, EveryRolloverIsChargedOnce
  <2>5. QED  BY <2>2, <2>3, <2>4 DEF IInv
<1>3. QED  BY <1>1, <1>2, Step, PTL DEF Spec

-----------------------------------------------------------------------------
(* The theorems. *)

\* The locals of a backtest are always well typed.
THEOREM FxTypeOK == Spec => []TypeOK
<1>1. IInv => TypeOK  BY DEF IInv
<1>2. QED  BY <1>1, Inductive, PTL

\* Every round trip pays one spread, two slippages and two commissions, at any
\* prices.
THEOREM FxCostsAreCountedOnce == Spec => []CostsAreCountedOnce
<1>1. IInv => CostsAreCountedOnce  BY DEF IInv
<1>2. QED  BY <1>1, Inductive, PTL

\* The swap accrued bar by bar is that of the rollovers between the open and the
\* close, each charged once, over any gaps and for any rollover times.
THEOREM FxEveryRolloverIsChargedOnce == Spec => []EveryRolloverIsChargedOnce
<1>1. IInv => EveryRolloverIsChargedOnce  BY DEF IInv
<1>2. QED  BY <1>1, Inductive, PTL

\* An equity point of the loop at or below zero is the last one, and a balance
\* that a close has ruined ends the run with nothing held.
THEOREM FxNothingAfterInsolvency == Spec => []NothingAfterInsolvency
<1>1. IInv => NothingAfterInsolvency  BY DEF IInv
<1>2. QED  BY <1>1, Inductive, PTL

-----------------------------------------------------------------------------
(* The cash book. *)

\* The cash book reads the same prices, charges and sizes.
LEMMA BookCosts ==
    /\ Book!Exposure = Exposure
    /\ \A bar : Book!OrderPrice(1, bar) = Ask(bar.open, bar) + Slippage * Point
    /\ \A bar : Book!OrderPrice(2, bar) = Ask(bar.open, bar) + Slippage * Point
    /\ \A bar : Book!OrderPrice(-1, bar) = bar.open - Slippage * Point
    /\ \A bar : Book!OrderPrice(-2, bar) = bar.open - Slippage * Point
    /\ \A side, from, to : Book!SwapCharge(side, from, to) = SwapCharge(side, from, to)
<1>1. Book!Exposure = Exposure  BY DEF Book!Exposure, Exposure
<1>2. \A bar, bid : Book!Ask(bid, bar) = Ask(bid, bar)
  BY DEF Book!Ask, Ask, Book!Spread, Spread, Book!NoSpread, NoSpread
<1>3. \A side, from, to : Book!SwapCharge(side, from, to) = SwapCharge(side, from, to)
  <2>1. \A from, to : Book!Crossings(from, to) = Crossings(from, to)
    BY DEF Book!Crossings, Crossings
  <2>2. \A t : Book!Weekday(t) = Weekday(t)
    BY DEF Book!Weekday, Weekday, Book!Day, Day
  <2>3. \A side : Book!SwapRate(side) = SwapRate(side)
    BY DEF Book!SwapRate, SwapRate
  <2>0. \A X : Book!Cardinality(X) = Cardinality(X)
    BY Zenon DEF Book!Cardinality, Cardinality
  <2>4. ASSUME NEW from, NEW to
        PROVE  {t \in Book!Crossings(from, to) : Book!Weekday(t) = TripleWeekday}
                  = {t \in Crossings(from, to) : Weekday(t) = TripleWeekday}
    BY <2>1, <2>2
  <2>5. ASSUME NEW side, NEW from, NEW to
        PROVE  Book!SwapCharge(side, from, to) = SwapCharge(side, from, to)
    <3>1. PICK S : S = {t \in Crossings(from, to) : Weekday(t) = TripleWeekday}  OBVIOUS
    <3>2. SwapCharge(side, from, to) =
             SwapRate(side) * (Cardinality(Crossings(from, to)) + 2 * Cardinality(S))
      BY <3>1, Zenon DEF SwapCharge
    <3>3. S = {t \in Book!Crossings(from, to) : Book!Weekday(t) = TripleWeekday}
      BY <2>4, <3>1
    <3>4. Book!SwapCharge(side, from, to) =
             Book!SwapRate(side) * (Cardinality(Book!Crossings(from, to)) + 2 * Cardinality(S))
      BY <2>0, <3>3, Zenon DEF Book!SwapCharge
    <3>5. QED  BY <2>1, <2>3, <3>2, <3>4, Zenon
  <2>6. QED  BY <2>5
<1>4. QED  BY <1>1, <1>2, <1>3 DEF Book!OrderPrice

\* A fill is an order of one unit in its direction.
LEMMA FillIsOrder ==
    ASSUME NEW bar
    PROVE  /\ FillPrice("LONG", TRUE, bar) = Ask(bar.open, bar) + Slippage * Point
           /\ FillPrice("SHORT", FALSE, bar) = Ask(bar.open, bar) + Slippage * Point
           /\ FillPrice("LONG", FALSE, bar) = bar.open - Slippage * Point
           /\ FillPrice("SHORT", TRUE, bar) = bar.open - Slippage * Point
BY DEF FillPrice, QuotedPrice, IsBuy

\* The side of the position is the sign of the holding.
LEMMA DirectionIs ==
    ASSUME TypeOK
    PROVE  /\ position.side = "FLAT" <=> Direction = 0
           /\ position.side = "LONG" <=> Direction = 1
           /\ position.side = "SHORT" <=> Direction = -1
BY PositionTypes DEF Direction, Targets, Sides

\* What the cash book charges for ending the holding, and the balance it makes.
LEMMA BookFees ==
    ASSUME IInv, position.side # "FLAT", NEW i \in 1..Len(bars)
    PROVE  Book!Fees(i) = 2 * Commission + SwapBetween(position.side, position.opened, i)
<1>1. position.side = (IF Direction > 0 THEN "LONG" ELSE "SHORT") /\ Direction # 0
  BY PositionTypes, DirectionIs DEF IInv, Sides
<1>2. QED  BY <1>1, BookCosts DEF Book!Fees, SwapBetween, Charged

LEMMA BookRealize ==
    ASSUME IInv, position.side # "FLAT", NEW i \in 1..Len(bars),
           NEW swap \in Int, swap = SwapBetween(position.side, position.opened, i),
           NEW trade, trade = ClosedTrade(i, swap)
    PROVE  /\ balance + trade.net =
                 (balance - Direction * Exposure * position.execution)
                 + Direction * Exposure * FillPrice(position.side, FALSE, bars[i]) - Book!Fees(i)
           /\ balance + trade.net \in Int
<1>1. TypeOK /\ HeldInv  BY DEF IInv
<1>2. PICK fill \in Int : fill = FillPrice(position.side, FALSE, bars[i])
  BY <1>1, BarTypes, PositionTypes, PriceTypes
<1>3. PICK entry \in Int : entry = position.execution  BY <1>1, PositionTypes
<1>4. PICK e \in Int : e = Exposure  BY ConstantTypes
<1>5. trade.net = GrossPnl(position.side, entry, fill) - 2 * Commission - swap
  <2>1. PICK t \in Trade :
           /\ t = ClosedTrade(i, swap)
           /\ t.net = GrossPnl(position.side, position.execution,
                               FillPrice(position.side, FALSE, bars[i]))
                         - 2 * Commission - swap
    BY <1>1, ClosedTradeIs
  <2>2. QED  BY <1>2, <1>3, <2>1
<1>6. GrossPnl(position.side, entry, fill) =
         IF position.side = "LONG" THEN fill * e - entry * e ELSE entry * e - fill * e
  BY <1>4, GrossPnlType
<1>7. PICK a, b \in Int : a = fill * e /\ b = entry * e  BY Products
<1>8. 1 * e * entry = b /\ 1 * e * fill = a /\ (-1) * e * entry = -b /\ (-1) * e * fill = -a
  BY <1>7
<1>9. balance \in Int /\ Commission \in Int  BY <1>1, ConstantTypes DEF TypeOK
<1>10. Book!Fees(i) = 2 * Commission + swap  BY BookFees
<1>11. PICK d \in Int : d = Direction /\ d * e * entry \in Int /\ d * e * fill \in Int
  BY <1>1, <1>4, DirectionIs, PositionTypes, Products DEF Targets, Sides
<1>12. balance + trade.net = (balance - d * e * entry) + d * e * fill - (2 * Commission + swap)
       /\ balance + trade.net \in Int
  <2>1. CASE position.side = "LONG"
    <3>1. d = 1 /\ trade.net = a - b - 2 * Commission - swap
      BY <1>1, <1>5, <1>6, <1>7, <1>11, <2>1, DirectionIs
    <3>2. QED  BY <1>7, <1>8, <1>9, <3>1
  <2>2. CASE position.side = "SHORT"
    <3>1. d = -1 /\ trade.net = b - a - 2 * Commission - swap
      BY <1>1, <1>5, <1>6, <1>7, <1>11, <2>2, DirectionIs
    <3>2. QED  BY <1>7, <1>8, <1>9, <3>1
  <2>3. QED  BY <1>1, <2>1, <2>2, PositionTypes DEF Sides
<1>13. QED  BY <1>2, <1>3, <1>4, <1>10, <1>11, <1>12

\* An order of the cash book that ends the holding and takes another one, or none.
LEMMA CashStep ==
    ASSUME IInv, Next, NEW i \in 1..Len(bars), UNCHANGED <<bars, config>>,
           position.side # "FLAT", NEW swap \in Int,
           swap = SwapBetween(position.side, position.opened, i),
           NEW trade, trade = ClosedTrade(i, swap), balance' = balance + trade.net,
           \/ position' = NoPosition
           \/ position'.side \in Sides \ {position.side} /\ position' = Entry(position'.side, i)
    PROVE  \E target \in -1..1 : Book!Order(target, i) /\ target = Direction'
<1>1. IInv'  BY Step
<1>2. TypeOK /\ TypeOK'  BY <1>1 DEF IInv
<1>3. /\ position.side = "FLAT" <=> Direction = 0
      /\ position.side = "LONG" <=> Direction = 1
      /\ position.side = "SHORT" <=> Direction = -1
  BY <1>2, DirectionIs
<1>4. /\ position'.side = "FLAT" => Direction' = 0
      /\ position'.side = "LONG" => Direction' = 1
      /\ position'.side = "SHORT" => Direction' = -1
  BY DEF Direction
<1>5. PICK e \in Int : e = Exposure  BY ConstantTypes
<1>6. bars[i] \in Bars  BY <1>2, BarTypes
<1>7. PICK out \in Int : out = FillPrice(position.side, FALSE, bars[i])
  BY <1>2, <1>6, PositionTypes, PriceTypes
<1>8. PICK in \in Int : in = position.execution  BY <1>2, PositionTypes
<1>9. PICK fees : fees = Book!Fees(i)  OBVIOUS
<1>10. balance + trade.net = (balance - Direction * e * in) + Direction * e * out - fees
       /\ balance + trade.net \in Int
  BY <1>5, <1>7, <1>8, <1>9, BookRealize
<1>11. PICK d : d = Direction  OBVIOUS
<1>12. PICK t : t = Direction'  OBVIOUS
<1>13. PICK price : price = Book!OrderPrice(t - d, bars[i])  OBVIOUS
<1>14. PICK q \in Int : q = e * out  BY <1>5, <1>7, Products
<1>15. /\ t * e * out = t * q /\ d \in {1, -1} /\ t \in {0, 1, -1} /\ t # d
       /\ d * e * out = d * q /\ (t - d) * e * out = (t - d) * q
       /\ price = out
       /\ t # 0 => position'.opened = i /\ position'.execution = out
  <2>1. CASE position.side = "LONG"
    <3>1. d = 1 /\ out = bars[i].open - Slippage * Point  BY <1>3, <1>7, <1>11, <2>1, FillIsOrder
    <3>2. t = 0 \/ (t = -1 /\ position' = Entry("SHORT", i))
      <4>1. CASE position' = NoPosition
        <5>1. position'.side = "FLAT"  BY <4>1 DEF NoPosition
        <5>2. QED  BY <1>4, <1>12, <5>1
      <4>2. CASE position'.side = "SHORT" /\ position' = Entry("SHORT", i)
        BY <1>4, <1>12, <4>2
      <4>3. QED  BY <2>1, <4>1, <4>2 DEF Sides
    <3>3. t # 0 => position'.opened = i /\ position'.execution = FillPrice("SHORT", TRUE, bars[i])
      <4>1. CASE position' = Entry("SHORT", i)
        BY <4>1, Zenon DEF Entry
      <4>2. QED  BY <3>2, <4>1
    <3>4. price = bars[i].open - Slippage * Point
      <4>1. t - d = -1 \/ t - d = -2  BY <3>1, <3>2
      <4>2. QED  BY <1>13, <4>1, BookCosts
    <3>5. price = out  BY <3>1, <3>4
    <3>6. d = 1 /\ t \in {0, -1}  BY <3>1, <3>2
    <3>7. t # 0 => position'.opened = i /\ position'.execution = out
      BY <3>1, <3>3, FillIsOrder
    <3>8. /\ t * e * out = t * q /\ d * e * out = d * q /\ (t - d) * e * out = (t - d) * q
          /\ d \in {1, -1} /\ t \in {0, 1, -1} /\ t # d
      BY <1>14, <3>6
    <3>9. QED  BY <3>5, <3>7, <3>8
  <2>2. CASE position.side = "SHORT"
    <3>1. d = -1 /\ out = Ask(bars[i].open, bars[i]) + Slippage * Point
      BY <1>3, <1>7, <1>11, <2>2, FillIsOrder
    <3>2. t = 0 \/ (t = 1 /\ position' = Entry("LONG", i))
      <4>1. CASE position' = NoPosition
        <5>1. position'.side = "FLAT"  BY <4>1 DEF NoPosition
        <5>2. QED  BY <1>4, <1>12, <5>1
      <4>2. CASE position'.side = "LONG" /\ position' = Entry("LONG", i)
        BY <1>4, <1>12, <4>2
      <4>3. QED  BY <2>2, <4>1, <4>2 DEF Sides
    <3>3. t # 0 => position'.opened = i /\ position'.execution = FillPrice("LONG", TRUE, bars[i])
      <4>1. CASE position' = Entry("LONG", i)
        BY <4>1, Zenon DEF Entry
      <4>2. QED  BY <3>2, <4>1
    <3>4. price = Ask(bars[i].open, bars[i]) + Slippage * Point
      <4>1. t - d = 1 \/ t - d = 2  BY <3>1, <3>2
      <4>2. QED  BY <1>13, <4>1, BookCosts
    <3>5. price = out  BY <3>1, <3>4
    <3>6. d = -1 /\ t \in {0, 1}  BY <3>1, <3>2
    <3>7. t # 0 => position'.opened = i /\ position'.execution = out
      BY <3>1, <3>3, FillIsOrder
    <3>8. /\ t * e * out = t * q /\ d * e * out = d * q /\ (t - d) * e * out = (t - d) * q
          /\ d \in {1, -1} /\ t \in {0, 1, -1} /\ t # d
      BY <1>14, <3>6
    <3>9. QED  BY <3>5, <3>7, <3>8
  <2>3. QED  BY <1>2, <2>1, <2>2, PositionTypes DEF Sides
<1>16. PICK paid : paid = balance - d * e * in  OBVIOUS
<1>17. (IF Direction = 0 THEN balance ELSE balance - Direction * Exposure * position.execution)
          = paid
  BY <1>3, <1>5, <1>8, <1>11, <1>16
<1>18. (IF Direction = 0 THEN balance ELSE balance - Direction * Exposure * position.execution)'
          = paid - (t - d) * Exposure * price - fees
  <2>1. paid \in Int /\ fees \in Int /\ balance \in Int
    <3>1. balance \in Int /\ d * e * in \in Int
      BY <1>2, <1>5, <1>8, <1>15, Products DEF TypeOK
    <3>2. fees = 2 * Commission + swap  BY <1>9, BookFees
    <3>3. QED  BY <1>16, <3>1, <3>2, ConstantTypes
  <2>2. balance' = paid + d * q - fees  BY <1>10, <1>11, <1>15, <1>16
  <2>3. (t - d) * Exposure * price = (t - d) * q  BY <1>5, <1>15
  <2>4. (IF Direction = 0 THEN balance ELSE balance - Direction * Exposure * position.execution)'
           = IF t = 0 THEN balance' ELSE balance' - t * q
    <3>1. Exposure' = Exposure  BY DEF Exposure
    <3>2. CASE t = 0  BY <1>12, <3>2
    <3>3. CASE t # 0
      <4>1. (IF Direction = 0 THEN balance ELSE balance - Direction * Exposure * position.execution)'
               = balance' - t * e * out
        BY <1>5, <1>12, <1>15, <3>1, <3>3
      <4>2. QED  BY <1>15, <3>3, <4>1
    <3>4. QED  BY <3>2, <3>3
  <2>5. QED  BY <1>14, <1>15, <2>1, <2>2, <2>3, <2>4
<1>19. (IF Direction = 0 THEN 0 ELSE position.opened)' = IF t = 0 THEN 0 ELSE i
  BY <1>12, <1>15
<1>20. t # Direction /\ Direction # 0  BY <1>11, <1>15
<1>21. Book!Order(t, i)
  BY <1>5, <1>9, <1>11, <1>12, <1>13, <1>17, <1>18, <1>19, <1>20, BookCosts DEF Book!Order
<1>22. QED  BY <1>12, <1>15, <1>21

\* An order of the cash book that takes a holding from flat.
LEMMA CashEntry ==
    ASSUME IInv, NEW i \in 1..Len(bars), UNCHANGED <<bars, config>>,
           position.side = "FLAT", NEW side \in Sides, position' = Entry(side, i),
           UNCHANGED balance
    PROVE  \E target \in -1..1 : Book!Order(target, i)
<1>1. TypeOK  BY DEF IInv
<1>2. Direction = 0  BY <1>1, DirectionIs
<1>3. PICK t \in {1, -1} : t = IF side = "LONG" THEN 1 ELSE -1  OBVIOUS
<1>4. position'.side = side /\ position'.opened = i
      /\ position'.execution = FillPrice(side, TRUE, bars[i])
  BY Zenon DEF Entry
<1>5. Direction' = t  BY <1>3, <1>4 DEF Direction, Sides
<1>6. t = t - 0  OBVIOUS
<1>7. PICK price : price = Book!OrderPrice(t - 0, bars[i])  OBVIOUS
<1>8. position'.execution = price
  <2>1. CASE side = "LONG"
    BY <1>3, <1>4, <1>6, <1>7, <2>1, FillIsOrder, BookCosts
  <2>2. CASE side = "SHORT"
    BY <1>3, <1>4, <1>6, <1>7, <2>2, FillIsOrder, BookCosts
  <2>3. QED  BY <2>1, <2>2 DEF Sides
<1>9. PICK e \in Int : e = Exposure  BY ConstantTypes
<1>10. Exposure' = Exposure  BY DEF Exposure
<1>11. (IF Direction = 0 THEN balance ELSE balance - Direction * Exposure * position.execution)
          = balance
  BY <1>2
<1>12. (IF Direction = 0 THEN balance ELSE balance - Direction * Exposure * position.execution)'
          = balance - t * e * price
  BY <1>3, <1>5, <1>8, <1>9, <1>10
<1>13. balance - t * e * price = balance - (t - 0) * e * price - 0
  <2>1. FillPrice(side, TRUE, bars[i]) \in Int  BY <1>1, BarTypes, PriceTypes DEF Sides
  <2>2. price \in Int /\ balance \in Int  BY <1>1, <1>4, <1>8, <2>1 DEF TypeOK
  <2>3. t * e * price \in Int  BY <1>9, <2>2, Products
  <2>4. QED  BY <1>6, <2>2, <2>3
<1>14. (IF Direction = 0 THEN 0 ELSE position.opened)' = IF t = 0 THEN 0 ELSE i
  BY <1>3, <1>4, <1>5
<1>15. Book!Order(t, i)
  BY <1>2, <1>3, <1>5, <1>7, <1>9, <1>11, <1>12, <1>13, <1>14, BookCosts DEF Book!Order
<1>16. QED  BY <1>3, <1>15

\* Every turn of the loop is a step of the cash book, or a stutter.
LEMMA BookStep == IInv /\ Next => [Book!Next]_(Book!vars)
<1> SUFFICES ASSUME IInv, Next PROVE [Book!Next]_(Book!vars)  OBVIOUS
<1>1. TypeOK /\ RunInv /\ HeldInv /\ EveryRolloverIsChargedOnce /\ Len(bars) \in Nat /\ done \in Nat
  BY DEF IInv, TypeOK, ValidInputs
<1>2. ASSUME Running
      PROVE  Bar \in 1..Len(bars) /\ done < Len(bars) /\ Bar = done + 1
  BY <1>1, <1>2 DEF Running, RunInv, TypeOK, ValidInputs, Bar
<1>3. ASSUME Running, position.side # "FLAT"
      PROVE  /\ accruedSwap + SwapDue \in Int
             /\ accruedSwap + SwapDue = SwapBetween(position.side, position.opened, Bar)
  <2>1. phase = "running" /\ accruedSwap \in Int  BY <1>1, <1>3 DEF Running, TypeOK
  <2>2. QED  BY <1>1, <1>3, <2>1, SwapDueIs
<1>4. CASE KeepPosition
  <2>1. /\ done' = done + 1 /\ done < Len(bars)
        /\ UNCHANGED <<bars, config, balance, position>>
    BY <1>2, <1>4 DEF KeepPosition, MarkBar, inputs, Bar
  <2>2. UNCHANGED <<Direction, Exposure>>  BY <2>1 DEF Direction, Exposure
  <2>3. Book!Stay  BY <2>1, <2>2 DEF Book!Stay
  <2>4. QED  BY <2>3 DEF Book!Next
<1>5. CASE OpenPosition
  <2>1. /\ done' = done + 1 /\ done < Len(bars) /\ UNCHANGED <<bars, config, balance>>
        /\ position.side = "FLAT" /\ Target \in Sides /\ position' = Entry(Target, Bar)
        /\ Bar \in 1..Len(bars)
    <3>1. Running  BY <1>5 DEF OpenPosition
    <3>2. Target \in Targets  BY <1>1, <3>1, TargetType DEF Running
    <3>3. QED  BY <1>2, <1>5, <3>1, <3>2 DEF OpenPosition, MarkBar, inputs, Bar, Targets
  <2>2. \E target \in -1..1 : Book!Order(target, Bar)  BY <2>1, CashEntry
  <2>3. Book!TradeAtOpen  BY <2>1, <2>2 DEF Book!TradeAtOpen, Bar
  <2>4. QED  BY <2>3 DEF Book!Next
<1>6. ASSUME Running, position.side # "FLAT", UNCHANGED inputs, done' = Bar,
             NEW trade, trade = ClosedTrade(Bar, accruedSwap + SwapDue), Realize(trade),
             \/ position' = NoPosition
             \/ position'.side \in Sides \ {position.side} /\ position' = Entry(position'.side, Bar)
      PROVE  Book!Next
  <2>1. /\ done' = done + 1 /\ done < Len(bars) /\ Bar \in 1..Len(bars)
        /\ UNCHANGED <<bars, config>> /\ balance' = balance + trade.net
    BY <1>2, <1>6 DEF inputs, Realize
  <2>2. PICK swap \in Int :
           swap = accruedSwap + SwapDue /\ swap = SwapBetween(position.side, position.opened, Bar)
    BY <1>3, <1>6
  <2>3. trade = ClosedTrade(Bar, swap)  BY <1>6, <2>2
  <2>4. \E target \in -1..1 : Book!Order(target, Bar)
    BY <1>6, <2>1, <2>2, <2>3, CashStep
  <2>5. Book!TradeAtOpen  BY <2>1, <2>4 DEF Book!TradeAtOpen, Bar
  <2>6. QED  BY <2>5 DEF Book!Next
<1>7. CASE ClosePosition
  <2>1. PICK trade : trade = ClosedTrade(Bar, accruedSwap + SwapDue)  OBVIOUS
  <2>2. /\ Running /\ position.side # "FLAT" /\ UNCHANGED inputs /\ done' = Bar
        /\ Realize(trade) /\ position' = NoPosition
    BY <1>7, <2>1 DEF ClosePosition, MarkBar
  <2>3. QED  BY <1>6, <2>1, <2>2
<1>8. CASE FlipPosition
  <2>1. PICK trade : trade = ClosedTrade(Bar, accruedSwap + SwapDue)  OBVIOUS
  <2>2. /\ Running /\ position.side # "FLAT" /\ UNCHANGED inputs /\ done' = Bar
        /\ Realize(trade) /\ Target \in Sides \ {position.side} /\ position' = Entry(Target, Bar)
    BY <1>8, <2>1 DEF FlipPosition, MarkBar
  <2>3. position'.side = Target  BY <2>2, Zenon DEF Entry
  <2>4. QED  BY <1>6, <2>1, <2>2, <2>3
<1>9. CASE Fail
  <2>1. UNCHANGED <<bars, config, done, balance, position>>
    BY <1>9 DEF Fail, inputs, account
  <2>2. UNCHANGED <<Direction, Exposure>>  BY <2>1 DEF Direction, Exposure
  <2>3. QED  BY <2>1, <2>2 DEF Book!vars
<1>10. CASE FinalClose
  <2>1. PICK trade : trade = ClosedTrade(Len(bars), accruedSwap)  OBVIOUS
  <2>2. /\ phase = "closing" /\ Realize(trade) /\ position' = NoPosition
        /\ UNCHANGED <<bars, config, done>>
    BY <1>10, <2>1 DEF FinalClose, inputs
  <2>3. /\ Len(bars) \in 1..Len(bars) /\ done = Len(bars) /\ position.side # "FLAT"
        /\ balance' = balance + trade.net
    BY <1>1, <2>2 DEF RunInv, TypeOK, ValidInputs, Realize
  <2>4. PICK swap \in Int :
           swap = accruedSwap /\ swap = SwapBetween(position.side, position.opened, Len(bars))
    BY <1>1, <2>3 DEF EveryRolloverIsChargedOnce, TypeOK
  <2>5. trade = ClosedTrade(Len(bars), swap)  BY <2>1, <2>4
  <2>6. \E target \in -1..1 : Book!Order(target, Len(bars)) /\ target = Direction'
    BY <2>2, <2>3, <2>4, <2>5, CashStep
  <2>7. Direction' = 0  BY <2>2 DEF Direction, NoPosition
  <2>8. Book!Order(0, done)  BY <2>3, <2>6, <2>7
  <2>9. Book!Liquidate  BY <2>2, <2>3, <2>8 DEF Book!Liquidate
  <2>10. QED  BY <2>9 DEF Book!Next
<1>11. QED  BY <1>4, <1>5, <1>7, <1>8, <1>9, <1>10 DEF Next

\* The backtest implements the cash book: what it books as gross P&L, spread,
\* slippage, commission and accrued swap is the money that netted orders at the
\* open of the bars, the commissions and the rollovers come to.
THEOREM FxIsCashBook == Spec => CashBookRefined
<1>1. Init => Book!Init
  BY DEF Init, Start, NoPosition, Direction, Book!Init
<1>2. UNCHANGED vars => UNCHANGED Book!vars
  <2> SUFFICES ASSUME UNCHANGED vars PROVE UNCHANGED Book!vars  OBVIOUS
  <2>1. UNCHANGED <<bars, config, done, balance, position>>
    BY DEF vars, inputs, account
  <2>2. UNCHANGED <<Direction, Exposure>>  BY <2>1 DEF Direction, Exposure
  <2>3. QED  BY <2>1, <2>2 DEF Book!vars
<1>3. IInv /\ [Next]_vars => [Book!Next]_(Book!vars)
  BY <1>2, BookStep
<1>4. QED  BY <1>1, <1>3, Inductive, PTL DEF Spec, CashBookRefined, Book!Spec

-----------------------------------------------------------------------------
(* Sums.  A fold is a recursive function, and to reason about one is to do    *)
(* induction: here as a fact about sets of numbers.                           *)

\* Every set of numbers has a least one.
LEMMA LeastNumber ==
    ASSUME NEW T, T \subseteq Nat, T # {}
    PROVE  \E x \in T : \A y \in T : x <= y
<1>1. PICK R : R = OpToRel(<, Nat)  OBVIOUS
<1>2. IsWellFoundedOn(R, Nat)  BY <1>1, NatLessThanWellFounded
<1>3. \A x, y \in Nat : x < y => <<x, y>> \in R  BY <1>1 DEF OpToRel
<1>4. PICK x \in T : \A y \in T : ~ (<<y, x>> \in R)  BY <1>2, WFMin
<1>5. \A y \in T : x <= y
  <2>1. SUFFICES ASSUME NEW y \in T, ~ (x <= y)  PROVE FALSE  OBVIOUS
  <2>2. y < x  BY <2>1
  <2>3. QED  BY <1>3, <1>4, <2>2
<1>6. QED  BY <1>5

\* Induction, as a fact about sets.
LEMMA SetInduction ==
    ASSUME NEW S, 0 \in S, \A n \in Nat : n \in S => n + 1 \in S
    PROVE  Nat \subseteq S
<1>1. SUFFICES ASSUME Nat \ S # {}  PROVE FALSE  OBVIOUS
<1>2. PICK x \in Nat \ S : \A y \in Nat \ S : x <= y
  <2>1. Nat \ S \subseteq Nat  OBVIOUS
  <2>2. QED  BY <1>1, <2>1, LeastNumber
<1>3. x - 1 \in Nat  BY <1>2
<1>4. x - 1 \in S  BY <1>2, <1>3
<1>5. QED  BY <1>2, <1>3, <1>4

\* g adds up what f gives to the elements of a set, one by one.
Adds(g, f, S) ==
    g = [s \in SUBSET S |-> IF s = {} THEN 0
                            ELSE g[s \ {CHOOSE x \in s : TRUE}] + f[CHOOSE x \in s : TRUE]]
Some(s) == CHOOSE x \in s : TRUE

LEMMA SomeIn == ASSUME NEW s, s # {} PROVE Some(s) \in s
BY DEF Some

LEMMA AddsStep ==
    ASSUME NEW S, NEW f, NEW g, Adds(g, f, S)
    PROVE  /\ g[{}] = 0
           /\ \A s \in SUBSET S : s # {} => g[s] = g[s \ {Some(s)}] + f[Some(s)]
<1>1. \A s \in SUBSET S : g[s] = IF s = {} THEN 0 ELSE g[s \ {Some(s)}] + f[Some(s)]
  <2>1. g = [s \in SUBSET S |-> IF s = {} THEN 0 ELSE g[s \ {Some(s)}] + f[Some(s)]]
    BY DEF Adds, Some
  <2>2. PICK h : h = g  OBVIOUS
  <2>3. g = [s \in SUBSET S |-> IF s = {} THEN 0 ELSE h[s \ {Some(s)}] + f[Some(s)]]
    BY <2>1, <2>2
  <2>4. QED  BY <2>2, <2>3
<1>2. {} \in SUBSET S  OBVIOUS
<1>3. QED  BY <1>1, <1>2

LEMMA SmallerSet ==
    ASSUME NEW S, IsFiniteSet(S), NEW s \in SUBSET S, NEW x \in s
    PROVE  /\ s \ {x} \in SUBSET S
           /\ Cardinality(s) \in Nat /\ Cardinality(s \ {x}) = Cardinality(s) - 1
           /\ Cardinality(s \ {x}) \in Nat
BY FS_Subset, FS_RemoveElement, FS_CardinalityType

\* Such a function exists.
LEMMA AddsExists ==
    ASSUME NEW S, IsFiniteSet(S), NEW f \in [S -> Int]
    PROVE  \E g : Adds(g, f, S)
<1> DEFINE Upto(n) == {s \in SUBSET S : Cardinality(s) <= n}
           Partial(g, n) ==
               \A s \in Upto(n) :
                   g[s] = IF s = {} THEN 0 ELSE g[s \ {Some(s)}] + f[Some(s)]
           N == {n \in Nat : \E g : Partial(g, n)}
<1>1. 0 \in N
  <2>1. \A s \in Upto(0) : s = {}
    <3>1. SUFFICES ASSUME NEW s \in SUBSET S, Cardinality(s) <= 0  PROVE s = {}  OBVIOUS
    <3>2. IsFiniteSet(s) /\ Cardinality(s) \in Nat  BY FS_Subset, FS_CardinalityType
    <3>3. QED  BY <3>1, <3>2, FS_EmptySet
  <2>2. Partial([s \in SUBSET S |-> 0], 0)  BY <2>1
  <2>3. QED  BY <2>2
<1>2. ASSUME NEW n \in Nat, n \in N  PROVE n + 1 \in N
  <2>1. PICK g : Partial(g, n)  BY <1>2
  <2>2. PICK h : h = [s \in SUBSET S |-> IF s = {} THEN 0 ELSE g[s \ {Some(s)}] + f[Some(s)]]  OBVIOUS
  <2>3. \A s \in Upto(n) : h[s] = g[s]  BY <2>1, <2>2
  <2>4. ASSUME NEW s \in Upto(n + 1), s # {}
        PROVE  s \ {Some(s)} \in Upto(n)
    BY <2>4, SomeIn, SmallerSet
  <2>5. Partial(h, n + 1)
    <3>1. SUFFICES ASSUME NEW s \in Upto(n + 1)
                   PROVE  h[s] = IF s = {} THEN 0 ELSE h[s \ {Some(s)}] + f[Some(s)]
      OBVIOUS
    <3>2. CASE s = {}  BY <3>2, <2>2
    <3>3. CASE s # {}
      <4>1. h[s \ {Some(s)}] = g[s \ {Some(s)}]  BY <3>3, <2>3, <2>4
      <4>2. h[s] = g[s \ {Some(s)}] + f[Some(s)]  BY <3>3, <2>2
      <4>3. QED  BY <3>3, <4>1, <4>2
    <3>4. QED  BY <3>2, <3>3
  <2>6. \E k : Partial(k, n + 1)
    <3> HIDE DEF Partial
    <3>1. QED  BY <2>5
  <2>7. n + 1 \in Nat  OBVIOUS
  <2>8. QED
    <3> HIDE DEF Partial
    <3>1. QED  BY <2>6, <2>7
<1>3. Cardinality(S) \in N
  <2>1. Nat \subseteq N  BY <1>1, <1>2, SetInduction
  <2>2. QED  BY <2>1, FS_CardinalityType
<1>4. PICK g : Partial(g, Cardinality(S))  BY <1>3
<1>5. \A s \in SUBSET S : s \in Upto(Cardinality(S))
  BY FS_Subset
<1>6. PICK h : h = [s \in SUBSET S |-> g[s]]  OBVIOUS
<1>7. \A s \in SUBSET S : h[s] = IF s = {} THEN 0 ELSE h[s \ {Some(s)}] + f[Some(s)]
  <2>1. SUFFICES ASSUME NEW s \in SUBSET S
                 PROVE  h[s] = IF s = {} THEN 0 ELSE h[s \ {Some(s)}] + f[Some(s)]
    OBVIOUS
  <2>2. g[s] = IF s = {} THEN 0 ELSE g[s \ {Some(s)}] + f[Some(s)]  BY <1>4, <1>5
  <2>3. s \ {Some(s)} \in SUBSET S  OBVIOUS
  <2>4. QED  BY <1>6, <2>2, <2>3
<1>8. h = [s \in SUBSET S |-> IF s = {} THEN 0 ELSE h[s \ {Some(s)}] + f[Some(s)]]
  BY <1>6, <1>7
<1>9. QED  BY <1>8 DEF Adds, Some

\* The order does not matter: any element may come off first.
AnyOrder(g, f, S) ==
    /\ g[{}] = 0
    /\ \A s \in SUBSET S : g[s] \in Int
    /\ \A s \in SUBSET S : \A x \in s : g[s] = f[x] + g[s \ {x}]

LEMMA AddsAnyOrder ==
    ASSUME NEW S, IsFiniteSet(S), NEW f \in [S -> Int], NEW g, Adds(g, f, S)
    PROVE  AnyOrder(g, f, S)
<1>1. /\ g[{}] = 0
      /\ \A s \in SUBSET S : s # {} => g[s] = g[s \ {Some(s)}] + f[Some(s)]
  BY AddsStep
<1> DEFINE N == {n \in Nat : \A s \in SUBSET S : Cardinality(s) <= n =>
                    g[s] \in Int /\ \A x \in s : g[s] = f[x] + g[s \ {x}]}
<1>2. 0 \in N
  <2>1. SUFFICES ASSUME NEW s \in SUBSET S, Cardinality(s) <= 0
                 PROVE  g[s] \in Int /\ \A x \in s : g[s] = f[x] + g[s \ {x}]
    OBVIOUS
  <2>2. IsFiniteSet(s) /\ Cardinality(s) \in Nat  BY FS_Subset, FS_CardinalityType
  <2>3. s = {}  BY <2>1, <2>2, FS_EmptySet
  <2>4. QED  BY <1>1, <2>3
<1>3. ASSUME NEW n \in Nat, n \in N  PROVE n + 1 \in N
  <2>1. SUFFICES ASSUME NEW s \in SUBSET S, Cardinality(s) <= n + 1
                 PROVE  g[s] \in Int /\ \A x \in s : g[s] = f[x] + g[s \ {x}]
    BY <1>3
  <2>2. ASSUME NEW t \in SUBSET S, NEW x \in t, Cardinality(t) <= n + 1
        PROVE  /\ t \ {x} \in SUBSET S /\ g[t \ {x}] \in Int
               /\ \A y \in t \ {x} : g[t \ {x}] = f[y] + g[(t \ {x}) \ {y}]
    <3>1. t \ {x} \in SUBSET S /\ Cardinality(t \ {x}) <= n  BY <2>2, SmallerSet
    <3>2. QED  BY <1>3, <3>1
  <2>3. CASE s = {}  BY <2>3, <1>1
  <2>4. CASE s # {}
    <3>1. PICK c \in s : c = Some(s)  BY <2>4, SomeIn
    <3>3. g[s \ {c}] \in Int /\ f[c] \in Int  BY <2>1, <2>2
    <3>2. g[s] = f[c] + g[s \ {c}]
      <4>1. g[s] = g[s \ {c}] + f[c]  BY <2>1, <2>4, <3>1, <1>1
      <4>2. QED  BY <3>3, <4>1
    <3>4. ASSUME NEW x \in s, x # c  PROVE g[s] = f[x] + g[s \ {x}]
      <4>1. g[s \ {c}] = f[x] + g[(s \ {c}) \ {x}]  BY <2>1, <2>2, <3>4
      <4>2. g[s \ {x}] = f[c] + g[(s \ {x}) \ {c}]
        <5>1. c \in s \ {x}  BY <3>4
        <5>2. \A y \in s \ {x} : g[s \ {x}] = f[y] + g[(s \ {x}) \ {y}]  BY <2>1, <2>2
        <5>3. QED  BY <5>1, <5>2, Zenon
      <4>3. (s \ {c}) \ {x} = (s \ {x}) \ {c}  OBVIOUS
      <4>4. g[(s \ {c}) \ {x}] \in Int
        <5>1. s \ {c} \in SUBSET S /\ Cardinality(s \ {c}) <= n + 1  BY <2>1, SmallerSet
        <5>2. x \in s \ {c}  BY <3>4
        <5>3. QED  BY <2>2, <5>1, <5>2
      <4>5. f[x] \in Int /\ f[c] \in Int  OBVIOUS
      <4>6. g[s] = f[c] + (f[x] + g[(s \ {c}) \ {x}])  BY <3>2, <4>1
      <4>7. g[s \ {x}] = f[c] + g[(s \ {c}) \ {x}]  BY <4>2, <4>3
      <4>8. QED  BY <4>4, <4>5, <4>6, <4>7
    <3>5. g[s] \in Int  BY <3>2, <3>3
    <3>6. ASSUME NEW x \in s  PROVE g[s] = f[x] + g[s \ {x}]
      <4>1. CASE x = c  BY <4>1, <3>2
      <4>2. CASE x # c  BY <4>2, <3>4
      <4>3. QED  BY <4>1, <4>2
    <3>7. QED  BY <3>5, <3>6
  <2>5. QED  BY <2>3, <2>4
<1>4. \A s \in SUBSET S : Cardinality(s) \in N
  <2>1. Nat \subseteq N  BY <1>2, <1>3, SetInduction
  <2>2. QED  BY <2>1, FS_Subset, FS_CardinalityType
<1>5. \A s \in SUBSET S : Cardinality(s) <= Cardinality(s)
  BY FS_Subset, FS_CardinalityType
<1>6. QED  BY <1>1, <1>4, <1>5 DEF AnyOrder

\* The sum does not depend on what else there is to add.
LEMMA AddsAgree ==
    ASSUME NEW S, NEW T, IsFiniteSet(T), S \subseteq T, NEW f \in [S -> Int], NEW e \in [T -> Int],
           \A x \in S : e[x] = f[x], NEW g, NEW h, Adds(g, f, S), Adds(h, e, T)
    PROVE  g[S] = h[S]
<1>1. IsFiniteSet(S)  BY FS_Subset
<1>2. /\ g[{}] = 0 /\ h[{}] = 0
      /\ \A s \in SUBSET S : s # {} => g[s] = g[s \ {Some(s)}] + f[Some(s)]
      /\ \A s \in SUBSET T : s # {} => h[s] = h[s \ {Some(s)}] + e[Some(s)]
  <2>1. g[{}] = 0 /\ \A s \in SUBSET S : s # {} => g[s] = g[s \ {Some(s)}] + f[Some(s)]
    BY AddsStep
  <2>2. h[{}] = 0 /\ \A s \in SUBSET T : s # {} => h[s] = h[s \ {Some(s)}] + e[Some(s)]
    BY AddsStep
  <2>3. QED  BY <2>1, <2>2
<1> DEFINE N == {n \in Nat : \A s \in SUBSET S : Cardinality(s) <= n => g[s] = h[s]}
<1>3. 0 \in N
  <2>1. SUFFICES ASSUME NEW s \in SUBSET S, Cardinality(s) <= 0  PROVE g[s] = h[s]  OBVIOUS
  <2>2. IsFiniteSet(s) /\ Cardinality(s) \in Nat  BY <1>1, FS_Subset, FS_CardinalityType
  <2>3. s = {}  BY <2>1, <2>2, FS_EmptySet
  <2>4. QED  BY <1>2, <2>3
<1>4. ASSUME NEW n \in Nat, n \in N  PROVE n + 1 \in N
  <2>1. SUFFICES ASSUME NEW s \in SUBSET S, Cardinality(s) <= n + 1  PROVE g[s] = h[s]
    BY <1>4
  <2>2. CASE s = {}  BY <2>2, <1>2
  <2>3. CASE s # {}
    <3>1. PICK c \in s : c = Some(s)  BY <2>3, SomeIn
    <3>2. g[s] = g[s \ {c}] + f[c] /\ h[s] = h[s \ {c}] + e[c]
      <4>1. s \in SUBSET T  OBVIOUS
      <4>2. g[s] = g[s \ {c}] + f[c]  BY <1>2, <2>3, <3>1
      <4>3. h[s] = h[s \ {c}] + e[c]  BY <1>2, <2>3, <3>1, <4>1
      <4>4. QED  BY <4>2, <4>3
    <3>3. s \ {c} \in SUBSET S /\ Cardinality(s \ {c}) <= n  BY <1>1, <2>1, SmallerSet
    <3>4. g[s \ {c}] = h[s \ {c}]  BY <1>4, <3>3
    <3>5. QED  BY <3>2, <3>4
  <2>4. QED  BY <2>2, <2>3
<1>5. Cardinality(S) \in N
  <2>1. Nat \subseteq N  BY <1>3, <1>4, SetInduction
  <2>2. QED  BY <1>1, <2>1, FS_CardinalityType
<1>6. Cardinality(S) <= Cardinality(S)  BY <1>1, FS_CardinalityType
<1>7. QED  BY <1>5, <1>6

\* The fold over closed trades adds up their net results.
LEMMA NetIs ==
    ASSUME NEW n \in Nat, NEW ts, DOMAIN ts = 1..n, \A i \in 1..n : ts[i].net \in Int
    PROVE \E g : /\ Adds(g, [i \in 1..n |-> ts[i].net], 1..n)
                 /\ Net(ts) = g[1..n]
<1>1. PICK f : f = [i \in 1..n |-> ts[i].net]  OBVIOUS
<1>2. f \in [1..n -> Int] BY <1>1
<1>3. PICK g : g = CHOOSE r : r = [s \in SUBSET (1..n) |->
                       IF s = {} THEN 0
                       ELSE r[s \ {CHOOSE x \in s : TRUE}] + ts[CHOOSE x \in s : TRUE].net]
  OBVIOUS
<1>4. Net(ts) = g[1..n]
  BY <1>3 DEF Net, FoldSeq, FoldFunction, FoldFunctionOnSet, MapThenFoldSet
<1>5. \A h : (h = [s \in SUBSET (1..n) |->
                      IF s = {} THEN 0
                      ELSE h[s \ {CHOOSE x \in s : TRUE}] + ts[CHOOSE x \in s : TRUE].net])
             <=> Adds(h, f, 1..n)
  <2>1. \A s \in SUBSET (1..n) : s # {} => f[CHOOSE x \in s : TRUE] = ts[CHOOSE x \in s : TRUE].net
    <3>1. \A s \in SUBSET (1..n) : s # {} => f[Some(s)] = ts[Some(s)].net  BY <1>1, SomeIn
    <3>2. QED  BY <3>1 DEF Some
  <2>2. QED  BY <2>1 DEF Adds
<1>6. PICK h : Adds(h, f, 1..n)
  <2>1. IsFiniteSet(1..n)  BY FS_Interval
  <2>2. QED  BY <1>2, <2>1, AddsExists
<1>7. Adds(g, f, 1..n)
  <2> DEFINE P(r) == r = [s \in SUBSET (1..n) |->
                             IF s = {} THEN 0
                             ELSE r[s \ {CHOOSE x \in s : TRUE}] + ts[CHOOSE x \in s : TRUE].net]
  <2>1. P(h)  BY <1>5, <1>6
  <2>2. g = CHOOSE r : P(r)  BY <1>3
  <2>3. P(g)
    <3> HIDE DEF P
    <3>1. QED  BY <2>1, <2>2
  <2>4. QED  BY <1>5, <2>3
<1>8. QED  BY <1>1, <1>4, <1>7

\* A new trade adds its net result.
LEMMA NetOfAppend ==
    ASSUME NEW n \in Nat, NEW ts, DOMAIN ts = 1..n, \A i \in 1..n : ts[i].net \in Int,
           NEW more, DOMAIN more = 1..(n + 1), \A i \in 1..n : more[i] = ts[i],
           more[n + 1].net \in Int
    PROVE  Net(more) = Net(ts) + more[n + 1].net /\ Net(ts) \in Int
<1>1. PICK f, e : f = [i \in 1..n |-> ts[i].net] /\ e = [i \in 1..(n + 1) |-> more[i].net]  OBVIOUS
<1>2. f \in [1..n -> Int] /\ e \in [1..(n + 1) -> Int]  BY <1>1
<1>3. PICK g : Adds(g, f, 1..n) /\ Net(ts) = g[1..n]  BY <1>1, NetIs
<1>4. PICK h : Adds(h, e, 1..(n + 1)) /\ Net(more) = h[1..(n + 1)]
  <2>1. \A i \in 1..(n + 1) : more[i].net \in Int
    <3>1. SUFFICES ASSUME NEW i \in 1..(n + 1)  PROVE more[i].net \in Int  OBVIOUS
    <3>2. i = n + 1 \/ i \in 1..n  OBVIOUS
    <3>3. QED  BY <3>2
  <2>2. PICK m \in Nat : m = n + 1  OBVIOUS
  <2>3. \E k : Adds(k, [i \in 1..m |-> more[i].net], 1..m) /\ Net(more) = k[1..m]
    BY <2>1, <2>2, NetIs
  <2>4. QED  BY <1>1, <2>2, <2>3
<1>5. IsFiniteSet(1..n) /\ IsFiniteSet(1..(n + 1))  BY FS_Interval
<1>6. h[1..(n + 1)] = e[n + 1] + h[1..n]
  <2>1. n + 1 \in 1..(n + 1) /\ (1..(n + 1)) \ {n + 1} = 1..n  OBVIOUS
  <2>2. \A s \in SUBSET (1..(n + 1)) : \A x \in s : h[s] = e[x] + h[s \ {x}]
    <3>1. AnyOrder(h, e, 1..(n + 1))  BY <1>2, <1>4, <1>5, AddsAnyOrder
    <3>2. QED  BY <3>1 DEF AnyOrder
  <2>3. QED  BY <2>1, <2>2
<1>7. h[1..n] = g[1..n]
  <2>1. PICK r : Adds(r, e, 1..(n + 1)) /\ r = h  BY <1>4
  <2>2. QED  BY <1>1, <1>2, <1>3, <1>5, <2>1, AddsAgree
<1>8. g[1..n] \in Int
  <2>1. AnyOrder(g, f, 1..n)  BY <1>2, <1>3, <1>5, AddsAnyOrder
  <2>2. QED  BY <2>1 DEF AnyOrder
<1>9. QED  BY <1>1, <1>3, <1>4, <1>6, <1>7, <1>8

LEMMA NetOfNone == Net(<< >>) = 0
<1>1. PICK g : Adds(g, [i \in 1..0 |-> << >>[i].net], 1..0) /\ Net(<< >>) = g[1..0]
  <2>1. DOMAIN << >> = 1..0 /\ 0 \in Nat /\ \A i \in 1..0 : << >>[i].net \in Int  OBVIOUS
  <2>2. QED  BY <2>1, NetIs
<1>2. 1..0 = {}  OBVIOUS
<1>3. QED  BY <1>1, <1>2, AddsStep

-----------------------------------------------------------------------------
(* The books balance. *)

\* What each turn of the loop does to the books: it marks what it leaves behind,
\* and books at most one trade.
LEMMA TurnBooks ==
    ASSUME KeepPosition \/ OpenPosition \/ ClosePosition \/ FlipPosition
    PROVE  /\ phase = "running" /\ MarkBar(balance', position', accruedSwap')
           /\ \/ UNCHANGED <<trades, balance, realized>>
              \/ position.side # "FLAT" /\ Realize(ClosedTrade(Bar, accruedSwap + SwapDue))
<1>1. CASE KeepPosition
  <2>1. /\ balance' = balance /\ position' = position /\ accruedSwap' = accruedSwap + SwapDue
        /\ MarkBar(balance, position, accruedSwap + SwapDue) /\ phase = "running"
        /\ UNCHANGED <<trades, balance, realized>>
    BY <1>1 DEF KeepPosition, Running
  <2>2. QED  BY <2>1
<1>2. CASE OpenPosition
  <2>1. /\ balance' = balance /\ position' = Entry(Target, Bar) /\ accruedSwap' = accruedSwap
        /\ MarkBar(balance, Entry(Target, Bar), accruedSwap) /\ phase = "running"
        /\ UNCHANGED <<trades, balance, realized>>
    BY <1>2 DEF OpenPosition, Running
  <2>2. QED  BY <2>1
<1>3. CASE ClosePosition
  <2>1. PICK trade : trade = ClosedTrade(Bar, accruedSwap + SwapDue)  OBVIOUS
  <2>2. /\ Realize(trade) /\ position' = NoPosition /\ position.side # "FLAT"
        /\ MarkBar(balance + trade.net, NoPosition, 0) /\ phase = "running"
    BY <1>3, <2>1 DEF ClosePosition, Running
  <2>3. PICK cash, swap : cash = balance + trade.net /\ swap = 0  OBVIOUS
  <2>4. balance' = cash /\ accruedSwap' = swap  BY <2>2, <2>3 DEF Realize
  <2>5. MarkBar(balance', position', accruedSwap')  BY <2>2, <2>3, <2>4, Zenon
  <2>6. QED  BY <2>1, <2>2, <2>5
<1>4. CASE FlipPosition
  <2>1. PICK trade : trade = ClosedTrade(Bar, accruedSwap + SwapDue)  OBVIOUS
  <2>2. /\ Realize(trade) /\ position' = Entry(Target, Bar) /\ position.side # "FLAT"
        /\ MarkBar(balance + trade.net, Entry(Target, Bar), 0) /\ phase = "running"
    BY <1>4, <2>1 DEF FlipPosition, Running
  <2>3. PICK cash, swap : cash = balance + trade.net /\ swap = 0  OBVIOUS
  <2>4. balance' = cash /\ accruedSwap' = swap  BY <2>2, <2>3 DEF Realize
  <2>5. MarkBar(balance', position', accruedSwap')  BY <2>2, <2>3, <2>4, Zenon
  <2>6. QED  BY <2>1, <2>2, <2>5
<1>5. QED  BY <1>1, <1>2, <1>3, <1>4

LEMMA NetOfMore ==
    ASSUME NEW ts \in Seq(Trade), NEW trade \in Trade
    PROVE  /\ Net(ts) \in Int
           /\ Net(Append(ts, trade)) = Net(ts) + trade.net
<1>1. PICK n, more : n = Len(ts) /\ more = Append(ts, trade)  OBVIOUS
<1>2. n \in Nat /\ DOMAIN ts = 1..n /\ \A i \in 1..n : ts[i].net \in Int
  <2>1. \A i \in 1..n : ts[i] \in Trade  BY <1>1
  <2>2. QED  BY <1>1, <2>1 DEF Trade
<1>3. /\ DOMAIN more = 1..(n + 1) /\ more[n + 1] = trade
      /\ \A i \in 1..n : more[i] = ts[i]
  BY <1>1
<1>4. more[n + 1].net \in Int  BY <1>3 DEF Trade
<1>5. Net(more) = Net(ts) + more[n + 1].net /\ Net(ts) \in Int
  BY <1>2, <1>3, <1>4, NetOfAppend
<1>6. QED  BY <1>1, <1>3, <1>5

\* A trade that is booked is one of the books' trades.
LEMMA BookedTrade ==
    ASSUME IInv, position.side # "FLAT", NEW i \in 1..Len(bars), NEW swap \in Int,
           NEW trade, trade = ClosedTrade(i, swap)
    PROVE  trade \in Trade
<1>1. TypeOK /\ HeldInv  BY DEF IInv
<1>2. \E t \in Trade : t = ClosedTrade(i, swap)  BY <1>1, ClosedTradeIs
<1>3. QED  BY <1>2

\* The first two conjuncts of BooksBalance.
BookedOnce ==
    /\ balance = InitialBalance + Net(trades)
    /\ realized = balance - InitialBalance

LEMMA RealizeBooks ==
    ASSUME IInv, BookedOnce, NEW trade \in Trade, Realize(trade)
    PROVE  BookedOnce'
<1>1. trades \in Seq(Trade) /\ balance \in Int /\ realized \in Int  BY DEF IInv, TypeOK
<1>2. Net(trades) \in Int /\ Net(Append(trades, trade)) = Net(trades) + trade.net
  BY <1>1, NetOfMore
<1>3. trade.net \in Int  BY DEF Trade
<1>4. trades' = Append(trades, trade) /\ balance' = balance + trade.net
      /\ realized' = realized + trade.net
  BY DEF Realize
<1>5. Net(trades') = Net(trades) + trade.net  BY <1>2, <1>4
<1>6. PICK before, after : before = Net(trades) /\ after = Net(trades')  OBVIOUS
<1>7. balance = InitialBalance + before  BY <1>6 DEF BookedOnce
<1>8. realized = balance - InitialBalance  BY DEF BookedOnce
<1>9. before \in Int /\ after = before + trade.net  BY <1>2, <1>5, <1>6
<1>10. PICK net \in Int : net = trade.net  BY <1>3
<1>11. balance' = InitialBalance + after
  <2>1. balance' = balance + net /\ after = before + net  BY <1>4, <1>9, <1>10
  <2>2. QED  BY <2>1, <1>7, <1>9, ConstantTypes
<1>12. realized' = balance' - InitialBalance
  <2>1. balance' = balance + net /\ realized' = realized + net  BY <1>4, <1>10
  <2>2. QED  BY <2>1, <1>1, <1>8, ConstantTypes
<1>13. balance' = InitialBalance + Net(trades')  BY <1>6, <1>11
<1>14. QED  BY <1>12, <1>13 DEF BookedOnce

LEMMA BooksStep == IInv /\ IInv' /\ BooksBalance /\ Next => BooksBalance'
<1> SUFFICES ASSUME IInv, IInv', BooksBalance, Next PROVE BooksBalance'  OBVIOUS
<1>1. BookedOnce  BY DEF BooksBalance, BookedOnce
<1>2. TypeOK /\ RunInv /\ EveryRolloverIsChargedOnce  BY DEF IInv
<1>3. CASE KeepPosition \/ OpenPosition \/ ClosePosition \/ FlipPosition
  <2>1. /\ phase = "running" /\ MarkBar(balance', position', accruedSwap')
        /\ \/ UNCHANGED <<trades, balance, realized>>
           \/ position.side # "FLAT" /\ Realize(ClosedTrade(Bar, accruedSwap + SwapDue))
    BY <1>3, TurnBooks
  <2>2. Bar \in 1..Len(bars) /\ accruedSwap + SwapDue \in Int
    <3>1. SwapDue \in Int  BY <1>2, <2>1, SwapDueIs DEF IInv
    <3>2. QED  BY <1>2, <2>1, <3>1 DEF RunInv, TypeOK, ValidInputs, Bar
  <2>3. BookedOnce'
    <3>1. CASE UNCHANGED <<trades, balance, realized>>
      BY <1>1, <3>1 DEF BookedOnce
    <3>2. CASE position.side # "FLAT" /\ Realize(ClosedTrade(Bar, accruedSwap + SwapDue))
      <4>1. PICK trade : trade = ClosedTrade(Bar, accruedSwap + SwapDue)  OBVIOUS
      <4>2. trade \in Trade  BY <2>2, <3>2, <4>1, BookedTrade
      <4>3. QED  BY <1>1, <3>2, <4>1, <4>2, RealizeBooks
    <3>3. QED  BY <2>1, <3>1, <3>2
  <2>4. PICK value :
          /\ value = balance' + Unrealized(position', bars[Bar]) - accruedSwap'
          /\ equity' = Append(equity, [value |-> value, side |-> position'.side])
          /\ done' = Bar /\ UNCHANGED bars
          /\ phase' = IF Ruined(value) THEN "insolvent"
                      ELSE IF Bar < Len(bars) THEN "running" ELSE AfterLoop(position')
    BY <2>1 DEF MarkBar, inputs
  <2>5. equity'[Bar].value = value
    BY <1>2, <2>4 DEF TypeOK, RunInv, Bar
  <2>6. phase' = "insolvent" =>
           equity'[done'].value = balance' + Unrealized(position', bars'[done']) - accruedSwap'
    BY <2>4, <2>5
  <2>7. phase' = "done" => position' = NoPosition /\ equity'[Len(bars)'].value = balance'
    <3>1. SUFFICES ASSUME phase' = "done"
                   PROVE  position' = NoPosition /\ equity'[Len(bars)'].value = balance'
      OBVIOUS
    <3>2. position'.side = "FLAT" /\ Bar = Len(bars)
      BY <1>2, <2>2, <2>4, <3>1 DEF AfterLoop, TypeOK, ValidInputs
    <3>3. position' = NoPosition /\ balance' \in Int
      BY <3>2 DEF IInv, TypeOK, Position, Sides
    <3>4. accruedSwap' = 0  BY <3>2 DEF IInv, EveryRolloverIsChargedOnce
    <3>5. Unrealized(position', bars[Bar]) = 0  BY <3>2 DEF Unrealized
    <3>6. value = balance'
      <4>1. PICK cash, mark, swap : /\ cash = balance' /\ swap = accruedSwap'
                                    /\ mark = Unrealized(position', bars[Bar])
        OBVIOUS
      <4>2. value = cash + mark - swap  BY <2>4, <4>1, Zenon
      <4>3. cash \in Int /\ mark = 0 /\ swap = 0  BY <3>3, <3>4, <3>5, <4>1
      <4>4. cash + mark - swap = cash  BY <4>3
      <4>5. QED  BY <4>1, <4>2, <4>4, Zenon
    <3>7. QED  BY <2>4, <2>5, <3>2, <3>3, <3>6
  <2>8. QED  BY <2>3, <2>6, <2>7 DEF BooksBalance, BookedOnce
<1>4. CASE Fail
  <2>1. phase' = "error" /\ UNCHANGED <<trades, balance, realized>>
    BY <1>4 DEF Fail, account
  <2>2. QED  BY <1>1, <2>1 DEF BooksBalance, BookedOnce
<1>5. CASE FinalClose
  <2>1. PICK trade : trade = ClosedTrade(Len(bars), accruedSwap)  OBVIOUS
  <2>2. /\ phase = "closing" /\ Realize(trade) /\ position' = NoPosition /\ phase' = "done"
        /\ equity' = [equity EXCEPT ![Len(equity)] = [value |-> balance + trade.net, side |-> "FLAT"]]
        /\ UNCHANGED bars
    BY <1>5, <2>1 DEF FinalClose, inputs
  <2>3. Len(bars) \in 1..Len(bars) /\ done = Len(bars) /\ position.side # "FLAT"
        /\ accruedSwap \in Int /\ Len(equity) = Len(bars) /\ equity \in Seq([value : Int, side : Targets])
    BY <1>2, <2>2 DEF RunInv, TypeOK, ValidInputs
  <2>4. trade \in Trade  BY <2>1, <2>3, BookedTrade
  <2>5. BookedOnce'  BY <1>1, <2>2, <2>4, RealizeBooks
  <2>6. equity'[Len(bars)].value = balance + trade.net /\ balance' = balance + trade.net
    BY <2>2, <2>3 DEF Realize
  <2>7. QED  BY <2>2, <2>5, <2>6 DEF BooksBalance, BookedOnce
<1>6. QED  BY <1>3, <1>4, <1>5 DEF Next

\* The balance is the initial one and the net results of the trades, each booked
\* once, whether it was closed in the loop or after it; a run that ends flat has
\* its balance for its last equity point.
THEOREM FxBooksBalance == Spec => []BooksBalance
<1>1. Init => BooksBalance
  <2> SUFFICES ASSUME Init PROVE BooksBalance  OBVIOUS
  <2>1. balance = InitialBalance /\ realized = 0 /\ trades = << >> /\ phase = "running"
    BY DEF Init, Start
  <2>2. Net(trades) = 0  BY <2>1, NetOfNone
  <2>3. QED  BY <2>1, <2>2, ConstantTypes DEF BooksBalance
<1>2. IInv /\ IInv' /\ BooksBalance /\ [Next]_vars => BooksBalance'
  <2>1. BooksBalance /\ UNCHANGED vars => BooksBalance'
    BY DEF BooksBalance, vars, inputs, account, Unrealized
  <2>2. QED  BY <2>1, BooksStep
<1>3. QED  BY <1>1, <1>2, Inductive, PTL DEF Spec

-----------------------------------------------------------------------------
(* Two runs side by side. *)

\* The first of the two is a run of its own.
LEMMA PairIsARun == PairSpec => Spec
<1>1. PairInit => Init  BY DEF PairInit
<1>2. [PairNext]_pair => [Next]_vars
  <2>1. PairNext => [Next]_vars  BY DEF PairNext
  <2>2. UNCHANGED pair => UNCHANGED vars  BY DEF pair
  <2>3. QED  BY <2>1, <2>2
<1>3. QED  BY <1>1, <1>2, PTL DEF PairSpec, Spec

\* A turn of the loop, as a function of the account it starts from, the target,
\* the swap that is due, the trade a close would book and the position an entry
\* would open.
AfterTurn(cash, gain, held, swap, closed, target, due, trade, entry) ==
    IF target = held.side THEN <<cash, gain, held, swap + due, closed>>
    ELSE IF held.side = "FLAT" THEN <<cash, gain, entry, swap, closed>>
    ELSE <<cash + trade.net, gain + trade.net,
           IF target = "FLAT" \/ Ruined(cash + trade.net) THEN NoPosition ELSE entry,
           0, Append(closed, trade)>>
EquityPoint(cash, held, swap, bar) ==
    [value |-> cash + Unrealized(held, bar) - swap, side |-> held.side]

Turn == KeepPosition \/ OpenPosition \/ ClosePosition \/ FlipPosition
Turns ==
    /\ phase = "running" /\ done' = Bar
    /\ account' = AfterTurn(balance, realized, position, accruedSwap, trades, Target, SwapDue,
                            ClosedTrade(Bar, accruedSwap + SwapDue), Entry(Target, Bar))
    /\ equity' = Append(equity, EquityPoint(balance', position', accruedSwap', bars[Bar]))
Stops ==
    /\ done' = done /\ phase' \notin {"running", "closing"}
    /\ \A n \in 1..done : n < Len(bars) => equity'[n] = equity[n]

LEMMA TurnIs == Turn => Turns
<1> SUFFICES ASSUME Turn PROVE Turns  OBVIOUS
<1>1. phase = "running" /\ MarkBar(balance', position', accruedSwap')
  BY TurnBooks DEF Turn
<1>2. /\ done' = Bar
      /\ equity' = Append(equity, EquityPoint(balance', position', accruedSwap', bars[Bar]))
  BY <1>1 DEF MarkBar, EquityPoint
<1>3. PICK trade, entry, due : /\ due = SwapDue /\ entry = Entry(Target, Bar)
                               /\ trade = ClosedTrade(Bar, accruedSwap + SwapDue)
  OBVIOUS
<1>4. account' = AfterTurn(balance, realized, position, accruedSwap, trades, Target, due,
                           trade, entry)
  <2>1. CASE KeepPosition
    BY <1>3, <2>1 DEF KeepPosition, AfterTurn, account
  <2>2. CASE OpenPosition
    BY <1>3, <2>2 DEF OpenPosition, AfterTurn, account
  <2>3. CASE ClosePosition
    BY <1>3, <2>3 DEF ClosePosition, AfterTurn, account, Realize
  <2>4. CASE FlipPosition
    BY <1>3, <2>4 DEF FlipPosition, AfterTurn, account, Realize, Sides
  <2>5. QED  BY <2>1, <2>2, <2>3, <2>4 DEF Turn
<1>5. QED  BY <1>1, <1>2, <1>3, <1>4 DEF Turns

\* What a step does to a run: a turn, or an end.
LEMMA RunStep ==
    ASSUME IInv, IF Ended THEN UNCHANGED vars ELSE Next
    PROVE  UNCHANGED <<bars, signals>> /\ (Turns \/ Stops)
<1>1. CASE UNCHANGED vars /\ Ended
  BY <1>1 DEF vars, inputs, Ended, Stops
<1>2. CASE Turn
  <2>1. Turns  BY <1>2, TurnIs
  <2>2. UNCHANGED inputs
    BY <1>2, TurnBooks DEF Turn, MarkBar
  <2>3. QED  BY <2>1, <2>2 DEF inputs
<1>3. CASE Fail
  BY <1>3 DEF Fail, inputs, Stops
<1>4. CASE FinalClose
  <2>1. UNCHANGED <<bars, signals>>  BY <1>4 DEF FinalClose, inputs
  <2>2. done' = done /\ phase' = "done" /\ phase = "closing"
        /\ \E point : equity' = [equity EXCEPT ![Len(equity)] = point]
    BY <1>4 DEF FinalClose
  <2>3. done = Len(bars) /\ Len(equity) = done /\ equity \in Seq([value : Int, side : Targets])
    BY <2>2 DEF IInv, RunInv, TypeOK
  <2>4. \A n \in 1..done : n < Len(bars) => equity'[n] = equity[n]  BY <2>2, <2>3
  <2>5. QED  BY <2>1, <2>2, <2>4 DEF Stops
<1>5. QED  BY <1>1, <1>2, <1>3, <1>4 DEF Next, Turn

\* The same for the second run.
OtherTurn == Other!KeepPosition \/ Other!OpenPosition \/ Other!ClosePosition \/ Other!FlipPosition
OtherTurns ==
    /\ phase2 = "running" /\ done2' = Other!Bar
    /\ Other!account' =
          AfterTurn(balance2, realized2, position2, accruedSwap2, trades2, Other!Target, Other!SwapDue,
                    Other!ClosedTrade(Other!Bar, accruedSwap2 + Other!SwapDue),
                    Other!Entry(Other!Target, Other!Bar))
    /\ equity2' = Append(equity2, EquityPoint(balance2', position2', accruedSwap2', bars2[Other!Bar]))
    /\ phase2' = "running" => Other!Bar < Len(bars2)
    /\ phase2' = "closing" => ~(Other!Bar < Len(bars2))
OtherStops ==
    /\ done2' = done2 /\ phase2' \notin {"running", "closing"}
    /\ \A n \in 1..done2 : n < Len(bars2) => equity2'[n] = equity2[n]

OtherRunInv ==
    /\ Other!ValidInputs /\ done2 \in 0..Len(bars2)
    /\ \E S : equity2 \in Seq(S) /\ Len(equity2) = done2
    /\ phase2 = "running" => done2 < Len(bars2)
    /\ phase2 = "closing" => done2 = Len(bars2)

LEMMA OtherMarks ==
    ASSUME NEW cash, NEW held, NEW swap, Other!MarkBar(cash, held, swap)
    PROVE  /\ done2' = Other!Bar /\ UNCHANGED <<bars2, signals2>>
           /\ equity2' = Append(equity2, EquityPoint(cash, held, swap, bars2[Other!Bar]))
           /\ phase2' = "running" => Other!Bar < Len(bars2)
           /\ phase2' = "closing" => ~(Other!Bar < Len(bars2))
BY DEF Other!MarkBar, EquityPoint, Unrealized, Other!Unrealized, GrossPnl, Other!GrossPnl,
       Exposure, Other!Exposure, Ask, Other!Ask, Spread, Other!Spread, NoSpread, Other!NoSpread,
       Other!inputs, Other!AfterLoop

LEMMA OtherTurnIs == OtherTurn => OtherTurns /\ UNCHANGED <<bars2, signals2>>
<1> SUFFICES ASSUME OtherTurn PROVE OtherTurns /\ UNCHANGED <<bars2, signals2>>  OBVIOUS
<1>1. PICK trade, entry, due, target :
         /\ due = Other!SwapDue /\ target = Other!Target /\ entry = Other!Entry(target, Other!Bar)
         /\ trade = Other!ClosedTrade(Other!Bar, accruedSwap2 + due)
  OBVIOUS
<1>2. PICK gained, swap : gained = balance2 + trade.net /\ swap = accruedSwap2 + due  OBVIOUS
<1>3. PICK zero, none : zero = 0 /\ none = NoPosition  OBVIOUS
<1>4. none = Other!NoPosition /\ \A value : Other!Ruined(value) <=> Ruined(value)
  BY <1>3 DEF NoPosition, Other!NoPosition, Ruined, Other!Ruined
<1>5. /\ phase2 = "running" /\ Other!MarkBar(balance2', position2', accruedSwap2')
      /\ Other!account' = AfterTurn(balance2, realized2, position2, accruedSwap2, trades2, target, due,
                                    trade, entry)
  <2>1. CASE Other!KeepPosition
    <3>1. /\ phase2 = "running" /\ target = position2.side /\ accruedSwap2' = swap
          /\ UNCHANGED <<balance2, realized2, position2, trades2>>
          /\ Other!MarkBar(balance2, position2, swap)
      BY <1>1, <1>2, <2>1, Zenon DEF Other!KeepPosition, Other!Running
    <3>2. Other!MarkBar(balance2', position2', accruedSwap2')  BY <3>1, Zenon
    <3>3. QED  BY <1>2, <3>1, <3>2 DEF AfterTurn, Other!account
  <2>2. CASE Other!OpenPosition
    <3>1. /\ phase2 = "running" /\ target # position2.side /\ position2.side = "FLAT"
          /\ position2' = entry
          /\ UNCHANGED <<balance2, realized2, accruedSwap2, trades2>>
          /\ Other!MarkBar(balance2, entry, accruedSwap2)
      BY <1>1, <2>2, Zenon DEF Other!OpenPosition, Other!Running
    <3>2. Other!MarkBar(balance2', position2', accruedSwap2')  BY <3>1, Zenon
    <3>3. QED  BY <3>1, <3>2 DEF AfterTurn, Other!account
  <2>3. CASE Other!ClosePosition
    <3>1. /\ phase2 = "running" /\ target # position2.side /\ position2.side # "FLAT"
          /\ (target = "FLAT" \/ Other!Ruined(gained)) /\ Other!Realize(trade)
          /\ position2' = none /\ Other!MarkBar(gained, none, zero)
      BY <1>1, <1>2, <1>3, <1>4, <2>3 DEF Other!ClosePosition, Other!Running
    <3>2. /\ balance2' = gained /\ realized2' = realized2 + trade.net /\ accruedSwap2' = zero
          /\ trades2' = Append(trades2, trade)
      BY <1>2, <1>3, <3>1 DEF Other!Realize
    <3>3. Other!MarkBar(balance2', position2', accruedSwap2')  BY <3>1, <3>2, Zenon
    <3>4. QED  BY <1>2, <1>3, <1>4, <3>1, <3>2, <3>3 DEF AfterTurn, Other!account
  <2>4. CASE Other!FlipPosition
    <3>1. /\ phase2 = "running" /\ target # position2.side /\ position2.side # "FLAT"
          /\ target # "FLAT" /\ ~Other!Ruined(gained) /\ Other!Realize(trade)
          /\ position2' = entry /\ Other!MarkBar(gained, entry, zero)
      BY <1>1, <1>2, <1>3, <2>4 DEF Other!FlipPosition, Other!Running, Other!Sides
    <3>2. /\ balance2' = gained /\ realized2' = realized2 + trade.net /\ accruedSwap2' = zero
          /\ trades2' = Append(trades2, trade)
      BY <1>2, <1>3, <3>1 DEF Other!Realize
    <3>3. Other!MarkBar(balance2', position2', accruedSwap2')  BY <3>1, <3>2, Zenon
    <3>4. QED  BY <1>2, <1>3, <1>4, <3>1, <3>2, <3>3 DEF AfterTurn, Other!account
  <2>5. QED  BY <2>1, <2>2, <2>3, <2>4 DEF OtherTurn
<1>6. PICK cash, held, charged : cash = balance2' /\ held = position2' /\ charged = accruedSwap2'
  OBVIOUS
<1>7. Other!MarkBar(cash, held, charged)  BY <1>5, <1>6, Zenon
<1>8. QED  BY <1>1, <1>5, <1>6, <1>7, OtherMarks DEF OtherTurns

LEMMA OtherStep ==
    ASSUME OtherRunInv, IF Ended2 THEN UNCHANGED vars2 ELSE Other!Next
    PROVE  UNCHANGED <<bars2, signals2>> /\ (OtherTurns \/ OtherStops)
<1>1. CASE UNCHANGED vars2 /\ Ended2
  BY <1>1 DEF vars2, Ended2, OtherStops
<1>2. CASE OtherTurn
  BY <1>2, OtherTurnIs
<1>3. CASE Other!Fail
  BY <1>3 DEF Other!Fail, Other!inputs, OtherStops
<1>4. CASE Other!FinalClose
  <2>1. UNCHANGED <<bars2, signals2>>  BY <1>4 DEF Other!FinalClose, Other!inputs
  <2>2. done2' = done2 /\ phase2' = "done" /\ phase2 = "closing"
        /\ \E point : equity2' = [equity2 EXCEPT ![Len(equity2)] = point]
    BY <1>4 DEF Other!FinalClose
  <2>3. done2 = Len(bars2) /\ Len(equity2) = done2 /\ \E S : equity2 \in Seq(S)
    BY <2>2 DEF OtherRunInv
  <2>4. \A n \in 1..done2 : n < Len(bars2) => equity2'[n] = equity2[n]  BY <2>2, <2>3
  <2>5. QED  BY <2>1, <2>2, <2>4 DEF OtherStops
<1>5. QED  BY <1>1, <1>2, <1>3, <1>4 DEF Other!Next, OtherTurn

\* Before a bar, two runs in the same account state that have seen the same are
\* about to do the same.
LEMMA SameTurn ==
    ASSUME IInv, OtherRunInv, phase = "running", phase2 = "running", done = done2, SawTheSame(Bar),
           account = <<balance2, realized2, position2, accruedSwap2, trades2>>
    PROVE  /\ Other!Bar = Bar /\ bars[Bar] = bars2[Bar]
           /\ AfterTurn(balance2, realized2, position2, accruedSwap2, trades2, Other!Target, Other!SwapDue,
                        Other!ClosedTrade(Other!Bar, accruedSwap2 + Other!SwapDue),
                        Other!Entry(Other!Target, Other!Bar))
              = AfterTurn(balance, realized, position, accruedSwap, trades, Target, SwapDue,
                          ClosedTrade(Bar, accruedSwap + SwapDue), Entry(Target, Bar))
<1>1. /\ balance2 = balance /\ realized2 = realized /\ position2 = position
      /\ accruedSwap2 = accruedSwap /\ trades2 = trades
  BY DEF account
<1>2. PICK i : i = Bar /\ i = Other!Bar  BY DEF Bar, Other!Bar
<1>3. i \in Nat /\ done \in Nat /\ i = done + 1  BY <1>2 DEF IInv, TypeOK, ValidInputs, Bar
<1>4. \A j \in 1..i : bars[j] = bars2[j]
  <2>1. /\ bars \in Seq(Bars) /\ bars2 \in Seq(Bars) /\ i <= Len(bars) /\ i <= Len(bars2)
        /\ SubSeq(bars, 1, i) = SubSeq(bars2, 1, i)
    BY <1>2 DEF IInv, TypeOK, ValidInputs, OtherRunInv, Other!ValidInputs, SawTheSame, Bars, Other!Bars,
                NoSpread, Other!NoSpread
  <2>2. \A j \in 1..i : SubSeq(bars, 1, i)[j] = bars[j] /\ SubSeq(bars2, 1, i)[j] = bars2[j]
    BY <1>3, <2>1
  <2>3. QED  BY <2>1, <2>2
<1>5. PICK target : target = Target /\ target = Other!Target
  <2>1. i # 1 => signals[i - 1] = signals2[i - 1]  BY <1>2, <1>3 DEF SawTheSame
  <2>2. QED  BY <1>2, <2>1 DEF Target, Other!Target
<1>6. PICK due : due = SwapDue /\ due = Other!SwapDue
  <2>1. CASE position.side = "FLAT"
    BY <1>1, <2>1 DEF SwapDue, Other!SwapDue
  <2>2. CASE position.side # "FLAT"
    <3>1. done \in 1..i /\ i \in 1..i
      <4>1. position.opened \in 1..done  BY <2>2 DEF IInv, HeldInv
      <4>2. QED  BY <1>3, <4>1
    <3>2. bars[done].time = bars2[done].time /\ bars[i].time = bars2[i].time
      BY <1>4, <3>1
    <3>3. PICK side, from, to : /\ side = position.side /\ side = position2.side
                                /\ from = bars[done].time /\ from = bars2[done2].time
                                /\ to = bars[Bar].time /\ to = bars2[Other!Bar].time
      BY <1>1, <1>2, <3>2
    <3>4. SwapCharge(side, from, to) = Other!SwapCharge(side, from, to)
      <4>1. Crossings(from, to) = Other!Crossings(from, to)  BY DEF Crossings, Other!Crossings
      <4>2. \A t : Weekday(t) = Other!Weekday(t)  BY DEF Weekday, Other!Weekday, Day, Other!Day
      <4>3. SwapRate(side) = Other!SwapRate(side)  BY DEF SwapRate, Other!SwapRate
      <4>4. {t \in Crossings(from, to) : Weekday(t) = TripleWeekday}
              = {t \in Other!Crossings(from, to) : Other!Weekday(t) = TripleWeekday}
        BY <4>1, <4>2
      <4>5. \A S : Cardinality(S) = Other!Cardinality(S)  BY Zenon DEF Cardinality, Other!Cardinality
      <4>6. QED  BY <4>1, <4>3, <4>4, <4>5 DEF SwapCharge, Other!SwapCharge
    <3>5. Charged <=> Other!Charged  BY DEF Charged, Other!Charged
    <3>6. QED  BY <3>3, <3>4, <3>5, Zenon DEF SwapDue, Other!SwapDue
  <2>3. QED  BY <2>1, <2>2
<1>7. PICK bar : bar = bars[i] /\ bar = bars2[i]  BY <1>3, <1>4
<1>8. /\ \A side, opening : QuotedPrice(side, opening, bar) = Other!QuotedPrice(side, opening, bar)
      /\ \A side, opening : FillPrice(side, opening, bar) = Other!FillPrice(side, opening, bar)
      /\ \A side, in, out : GrossPnl(side, in, out) = Other!GrossPnl(side, in, out)
      /\ \A opened, closed : HeldBars(opened, closed) = Other!HeldBars(opened, closed)
  BY DEF QuotedPrice, Other!QuotedPrice, FillPrice, Other!FillPrice, IsBuy, Other!IsBuy, Ask, Other!Ask,
         Spread, Other!Spread, NoSpread, Other!NoSpread, GrossPnl, Other!GrossPnl, Exposure, Other!Exposure,
         HeldBars, Other!HeldBars
<1>9. Entry(target, i) = Other!Entry(target, i)
  BY <1>7, <1>8, Zenon DEF Entry, Other!Entry
<1>10. PICK swap : swap = accruedSwap + due  OBVIOUS
<1>11. ClosedTrade(i, swap) = Other!ClosedTrade(i, swap)
  <2>1. PICK p, side : /\ p = position /\ p = position2
                       /\ side = p.side
    BY <1>1
  <2>2. PICK execution, spreadOnly, reference, held :
          /\ execution = GrossPnl(side, p.execution, FillPrice(side, FALSE, bar))
          /\ spreadOnly = GrossPnl(side, p.quoted, QuotedPrice(side, FALSE, bar))
          /\ reference = GrossPnl(side, p.bid, bar.open)
          /\ held = HeldBars(p.opened, i)
    OBVIOUS
  <2>3. /\ execution = Other!GrossPnl(side, p.execution, Other!FillPrice(side, FALSE, bar))
        /\ spreadOnly = Other!GrossPnl(side, p.quoted, Other!QuotedPrice(side, FALSE, bar))
        /\ reference = Other!GrossPnl(side, p.bid, bar.open)
        /\ held = Other!HeldBars(p.opened, i)
    BY <1>8, <2>2
  <2> DEFINE Closed ==
        [side |-> side, opened |-> p.opened, closed |-> i, gross |-> reference,
         spread |-> reference - spreadOnly, slippage |-> spreadOnly - execution,
         commission |-> Commission + Commission, swap |-> swap,
         net |-> reference - (reference - spreadOnly) - (spreadOnly - execution)
                    - (Commission + Commission) - swap,
         held |-> held]
  <2>4. ClosedTrade(i, swap) = Closed  BY <1>7, <2>1, <2>2, Zenon DEF ClosedTrade
  <2>5. Other!ClosedTrade(i, swap) = Closed  BY <1>7, <2>1, <2>3, Zenon DEF Other!ClosedTrade
  <2>6. QED  BY <2>4, <2>5
<1>12. QED
  BY <1>1, <1>2, <1>5, <1>6, <1>7, <1>9, <1>10, <1>11, Zenon

\* Neither run gets ahead of the other while the other goes on.
Lockstep ==
    /\ phase = "running" => done2 <= done
    /\ phase2 = "running" => done <= done2

PairInv == IInv /\ OtherRunInv /\ Lockstep /\ NoLookAhead

LEMMA OtherRunStep ==
    ASSUME OtherRunInv, IF Ended2 THEN UNCHANGED vars2 ELSE Other!Next, UNCHANGED config
    PROVE  OtherRunInv'
<1>1. UNCHANGED <<bars2, signals2>> /\ (OtherTurns \/ OtherStops)  BY OtherStep
<1>2. /\ done2 \in 0..Len(bars2) /\ Len(bars2) \in Nat
      /\ phase2 = "running" => done2 < Len(bars2)
  BY DEF OtherRunInv, Other!ValidInputs
<1>3. Other!ValidInputs'  BY <1>1 DEF OtherRunInv, Other!ValidInputs
<1>4. PICK S : equity2 \in Seq(S) /\ Len(equity2) = done2  BY DEF OtherRunInv
<1>5. done2' \in 0..Len(bars2) /\ \E T : equity2' \in Seq(T) /\ Len(equity2') = done2'
  <2>1. CASE OtherTurns
    <3>1. PICK point : equity2' = Append(equity2, point) /\ done2' = done2 + 1
      BY <2>1 DEF OtherTurns, Other!Bar
    <3>2. PICK T : T = S \union {point}  OBVIOUS
    <3>3. equity2 \in Seq(T) /\ point \in T  BY <1>4, <3>2
    <3>4. equity2' \in Seq(T) /\ Len(equity2') = done2'  BY <1>4, <3>1, <3>3
    <3>5. done2' \in 0..Len(bars2)  BY <1>2, <2>1, <3>1 DEF OtherTurns
    <3>6. QED  BY <3>4, <3>5
  <2>2. CASE UNCHANGED <<equity2, done2>>
    BY <1>2, <1>4, <2>2
  <2>3. CASE Other!FinalClose
    <3>1. PICK point : equity2' = [equity2 EXCEPT ![Len(equity2)] = point] /\ done2' = done2
      BY <2>3 DEF Other!FinalClose
    <3>2. PICK T : T = S \union {point}  OBVIOUS
    <3>3. equity2 \in Seq(T) /\ point \in T  BY <1>4, <3>2
    <3>4. equity2' \in Seq(T) /\ Len(equity2') = done2'
      <4>1. done2 \in Nat /\ equity2 \in [1..done2 -> T]  BY <1>2, <1>4, <3>3
      <4>2. equity2' \in [1..done2 -> T]  BY <3>1, <3>3, <4>1
      <4>3. QED  BY <3>1, <4>1, <4>2
    <3>5. QED  BY <1>2, <3>1, <3>4
  <2>4. CASE Other!Fail  BY <2>2, <2>4 DEF Other!Fail
  <2>5. CASE OtherTurn  BY <2>1, <2>5, OtherTurnIs
  <2>6. QED
    BY <2>2, <2>3, <2>4, <2>5 DEF Other!Next, OtherTurn, vars2
<1>6. /\ phase2' = "running" => done2' < Len(bars2)
      /\ phase2' = "closing" => done2' = Len(bars2)
  BY <1>1, <1>2, <1>5 DEF OtherTurns, OtherStops, Other!Bar
<1>7. QED  BY <1>1, <1>3, <1>5, <1>6 DEF OtherRunInv

\* What was seen up to a bar was seen up to the one before it.
LEMMA SawTheSameBefore ==
    ASSUME IInv, OtherRunInv, NEW n \in Nat, SawTheSame(n + 1)
    PROVE  SawTheSame(n)
<1>1. bars \in Seq(Bars) /\ bars2 \in Seq(Bars)
  BY DEF IInv, TypeOK, ValidInputs, OtherRunInv, Other!ValidInputs, Bars, Other!Bars,
         NoSpread, Other!NoSpread
<1>2. n + 1 <= Len(bars) /\ n + 1 <= Len(bars2)  BY DEF SawTheSame
<1>3. \A j \in 1..(n + 1) : bars[j] = bars2[j]
  <2>1. SubSeq(bars, 1, n + 1) = SubSeq(bars2, 1, n + 1)  BY DEF SawTheSame
  <2>2. \A j \in 1..(n + 1) : SubSeq(bars, 1, n + 1)[j] = bars[j] /\ SubSeq(bars2, 1, n + 1)[j] = bars2[j]
    BY <1>1, <1>2
  <2>3. QED  BY <2>1, <2>2
<1>4. SubSeq(bars, 1, n) = SubSeq(bars2, 1, n)
  BY <1>1, <1>2, <1>3
<1>5. QED  BY <1>1, <1>2, <1>4 DEF SawTheSame

\* If both runs take a turn, they come to the same account and equity point.
LEMMA SameAfterTurn ==
    ASSUME IInv, OtherRunInv, NoLookAhead, Turns, OtherTurns, done = done2, SawTheSame(Bar)
    PROVE  /\ account' = <<balance2', realized2', position2', accruedSwap2', trades2'>>
           /\ equity'[Bar] = equity2'[Bar]
<1>1. phase = "running" /\ phase2 = "running" /\ done \in Nat
  BY DEF Turns, OtherTurns, IInv, TypeOK, ValidInputs
<1>2. SawTheSame(done)  BY <1>1, SawTheSameBefore DEF Bar
<1>3. account = <<balance2, realized2, position2, accruedSwap2, trades2>>
  BY <1>1, <1>2 DEF NoLookAhead
<1>4. /\ Other!Bar = Bar /\ bars[Bar] = bars2[Bar]
      /\ account' = Other!account'
  BY <1>1, <1>3, SameTurn DEF Turns, OtherTurns
<1>5. account' = <<balance2', realized2', position2', accruedSwap2', trades2'>>
  BY <1>4 DEF Other!account
<1>6. balance' = balance2' /\ position' = position2' /\ accruedSwap' = accruedSwap2'
  BY <1>5 DEF account
<1>7. PICK point : /\ equity' = Append(equity, point)
                   /\ equity2' = Append(equity2, point)
  BY <1>4, <1>6 DEF Turns, OtherTurns
<1>8. equity'[Bar] = point
  BY <1>7 DEF IInv, RunInv, TypeOK, Bar
<1>9. equity2'[Bar] = point
  <2>1. PICK S : equity2 \in Seq(S) /\ Len(equity2) = done2  BY DEF OtherRunInv
  <2>2. QED  BY <1>7, <2>1 DEF Bar
<1>10. QED  BY <1>5, <1>8, <1>9

LEMMA PairStep == PairInv /\ PairNext => NoLookAhead' /\ OtherRunInv' /\ Lockstep'
<1> SUFFICES ASSUME PairInv, PairNext PROVE NoLookAhead' /\ OtherRunInv' /\ Lockstep'  OBVIOUS
<1>1. IInv /\ OtherRunInv /\ Lockstep /\ NoLookAhead  BY DEF PairInv
<1>2. UNCHANGED <<bars, signals>> /\ (Turns \/ Stops)  BY <1>1, RunStep DEF PairNext
<1>3. UNCHANGED <<bars2, signals2>> /\ (OtherTurns \/ OtherStops)  BY <1>1, OtherStep DEF PairNext
<1>4. UNCHANGED config
  <2>1. Ended \/ ~Ended  OBVIOUS
  <2>2. CASE Next
    <3>1. Turn => UNCHANGED inputs  BY TurnBooks DEF Turn, MarkBar
    <3>2. QED  BY <2>2, <3>1 DEF Next, Turn, Fail, FinalClose, inputs
  <2>3. CASE UNCHANGED vars  BY <2>3 DEF vars, inputs
  <2>4. QED  BY <2>2, <2>3 DEF PairNext
<1>5. OtherRunInv'  BY <1>1, <1>4, OtherRunStep DEF PairNext
<1>6. /\ done \in Nat /\ done2 \in Nat
      /\ phase = "running" => done2 <= done
      /\ phase2 = "running" => done <= done2
      /\ done' = done \/ (done' = done + 1 /\ Turns)
      /\ done2' = done2 \/ (done2' = done2 + 1 /\ OtherTurns)
  BY <1>1, <1>2, <1>3 DEF Lockstep, Turns, Stops, OtherTurns, OtherStops, Bar, Other!Bar,
     IInv, TypeOK, ValidInputs, OtherRunInv, Other!ValidInputs
<1>7. /\ Turns => phase = "running" /\ done' = done + 1
      /\ OtherTurns => phase2 = "running" /\ done2' = done2 + 1
  BY DEF Turns, OtherTurns, Bar, Other!Bar
<1>8. /\ phase' \in {"running", "closing"} => Turns
      /\ phase2' \in {"running", "closing"} => OtherTurns
  BY <1>2, <1>3 DEF Stops, OtherStops
<1>9. Lockstep'  BY <1>6, <1>7, <1>8 DEF Lockstep
<1>10. \A n : SawTheSame(n)' <=> SawTheSame(n)
  BY <1>2, <1>3 DEF SawTheSame
<1>11. ASSUME NEW n \in 1..done, n < Len(bars)  PROVE equity'[n] = equity[n]
  <2>1. CASE Turns
    <3>1. PICK point : equity' = Append(equity, point)  BY <2>1 DEF Turns
    <3>2. QED  BY <1>1, <3>1 DEF IInv, RunInv, TypeOK
  <2>2. CASE Stops  BY <1>11, <2>2 DEF Stops
  <2>3. QED  BY <1>2, <2>1, <2>2
<1>12. ASSUME NEW n \in 1..done2, n < Len(bars2)  PROVE equity2'[n] = equity2[n]
  <2>1. CASE OtherTurns
    <3>1. PICK point : equity2' = Append(equity2, point)  BY <2>1 DEF OtherTurns
    <3>2. PICK S : equity2 \in Seq(S) /\ Len(equity2) = done2  BY <1>1 DEF OtherRunInv
    <3>3. QED  BY <3>1, <3>2
  <2>2. CASE OtherStops  BY <1>12, <2>2 DEF OtherStops
  <2>3. QED  BY <1>3, <2>1, <2>2
<1>13. ASSUME NEW n \in 1..done', n < Len(bars), n < Len(bars2), SawTheSame(n), n <= done2'
       PROVE  equity'[n] = equity2'[n]
  <2>1. CASE n <= done /\ n <= done2
    <3>1. n \in 1..done /\ n \in 1..done2  BY <1>6, <2>1
    <3>2. equity[n] = equity2[n]  BY <1>1, <1>13, <3>1, <2>1 DEF NoLookAhead
    <3>3. QED  BY <1>11, <1>12, <1>13, <3>1, <3>2
  <2>2. CASE ~(n <= done /\ n <= done2)
    <3>1. Turns /\ OtherTurns /\ done = done2 /\ n = done + 1
      BY <1>6, <1>7, <1>13, <2>2
    <3>2. n = Bar  BY <3>1 DEF Bar
    <3>3. QED  BY <1>1, <1>13, <3>1, <3>2, SameAfterTurn
  <2>3. QED  BY <2>1, <2>2
<1>14. ASSUME done' = done2', SawTheSame(done'), {phase', phase2'} \subseteq {"running", "closing"}
       PROVE  account' = <<balance2', realized2', position2', accruedSwap2', trades2'>>
  <2>1. Turns /\ OtherTurns  BY <1>8, <1>14
  <2>2. done = done2 /\ done' = Bar  BY <1>6, <1>7, <1>14, <2>1 DEF Bar
  <2>3. QED  BY <1>1, <1>14, <2>1, <2>2, SameAfterTurn
<1>15. NoLookAhead'
  <2>1. \A n \in 1..done' : n < Len(bars)' /\ n < Len(bars2)' /\ SawTheSame(n)' /\ n <= done2'
                              => equity'[n] = equity2'[n]
    BY <1>2, <1>3, <1>10, <1>13
  <2>2. done' = done2' /\ SawTheSame(done)' /\ {phase', phase2'} \subseteq {"running", "closing"}
          => account' = <<balance2', realized2', position2', accruedSwap2', trades2'>>
    BY <1>2, <1>3, <1>14 DEF SawTheSame
  <2>3. QED  BY <2>1, <2>2 DEF NoLookAhead
<1>16. QED  BY <1>5, <1>9, <1>15

\* No fill, charge or mark of one backtest depends on what comes later: another
\* with the same bars and signals so far has the same account and equity points.
THEOREM FxNoLookAhead == PairSpec => []NoLookAhead
<1>1. PairInit => OtherRunInv /\ Lockstep /\ NoLookAhead
  <2> SUFFICES ASSUME PairInit PROVE OtherRunInv /\ Lockstep /\ NoLookAhead  OBVIOUS
  <2>1. /\ done = 0 /\ phase = "running" /\ balance = InitialBalance /\ realized = 0
        /\ position = NoPosition /\ accruedSwap = 0 /\ trades = << >>
    BY DEF PairInit, Init, Start
  <2>2. /\ done2 = 0 /\ phase2 = "running" /\ balance2 = InitialBalance /\ realized2 = 0
        /\ position2 = NoPosition /\ accruedSwap2 = 0 /\ trades2 = << >> /\ equity2 = << >>
        /\ Other!ValidInputs
    BY DEF PairInit, Other!Init, Other!Start, NoPosition, Other!NoPosition
  <2>3. OtherRunInv
    <3>1. Len(bars2) \in Nat /\ Len(bars2) >= 2  BY <2>2 DEF Other!ValidInputs
    <3>2. equity2 \in Seq({}) /\ Len(equity2) = done2  BY <2>2
    <3>3. QED  BY <2>2, <3>1, <3>2 DEF OtherRunInv
  <2>4. Lockstep /\ NoLookAhead  BY <2>1, <2>2 DEF Lockstep, NoLookAhead, account
  <2>5. QED  BY <2>3, <2>4
<1>2. PairInv /\ [PairNext]_pair => (OtherRunInv /\ Lockstep /\ NoLookAhead)'
  <2>1. PairInv /\ PairNext => (OtherRunInv /\ Lockstep /\ NoLookAhead)'  BY PairStep
  <2>2. PairInv /\ UNCHANGED pair => (OtherRunInv /\ Lockstep /\ NoLookAhead)'
    BY DEF PairInv, pair, vars, inputs, account, vars2, OtherRunInv, Other!ValidInputs,
           Lockstep, NoLookAhead, SawTheSame
  <2>3. QED  BY <2>1, <2>2
<1>3. QED  BY <1>1, <1>2, PairIsARun, Inductive, PTL DEF PairSpec, PairInv
=============================================================================
