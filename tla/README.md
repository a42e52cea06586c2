# Formal models of TradingIA

TLA+ models of TradingIA, model-checked with TLC and, for the parts where a
mistake costs money, proved with TLAPS.  `PROJECT.json` lists the components,
the runs, the mutants that show each property can fail, the source lines behind
each definition, the hazards and the theorems.

## 1. The system

Two programs talk over HTTP.

**The bridge** (`mt5_bridge/`, Windows) is a FastAPI server next to a
MetaTrader5 terminal.  Its route functions are synchronous, so FastAPI runs
them in a thread pool: several requests are handled at once and interleave
between any two store or MetaTrader5 calls.  Nothing but SQLite transactions
and one lock in the clock correction serialises them.

**The Linux side** (`src/`) is the client of the bridge with its safety layer,
a demo-execution probe, an operational runtime, and a set of batch programs:
backtest engines, market-data tools and research pipelines.

### Inventory

| component | state | operations | hard behaviour | what makes it correct |
|---|---|---|---|---|
| Bridge store (`store.py`) | idempotency rows, journal, kill switch, last reconciliation report; all in SQLite | begin, conditional and unconditional update, scan for incomplete rows, append, set | races for a row, crash between two transactions | terminal rows are final, ids never change their request |
| Bridge write path (`trading.py`) | none of its own | open, close | every step is a separate store or terminal call; crash anywhere; an `order_send` that raises | at most one send per id, true answers, no lost deal |
| Reconciliation (`reconciliation.py`, `__main__.py`) | the saved report | run, resolve a RECEIVED row, startup | check-then-act on the row and its journal; scan and save are two calls | startup fails closed, the resolution never voids a sent order, a way out of each pre-submission crash |
| Broker clock (`server_clock.py`, `quote_freshness.py`) | one calibration in memory | correct a tick, validate a quote | shared by symbols and threads, lost on restart, fed by stale ticks | no arbitrary drift, live quotes exact, stale quotes refused |
| HTTP surface (`app.py`, `schemas.py`, `errors.py`, `auth.py`, `sanitize.py`) | none | routes, error mapping | an exception the route does not list becomes a 500 | the client can tell a refusal from an unknown outcome |
| Backend (`backend.py`) | connection, calibration | MetaTrader5 calls | `None` answers, structs that lack attributes | what it makes of a terminal reaches the client as what it was |
| Execution client (`mt5_remote.py`, `base.py`) | none | GET and POST with timeouts, one parser per answer | lost, spoiled and late answers | a definite outcome is one; it understands every answer of the bridge |
| Safety layer (`safe_execution.py`, `policy.py`) | none | authorise open, authorise close | decisions on answers read at different times | every gate held during the command it let through |
| Demo probe (`demo_execution_test.py`) | a JSON state file | one cycle of open and close | check-then-record and read-modify-write of the file without a lock, kills between call and entry, orders executed after their request timed out | exposure is on record, CLOSED is true, an ambiguity is final, one cycle |
| Operational runtime (`operational.py`) | lock file, journal, heartbeat | one cycle, a loop of cycles, stop | two instances, kills in mid-rotation, one-shot commands beside the loop, backoff | one loop, verdicts that were earned, recent decisions are kept, a stop is obeyed |
| FX backtest (`fx/backtesting`) | balance, position, accrued swap, trades, equity | bar loop, final close | order of fills, charges and marks within a bar, flips, insolvency | no look-ahead, every cost once, the books balance |
| Crypto backtest (`backtesting`, `strategies`) | position, pending order, equity | bar loop | order of fills and signals within a bar | no look-ahead |
| Market data (`fx/data`, `data`) | files | validate, normalise, split | boundaries of intervals | splits are disjoint and ordered |
| Research (`fx/research`, `research`, `metrics`) | files | batch programs | boundaries, one-shot holdout | holdout used once |
| Command lines (`cli`, `scripts`) | none | `mt5-remote` commands; dispatch of the others | two commands that must agree | preflight and demo-open agree |
| Phase 3 archive (`docs/history/crypto/phase3`) | files | archived scripts | closed phase | not modelled |

How they interact: the runtime and the probe call the client through the
safety layer; the client calls the bridge's routes; the routes call the write
path, reconciliation and the store; these call the backend, which alone talks
to MetaTrader5.  The research programs use market data and the engines and
share no state with the trading side.

## 2. The models

### The write path

| module | what it is |
|---|---|
| `OrderLedger` | the abstract specification: what the bridge promises about each `client_order_id` |
| `BridgeStore` | the SQLite store: one operator per store method, each one transaction |
| `DemoBridge` | the write path over the store: one action per store or MetaTrader5 call of a thread, the routes, crashes, startup and the terminal |
| `DemoBridgeProperties` | what must hold, the inductive invariant, the refinement mapping, fairness |
| `DemoBridgeProofs` | the proofs |
| `MCDemoBridge` | TLC instances |

State.  `rows`, `journal`, `killSwitch` and `recon` are the four tables.  A row
keeps its request (`hash`, the fingerprint), its state, whether a result or an
error is stored, and `touched`: the code never looks at the two timestamps
other than to compare `updated_at` with `created_at`.  `threads` is what each
worker is doing: the call it makes next (`pc`), the id and request it carries
and, while it reconciles, the verdict it has computed and not yet saved.
`account`, `terminal` and `positions` are MetaTrader5's.  `sends`, `executed`,
`told` and `leftover` are history: how often `order_send` was called for an id,
what the broker did, what callers were told, and what a startup found.

Actions.  A request for an opening order runs `BeginWrite`, `CheckKillSwitch`,
`CheckReconciliation`, `CheckPositionCount`, `Submit`, `JournalSubmitting`,
`OrderSend`, then `RecordFill` and `JournalFilled`, or `RecordReject`, or
`JournalCrash`.  A closing order goes from `BeginWrite` to `MatchPosition` and
joins at `Submit`.  A failed check leads to `TerminalizeReject`.  Checks that
depend on nothing modelled (permissions, symbol, volume, spread, quote,
`order_check`) are a free choice inside the check they belong to.  A journal
entry that no code reads back, and the return to the caller, belong to the call
before them.

MetaTrader5 is external.  A filled opening order makes one position named after
it; a retcode other than DONE means that the order was not executed; an
`order_send` that raises may or may not have executed.  `Faults` chooses what may
happen around the bridge: `crash`, `raise` (a read raises `MT5BackendError`),
`silence` (calls answer `None`), `switch_account`.

The coarse clock.  `touched` becomes true with the first update of a row: the
model takes two readings of the clock in different calls to differ.

### The broker clock

`BrokerClock` models the correction of tick timestamps: `ticks` holds what the
terminal last received for each symbol, its true time and its raw stamp in the
server's clock of then; `offset` is the calibration; `reads` are the ticks that
request threads have fetched and not yet corrected, `readers` the corrected
quotes they have not yet validated; `used` is the last quote
that was found fresh.  `symbol_info_tick` is three steps, since a thread may be
overtaken between them: `ReadTick` fetches the tick, `ReadClock` is `to_utc`'s
look at the bridge's clock, and `CorrectTick` is what `to_utc` does under its
lock, with the tick and the time of before.  `ValidateQuote` is
`_require_fresh_quote`, `Restart` loses the calibration, and `Quote`,
`ChangeZone` and `Pass` are the world.
Times are integers in units of the instance's choice.  `MaxNow` bounds time in
the guard of `Pass`; nothing else is bounded.  `BrokerClockProofs` has the proofs.

### The demo execution probe

`DemoProbe` models `demo_execution_test.py` with what it calls: `safe_open` and
`safe_close` (`safe_execution.py`), and the client's `place_order` and
`close_position` (`mt5_remote.py`).  `probes` is what each process is doing; every
entry in the state file is three steps, `LoadRecord`, `WriteTemp` and
`ReplaceFile`, since `_record` reads, merges and replaces through one temporary
file that all processes share.  A write is three steps as well: `PostOpen` puts
the request in `posts`, the bridge may get it at any later time (`Arrive`) or never
(`Lose`), and `AwaitOpen` goes on with a fill, if the bridge has told one, or
with an ambiguity at any time, which is a timeout, a lost answer or a refusal.
The bridge is `OrderLedger`, instantiated: the abstract specification that
`DemoBridge` is proved to implement stands for it, so an order may execute long
after its process has given up, been killed and been followed by another.
`file` keeps the state and the run it names; the other fields are for the human
reader.  `Seen` is an answer of `positions` or `orders`: the truth, or the empty
list that the bridge makes of MetaTrader5's `None`.  `overlapped` is history: two
processes have been running at once.  `DemoProbeProofs` has the proofs.

`probes` starts anew for each process: a process is a run of the command with a
new `test_run_id`.  After AMBIGUOUS the code asks the bridge for a reconciliation,
which changes neither file nor orders and is left to `DemoBridge`.

### The gates of an opening order

`DemoBridgeGates` puts three history variables beside the write path: the gates
(demo account, kill switch, report, position count) that held at some moment of
each opening request, whether opening requests have overlapped, and whether the
terminal has been logged in to another account.  Each gate is read once, in a call of its own, and
the order leaves several calls later; what an order has to show is that each
gate was open during its own request.  `DemoBridgeGatesProofs` has the proofs,
`MCDemoBridgeGates` the instance.

### The HTTP contract, the client and the command line

| module | what it is |
|---|---|
| `RemoteTypes` | the values on the wire and the data classes of `base.py` |
| `MT5Terminal` | what each read of `backend.py` makes of a terminal |
| `BridgeApi` | the read routes of `app.py` and the bodies of `schemas.py` |
| `RemoteClient` | the parsers of `mt5_remote.py` and the errors it makes of statuses |
| `RemoteTrading` | an operator's commands, call by call, over policy, client, network and bridge |
| `RemoteTradingProofs`, `RemoteAnswersProofs` | the proofs: what callers are told, what opens an order, the types; what the client makes of the answers |

A terminal is a record of facts: whether it answers, which attributes its structs
lack, what it says of account, symbol, tick and bars.  Text, decimals, instants
and nulls are the values the parsers tell apart.  A command is a script of
calls and each call is a step; between two calls the terminal may become another.
An order's request may find a tick whose time cannot be corrected, or an
`order_check` that gives nothing: both are a 500 that leaves the row RECEIVED.
A call is answered, not delivered, or answered with the answer lost or spoiled by a proxy; or
the client gives up on it and it may reach the bridge later (`late`, `HandleLate`).
The bridge handles a write in one step here: how writes interleave inside it is
`DemoBridge`'s subject.  `told` is what the caller of each id may conclude,
`held` and `checked` are history.

Met while modelling, and true of the code: the quote route answers with an ask
below the bid, and the account route with a null balance, equity or currency,
both of which the client refuses (`Irregular` lists what it refuses by design,
with bars out of order and prices outside a bar's low and high);
`order_send_failed` (502) stands for definite refusals and for ambiguous
failures, so the client treats both as ambiguous; preflight checks neither the
symbol's trade mode nor its filling mode, which the bridge does; a kill-switch
deactivation that timed out may arrive after a later, acknowledged activation;
`safe_close` is denied while reconciliation is not OK.

### The operational runtime

`ObserverCycle` is one round of reads and its verdict, as operators on an
observation: for each read a good answer, one that fails its check, or an
exception.  `OperationalRuntime` has the processes: loops, which hold the runtime
lock, and one-shot commands, which take no lock but use the same journal and
heartbeat.  Each system call on a shared file is a step, so a process may be
killed between the removal of the old journal and the rename of the full one, or
take the temporary heartbeat away under another, whose `os.replace` then raises
and ends it.  `followed` is one decision that was journaled, any one, and `since`
the decisions appended after it.  The rest of the files' contents does not matter to
the code and is not kept.

Also seen: two processes that find the journal full both rotate it, and the
second drops a full journal (which is why a decision is followed only until two
processes are at the journal at once); `cycle_seconds` above 300 makes the backoff
of a degraded loop shorter than that of a healthy one; LIVE mode can report
preflight PASS; bad symbol metadata fails the preflight and leaves the reason at
NO_AUTHORIZED_STRATEGY.

### The FX backtest

| module | what it is |
|---|---|
| `FxCosts` | prices of a fill, P&L, rollovers and swap |
| `FxEngine` | `FxBacktestEngine.run`, one turn of its loop per step |
| `FxCashBook` | the abstract specification: netted orders, commissions and rollovers |
| `FxProperties` | what must hold of one run, and the refinement mapping |
| `FxBacktest` | two runs side by side, to compare their pasts |
| `FxProofs` | the proofs |
| `MCFxBacktest` | TLC instances |

Money is a Decimal in the code, for which sums and products are exact; here it is
an integer in the smallest unit.  A turn is one of `KeepPosition`, `OpenPosition`,
`ClosePosition`, `FlipPosition` and `Fail`; each ends with `MarkBar`, the equity
point and the insolvency check.  A flip whose close ruins the account does not
open again: `NothingAfterInsolvency` speaks of the balance and the position as
well as of the equity points.  `FinalClose` follows the loop.  The cash book knows
of no gross P&L, spread, slippage, accrual or mark: `cash` is the balance less
what the open holding cost, and a flip is one order of two units.

"No look-ahead" is about two behaviours, so `FxBacktest` steps two engines
together.  The second run is cut short, or gets other bars and signals, from some
bar on; what both have seen must leave the same equity and the same account.

Also seen: a position opened on the last bar is closed at the same open and counts
as held for one bar; the docstring of `execution.py` says that the engine
validates missing spreads, which it does not (they count as zero); a
swap model without a schedule fails the run when a position crosses midnight.

## 3. The runs

| run | bounds | what it shows |
|---|---|---|
| `bridge` | 2 threads, 2 ids, opens and closes, crashes and failing reads | the safety and action properties of the write path, and that it implements `OrderLedger` |
| `bridge_gates` | 2 threads, 2 ids, limit 1, crashes and account switches | every order sent has passed its gates in its own request; the position limit, when opening requests do not overlap |
| `bridge_liveness` | 2 threads, 1 id, crashes, silence, account switches | requests are answered; RECEIVED rows can be cleared |
| `bridge_resubmit` | 1 thread, 2 ids, crashes, failing reads | violated: a leftover row is sent after a restart |
| `clock` | 1 symbol, 2 readers, half hour of 5 units, tolerance, age and skew of 1, two zones, 6 units of time | corrections, freshness and exactness of new ticks |
| `clock_stale` | 1 symbol, 1 reader | violated: a stale tick is taken for a clock change |
| `probe` | 2 processes, lost and late requests, kills, a foreign position | exposure is on record, CLOSED and success are true, an ambiguity is final, every process ends |
| `probe_overlap` | 2 processes | violated: two processes at once each open a position |
| `remote` | 2 ids, 1 late write, thirty-odd terminals to start from and four to turn into, every command and every fate | definite outcomes are true, opens were authorised, preflight and demo-open agree, the client understands the bridge |
| `runtime` | 2 loops, 1 one-shot command, 4 observations, journals of 2 decisions, backoff up to 3 | one loop, earned verdicts, recent decisions kept, a stop is obeyed |
| `fx` | 4 bars of 3 shapes and 2 gaps, all signals, 6 configurations | every cost and rollover once, insolvency ends the run, books balance, no look-ahead, the cash book |
| `fx_final_close` | as `fx` | violated: the close after the loop ruins the account unnoticed |

Why the bounds are enough.  Every race of the write path is between two threads
over one row, or over the report and a row, so two threads and two ids show
each of them, with one id to open and one to close or to be the orphan; the
theorems of section 5 remove the bounds from the safety properties.  In
the clock, a half hour of five units is the least that leaves room for the
tolerance on both sides and for a stale tick that is neither; six units of time
let a tick grow a half hour old and be read again.  Two readers may hold
different ticks of one symbol, and different times, while either corrects its
own, which is all that a second symbol would add: the calibration does not know
of symbols.  Two processes of the probe
show each order of one that starts while, before or after another runs; nothing
else in `DemoProbe` needs a bound, since a process runs once.

In `remote`, one id is opened and the other closes it, or is a second open; one
late write (`MaxLate`) is enough to overtake another call, and each terminal
departs from the nominal one in one fact, because each check and each
parser looks at one; `MaxHistoryBars` of two is the least that orders bars.  In `runtime`, a
journal of two decisions is full, rotated and full again within a few
cycles; two loops contend for the lock and the one-shot command meets either at
the journal.  In `fx`, four bars are the first that allow open, keep, flip and final
close; the shapes move the price up, down and not at all within a bar, with and
without a spread; a gap of 1 may hold no rollover and one of 7 holds several, one
of them tripled; a balance of 14 is ruined by some runs, to exactly zero among
them.  The theorems remove these bounds as well.

Threads, ids and readers are interchangeable, so they are symmetry sets
in the safety runs of the bridge and the clock; a run with a liveness property uses none.

The deadlock check is off in the two FX runs, where a backtest ends.  Elsewhere
the operator, the kill switch, a new process or the world can always take a step.

### Fairness

`FairSpec` assumes weak fairness of each thread's next call: the thread pool
schedules its threads and calls to MetaTrader5 return.  Nothing is assumed of
callers, crashes or the terminal.  `RequestsAreAnswered` needs no more: a thread
always has a next call or has ended.  `OperatorSpec` adds an operator who starts
the bridge when it is down, and who calls the reconciliation and resolution
routes again and again: strong fairness, since other requests may take the
thread in between.  `ReceivedIsCleared` is stated for behaviours in which crashes
end (`<>[]up`), and its exception, a SUBMITTED row, is the ambiguity that the
code leaves to a human on purpose.

`DemoProbe`'s `FairSpec` assumes that a process that has started and is not killed
is scheduled.  It assumes nothing of network and bridge: `ProbesEnd` rests on the
client's timeout, the second disjunct of `AwaitOpen` and `AwaitClose`.

`OperationalRuntime`'s `FairSpec` assumes the same of each running loop, and of
one-shot commands nothing, since no loop waits for one.  Sleep is a sequence of one-second
naps that looks at the stop request in between, as in the code.

## 4. Where the code departs from its texts

Four runs refute a sentence of the repository; `PROJECT.json` quotes each.

* `LeftoverIsNotResubmitted`: the callers of the store recognise a leftover row
  by `updated_at != created_at` (`trading.py:291`, `541`).  A crash before the
  submission boundary leaves a row that was never updated, so a retried close is
  sent.  `AtMostOneSend` still holds: that row was never sent before.  A retried
  open is kept out by the mismatch that its own row causes at startup.
* `StaleTickKeepsItsTime`: a tick whose age is a whole number of half hours to
  within five seconds is indistinguishable from a clock change.  `NewTickIsExact`
  says that the next live tick repairs it.
* `AtMostOneCycle`: the state file is checked at the start of the preflight and
  OPENING is recorded after it (`demo_execution_test.py:85`, `119`), so the
  single-use test is single-use only for starts that do not overlap.  Whatever
  else overlapping processes do to the file, `SuccessIsTrue` still holds of each.
* `InsolvencyIsRecorded`: the close after the last bar (`engine.py:210`) does not
  look at the balance it leaves, so a run can end at or below zero and say that
  it was solvent.

More departures were met and have no run, because a property would only restate
that a check is missing:

* the kill switch is read once (`trading.py:306`) and an order that has passed
  it is sent after the switch is activated (`mt5_bridge/README.md:220`);
* a close checks no reconciliation report at all (`trading.py:546`, against
  `mt5_bridge/README.md:223`);
* the account is verified first, not immediately before `order_send`
  (`trading.py:257`, against `trading.py:170` and `mt5_bridge/README.md:217`);
* running reconciliation never resolves a mismatch that a SUBMITTED row causes
  (`reconciliation.py:203`, against `__main__.py:12`);
* `positions_get` and `orders_get` turn MetaTrader5's `None` into an empty list
  (`backend.py:654`), so reconciliation says OK of a terminal that does not answer,
  and the count gate of `OpensAreAuthorized` counts as held then, although
  `policy.py:8` has an unknown input deny;
* only `TradingError` is caught before the submission boundary;
  `MT5BackendError` passes (`trading.py:370`) and leaves the row RECEIVED;
* nothing holds the position count until the send (`trading.py:318`), so opening
  requests that overlap may exceed the limit: `AtMostMaxPositions` says what is left.

## 5. What is proved

For every number of threads, ids, opening orders, every position limit and every
set of faults (`DemoBridgeAssumption` and the store's assumptions say only that
`None` is not an id or a request, that the limit is positive and that faults are
known), `DemoBridgeProofs` proves of `Spec`:

* `TypeInvariant`, `Invariant`;
* `SentOnce`, `AnswersAreTrue`, `DealsAreKept`, `ReceivedWasNotSent`, `OwnerIsUnique`;
* the action properties `TerminalRowsAreFinal` and `OrphanKeepsOpensOut`;
* `BridgeImplementsLedger`: the refinement of `OrderLedger`.

The argument.  None of the safety properties is inductive.  The strengthening
`Inv` has five parts.  `RowInv` says what the state of a row tells: a RECEIVED row
was not sent and has no evidence, a refused row was sent once and not executed.
`ThreadInv` says what a thread may rely on at each call: the row it carries
exists and has its request, and between the submission boundary and the
recorded outcome it is SUBMITTED.  `OwnersInv` says that one thread at most is in
that stretch for an id: this is what makes the unconditional
`update_idempotency_state` safe, since any other writer of the row needs it to be
RECEIVED.  `OrphanInv` says that a SUBMITTED row of an earlier life keeps every
saved or pending report from OK, and every opening request before the check that
reads it: the check and the send lie in one life of the process, and no step
takes an orphan out of SUBMITTED.  The last part says that a process that is down
has no threads.  Each action has a step of its own; `ThreadFrame`, `RowFrame` and
`HandleInv` carry what the action does not touch.  For the refinement,
`PhaseMoves` maps each change of a row to a change of phase, and `LedgerStep`
gives each action its ledger step or its stutter.

For every half hour, tolerance below half of it, range of offsets, zones within
it, skews, symbols and readers (`BrokerClockAssumption`), `BrokerClockProofs` proves
`ClockTypes`, `CorrectionsAreHalfHours`, `UsedQuotesAreFresh` and
`NewTicksAreExact`, with no bound on time other than the guard of `Pass` and
none on how long a reader waits at the lock.  The
lemmas are about the arithmetic: `Quotient` (integer division is the quotient with
a small remainder), `NearestOfClose` (what is within the tolerance of a multiple
is nearest to that multiple) and `CalibrationFromNewTick`.  The invariant adds to
the properties that each tick's raw stamp is its true time plus an offset in the
range (of a fetched tick as well, `ReadsAreInAZone`).

For every number of processes (`DemoProbeAssumption` says that the foreign position
is none of theirs and that `None` is not a file), `DemoProbeProofs` proves
`ProbeTypes`, `ExposureRecorded`, `ClosedTruthful`, `SuccessTruthful` and
`AmbiguousForever`.  The invariant `Inv` has three layers.  `BookInv` is about the
bridge's books and the positions: an executed order was sent once and is
submitted or filled, and a position or a closing order presupposes an executed
opening order.  `StepInv` is what a process may rely on whoever else runs: before
its request leaves there is none, and a cycle it reports was executed.  `FileInv`
is what the file says at each step of the only process that runs, which is where
`overlapped` is needed: `ExposureIsOnRecord` and `AmbiguityIsFinal` rest on it,
`SuccessIsTrue` does not.  `ProbeMoves` carries what a step of one process leaves
alone, `OthersMove` what a step of the bridge or the account does; each action
then has a lemma of its own.

Of the gates, `DemoBridgeGatesProofs` proves `GatesWerePassed` for any threads, ids
and faults, and `PositionLimitIsKept` for any finite set of threads and any limit as
long as MetaTrader5 answers.  Both rest on the invariant of the write path.
`GatesInv` says, for each call of an opening request, which gates it already has to its
credit; `LimitInv` that the one request past the count finds room.

For any loops, one-shot commands, mode, observations and limits
(`RuntimeAssumption`), `OperationalRuntimeProofs` proves `RuntimeTypeOK`,
`RuntimeOneLoop`, `RuntimeVerdictIsEarned` and `RuntimeJournalKeepsRecent`.  The verdict is
first proved of every round there may be (`VerdictsAreEarned`); `CycleInv` says that
what a process takes to the journal is such a verdict.  `LoopInv` ties the place of a
loop to the lock.  `JournalInv` is the argument of the rotation: while a
decision is followed, one process at most is at the journal, it finds the
journal full when it rotates, and a decision in the older file was followed by what
the journal holds.

For any bars, gaps, prices, signals, costs, rollover times and choices of the
configuration (`ConstantsAssumption`, `ValidInputs`), `FxProofs` proves `FxTypeOK`,
`FxCostsAreCountedOnce`, `FxEveryRolloverIsChargedOnce`, `FxNothingAfterInsolvency` and
`FxIsCashBook`, the refinement of `FxCashBook`, then `FxBooksBalance` and `FxNoLookAhead`.  The lemmas are about the operators:
`SpreadOfRoundTrip` and `SlippageOfRoundTrip` (a difference of P&L figures is one spread,
or two slippages, whatever the price did) and `SwapAddsUp` (the charges of adjacent
intervals add up, because their rollovers are disjoint).  `SolventWhileRunning` is what `NothingAfterInsolvency` needs of the loop: no
turn leaves a ruined balance and goes on.  `RunInv` and `HeldInv` add to the properties
where the run stands and that the position remembers the prices of its bar.  For the
refinement, `BookRealize` equates the net result of a trade with what the orders
paid, and `CashStep` makes a close, a flip or the final close one order.

`BooksBalance` is about a fold over the trades, whose value for one trade more needs
an induction.  `SetInduction` states it of a set of numbers, from the least
element of its complement (`LeastNumber`); `AddsAnyOrder` and `AddsAgree` then give
what the fold returns whichever element it takes first, and `NetOfAppend` is the
one fact the steps need: one trade more adds its net result.  `BooksStep` follows the money through
a turn, a ruin and the final close.

`NoLookAhead` compares two runs.  Alone it is not inductive: `PairInv` adds the
invariant of the first run, what is needed of the second (`OtherRunInv`: one equity point per
bar it has done), and `Lockstep`: neither gets ahead of the other while the other goes on.
`SameTurn` is the heart of it: from equal accounts, bars equal up to this one
and signals equal before it, the two runs take the same target, swap, fill prices and
trade, and so (`SameAfterTurn`) the same account and equity point.

For any ids that are none of the words on the wire (`IdsAssumption`), any terminals
of the type `MT5Terminals`, commands, fates and number of late writes
(`RemoteTradingAssumption`), `RemoteTradingProofs` proves `DefiniteOutcomes`,
`OpensAreAuthorized` and `TypeOK`.

- `DefiniteOutcomes` follows one call.  `AttemptOutcome` says how the answer of a write
  route fits what it made of the row, and `OrderErrors` what the client makes of
  the answer, or of a spoiled one.  `LateInv` is needed for the writes under way:
  each belongs to an id whose caller was told nothing for certain.
- `OpensAreAuthorized`: for each gate of the policy a lemma called `...IsEvidence`
  says that the client's parser gives the value that opens it only for an answer made
  while the gate held, and `NothingIsNoEvidence` that a spoiled answer never gives
  it; so the facts of a command are backed by the gates held while it ran
  (`FactsInv`), and `authorize_open` reads nothing else.
- `RemoteTypes` (`TypeOK`) needs that the ids are finitely many (`IsFiniteSet(Ids)`): the number of
  positions, which the client parses and the policy compares, is at most that of the ids.

`RemoteAnswersProofs` proves the two action properties.

- `PreflightIsRight` (`PreflightAgrees`).  `Seen` is what preflight wants of a call;
  `PreflightInv` says that after a preflight without problems every call would still find
  it, and that demo-open has learnt just that (`OpenAsSeen`).  Its hypothesis is that
  the policy has `live_trading_enabled` off, which `policy.py:55` requires throughout Phase 0.
  With it on, `policy.py:228` denies every order to open, which preflight does not ask.
- `BridgeIsUnderstandable` (`AnswersAreUnderstood`) has one lemma per route, called
  `...IsUnderstood` or `...AreUnderstood`: the body the route
  builds passes the parser's checks in each field, whatever attributes are
  missing.  The hard route is history: the bars the bridge keeps of a report in order
  are still in order (`PlacesInOrder`, `IncreasingThroughout`).  `ProtocolExit` ties
  the end of a command to the call that ended it, and `TargetInv` gives a close an
  id to close.  It needs finitely many ids, as it rests on `TypeOK`.

Only model-checked: the four liveness properties `RequestsAreAnswered`,
`ReceivedIsCleared`, `ProbesEnd` and `StopIsObeyed`, which are out of the prover's
reach.

## 6. What is not modelled

Of the probe: a temporary file that another process reads half written, and the
policy's checks other than the position count, which are a free choice.  Of the
bridge: prices, volumes, spreads, margin and messages; reads of history; the
MetaTrader5 connection; redaction and how a request is authenticated.  The
identity match of `resolve_received_attempt` is left out because
`RealMT5Backend` gives positions and orders no magic number (`backend.py:652`,
`671`), so it never matches.  Timezone-naive timestamps, which the backend never
makes, are left out of the clock.  A terminal whose clock changes are not whole
half hours is outside `BrokerClock` as it is outside the code.

Of the HTTP side: validation by the framework (422), logging middleware, request
ids, URL quoting, the size limit of a response, loading the policy file and the
configuration.  A 4xx that something between client and bridge sends of its own, after
the bridge has acted, is left out too: `mt5_remote.py:868` would tell it as a
definite rejection, so `DefiniteOutcomes` holds only where every 4xx is the
bridge's.  The repository has no such proxy.  `QuantizationError` and restarts of the bridge are not in
`RemoteTrading`, where the clocks of both sides are right; restarts are
`DemoBridge`'s.  Of the runtime: what `status` prints and the texts of
the configuration; a failing write to the disk.  Of the FX backtest: the metrics, and the
Decimal context's rounding, which products of this size do not reach.

The other components are `not_modelled` in `PROJECT.json`: the bridge's configuration
and smoke test (read once or pure conversions), market data and research pipelines
(batch programs over files, mostly statistics in floating point), the crypto engine and
its strategies, research splits, and the archive of a closed phase.  The plan says
which of them are worth a model.

## 7. Plan

Order: what touches money first, then what runs unattended, then what decides
whether a strategy is believed.

1. Write path, gates, broker clock, demo probe: done.
2. HTTP contract, client, policy and commands: done.
3. Operational runtime: done.
4. FX engine: done.
5. The crypto engine and the strategy state machines, against the same cash book with
   stops and a pending order.
6. Splitter, holdout and walk-forward windows against reference definitions over
   bounded inputs; the phase guard that lets a holdout be read once.
7. FX market data: validation, session calendar, dataset manifest.
8. Quantisation of prices and volumes in the bridge, with a reference definition.
