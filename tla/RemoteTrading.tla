----------------------------- MODULE RemoteTrading -----------------------------
(***************************************************************************)
(* An operator at the `tia mt5` command line (cli/mt5_remote_cli.py), the  *)
(* safety layer under it (execution/safe_execution.py, policy.py), the     *)
(* HTTP client (execution/mt5_remote.py) and the bridge.  A command is a   *)
(* fixed script of calls; each call is one step, with what the network     *)
(* makes of it, and between two calls the terminal may change.             *)
(*                                                                         *)
(* A write that timed out may still reach the bridge later.  The bridge    *)
(* handles one write at a time here, as one step; how concurrent writes    *)
(* interleave inside it is DemoBridge's subject.                           *)
(***************************************************************************)
EXTENDS BridgeApi

CONSTANTS
    Terminals,      \* the terminals the bridge may find (records of facts)
    Turns,          \* what a terminal may turn into
    Fates,          \* what the network may make of a call
    Commands,       \* the commands the operator gives
    LiveEnabled,    \* live_trading_enabled of the policy
    MaxSimultaneousPositions,  \* of the policy
    MaxLate         \* writes given up on that may be under way at once

AllFates == {"answered",    \* the bridge answers
             "unreached",   \* the bridge is never reached
             "lost",        \* the bridge answers and the answer is lost
             "damaged",     \* the bridge answers and a proxy spoils the answer
             "delayed"}     \* the client gives up; the bridge may be reached later

Client == INSTANCE RemoteClient

\* The calls of each command, in order.  Context is what the safety layer asks
\* before it asks the policy.
Context == <<"account", "symbol_metadata", "positions", "kill_switch_status",
             "reconciliation_status">>

StatusCalls    == <<"health", "terminal", "account", "kill_switch_status",
                    "reconciliation_status">>
PreflightCalls == <<"health", "terminal", "account", "kill_switch_status",
                    "reconciliation_status", "positions", "symbol_metadata", "quote">>
PositionsCalls == <<"positions">>
SafeOpenCalls  == <<"quote">> \o Context \o <<"place_order">>
SafeCloseCalls == Context \o <<"close_position">>
DemoOpenCalls  == <<"symbol_metadata">> \o SafeOpenCalls
DemoCloseCalls == <<"positions">> \o SafeCloseCalls
KillCalls      == [kill_status |-> <<"kill_switch_status">>, kill_activate |-> <<"activate">>,
                   kill_deactivate |-> <<"deactivate">>]
ReconcileCalls == <<"run_reconciliation">>
ResolveCalls   == <<"resolve_received">>
JournalCalls   == <<"journal">>
TimeCalls      == <<"time_diagnostics">>

\* What programs other than the command line ask of the client.
LibraryCalls   == <<"symbols", "orders", "history", "reversed_history", "profit_calc">>

Script == Merge(KillCalls,
    [status |-> StatusCalls, preflight |-> PreflightCalls, list_positions |-> PositionsCalls,
     demo_open |-> DemoOpenCalls, demo_close |-> DemoCloseCalls,
     reconcile |-> ReconcileCalls, resolve_received |-> ResolveCalls,
     read_journal |-> JournalCalls, diagnose_time |-> TimeCalls, library |-> LibraryCalls])

ASSUME RemoteTradingAssumption ==
    /\ Terminals \union Turns \subseteq MT5Terminals
    /\ Fates \subseteq AllFates
    /\ Commands \subseteq DOMAIN Script
    /\ LiveEnabled \in BOOLEAN
    /\ MaxSimultaneousPositions \in Nat \ {0}
    /\ MaxLate \in Nat

VARIABLES
    terminal,   \* the MetaTrader5 terminal
    positions,  \* its open positions
    orders,     \* the bridge's row for each id, and what the broker made of it
    killSwitch, recon,
    late,       \* writes that may still reach the bridge
    cmd,        \* the command in progress
    last,       \* how the last command ended, and whether that answer came unharmed
    told,       \* what the caller of each id has been told
    \* History: no code reads these.
    held,       \* the policy's gates that held at some moment of this demo-open
    checked     \* how the last preflight stands; "passed" until anything changes

bridge == <<positions, orders, killSwitch, recon>>
vars   == <<terminal, bridge, late, cmd, last, told, held, checked>>

\* PolicyContext, and what the other calls leave for later steps.
NoFacts == [mode |-> "unknown", recon |-> "unknown", switch |-> "active", count |-> 0,
            minimum |-> "0", maximum |-> "0", fresh |-> FALSE]

IdleCommand == [name |-> "none", step |-> 1, id |-> "none", target |-> "none",
                volume |-> "0", facts |-> NoFacts, problem |-> FALSE]

NoExit == [exit |-> "none", heard |-> FALSE]

OrderStates == {"none", "denied", "received", "aborted",   \* never sent
                "refused",                                 \* sent, not executed
                "adrift",                                  \* SUBMITTED, not executed
                "adrift_executed", "filled"}               \* executed

Init ==
    /\ terminal \in Terminals
    /\ positions = {}
    /\ orders = [id \in Ids |-> "none"]
    /\ killSwitch \in KillSwitchStatuses
    /\ recon \in ReconciliationStates
    /\ late = {}
    /\ cmd = IdleCommand
    /\ last = NoExit
    /\ told = [id \in Ids |-> "unused"]
    /\ held = {}
    /\ checked = "no"

-----------------------------------------------------------------------------
(* validate_quote_freshness, with the clocks of both sides right. *)
Fresh(timestamp) == timestamp = "t2"

(* The policy. *)

Identified(facts) ==
    /\ ~LiveEnabled
    /\ facts.mode = "demo"           \* remote environment and account trade mode
    /\ facts.recon = "ok"

\* A bug it could have: the kill switch is left out.
AuthorizeOpenWithoutSwitch(facts, volume) ==
    /\ Identified(facts)
    /\ facts.count < MaxSimultaneousPositions
    /\ volume = facts.minimum

AuthorizeOpen(facts, volume) ==
    /\ Identified(facts)
    /\ facts.switch = "inactive"
    /\ facts.count < MaxSimultaneousPositions
    /\ volume = facts.minimum
    /\ Amount[volume] <= Amount[facts.maximum]
    /\ Amount[volume] > 0

\* CONTEST passes the account's check but not the environment's.
AuthorizeClose(facts) == Identified(facts)

\* The gates of authorize_open and of the quote check, as they are in fact.  A
\* terminal that does not answer gives the bridge no positions, which it reports
\* as an empty list (backend.py:654): the count then passes as held.
Gates ==
    (IF terminal.answers /\ TradeModeString(terminal.code) = "demo" THEN {"demo"} ELSE {})
    \union (IF killSwitch = "inactive" THEN {"switch"} ELSE {})
    \union (IF recon = "ok" THEN {"recon"} ELSE {})
    \union (IF Cardinality(positions) < MaxSimultaneousPositions \/ ~terminal.answers
            THEN {"count"} ELSE {})
    \union (IF Fresh(terminal.tick.timestamp) THEN {"quote"} ELSE {})

AllGates == {"demo", "switch", "recon", "count", "quote"}

-----------------------------------------------------------------------------
(* The bridge's write routes, each a set of what may come of it: the answer*)
(* and what becomes of the bridge's and the broker's state.                *)

Unchanged == [orders |-> orders, positions |-> positions,
              killSwitch |-> killSwitch, recon |-> recon]

TradingErrorStatus ==
    [not_demo |-> 403, autotrading_disabled |-> 403, kill_switch_active |-> 403,
     reconciliation_required |-> 409, symbol_not_tradable |-> 403, stale_quote |-> 409,
     order_check_failed |-> 422, order_send_failed |-> 502, position_not_found |-> 404,
     too_many_positions |-> 403, invalid_volume |-> 400]

TradingError(code) == Error(TradingErrorStatus[code], code)

With(answer, state) == [answer |-> answer, state |-> state]
Row(id, status)     == [Unchanged EXCEPT !.orders[id] = status]

IsDemo == terminal.answers /\ terminal.code = "0"

\* Checks before the submission boundary, in the order the code makes them;
\* "raises" is an MT5BackendError, which no handler of the write path catches.
Check(code, fails) == [code |-> code, fails |-> fails]

Permitted ==
    Check("autotrading_disabled",
          \/ terminal.permissions # Permissions
          \/ terminal.missing \cap {"trade_allowed", "trade_expert"} # {})
Located   == Check("raises", PositionsGet(terminal, positions) = {})
TickRead  == Check("raises", TickRaises(terminal))
FreshTick == Check("stale_quote", ~Fresh(terminal.tick.timestamp))
Buildable == Check("raises", ~FillingModeKnown(terminal))

\* A new row; then the checks; order_check, which raises when MetaTrader5 gives
\* it None; and order_send.
Attempt(id, checks, filled, response) ==
    LET failing == {i \in DOMAIN checks : checks[i].fails}
        denial  == IF failing = {} THEN "none" ELSE checks[Min(failing)].code
    IN  CASE ~IsDemo           -> {With(TradingError("not_demo"), Unchanged)}
          [] IsDemo /\ denial = "raises" -> {With(Internal, Row(id, "received"))}
          [] IsDemo /\ denial \notin {"none", "raises"} ->
                {With(TradingError(denial), Row(id, "denied"))}
          [] OTHER ->
                {With(Internal, Row(id, "received")),
                 With(TradingError("order_check_failed"), Row(id, "denied")),
                 With(Ok(response), filled),
                 With(TradingError("order_send_failed"), Row(id, "refused")),
                 With(TradingError("order_send_failed"), Row(id, "adrift")),
                 With(TradingError("order_send_failed"),
                      [filled EXCEPT !.orders[id] = "adrift_executed"])}

PostDemoOrder(id, volume) ==
    Attempt(id,
            <<Permitted,
              Check("kill_switch_active", killSwitch = "active"),
              Check("reconciliation_required", recon # "ok"),
              Located,
              Check("too_many_positions", positions # {}),
              Check("symbol_not_tradable",
                    terminal.symbol # "full" \/ "trade_mode" \in terminal.missing),
              Check("invalid_volume", volume # terminal.volume_min),
              TickRead, FreshTick, Buildable>>,
            [Unchanged EXCEPT !.orders[id] = "filled", !.positions = positions \union {id}],
            DemoOrderResultResponse(id))

PostDemoClose(id, target) ==
    Attempt(id,
            <<Permitted, Located,
              Check("position_not_found", target \notin positions),
              TickRead, FreshTick, Buildable>>,
            [Unchanged EXCEPT !.orders[id] = "filled", !.positions = positions \ {target}],
            DemoCloseResultResponse(id, target))

SetKillSwitch(status) ==
    {With(Ok(KillSwitchResponse(status)), [Unchanged EXCEPT !.killSwitch = status])}

\* run_reconciliation after the rows became `rows`.
Reconciled(rows) ==
    LET verdict ==
            IF PositionsGet(terminal, positions) = {} THEN "unknown"
            ELSE IF \E id \in Ids : rows[id] \in {"received", "adrift", "adrift_executed"}
                 THEN "mismatch" ELSE "ok"
    IN  With(Ok(ReconciliationResponse(verdict)), [Unchanged EXCEPT !.orders = rows, !.recon = verdict])

PostReconciliationRun == {Reconciled(orders)}

PostResolveReceived(id) ==
    IF orders[id] = "received" /\ PositionsGet(terminal, positions) # {}
    THEN {Reconciled([orders EXCEPT ![id] = "aborted"])}
    ELSE {With(Conflict, Unchanged)}

Read(op) ==
    CASE op = "health"                -> GetHealth(terminal)
      [] op = "terminal"              -> GetTerminal(terminal)
      [] op = "account"               -> GetAccount(terminal)
      [] op = "symbols"               -> GetSymbols(terminal)
      [] op = "symbol_metadata"       -> GetSymbol(terminal)
      [] op = "quote"                 -> GetQuote(terminal)
      [] op = "time_diagnostics"      -> GetTimeDiagnostics(terminal)
      [] op = "history"               -> GetHistory(terminal, TRUE)
      [] op = "reversed_history"      -> GetHistory(terminal, FALSE)
      [] op = "profit_calc"           -> GetProfitCalc(terminal)
      [] op = "positions"             -> GetPositions(terminal, positions)
      [] op = "orders"                -> GetOrders(terminal)
      [] op = "kill_switch_status"    -> GetKillSwitch(killSwitch)
      [] op = "reconciliation_status" -> GetReconciliation(recon)
      [] OTHER                        -> GetJournal({id \in Ids : orders[id] # "none"})

\* A call, as the client sends it, and what the bridge may do with it.
Handled(call) ==
    IF ~terminal.authentic THEN {With(Unauthorized, Unchanged)}
    ELSE CASE call.op = "place_order"        -> PostDemoOrder(call.id, call.volume)
           [] call.op = "close_position"     -> PostDemoClose(call.id, call.target)
           [] call.op = "activate"           -> SetKillSwitch("active")
           [] call.op = "deactivate"         -> SetKillSwitch("inactive")
           [] call.op = "run_reconciliation" -> PostReconciliationRun
           [] call.op = "resolve_received"   -> PostResolveReceived(call.target)
           [] OTHER                          -> {With(Read(call.op), Unchanged)}

Become(state) ==
    /\ orders' = state.orders
    /\ positions' = state.positions
    /\ killSwitch' = state.killSwitch
    /\ recon' = state.recon

-----------------------------------------------------------------------------
(* The client's side of a call. *)

Call == [op |-> Script[cmd.name][cmd.step], id |-> cmd.id, target |-> cmd.target,
         volume |-> cmd.volume]

\* A bug it could have: one call too many.
LastStepOffByOne == cmd.step > Len(Script[cmd.name])

LastStep == cmd.step = Len(Script[cmd.name])

\* What the command keeps of an answer.
FactsAfter(op, answer) ==
    LET value == Client!ValueOf(op, answer)
        facts == cmd.facts
    IN  CASE op = "account"               -> [facts EXCEPT !.mode = value.trade_mode]
          [] op = "symbol_metadata"       -> [facts EXCEPT !.minimum = value.volume_min,
                                                           !.maximum = value.volume_max]
          [] op = "positions"             -> [facts EXCEPT !.count = Len(answer.items)]
          [] op = "kill_switch_status"    -> [facts EXCEPT !.switch = value.status]
          [] op = "reconciliation_status" -> [facts EXCEPT !.recon = value.state]
          [] op = "quote"                 -> [facts EXCEPT !.fresh = Fresh(value.timestamp)]
          [] OTHER                        -> facts

\* A bug preflight had: a quote is good whatever its age.
AnyQuoteWillDo(quote) == FALSE

QuoteProblem(quote) == ~Fresh(quote.timestamp)

\* What preflight lists as a problem.
ProblemIn(op, answer) ==
    LET value == Client!ValueOf(op, answer)
    IN  CASE op = "health"                -> value.terminal_connected # "true"
          [] op = "terminal"              -> value.connected # "true" \/ value.trade_allowed # "true"
          [] op = "account"               -> \/ value.trade_allowed # "true"
                                             \/ value.trade_expert # "true"
                                             \/ value.trade_mode # "demo"
          [] op = "kill_switch_status"    -> value.status = "active"
          [] op = "reconciliation_status" -> value.state # "ok"
          [] op = "positions"             -> answer.items # << >>
          [] op = "quote"                 -> QuoteProblem(value)
          [] OTHER                        -> FALSE

\* Preflight goes on without the symbol's metadata and without a quote.
Tolerated(op) == cmd.name = "preflight" /\ op \in {"symbol_metadata", "quote"}

\* Why a command that has its answer goes no further.
Refuses(op, answer, facts) ==
    \/ cmd.name = "demo_open" /\ op = "quote" /\ ~facts.fresh
    \/ /\ cmd.name = "demo_close" /\ cmd.step = 1
       /\ \A i \in DOMAIN answer.items : answer.items[i].position_id # cmd.target
    \/ /\ op = "reconciliation_status"
       /\ \/ cmd.name = "demo_open" /\ ~AuthorizeOpen(facts, cmd.volume)
          \/ cmd.name = "demo_close" /\ ~AuthorizeClose(facts)

\* What a caller may conclude of its id from how the last call ended.
Conclusion(op, error, answer) ==
    IF op \notin {"place_order", "close_position"} THEN "unused"
    ELSE CASE error = "rejected"               -> "rejected"
           [] error \notin {"rejected", "none"} -> "unsure"
           [] error = "none" ->
                 IF Client!ValueOf(op, answer).status = "filled" THEN "filled" ELSE "unsure"

Exit(code, fate, conclusion) ==
    /\ cmd' = IdleCommand
    /\ last' = [exit |-> code, heard |-> fate = "answered"]
    /\ told' = IF cmd.id \in Ids THEN [told EXCEPT ![cmd.id] = conclusion] ELSE told

Proceed(op, error, answer) ==
    /\ cmd' = [cmd EXCEPT !.step = @ + 1,
                          !.facts = IF cmd.id \in Ids THEN FactsAfter(op, answer) ELSE @,
                          !.volume = IF cmd.name = "demo_open" /\ cmd.step = 1
                                     THEN Client!ValueOf(op, answer).volume_min ELSE @,
                          !.problem = cmd.name = "preflight" /\
                                      (@ \/ error # "none" \/ ProblemIn(op, answer))]
    /\ UNCHANGED <<last, told>>

\* The call raises `error`, or returns an answer.
Concludes(op, error, answer, fate) ==
    CASE error # "none" /\ ~Tolerated(op) ->
            Exit(error, fate, Conclusion(op, error, answer))
      [] error = "none" /\ Refuses(op, answer, FactsAfter(op, answer)) ->
            Exit("denied", fate, "unused")
      [] OTHER ->
            IF ~LastStep THEN Proceed(op, error, answer)
            ELSE LET problem == cmd.problem \/ error # "none" \/ ProblemIn(op, answer)
                 IN  Exit(IF cmd.name = "preflight" /\ problem THEN "problems" ELSE "ok",
                          fate, Conclusion(op, error, answer))

\* A proxy's error page, or a body that is not the JSON of the response.  A bare
\* 4xx is not among them: the client takes any 4xx for the bridge's refusal
\* (mt5_remote.py:868), which it is as long as nothing between the two sends one
\* of its own after the bridge has acted.
SpoiledAnswers == {Error(502, "none"), Ok(Empty)}

-----------------------------------------------------------------------------
Steady == bridge' = bridge /\ terminal' = terminal

\* A preflight says nothing of what changes while it runs.
NoteHistory ==
    /\ held' = CASE cmd'.name # "demo_open" -> {}
                 [] cmd'.name = "demo_open" /\ cmd.name # "demo_open" -> Gates'
                 [] OTHER -> held \union Gates'
    /\ checked' = CASE ~Steady -> "no"
                    [] Steady /\ cmd.name = "none" /\ cmd'.name = "preflight" -> "running"
                    [] Steady /\ checked = "running" /\ cmd'.name = "none" ->
                          IF last'.exit = "ok" THEN "passed" ELSE "no"
                    [] OTHER -> checked

\* Every new open or close has an id of its own (uuid4); one that no request
\* has carried is as good as new.
Begin(name) ==
    /\ cmd.name = "none"
    /\ \E id \in Ids \union {"none"}, target \in Ids \union {"none"} :
          /\ id # "none" <=> name \in {"demo_open", "demo_close"}
          /\ target # "none" <=> name \in {"demo_close", "resolve_received"}
          /\ id # "none" => /\ told[id] = "unused"
                            /\ id = CHOOSE i \in Ids : told[i] = "unused"
          /\ cmd' = [IdleCommand EXCEPT !.name = name, !.id = id, !.target = target]
          /\ told' = IF id = "none" THEN told ELSE [told EXCEPT ![id] = "pending"]
    /\ last' = NoExit
    /\ UNCHANGED <<terminal, bridge, late>>
    /\ NoteHistory

MakeCall(fate) ==
    /\ cmd.name # "none"
    /\ LET call == Call IN
       \/ /\ fate \in {"answered", "lost", "damaged"}
          /\ \E result \in Handled(call) :
                /\ Become(result.state)
                /\ \/ /\ fate = "answered"
                      /\ Concludes(call.op, Client!ErrorOf(call.op, result.answer), result.answer, fate)
                   \/ /\ fate = "damaged"
                      /\ \E spoiled \in SpoiledAnswers :
                            Concludes(call.op, Client!ErrorOf(call.op, spoiled), spoiled, fate)
                   \/ /\ fate = "lost"
                      /\ \E error \in {"timeout", "transport"} :
                            Concludes(call.op, error, result.answer, fate)
          /\ UNCHANGED late
       \/ /\ fate \in {"unreached", "delayed"}
          /\ Concludes(call.op, IF fate = "delayed" THEN "timeout" ELSE "transport", Internal, fate)
          /\ IF fate = "delayed" /\ call.op \in Client!Writes
             THEN Cardinality(late) < MaxLate /\ late' = late \union {call}
             ELSE UNCHANGED late
          /\ UNCHANGED bridge
    /\ UNCHANGED terminal
    /\ NoteHistory

\* A write the client has given up on reaches the bridge.
HandleLate ==
    /\ \E call \in late :
          /\ \E result \in Handled(call) : Become(result.state)
          /\ late' = late \ {call}
    /\ UNCHANGED <<terminal, cmd, last, told>>
    /\ NoteHistory

TerminalChanges ==
    /\ terminal' \in Turns \ {terminal}
    /\ UNCHANGED <<bridge, late, cmd, last, told>>
    /\ NoteHistory

Next ==
    \/ \E name \in Commands : Begin(name)
    \/ \E fate \in Fates : MakeCall(fate)
    \/ HandleLate
    \/ TerminalChanges

Spec == Init /\ [][Next]_vars

-----------------------------------------------------------------------------
TypeOK ==
    /\ terminal \in Terminals \union Turns
    /\ positions \subseteq Ids
    /\ orders \in [Ids -> OrderStates]
    /\ killSwitch \in KillSwitchStatuses
    /\ recon \in ReconciliationStates
    /\ \A call \in late : call.op \in Client!Writes
    /\ cmd.name \in Commands \union {"none"}
    /\ cmd.name # "none" => cmd.step \in DOMAIN Script[cmd.name]
    /\ cmd.facts \in [mode : AccountTradeModes, recon : ReconciliationStates,
                      switch : KillSwitchStatuses, count : 0..Cardinality(Ids),
                      minimum : Decimals, maximum : Decimals, fresh : BOOLEAN]
    /\ told \in [Ids -> {"unused", "pending", "unsure", "rejected", "filled"}]
    /\ held \subseteq AllGates
    /\ checked \in {"no", "running", "passed"}

\* What the caller of an open or close is told for certain is true and stays
\* true, also when answers are lost or spoiled and when a write that timed out
\* arrives later: a refusal means the order is not executed, a fill that it
\* is, and an id the client says it has not used is unknown to the bridge
\* (mt5_remote.py, ExecutionWriteRejectedError against every other error).  It
\* assumes that a 4xx comes from the bridge (SpoiledAnswers).
DefiniteOutcomes ==
    \A id \in Ids :
        /\ told[id] = "filled" => orders[id] = "filled"
        /\ told[id] = "rejected" => orders[id] \in {"none", "denied"}
        /\ told[id] \in {"unused", "rejected"} => \A call \in late : call.id # id
        /\ told[id] = "unused" => orders[id] = "none"

\* An order to open leaves the client only if every gate of the policy held at
\* some moment of that command, however the account, the switch, the report,
\* the positions and the quote changed between its calls
\* (safe_execution.py, safe_open; policy.py, authorize_open).  One gate is weaker
\* than policy.py:8-14 would have it, an unknown count denying: the bridge tells
\* a terminal that does not answer as one without positions (Gates).
OpensAreAuthorized ==
    cmd.name = "demo_open" /\ cmd.step = Len(Script["demo_open"]) => AllGates \subseteq held

\* After a preflight without problems, and until anything changes, demo-open
\* is not denied on the client's side (cli/mt5_remote_cli.py:142, "the two must
\* always agree").
PreflightAgrees ==
    [][checked = "passed" /\ cmd.name = "demo_open" => last'.exit # "denied"]_vars

\* A MetaTrader5 terminal whose report the client refuses to read by design.
Irregular(w) ==
    \/ w.missing \cap {"currency", "balance", "equity"} # {}
    \/ Amount[w.tick.ask] < Amount[w.tick.bid]
    \/ Amount[w.volume_min] <= 0 \/ Amount[w.volume_min] > Amount[w.volume_max]
    \/ ~Client!StrictlyIncreasing(w.rates)
    \/ \E i \in DOMAIN w.rates : \E price \in {w.rates[i].open, w.rates[i].high, w.rates[i].close} :
          ~(Amount[w.rates[i].low] <= Amount[price] /\ Amount[price] <= Amount[w.rates[i].high])

\* The client understands every answer of the bridge that reaches it unharmed:
\* whichever attributes the terminal's structs lack, a command ends in a
\* protocol error only for a report that is irregular in itself (schemas.py:3,
\* "matching exactly what `src/execution/mt5_remote.py` parses").
AnswersAreUnderstood ==
    [][last'.exit = "protocol" /\ last'.heard => Irregular(terminal)]_last
=============================================================================
