------------------------------ MODULE RemoteClient ------------------------------
(***************************************************************************)
(* How src/execution/mt5_remote.py reads an answer: the errors it makes of *)
(* statuses, and one parser per response, which fails closed.  A parser    *)
(* gives the set of the values it may return, empty when it raises         *)
(* ExecutionProtocolError.  Fields keep their names on the wire.           *)
(***************************************************************************)
EXTENDS RemoteTypes

\* _require_field, payload.get and the checks of the values.
Field(body, f) == IF f \in DOMAIN body THEN body[f] ELSE "absent"

Accepts(body, type) ==
    \A f \in DOMAIN type :
        \/ Field(body, f) \in type[f]
        \/ Field(body, f) = "absent" /\ "null" \in type[f]

Parsed(body, type, invariant) ==
    IF Accepts(body, type) /\ invariant
    THEN {[f \in DOMAIN type |-> IF f \in DOMAIN body THEN body[f] ELSE "null"]}
    ELSE {}

\* payload.get with a default, and the enumerations that have a fallback.
Set(body, f, value) == Merge([g \in {f} |-> value], body)

Default(body, f, value) == IF f \in DOMAIN body THEN body ELSE Set(body, f, value)

Fallback(body, f, values, value) ==
    IF Field(body, f) \in values THEN body ELSE Set(body, f, value)

Positive(body, fields) == \A f \in fields : Amount[body[f]] > 0

ParseHealth(body)   == Parsed(body, HealthStatus, TRUE)
ParseTerminal(body) == Parsed(body, TerminalStatus, TRUE)

ParseAccount(body) ==
    Parsed(Fallback(body, "trade_mode", AccountTradeModes, "unknown"), AccountSummary, TRUE)

ParseSymbolMetadata(body) ==
    Parsed(Default(body, "symbol", "text"), SymbolMetadata,
           /\ Positive(body, {"volume_min", "volume_step", "volume_max"})
           /\ Amount[body.volume_min] <= Amount[body.volume_max])

ParseSymbolSummary(body) == Parsed(body, SymbolSummary, TRUE)

ParseQuote(body) ==
    Parsed(Default(body, "symbol", "text"), Quote,
           /\ Positive(body, {"bid", "ask"})
           /\ Amount[body.ask] >= Amount[body.bid])

ParseHistoryBar(body) ==
    Parsed(body, HistoryBar,
           \A f \in {"open", "close", "high", "low"} :
               Amount[body.low] <= Amount[body[f]] /\ Amount[body[f]] <= Amount[body.high])

StrictlyIncreasing(bars) ==
    \A i \in 1..(Len(bars) - 1) : Instant[bars[i].timestamp] < Instant[bars[i + 1].timestamp]

ParsePosition(body) == Parsed(body, Position, Positive(body, {"volume"}))

\* client_order_id may be null but must be there.
ParseOrder(body) ==
    Parsed(Fallback(body, "status", OrderStatuses, "error"), Order,
           "client_order_id" \in DOMAIN body)

ParseJournalEntry(body) == Parsed(body, JournalEntry, TRUE)

ParseResult(body, type) ==
    Parsed(Default(Fallback(body, "status", OrderStatuses, "error"), "idempotent_replay", "false"),
           type, TRUE)

ParseOrderResult(body) == ParseResult(body, ExecutionResult)
ParseCloseResult(body) == ParseResult(body, CloseResult)

ParseKillSwitchState(body) == Parsed(body, KillSwitchState, TRUE)

ParseReconciliationReport(body) ==
    Parsed(Default(Fallback(body, "state", ReconciliationStates, "unknown"), "details", "list"),
           ReconciliationReport, "state" \in DOMAIN body)

ParseTimeDiagnostics(body) == Parsed(Default(body, "symbol", "text"), TimeDiagnostics, TRUE)

ParseProfit(body) == Parsed(body, [profit |-> Decimals], TRUE)

-----------------------------------------------------------------------------
Writes == {"place_order", "close_position", "activate", "deactivate", "run_reconciliation",
           "resolve_received"}

\* The one list of a response, and the parser of its items.
ListOf == [symbols |-> "symbols", positions |-> "positions", orders |-> "orders",
           journal |-> "entries", history |-> "bars", reversed_history |-> "bars"]

ParseItem(op, body) ==
    CASE op = "symbols"   -> ParseSymbolSummary(body)
      [] op = "positions" -> ParsePosition(body)
      [] op = "orders"    -> ParseOrder(body)
      [] op = "journal"   -> ParseJournalEntry(body)
      [] OTHER            -> ParseHistoryBar(body)

ParseList(op, body, items) ==
    IF /\ Field(body, ListOf[op]) = "list"
       /\ \A i \in DOMAIN items : ParseItem(op, items[i]) # {}
       /\ ListOf[op] = "bars" => StrictlyIncreasing(items)
    THEN {body} ELSE {}

ParseBody(op, body) ==
    CASE op = "health"           -> ParseHealth(body)
      [] op = "terminal"         -> ParseTerminal(body)
      [] op = "account"          -> ParseAccount(body)
      [] op = "symbol_metadata"  -> ParseSymbolMetadata(body)
      [] op = "quote"            -> ParseQuote(body)
      [] op = "time_diagnostics" -> ParseTimeDiagnostics(body)
      [] op = "profit_calc"      -> ParseProfit(body)
      [] op = "place_order"      -> ParseOrderResult(body)
      [] op = "close_position"   -> ParseCloseResult(body)
      [] op \in {"kill_switch_status", "activate", "deactivate"} -> ParseKillSwitchState(body)
      [] OTHER                   -> ParseReconciliationReport(body)

\* _get_json: the status alone decides.
GetError(answer) ==
    CASE answer.status \in {401, 403}             -> "authentication"
      [] answer.status >= 500                     -> "remote"
      [] answer.status \in 400..499 \ {401, 403} -> "request"
      [] OTHER                                    -> "none"

\* A bug it could have: whatever carries an error code is a refusal.
PostErrorByCode(answer) ==
    CASE answer.code # "none"                                     -> "rejected"
      [] answer.code = "none" /\ answer.status \in {401, 403}     -> "authentication"
      [] answer.code = "none" /\ answer.status \in 400..599 \ {401, 403} -> "remote"
      [] OTHER                                                    -> "none"

\* _post_json: an error body's code decides between a refusal and a failure.
PostError(answer) ==
    LET unauthorized == \/ answer.status = 401 \/ answer.code = "unauthorized"
                        \/ answer.status = 403 /\ answer.code = "none"
    IN  CASE unauthorized                                  -> "authentication"
          [] ~unauthorized /\ answer.status >= 500         -> "remote"
          [] ~unauthorized /\ answer.status \in 400..499   -> "rejected"
          [] OTHER                                         -> "none"

\* What a call raises for an answer, or "none" when it returns.
ErrorOf(op, answer) ==
    LET error  == IF op \in Writes THEN PostError(answer) ELSE GetError(answer)
        parsed == IF op \in DOMAIN ListOf THEN ParseList(op, answer.body, answer.items)
                  ELSE ParseBody(op, answer.body)
    IN  IF error = "none" /\ parsed = {} THEN "protocol" ELSE error

ValueOf(op, answer) == CHOOSE value \in ParseBody(op, answer.body) : TRUE
=============================================================================
