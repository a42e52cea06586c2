------------------------------- MODULE BridgeApi -------------------------------
(***************************************************************************)
(* The bridge's read routes (mt5_bridge/app.py) and the JSON they answer   *)
(* with (mt5_bridge/schemas.py), for a terminal w.  An answer has a status,*)
(* an error code, a body of scalar fields, and the items of its one list.  *)
(***************************************************************************)
EXTENDS MT5Terminal

CONSTANT MaxHistoryBars

Empty == [f \in {} |-> "null"]

Ok(body)               == [status |-> 200, code |-> "none", body |-> body, items |-> << >>]
OkList(name, items)    == [Ok([f \in {name} |-> "list"]) EXCEPT !.items = items]
Error(status, code)    == [status |-> status, code |-> code, body |-> Empty, items |-> << >>]
BackendUnavailable     == Error(502, "backend_unavailable")
NotFound               == Error(404, "not_found")
BadRequest             == Error(400, "bad_request")
Conflict               == Error(409, "conflict")
Internal               == Error(500, "internal_error")
Unauthorized           == Error(403, "unauthorized")

\* What a route answers with what the backend found, or when it found nothing.
OkOf(found, Response(_), otherwise) ==
    IF found = {} THEN otherwise ELSE Ok(Response(CHOOSE x \in found : TRUE))

OkListOf(name, found, Response(_), otherwise) ==
    IF found = {} THEN otherwise
    ELSE LET items == CHOOSE x \in found : TRUE
         IN  OkList(name, [i \in DOMAIN items |-> Response(items[i])])

-----------------------------------------------------------------------------
\* schemas.py
HealthResponse(connected, broker) ==
    [api_version |-> "text", bridge_alive |-> "true", terminal_connected |-> Bool(connected),
     server_time |-> "null", broker_name |-> broker, bridge_version |-> "text",
     bridge_build |-> "text", bridge_time_utc |-> "t2"]

TerminalResponse(info) == info

\* The environment the bridge claims, which no parser of the client reads.
ClassifyEnvironment(info) ==
    LET mode == TradeModeString(info.trade_mode_code)
    IN  IF mode \in {"demo", "live"} THEN mode ELSE "unknown"

AccountResponse(info) ==
    [account_id    |-> "text",
     trade_mode    |-> TradeModeString(info.trade_mode_code),
     environment   |-> ClassifyEnvironment(info),
     server        |-> info.server,
     currency      |-> info.currency,
     balance       |-> info.balance,
     equity        |-> info.equity,
     trade_allowed |-> info.trade_allowed,
     trade_expert  |-> info.trade_expert]

SymbolResponse(info) == Merge(
    [symbol |-> info.name, description |-> info.description, digits |-> "int",
     volume_min |-> info.volume_min, volume_max |-> info.volume_max,
     trade_tick_size |-> info.tick_size, trade_tick_value |-> info.tick_size,
     trade_enabled |-> info.trade_enabled, visible |-> info.visible,
     currency_base |-> info.currency_base, currency_profit |-> info.currency_base,
     currency_margin |-> info.currency_base, swap_long |-> info.swap_long,
     swap_short |-> info.swap_long, swap_mode |-> info.swap_mode,
     swap_rollover3days |-> info.swap_mode],
    [f \in {"point", "volume_step", "trade_contract_size"} |-> "1"])

SymbolSummaryResponse(info) ==
    [symbol |-> info.name, description |-> info.description,
     visible |-> info.visible, trade_enabled |-> info.trade_enabled]

QuoteResponse(tick) ==
    [symbol |-> "text", timestamp |-> tick.timestamp, bid |-> tick.bid, ask |-> tick.ask]

TimeDiagnosticsResponse(tickTime) ==
    [symbol |-> "text", bridge_time_utc |-> "t2", mt5_tick_time_utc |-> tickTime,
     server_clock_offset_seconds |-> IF tickTime = "null" THEN "null" ELSE "int"]

HistoryBarResponse(bar) == bar

ProfitCalcResponse(profit) == [symbol |-> "text", side |-> "buy", profit |-> profit]

PositionResponse(ticket) ==
    [position_id |-> ticket, symbol |-> "text", side |-> "buy", volume |-> "1", open_price |-> "1"]

\* A bug it could have: an id that is not known is left out.
OrderResponseWithoutId(order) ==
    [symbol |-> "text", side |-> "buy", volume |-> "1",
     status |-> "accepted", broker_order_id |-> "text"]

\* Orders the bridge can see were placed by hand or by another program.
OrderResponse(order) ==
    [client_order_id |-> "null", symbol |-> "text", side |-> "buy", volume |-> "1",
     status |-> "accepted", broker_order_id |-> "text"]

DealResponse(id, position) ==
    [client_order_id |-> id, status |-> "filled", position_id |-> position, deal_id |-> "text",
     observed_bid |-> "1", observed_ask |-> "1", reference_price |-> "1", fill_price |-> "1",
     slippage |-> "0", mt5_retcode |-> "int", timestamp |-> "t2",
     idempotent_replay |-> "false", error_message |-> "null"]

DemoOrderResultResponse(id) ==
    Merge(DealResponse(id, id),
          [broker_order_id |-> "text", requested_volume |-> "1", filled_volume |-> "1"])

DemoCloseResultResponse(id, position) == Merge(DealResponse(id, position), [closed_volume |-> "1"])

KillSwitchResponse(switch) == [status |-> switch, changed_at |-> "t2", reason |-> "null"]

ReconciliationResponse(report) == [state |-> report, checked_at |-> "t2", details |-> "list"]

JournalResponse(id) ==
    [id |-> "int", request_id |-> "text", client_order_id |-> id, timestamp |-> "t1",
     action |-> "text", payload |-> "object"]

-----------------------------------------------------------------------------
\* app.py
GetHealth(w) ==
    LET info   == TerminalInfo(w)
        broker == IF info = {} THEN "null"
                  ELSE LET t == CHOOSE t \in info : TRUE
                       IN  IF t.company = "null" THEN t.name ELSE t.company
    IN  Ok(HealthResponse(IsConnected(w) /\ info # {}, broker))

GetTerminal(w) == OkOf(TerminalInfo(w), TerminalResponse, BackendUnavailable)
GetAccount(w)  == OkOf(AccountInfo(w), AccountResponse, BackendUnavailable)
GetSymbols(w)  == OkListOf("symbols", SymbolsGet(w), SymbolSummaryResponse, BackendUnavailable)
GetSymbol(w)   == OkOf(SymbolInfo(w), SymbolResponse, NotFound)

\* A bid or an ask that is not positive is refused; an ask below the bid is not.
GetQuote(w) ==
    IF \E tick \in SymbolInfoTick(w) : Amount[tick.bid] <= 0 \/ Amount[tick.ask] <= 0
    THEN BackendUnavailable
    ELSE OkOf(SymbolInfoTick(w), QuoteResponse, IF HasTick(w) THEN BackendUnavailable ELSE NotFound)

GetTimeDiagnostics(w) ==
    LET TickTime(tick) == TimeDiagnosticsResponse(tick.timestamp)
    IN  OkOf(SymbolInfoTick(w), TickTime,
             IF HasTick(w) THEN BackendUnavailable ELSE Ok(TimeDiagnosticsResponse("null")))

GetHistory(w, ordered) ==
    IF ~ordered \/ \E bars \in CopyRatesRange(w) : Len(bars) > MaxHistoryBars THEN BadRequest
    ELSE OkListOf("bars", CopyRatesRange(w), HistoryBarResponse, BackendUnavailable)

GetProfitCalc(w) == OkOf(OrderCalcProfit(w), ProfitCalcResponse, BackendUnavailable)

GetPositions(w, positions) ==
    LET found == {SetToSeq(p) : p \in PositionsGet(w, positions)}
    IN  OkListOf("positions", found, PositionResponse, BackendUnavailable)

GetOrders(w) == OkListOf("orders", {[i \in 1..OrdersGet(w) |-> i]}, OrderResponse, BackendUnavailable)

GetKillSwitch(switch)     == Ok(KillSwitchResponse(switch))
GetReconciliation(report) == Ok(ReconciliationResponse(report))
GetJournal(ids)           == OkListOf("entries", {SetToSeq(ids)}, JournalResponse, Internal)
=============================================================================
