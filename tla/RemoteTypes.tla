------------------------------ MODULE RemoteTypes ------------------------------
(***************************************************************************)
(* The types the two sides of the HTTP contract share: the JSON values on  *)
(* the wire, by what the parsers tell apart, and the data classes of       *)
(* src/execution/base.py, each a function from its fields (under their     *)
(* names on the wire) to the values they may hold.                         *)
(*                                                                         *)
(* Values are strings: a JSON null is "null", a key that is left out reads *)
(* as "absent", text no code looks into is "text", a JSON integer is "int",*)
(* and a Decimal travels as its own text.                                  *)
(***************************************************************************)
EXTENDS Integers, Sequences, SequencesExt, FiniteSets, TLC

CONSTANT Ids        \* client_order_ids; a position is named by its order's id

ASSUME IdsAssumption == Ids \cap {"none", "null", "absent", "text"} = {}

\* Both functions in one; where both are defined, the first counts.  (The prover
\* knows nothing of @@.)
Merge(f, g) == [x \in DOMAIN f \union DOMAIN g |-> IF x \in DOMAIN f THEN f[x] ELSE g[x]]

Bools    == {"true", "false"}
Texts    == {"text"} \union Ids
Ints     == {"int"}
Decimals == {"-1", "0", "1", "2"}
Times    == {"t0", "t1", "t2", "t3"} \* t2 is now, t0 and t1 are too old, t3 too far ahead
Amount   == [d \in Decimals |-> CASE d = "-1" -> -1 [] d = "0" -> 0 [] d = "1" -> 1 [] OTHER -> 2]
Instant  == [t0 |-> 0, t1 |-> 1, t2 |-> 2, t3 |-> 3]

Nullable(values) == values \union {"null"}
Bool(condition)  == IF condition THEN "true" ELSE "false"

Environments          == {"demo", "live", "unknown"}
AccountTradeModes     == {"demo", "live", "contest", "unknown"}
ReconciliationStates  == {"ok", "mismatch", "unknown"}
KillSwitchStatuses    == {"active", "inactive"}
Sides                 == {"buy", "sell"}
OrderStatuses         == {"accepted", "filled", "rejected", "error"}
IncreasingActions     == {"open", "increase"}
ReducingActions       == {"close", "reduce"}

-----------------------------------------------------------------------------
SymbolMetadata == Merge(
    [symbol |-> Texts, digits |-> Ints, trade_tick_size |-> Nullable(Decimals),
     trade_tick_value |-> Nullable(Decimals), currency_base |-> Nullable(Texts),
     currency_profit |-> Nullable(Texts), currency_margin |-> Nullable(Texts),
     swap_long |-> Nullable(Decimals), swap_short |-> Nullable(Decimals),
     swap_mode |-> Nullable(Ints), swap_rollover3days |-> Nullable(Ints)],
    [f \in {"volume_min", "volume_step", "volume_max", "trade_contract_size", "point"}
        |-> Decimals])

SymbolSummary ==
    [symbol |-> Texts, description |-> Nullable(Texts),
     visible |-> Bools, trade_enabled |-> Nullable(Bools)]

Quote == [symbol |-> Texts, bid |-> Decimals, ask |-> Decimals, timestamp |-> Times]

TerminalStatus ==
    [connected |-> Bools, trade_allowed |-> Bools, dlls_allowed |-> Nullable(Bools),
     name |-> Nullable(Texts), company |-> Nullable(Texts), build |-> Nullable(Ints)]

AccountSummary ==
    [account_id |-> Texts, trade_mode |-> AccountTradeModes, balance |-> Decimals,
     equity |-> Decimals, currency |-> Texts, trade_allowed |-> Nullable(Bools),
     trade_expert |-> Nullable(Bools), server |-> Nullable(Texts)]

Position ==
    [position_id |-> Texts, symbol |-> Texts, side |-> Sides, volume |-> Decimals,
     open_price |-> Decimals]

Order ==
    [client_order_id |-> Nullable(Texts), symbol |-> Texts, side |-> Sides,
     volume |-> Decimals, status |-> OrderStatuses, broker_order_id |-> Nullable(Texts)]

\* What both results of a write say of the deal.
Deal == Merge(
    [client_order_id |-> Texts, status |-> OrderStatuses, position_id |-> Nullable(Texts),
     deal_id |-> Nullable(Texts), timestamp |-> Times, idempotent_replay |-> Bools,
     error_message |-> Nullable(Texts)],
    [f \in {"observed_bid", "observed_ask", "reference_price", "fill_price", "slippage"}
        |-> Nullable(Decimals)])

ExecutionResult ==
    Merge(Deal, [broker_order_id |-> Nullable(Texts), filled_volume |-> Nullable(Decimals),
                 requested_volume |-> Nullable(Decimals)])

CloseResult ==
    Merge([position_id |-> Texts, closed_volume |-> Nullable(Decimals)], Deal)

HistoryBar == Merge(
    [f \in {"open", "high", "low", "close", "tick_volume"} |-> Decimals],
    [timestamp |-> Times, real_volume |-> Nullable(Decimals), spread |-> Nullable(Ints)])

JournalEntry ==
    [id |-> Ints, request_id |-> Nullable(Texts), client_order_id |-> Nullable(Texts),
     timestamp |-> Times, action |-> Texts, payload |-> {"object"}]

HealthStatus ==
    [bridge_alive |-> Bools, terminal_connected |-> Bools, server_time |-> Nullable(Times),
     broker_name |-> Nullable(Texts), api_version |-> Texts, bridge_version |-> Nullable(Texts),
     bridge_build |-> Nullable(Texts), bridge_time_utc |-> Nullable(Times)]

KillSwitchState ==
    [status |-> KillSwitchStatuses, changed_at |-> Nullable(Times), reason |-> Nullable(Texts)]

ReconciliationReport ==
    [state |-> ReconciliationStates, checked_at |-> Times, details |-> {"list"}]

TimeDiagnostics ==
    [symbol |-> Texts, bridge_time_utc |-> Times, mt5_tick_time_utc |-> Nullable(Times),
     server_clock_offset_seconds |-> Nullable(Ints)]
=============================================================================
