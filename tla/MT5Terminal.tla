------------------------------ MODULE MT5Terminal ------------------------------
(***************************************************************************)
(* What mt5_bridge/backend.py makes of a MetaTrader5 terminal.  The        *)
(* terminal is a record of facts (Terminals), external to the code: whether*)
(* it answers at all, which attributes its structs lack, what it says of   *)
(* the account, the symbol, the last tick and the bars.                    *)
(*                                                                         *)
(* A conversion gives the set of the values it may return, empty when      *)
(* MetaTrader5 returns None or the backend raises MT5BackendError; the     *)
(* routes of BridgeApi say which of the two it is.                         *)
(***************************************************************************)
EXTENDS RemoteTypes

Permissions == {"connected", "terminal", "account", "expert"}

\* Attributes a MetaTrader5 struct may lack, which getattr reads as None.
Attributes ==
    {"name", "company", "build", "dlls_allowed", "server", "currency", "balance", "equity",
     "trade_allowed", "trade_expert", "description", "trade_mode", "trade_tick_size",
     "currency_base", "swap_long", "swap_mode", "filling_mode", "spread", "real_volume"}

\* Codes of ACCOUNT_TRADE_MODE, one MetaTrader5 does not document, and none.
TradeModeCodes == {"0", "1", "2", "7", "null"}

\* trade_mode FULL, another one, FULL but not visible, or no such symbol.
SymbolStates == {"full", "restricted", "hidden", "unknown"}

\* A tick whose time the server clock cannot correct is "unclear" (BrokerClock
\* has the correction itself).
Ticks == [timestamp : Times \union {"none", "unclear"}, bid : Decimals, ask : Decimals]

Bars == [timestamp : Times, open : Decimals, high : Decimals, low : Decimals, close : Decimals,
         tick_volume : Decimals, spread : {"int"}, real_volume : Decimals]

\* What a terminal may say of itself.
MT5Terminals ==
    [answers : BOOLEAN, authentic : BOOLEAN, missing : SUBSET Attributes, code : TradeModeCodes,
     permissions : SUBSET Permissions, symbol : SymbolStates, volume_min : Decimals,
     volume_max : Decimals, tick : Ticks, rates : Seq(Bars), pending : Nat]

When(condition, value) == IF condition THEN {value} ELSE {}

Attribute(w, name, value) == IF name \in w.missing THEN "null" ELSE value

TradeModeString(code) ==
    CASE code = "0" -> "demo" [] code = "1" -> "contest" [] code = "2" -> "live" [] OTHER -> "unknown"

IsConnected(w) == w.answers

TerminalInfo(w) ==
    When(w.answers,
         [connected     |-> Bool("connected" \in w.permissions),
          trade_allowed |-> Bool("terminal" \in w.permissions),
          dlls_allowed  |-> Bool("dlls_allowed" \notin w.missing),
          name          |-> Attribute(w, "name", "text"),
          company       |-> Attribute(w, "company", "text"),
          build         |-> Attribute(w, "build", "int")])

AccountInfo(w) ==
    When(w.answers,
         [login           |-> "int",
          trade_mode_code |-> w.code,
          server          |-> Attribute(w, "server", "text"),
          currency        |-> Attribute(w, "currency", "text"),
          balance         |-> Attribute(w, "balance", "2"),
          equity          |-> Attribute(w, "equity", "2"),
          trade_allowed   |-> Attribute(w, "trade_allowed", Bool("account" \in w.permissions)),
          trade_expert    |-> Attribute(w, "trade_expert", Bool("expert" \in w.permissions))])

BackendSymbolInfo(w) ==
    [name          |-> "text",
     description   |-> Attribute(w, "description", "text"),
     volume_min    |-> w.volume_min,
     volume_max    |-> w.volume_max,
     tick_size     |-> Attribute(w, "trade_tick_size", "1"),
     trade_enabled |-> Attribute(w, "trade_mode", Bool(w.symbol # "restricted")),
     visible       |-> Bool(w.symbol # "hidden"),
     filling_mode  |-> Attribute(w, "filling_mode", "int"),
     currency_base |-> Attribute(w, "currency_base", "text"),
     swap_long     |-> Attribute(w, "swap_long", "-1"),
     swap_mode     |-> Attribute(w, "swap_mode", "int")]

HasSymbol(w) == w.answers /\ w.symbol # "unknown"

SymbolInfo(w) == When(HasSymbol(w), BackendSymbolInfo(w))
SymbolsGet(w) == When(w.answers, IF HasSymbol(w) THEN <<BackendSymbolInfo(w)>> ELSE << >>)

\* No tick is None; a tick raises if its symbol has no digits or its time cannot
\* be corrected.
HasTick(w)    == w.answers /\ w.tick.timestamp # "none"
TickRaises(w) == HasTick(w) /\ (~HasSymbol(w) \/ w.tick.timestamp = "unclear")
SymbolInfoTick(w) == When(HasTick(w) /\ ~TickRaises(w), w.tick)

\* Places of a sequence, in their order.
InOrder(places) ==
    CHOOSE s \in [1..Cardinality(places) -> places] : \A m, n \in DOMAIN s : m < n => s[m] < s[n]

\* Bars outside the requested range are dropped; the range ends now.
CopyRatesRange(w) ==
    When(HasSymbol(w),
         LET kept == {i \in DOMAIN w.rates : Instant[w.rates[i].timestamp] <= Instant["t2"]}
             places == InOrder(kept)
         IN  [n \in DOMAIN places |->
                [w.rates[places[n]] EXCEPT !.spread = Attribute(w, "spread", "int"),
                                           !.real_volume = Attribute(w, "real_volume", "0")]])

\* None from MetaTrader5 becomes no positions, and no orders.
PositionsGet(w, positions) ==
    IF ~w.answers \/ positions = {} THEN {{}}
    ELSE IF w.symbol = "unknown" THEN {} ELSE {positions}

OrdersGet(w) == IF w.answers THEN w.pending ELSE 0

OrderCalcProfit(w) == When(HasSymbol(w), "1")

\* resolve_order_filling_mode raises for a symbol that does not say.
FillingModeKnown(w) == "filling_mode" \notin w.missing
=============================================================================
