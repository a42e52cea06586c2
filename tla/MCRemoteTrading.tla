---------------------------- MODULE MCRemoteTrading ----------------------------
(***************************************************************************)
(* Small instances of the operator, the client and the bridge.             *)
(***************************************************************************)
EXTENDS RemoteTrading

Bar(time, low, high) ==
    [timestamp |-> time, open |-> low, high |-> high, low |-> low, close |-> high,
     tick_volume |-> "1", spread |-> "int", real_volume |-> "0"]

Tick(time, bid, ask) == [timestamp |-> time, bid |-> bid, ask |-> ask]

Nominal ==
    [answers |-> TRUE, authentic |-> TRUE, missing |-> {}, code |-> "0",
     permissions |-> Permissions, symbol |-> "full", volume_min |-> "1", volume_max |-> "2",
     tick |-> Tick("t2", "1", "2"), rates |-> <<Bar("t0", "1", "2"), Bar("t1", "1", "1")>>,
     pending |-> 1]

Silent   == [Nominal EXCEPT !.answers = FALSE]
Accounts == {[Nominal EXCEPT !.code = c] : c \in TradeModeCodes}
Quotes   == {[Nominal EXCEPT !.tick = t] :
                t \in {Tick("t1", "1", "2"), Tick("t3", "1", "2"), Tick("none", "1", "2"),
                       Tick("unclear", "1", "2"),
                       Tick("t2", "2", "1"), Tick("t2", "0", "1")}}
Symbols  == {[Nominal EXCEPT !.symbol = s] : s \in SymbolStates}
            \union {[Nominal EXCEPT !.volume_min = "2"], [Nominal EXCEPT !.volume_min = "0"],
                    [Nominal EXCEPT !.volume_min = "2", !.volume_max = "1"]}
Lacking  == {[Nominal EXCEPT !.missing = m] :
                m \in {{a} : a \in {"currency", "balance", "equity", "trade_mode", "filling_mode",
                                     "trade_expert"}}
                      \union {Attributes \ {"currency", "balance", "equity"}}}
Barred   == {[Nominal EXCEPT !.permissions = Permissions \ {p}] : p \in Permissions}
Histories == {[Nominal EXCEPT !.rates = << >>], [Nominal EXCEPT !.rates = <<Bar("t0", "2", "1")>>],
              [Nominal EXCEPT !.rates = <<Bar("t1", "1", "1"), Bar("t0", "1", "1")>>],
              [Nominal EXCEPT !.rates = <<Bar("t1", "1", "1"), Bar("t3", "1", "1")>>],
              [Nominal EXCEPT !.rates = <<Bar("t0", "1", "1"), Bar("t1", "1", "1"), Bar("t2", "1", "1")>>]}

AllTerminals == {Silent, [Nominal EXCEPT !.authentic = FALSE]} \union Accounts \union Quotes
                \union Symbols \union Lacking \union Barred \union Histories

FewTerminals == {Nominal, Silent, [Nominal EXCEPT !.code = "2"], [Nominal EXCEPT !.volume_min = "2"]}
=============================================================================
