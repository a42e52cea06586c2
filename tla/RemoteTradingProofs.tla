-------------------------- MODULE RemoteTradingProofs --------------------------
(***************************************************************************)
(* Proofs about the operator, the client and the bridge, for any ids,      *)
(* terminals, policy and network: what a caller is told for certain is     *)
(* true, an order to open leaves the client only on evidence, and the      *)
(* values every part keeps have their types.                               *)
(***************************************************************************)
EXTENDS RemoteTrading, SequenceTheorems, FiniteSetTheorems, TLAPS

\* The calls, by what they may do to the rows.
OrderCalls  == {"place_order", "close_position"}
OtherWrites == {"activate", "deactivate", "run_reconciliation", "resolve_received"}
Reads == {"health", "terminal", "account", "symbols", "symbol_metadata", "quote", "history",
          "reversed_history", "profit_calc", "positions", "orders", "kill_switch_status",
          "reconciliation_status", "journal", "time_diagnostics"}

\* Concatenation, within one alphabet.
LEMMA Concatenation ==
  ASSUME NEW s \in Seq(Reads \union OrderCalls), NEW t \in Seq(Reads \union OrderCalls)
  PROVE  /\ s \o t \in Seq(Reads \union OrderCalls)
         /\ Len(s \o t) = Len(s) + Len(t)
         /\ \A i \in 1..Len(s) + Len(t) : (s \o t)[i] = IF i <= Len(s) THEN s[i] ELSE t[i - Len(s)]
BY ConcatProperties

\* The scripts.
LEMMA ContextCalls ==
  /\ Context \in Seq(Reads \union OrderCalls)
  /\ Len(Context) = 5
  /\ \A i \in 1..5 : Context[i] \in Reads
BY DEF Context, Reads

LEMMA Prepended ==
  ASSUME NEW op \in Reads, NEW t \in Seq(Reads \union OrderCalls)
  PROVE  /\ <<op>> \o t \in Seq(Reads \union OrderCalls)
         /\ Len(<<op>> \o t) = Len(t) + 1
         /\ (<<op>> \o t)[1] = op
         /\ \A i \in 2..Len(t) + 1 : (<<op>> \o t)[i] = t[i - 1]
<1>1. PICK q : q = <<op>>  OBVIOUS
<1>2. q \in Seq(Reads \union OrderCalls) /\ Len(q) = 1 /\ q[1] = op /\ Len(t) \in Nat  BY <1>1
<1>3. /\ q \o t \in Seq(Reads \union OrderCalls)
      /\ Len(q \o t) = Len(q) + Len(t)
      /\ \A i \in 1..Len(q) + Len(t) : (q \o t)[i] = IF i <= Len(q) THEN q[i] ELSE t[i - Len(q)]
  BY <1>2, Concatenation
<1>4. Len(q \o t) = Len(t) + 1  BY <1>2, <1>3
<1>5. (q \o t)[1] = op /\ \A i \in 2..Len(t) + 1 : (q \o t)[i] = t[i - 1]  BY <1>2, <1>3
<1> QED  BY <1>1, <1>3, <1>4, <1>5, Zenon

LEMMA Appended ==
  ASSUME NEW s \in Seq(Reads \union OrderCalls), NEW op \in OrderCalls
  PROVE  /\ s \o <<op>> \in Seq(Reads \union OrderCalls)
         /\ Len(s \o <<op>>) = Len(s) + 1
         /\ (s \o <<op>>)[Len(s) + 1] = op
         /\ \A i \in 1..Len(s) : (s \o <<op>>)[i] = s[i]
<1>1. PICK q : q = <<op>>  OBVIOUS
<1>2. q \in Seq(Reads \union OrderCalls) /\ Len(q) = 1 /\ q[1] = op /\ Len(s) \in Nat  BY <1>1
<1>3. /\ s \o q \in Seq(Reads \union OrderCalls)
      /\ Len(s \o q) = Len(s) + 1
      /\ \A i \in 1..Len(s) + 1 : (s \o q)[i] = IF i <= Len(s) THEN s[i] ELSE q[i - Len(s)]
  BY <1>2, Concatenation
<1>4. (s \o q)[Len(s) + 1] = op /\ \A i \in 1..Len(s) : (s \o q)[i] = s[i]  BY <1>2, <1>3
<1> QED  BY <1>1, <1>3, <1>4, Zenon

LEMMA DemoOpenScript ==
  /\ Len(Script["demo_open"]) = 8
  /\ \A i \in 1..7 : Script["demo_open"][i] \in Reads
  /\ Script["demo_open"][8] = "place_order"
  /\ Script["demo_open"][1] = "symbol_metadata"
  /\ Script["demo_open"][2] = "quote"
  /\ Script["demo_open"][3] = "account"
  /\ Script["demo_open"][4] = "symbol_metadata"
  /\ Script["demo_open"][5] = "positions"
  /\ Script["demo_open"][6] = "kill_switch_status"
  /\ Script["demo_open"][7] = "reconciliation_status"
<1>1. PICK a, b, o : a = "symbol_metadata" /\ b = "quote" /\ o = "place_order"  OBVIOUS
<1>2. a \in Reads /\ b \in Reads /\ o \in OrderCalls  BY <1>1 DEF Reads, OrderCalls
<1>3. PICK s : s = <<b>> \o Context  OBVIOUS
<1>4. PICK t : t = s \o <<o>>  OBVIOUS
<1>5. PICK u : u = <<a>> \o t  OBVIOUS
<1>6. /\ s \in Seq(Reads \union OrderCalls) /\ Len(s) = 6 /\ s[1] = b
      /\ \A i \in 2..6 : s[i] = Context[i - 1] /\ i - 1 \in 1..5
  BY <1>2, <1>3, ContextCalls, Prepended
<1>7. \A i \in 1..6 : s[i] \in Reads  BY <1>2, <1>6, ContextCalls
<1>8. t \in Seq(Reads \union OrderCalls) /\ Len(t) = 7 /\ t[7] = o /\ \A i \in 1..6 : t[i] = s[i]
  <2>1. /\ t \in Seq(Reads \union OrderCalls) /\ Len(t) = Len(s) + 1
        /\ t[Len(s) + 1] = o /\ \A i \in 1..Len(s) : t[i] = s[i]
    BY <1>2, <1>4, <1>6, Appended, Zenon
  <2> QED  BY <2>1, <1>6
<1>9. Len(u) = 8 /\ u[1] = a /\ \A i \in 2..8 : u[i] = t[i - 1] /\ i - 1 \in 1..7
  <2>1. Len(u) = Len(t) + 1 /\ u[1] = a /\ \A i \in 2..Len(t) + 1 : u[i] = t[i - 1]
    BY <1>2, <1>5, <1>8, Prepended, Zenon
  <2> QED  BY <2>1, <1>8
<1>10. \A i \in 2..7 : i - 1 \in 1..6  OBVIOUS
<1>11. u[8] = o /\ \A i \in 1..7 : u[i] \in Reads  BY <1>2, <1>7, <1>8, <1>9, <1>10
<1>13. /\ u[1] = "symbol_metadata" /\ u[2] = "quote" /\ u[3] = "account" /\ u[4] = "symbol_metadata"
       /\ u[5] = "positions" /\ u[6] = "kill_switch_status" /\ u[7] = "reconciliation_status"
  BY <1>1, <1>6, <1>8, <1>9 DEF Context
<1>12. Script["demo_open"] = u
  <2>1. Script["demo_open"] = DemoOpenCalls  BY DEF Script, Merge, KillCalls
  <2> QED  BY <2>1, <1>1, <1>3, <1>4, <1>5, Zenon DEF DemoOpenCalls, SafeOpenCalls
<1> QED  BY <1>1, <1>9, <1>11, <1>12, <1>13

LEMMA DemoCloseScript ==
  /\ Len(Script["demo_close"]) = 7
  /\ \A i \in 1..6 : Script["demo_close"][i] \in Reads
  /\ Script["demo_close"][7] = "close_position"
<1>1. PICK a, o : a = "positions" /\ o = "close_position"  OBVIOUS
<1>2. a \in Reads /\ o \in OrderCalls  BY <1>1 DEF Reads, OrderCalls
<1>3. PICK s : s = Context \o <<o>>  OBVIOUS
<1>4. PICK u : u = <<a>> \o s  OBVIOUS
<1>5. /\ s \in Seq(Reads \union OrderCalls) /\ Len(s) = 6 /\ s[6] = o
      /\ \A i \in 1..5 : s[i] \in Reads
  <2>1. /\ s \in Seq(Reads \union OrderCalls) /\ Len(s) = Len(Context) + 1
        /\ s[Len(Context) + 1] = o /\ \A i \in 1..Len(Context) : s[i] = Context[i]
    BY <1>2, <1>3, ContextCalls, Appended, Zenon
  <2> QED  BY <2>1, ContextCalls
<1>6. Len(u) = 7 /\ u[1] = a /\ \A i \in 2..7 : u[i] = s[i - 1]
  <2>1. Len(u) = Len(s) + 1 /\ u[1] = a /\ \A i \in 2..Len(s) + 1 : u[i] = s[i - 1]
    BY <1>2, <1>4, <1>5, Prepended, Zenon
  <2> QED  BY <2>1, <1>5
<1>7. \A i \in 2..6 : i - 1 \in 1..5  OBVIOUS
<1>8. u[7] = o /\ \A i \in 1..6 : u[i] \in Reads  BY <1>2, <1>5, <1>6, <1>7
<1>9. Script["demo_close"] = u
  <2>1. Script["demo_close"] = DemoCloseCalls  BY DEF Script, Merge, KillCalls
  <2> QED  BY <2>1, <1>1, <1>3, <1>4, Zenon DEF DemoCloseCalls, SafeCloseCalls
<1> QED  BY <1>1, <1>6, <1>8, <1>9

\* A script that sends no order, and is at least one call long.
SendsNoOrder(s) == Len(s) \in Nat \ {0} /\ \A i \in 1..Len(s) : s[i] \in Reads \union OtherWrites

LEMMA OtherScripts ==
  ASSUME NEW name \in DOMAIN Script \ {"demo_open", "demo_close"}
  PROVE  SendsNoOrder(Script[name])
<1>1. name \in {"kill_status", "kill_activate", "kill_deactivate", "status", "preflight",
               "list_positions", "reconcile", "resolve_received", "read_journal", "diagnose_time",
               "library"}
  BY DEF Script, Merge, KillCalls
<1>2. \/ Script[name] \in {StatusCalls, PreflightCalls, PositionsCalls, ReconcileCalls,
                          ResolveCalls, JournalCalls, TimeCalls, LibraryCalls}
      \/ Script[name] \in {<<"kill_switch_status">>, <<"activate">>, <<"deactivate">>}
  BY <1>1 DEF Script, Merge, KillCalls
<1>3. \A s \in {StatusCalls, PreflightCalls, PositionsCalls, ReconcileCalls, ResolveCalls,
               JournalCalls, TimeCalls, LibraryCalls} : SendsNoOrder(s)
  <2>1. SendsNoOrder(StatusCalls)  BY DEF SendsNoOrder, StatusCalls, Reads, OtherWrites
  <2>2. SendsNoOrder(PreflightCalls)  BY DEF SendsNoOrder, PreflightCalls, Reads, OtherWrites
  <2>3. SendsNoOrder(PositionsCalls)  BY DEF SendsNoOrder, PositionsCalls, Reads, OtherWrites
  <2>4. SendsNoOrder(ReconcileCalls)  BY DEF SendsNoOrder, ReconcileCalls, Reads, OtherWrites
  <2>5. SendsNoOrder(ResolveCalls)  BY DEF SendsNoOrder, ResolveCalls, Reads, OtherWrites
  <2>6. SendsNoOrder(JournalCalls)  BY DEF SendsNoOrder, JournalCalls, Reads, OtherWrites
  <2>7. SendsNoOrder(TimeCalls)  BY DEF SendsNoOrder, TimeCalls, Reads, OtherWrites
  <2>8. SendsNoOrder(LibraryCalls)  BY DEF SendsNoOrder, LibraryCalls, Reads, OtherWrites
  <2> QED  BY <2>1, <2>2, <2>3, <2>4, <2>5, <2>6, <2>7, <2>8
<1>4. \A s \in {<<"kill_switch_status">>, <<"activate">>, <<"deactivate">>} : SendsNoOrder(s)
  BY DEF SendsNoOrder, Reads, OtherWrites
<1> QED  BY <1>2, <1>3, <1>4

LEMMA ScriptDomain ==
  DOMAIN Script = {"kill_status", "kill_activate", "kill_deactivate", "status", "preflight",
                   "list_positions", "demo_open", "demo_close", "reconcile", "resolve_received",
                   "read_journal", "diagnose_time", "library"}
BY DEF Script, Merge, KillCalls

\* The first check that fails is one that fails.
LEMMA LeastOf ==
  ASSUME NEW S \in SUBSET (1..10), S # {}
  PROVE  Min(S) \in S
<1>1. \E m \in S : \A k \in S : m <= k
  <2> SUFFICES ASSUME \A m \in S : \E k \in S : ~(m <= k)  PROVE FALSE  OBVIOUS
  <2>0. \A m \in S : \E k \in S : k < m /\ k \in 1..10  OBVIOUS
  <2>1. 1 \notin S  BY <2>0
  <2>2. 2 \notin S  BY <2>0, <2>1
  <2>3. 3 \notin S  BY <2>0, <2>1, <2>2
  <2>4. 4 \notin S  BY <2>0, <2>1, <2>2, <2>3
  <2>5. 5 \notin S  BY <2>0, <2>1, <2>2, <2>3, <2>4
  <2>6. 6 \notin S  BY <2>0, <2>1, <2>2, <2>3, <2>4, <2>5
  <2>7. 7 \notin S  BY <2>0, <2>1, <2>2, <2>3, <2>4, <2>5, <2>6
  <2>8. 8 \notin S  BY <2>0, <2>1, <2>2, <2>3, <2>4, <2>5, <2>6, <2>7
  <2>9. 9 \notin S  BY <2>0, <2>1, <2>2, <2>3, <2>4, <2>5, <2>6, <2>7, <2>8
  <2>10. PICK x \in S : TRUE  OBVIOUS
  <2>11. x \in {1, 2, 3, 4, 5, 6, 7, 8, 9}  BY <2>10
  <2> QED  BY <2>1, <2>2, <2>3, <2>4, <2>5, <2>6, <2>7, <2>8, <2>9, <2>10, <2>11
<1> QED  BY <1>1 DEF Min

-----------------------------------------------------------------------------
\* What an order's request may tell its caller, and make of its row.
OrderOutcome(id, result) ==
    LET error == Client!PostError(result.answer)
        rows  == result.state.orders
    IN  /\ rows \in [Ids -> OrderStates]
        /\ \A other \in Ids \ {id} : rows[other] = orders[other]
        /\ \/ error \in {"authentication", "remote"}
           \/ error = "rejected" /\ rows[id] \in {orders[id], "denied"}
           \/ error = "none" /\ rows[id] = "filled"

Codes == DOMAIN TradingErrorStatus

\* _post_json, by the status and the code of an answer.
LEMMA PostErrorBy ==
  ASSUME NEW answer, NEW status \in Int, NEW code, answer.status = status, answer.code = code
  PROVE  /\ status \in 400..499 /\ status # 401 /\ code \notin {"none", "unauthorized"} =>
            Client!PostError(answer) = "rejected"
         /\ status >= 500 /\ code # "unauthorized" => Client!PostError(answer) = "remote"
         /\ status \notin {401, 403} /\ status < 400 /\ code # "unauthorized" =>
            Client!PostError(answer) = "none"
         /\ code = "unauthorized" => Client!PostError(answer) = "authentication"
<1>1. CASE status = 401 \/ code = "unauthorized" \/ (status = 403 /\ code = "none")
  BY <1>1 DEF Client!PostError
<1>2. CASE ~(status = 401 \/ code = "unauthorized" \/ (status = 403 /\ code = "none")) /\ status >= 500
  BY <1>2 DEF Client!PostError
<1>3. CASE ~(status = 401 \/ code = "unauthorized" \/ (status = 403 /\ code = "none")) /\ status \in 400..499
  BY <1>3 DEF Client!PostError
<1>4. CASE ~(status = 401 \/ code = "unauthorized") /\ status < 400
  BY <1>4 DEF Client!PostError
<1>5. status >= 500 \/ status \in 400..499 \/ status < 400
  OBVIOUS
<1>6. status < 400 => status # 401 /\ status # 403
  OBVIOUS
<1> QED  BY <1>1, <1>2, <1>3, <1>4, <1>5, <1>6, Zenon

LEMMA TradingErrorIsRefusal ==
  ASSUME NEW code \in Codes
  PROVE  Client!PostError(TradingError(code)) = IF code = "order_send_failed" THEN "remote" ELSE "rejected"
<1>1. TradingErrorStatus[code] \in {400, 403, 404, 409, 422, 502}
  BY DEF Codes, TradingErrorStatus
<1>2. TradingErrorStatus[code] = 502 <=> code = "order_send_failed"
  BY DEF Codes, TradingErrorStatus
<1>3. code # "none" /\ code # "unauthorized"
  BY DEF Codes, TradingErrorStatus
<1>4. TradingError(code).status = TradingErrorStatus[code] /\ TradingError(code).code = code
  BY DEF TradingError, Error
<1> QED  BY <1>1, <1>2, <1>3, <1>4, PostErrorBy

LEMMA OtherAnswers ==
  /\ Client!PostError(Internal) = "remote"
  /\ Client!PostError(Unauthorized) = "authentication"
  /\ Client!PostError(Error(502, "none")) = "remote"
  /\ \A body : Client!PostError(Ok(body)) = "none"
<1>1. Internal.status = 500 /\ Internal.code = "internal_error"  BY DEF Internal, Error
<1>2. Unauthorized.status = 403 /\ Unauthorized.code = "unauthorized"  BY DEF Unauthorized, Error
<1>3. Error(502, "none").status = 502 /\ Error(502, "none").code = "none"  BY DEF Error
<1>4. \A body : Ok(body).status = 200 /\ Ok(body).code = "none"  BY DEF Ok
<1> QED  BY <1>1, <1>2, <1>3, <1>4, PostErrorBy

LEMMA RowIs ==
  ASSUME orders \in [Ids -> OrderStates], NEW id \in Ids, NEW status \in OrderStates
  PROVE  Row(id, status).orders = [orders EXCEPT ![id] = status]
BY DEF Row, Unchanged

LEMMA RowOutcome ==
  ASSUME orders \in [Ids -> OrderStates], NEW id \in Ids, NEW status \in OrderStates,
         NEW answer, NEW state, state.orders = [orders EXCEPT ![id] = status],
         \/ Client!PostError(answer) = "remote"
         \/ Client!PostError(answer) = "rejected" /\ status = "denied"
         \/ Client!PostError(answer) = "none" /\ status = "filled"
  PROVE  OrderOutcome(id, With(answer, state))
<1>1. With(answer, state).answer = answer /\ With(answer, state).state = state
  BY DEF With
<1>2. PICK rows : rows = state.orders  OBVIOUS
<1>3. rows \in [Ids -> OrderStates] /\ rows[id] = status /\ \A other \in Ids \ {id} : rows[other] = orders[other]
  BY <1>2
<1> QED  BY <1>1, <1>2, <1>3, Zenon DEF OrderOutcome

\* What may come of an order's request, whatever it asks for.
LEMMA AttemptResults ==
  ASSUME NEW id, NEW checks, DOMAIN checks \in SUBSET (1..10),
         \A i \in DOMAIN checks : checks[i].code \in Codes \union {"raises"},
         NEW filled, NEW response, NEW result \in Attempt(id, checks, filled, response)
  PROVE  \/ result = With(TradingError("not_demo"), Unchanged)
         \/ result = With(Internal, Row(id, "received"))
         \/ \E code \in Codes : result = With(TradingError(code), Row(id, "denied"))
         \/ result = With(Ok(response), filled)
         \/ result = With(TradingError("order_send_failed"), Row(id, "refused"))
         \/ result = With(TradingError("order_send_failed"), Row(id, "adrift"))
         \/ result = With(TradingError("order_send_failed"), [filled EXCEPT !.orders[id] = "adrift_executed"])
<1>1. PICK failing : failing = {i \in DOMAIN checks : checks[i].fails}  OBVIOUS
<1>2. PICK denial : denial = IF failing = {} THEN "none" ELSE checks[Min(failing)].code  OBVIOUS
<1>3. denial \in Codes \union {"raises", "none"}
  <2>1. failing \in SUBSET (1..10) /\ failing \subseteq DOMAIN checks  BY <1>1
  <2>2. failing # {} => Min(failing) \in failing  BY <2>1, LeastOf
  <2> QED  BY <1>2, <2>1, <2>2
<1>4. \/ result = With(TradingError("not_demo"), Unchanged)
      \/ result = With(Internal, Row(id, "received"))
      \/ denial \notin {"none", "raises"} /\ result = With(TradingError(denial), Row(id, "denied"))
      \/ result = With(TradingError("order_check_failed"), Row(id, "denied"))
      \/ result = With(Ok(response), filled)
      \/ result = With(TradingError("order_send_failed"), Row(id, "refused"))
      \/ result = With(TradingError("order_send_failed"), Row(id, "adrift"))
      \/ result = With(TradingError("order_send_failed"), [filled EXCEPT !.orders[id] = "adrift_executed"])
  <2>1. result \in CASE ~IsDemo -> {With(TradingError("not_demo"), Unchanged)}
          [] IsDemo /\ denial = "raises" -> {With(Internal, Row(id, "received"))}
          [] IsDemo /\ denial \notin {"none", "raises"} ->
                {With(TradingError(denial), Row(id, "denied"))}
          [] OTHER ->
                {With(Internal, Row(id, "received")),
                 With(TradingError("order_check_failed"), Row(id, "denied")),
                 With(Ok(response), filled),
                 With(TradingError("order_send_failed"), Row(id, "refused")),
                 With(TradingError("order_send_failed"), Row(id, "adrift")),
                 With(TradingError("order_send_failed"),
                      [filled EXCEPT !.orders[id] = "adrift_executed"])}
    BY <1>1, <1>2, Zenon DEF Attempt
  <2> QED  BY <2>1, Zenon
<1>5. "order_check_failed" \in Codes  BY DEF Codes, TradingErrorStatus
<1>6. denial \notin {"none", "raises"} => denial \in Codes  BY <1>3
<1> QED  BY <1>4, <1>5, <1>6, Zenon

LEMMA AttemptOutcome ==
  ASSUME orders \in [Ids -> OrderStates], NEW id \in Ids,
         NEW checks, DOMAIN checks \in SUBSET (1..10),
         \A i \in DOMAIN checks : checks[i].code \in Codes \union {"raises"},
         NEW filled, DOMAIN filled = {"orders", "positions", "killSwitch", "recon"},
         filled.orders = [orders EXCEPT ![id] = "filled"], NEW response,
         NEW result \in Attempt(id, checks, filled, response)
  PROVE  OrderOutcome(id, result)
<1>1. \A status \in OrderStates : Row(id, status).orders = [orders EXCEPT ![id] = status]
  BY RowIs
<1>2. /\ "received" \in OrderStates /\ "denied" \in OrderStates /\ "refused" \in OrderStates
      /\ "adrift" \in OrderStates /\ "adrift_executed" \in OrderStates /\ "filled" \in OrderStates
  BY DEF OrderStates
<1>3. /\ Client!PostError(TradingError("not_demo")) = "rejected"
      /\ Client!PostError(TradingError("order_send_failed")) = "remote"
  BY TradingErrorIsRefusal DEF Codes, TradingErrorStatus
<1>4. \A answer : \A status \in OrderStates :
        \/ Client!PostError(answer) = "remote"
        \/ Client!PostError(answer) = "rejected" /\ status = "denied"
        \/ Client!PostError(answer) = "none" /\ status = "filled"
        => OrderOutcome(id, With(answer, Row(id, status)))
  BY <1>1, RowOutcome, Zenon
<1>5. [filled EXCEPT !.orders[id] = "adrift_executed"].orders = [orders EXCEPT ![id] = "adrift_executed"]
  OBVIOUS
<1>6. CASE result = With(TradingError("not_demo"), Unchanged)
  <2>1. result.state.orders = orders /\ result.answer = TradingError("not_demo")  BY <1>6 DEF With, Unchanged
  <2> QED  BY <2>1, <1>3 DEF OrderOutcome
<1>7. CASE result = With(Internal, Row(id, "received"))
  BY <1>7, <1>2, <1>4, OtherAnswers, Zenon
<1>8. CASE \E code \in Codes : result = With(TradingError(code), Row(id, "denied"))
  <2>1. PICK code \in Codes : result = With(TradingError(code), Row(id, "denied"))  BY <1>8
  <2>2. Client!PostError(TradingError(code)) \in {"rejected", "remote"}  BY TradingErrorIsRefusal
  <2> QED  BY <2>1, <2>2, <1>2, <1>4, Zenon
<1>9. CASE result = With(Ok(response), filled)
  <2>1. Client!PostError(Ok(response)) = "none"  BY OtherAnswers
  <2> QED  BY <1>9, <2>1, <1>2, RowOutcome, Zenon
<1>10. CASE result = With(TradingError("order_send_failed"), Row(id, "refused"))
  BY <1>10, <1>2, <1>3, <1>4, Zenon
<1>11. CASE result = With(TradingError("order_send_failed"), Row(id, "adrift"))
  BY <1>11, <1>2, <1>3, <1>4, Zenon
<1>12. CASE result = With(TradingError("order_send_failed"), [filled EXCEPT !.orders[id] = "adrift_executed"])
  BY <1>12, <1>2, <1>3, <1>5, RowOutcome, Zenon
<1> QED  BY AttemptResults, <1>6, <1>7, <1>8, <1>9, <1>10, <1>11, <1>12, Zenon

\* The request is an attempt at an order whose fill is answered with `response`.
Attempted(call, result, response) ==
    \E checks, filled :
        /\ DOMAIN checks \in SUBSET (1..10)
        /\ \A i \in DOMAIN checks : checks[i].code \in Codes \union {"raises"}
        /\ DOMAIN filled = {"orders", "positions", "killSwitch", "recon"}
        /\ filled.orders = [orders EXCEPT ![call.id] = "filled"]
        /\ result \in Attempt(call.id, checks, filled, response)

LEMMA OrderAttempts ==
  ASSUME terminal.authentic, NEW call, NEW result \in Handled(call)
  PROVE  /\ call.op = "place_order" => Attempted(call, result, DemoOrderResultResponse(call.id))
         /\ call.op = "close_position" =>
               Attempted(call, result, DemoCloseResultResponse(call.id, call.target))
<1>1. CASE call.op = "place_order"
  <2>1. result \in PostDemoOrder(call.id, call.volume)
    BY <1>1 DEF Handled
  <2>2. PICK checks : checks =
            <<Permitted,
              Check("kill_switch_active", killSwitch = "active"),
              Check("reconciliation_required", recon # "ok"),
              Located,
              Check("too_many_positions", positions # {}),
              Check("symbol_not_tradable",
                    terminal.symbol # "full" \/ "trade_mode" \in terminal.missing),
              Check("invalid_volume", call.volume # terminal.volume_min),
              TickRead, FreshTick, Buildable>>
    OBVIOUS
  <2>3. PICK filled :
           filled = [Unchanged EXCEPT !.orders[call.id] = "filled", !.positions = positions \union {call.id}]
    OBVIOUS
  <2>4. result \in Attempt(call.id, checks, filled, DemoOrderResultResponse(call.id))
    BY <2>1, <2>2, <2>3, Zenon DEF PostDemoOrder
  <2>5. DOMAIN checks = 1..10 /\ \A i \in DOMAIN checks : checks[i].code \in Codes \union {"raises"}
    BY <2>2 DEF Permitted, Located, TickRead, FreshTick, Buildable, Check, Codes, TradingErrorStatus
  <2>6. /\ DOMAIN filled = {"orders", "positions", "killSwitch", "recon"}
        /\ filled.orders = [orders EXCEPT ![call.id] = "filled"]
    BY <2>3 DEF Unchanged
  <2>7. DOMAIN checks \in SUBSET (1..10)  BY <2>5
  <2>8. Attempted(call, result, DemoOrderResultResponse(call.id))
    BY <2>4, <2>5, <2>6, <2>7, Zenon DEF Attempted
  <2> QED  BY <1>1, <2>8
<1>2. CASE call.op = "close_position"
  <2>1. result \in PostDemoClose(call.id, call.target)
    BY <1>2 DEF Handled
  <2>2. PICK checks : checks =
            <<Permitted, Located,
              Check("position_not_found", call.target \notin positions),
              TickRead, FreshTick, Buildable>>
    OBVIOUS
  <2>3. PICK filled :
           filled = [Unchanged EXCEPT !.orders[call.id] = "filled", !.positions = positions \ {call.target}]
    OBVIOUS
  <2>4. result \in Attempt(call.id, checks, filled, DemoCloseResultResponse(call.id, call.target))
    BY <2>1, <2>2, <2>3, Zenon DEF PostDemoClose
  <2>5. DOMAIN checks = 1..6 /\ \A i \in DOMAIN checks : checks[i].code \in Codes \union {"raises"}
    BY <2>2 DEF Permitted, Located, TickRead, FreshTick, Buildable, Check, Codes, TradingErrorStatus
  <2>6. /\ DOMAIN filled = {"orders", "positions", "killSwitch", "recon"}
        /\ filled.orders = [orders EXCEPT ![call.id] = "filled"]
    BY <2>3 DEF Unchanged
  <2>7. DOMAIN checks \in SUBSET (1..10)  BY <2>5
  <2>8. Attempted(call, result, DemoCloseResultResponse(call.id, call.target))
    BY <2>4, <2>5, <2>6, <2>7, Zenon DEF Attempted
  <2> QED  BY <1>2, <2>8
<1> QED  BY <1>1, <1>2

LEMMA OrderRoutes ==
  ASSUME orders \in [Ids -> OrderStates], NEW call, call.id \in Ids, call.op \in OrderCalls,
         NEW result \in Handled(call)
  PROVE  OrderOutcome(call.id, result)
<1>1. CASE ~terminal.authentic
  <2>1. result = With(Unauthorized, Unchanged)  BY <1>1 DEF Handled
  <2>2. result.state.orders = orders /\ result.answer = Unauthorized  BY <2>1 DEF With, Unchanged
  <2> QED  BY <2>2, OtherAnswers DEF OrderOutcome
<1>2. CASE terminal.authentic
  <2>1. PICK response : Attempted(call, result, response)
    BY <1>2, OrderAttempts DEF OrderCalls
  <2> QED  BY <2>1, AttemptOutcome DEF Attempted
<1> QED  BY <1>1, <1>2

\* No other call sends an order; resolving a row only makes a received one aborted.
LEMMA OtherRoutes ==
  ASSUME orders \in [Ids -> OrderStates], NEW call, call.op \in Reads \union OtherWrites,
         NEW result \in Handled(call)
  PROVE  /\ result.state.orders \in [Ids -> OrderStates]
         /\ \A id \in Ids : \/ result.state.orders[id] = orders[id]
                            \/ orders[id] = "received" /\ result.state.orders[id] = "aborted"
         /\ call.op \in Reads => result.state.orders = orders
<1>1. \A answer : With(answer, Unchanged).state.orders = orders
  BY DEF With, Unchanged
<1>2. \A rows, verdict : Reconciled(rows).state.orders = rows
  BY DEF Reconciled, With, Unchanged
<1>3. call.op \notin OrderCalls
  BY DEF Reads, OtherWrites, OrderCalls
<1>4. CASE ~terminal.authentic
  <2>1. result = With(Unauthorized, Unchanged)  BY <1>4 DEF Handled
  <2> QED  BY <2>1, <1>1
<1>5. CASE terminal.authentic /\ call.op \in {"activate", "deactivate"}
  <2>1. result \in SetKillSwitch("active") \union SetKillSwitch("inactive")
    BY <1>5 DEF Handled
  <2>2. result.state.orders = orders
    BY <2>1 DEF SetKillSwitch, With, Unchanged
  <2> QED  BY <2>2
<1>6. CASE terminal.authentic /\ call.op = "run_reconciliation"
  <2>1. result = Reconciled(orders)  BY <1>6 DEF Handled, PostReconciliationRun
  <2> QED  BY <2>1, <1>2
<1>7. CASE terminal.authentic /\ call.op = "resolve_received"
  <2>1. \/ result = With(Conflict, Unchanged)
        \/ orders[call.target] = "received" /\ result = Reconciled([orders EXCEPT ![call.target] = "aborted"])
    BY <1>7 DEF Handled, PostResolveReceived
  <2>2. \/ result.state.orders = orders
        \/ orders[call.target] = "received" /\ result.state.orders = [orders EXCEPT ![call.target] = "aborted"]
    BY <2>1, <1>1, <1>2
  <2>3. "aborted" \in OrderStates  BY DEF OrderStates
  <2>4. call.op \notin Reads  BY <1>7 DEF Reads
  <2> QED  BY <2>2, <2>3, <2>4
<1>8. CASE terminal.authentic /\ call.op \in Reads
  <2>1. result = With(Read(call.op), Unchanged)
    BY <1>8, Zenon DEF Handled, Reads
  <2> QED  BY <2>1, <1>1
<1> QED  BY <1>4, <1>5, <1>6, <1>7, <1>8 DEF OtherWrites

-----------------------------------------------------------------------------
\* A spoiled answer is never taken for the result of an order.
LEMMA NothingIsNoResult ==
  Client!ParseOrderResult(Empty) = {} /\ Client!ParseCloseResult(Empty) = {}
<1>1. ASSUME NEW body, "client_order_id" \notin DOMAIN body, NEW type,
             "client_order_id" \in DOMAIN type, type["client_order_id"] = Client!Texts
      PROVE  Client!Parsed(body, type, TRUE) = {}
  <2>1. Client!Field(body, "client_order_id") = "absent"  BY <1>1 DEF Client!Field
  <2>2. "absent" \notin Client!Texts /\ "null" \notin Client!Texts
    BY IdsAssumption DEF Client!Texts
  <2>3. ~Client!Accepts(body, type)  BY <1>1, <2>1, <2>2 DEF Client!Accepts
  <2> QED  BY <2>3 DEF Client!Parsed
<1>2. ASSUME NEW body, "client_order_id" \notin DOMAIN body, NEW f \in {"status", "idempotent_replay"}, NEW value
      PROVE  "client_order_id" \notin DOMAIN Client!Set(body, f, value)
  BY <1>2 DEF Client!Set, Client!Merge
<1>3. "client_order_id" \notin DOMAIN Empty
  BY DEF Empty
<1>4. PICK body : body = Client!Default(Client!Fallback(Empty, "status", Client!OrderStatuses, "error"),
                                        "idempotent_replay", "false")
  OBVIOUS
<1>5. "client_order_id" \notin DOMAIN body
  BY <1>2, <1>3, <1>4 DEF Client!Default, Client!Fallback
<1>6. /\ "client_order_id" \in DOMAIN Client!ExecutionResult
      /\ Client!ExecutionResult["client_order_id"] = Client!Texts
  BY DEF Client!ExecutionResult, Client!Deal, Client!Merge
<1>7. /\ "client_order_id" \in DOMAIN Client!CloseResult
      /\ Client!CloseResult["client_order_id"] = Client!Texts
  BY DEF Client!CloseResult, Client!Deal, Client!Merge
<1> QED
  BY <1>1, <1>4, <1>5, <1>6, <1>7, Zenon
  DEF Client!ParseOrderResult, Client!ParseCloseResult, Client!ParseResult

LEMMA OrderErrors ==
  ASSUME NEW op \in OrderCalls
  PROVE  /\ \A answer : \/ Client!ErrorOf(op, answer) = Client!PostError(answer)
                        \/ Client!ErrorOf(op, answer) = "protocol"
         /\ \A spoiled \in SpoiledAnswers : Client!ErrorOf(op, spoiled) \in {"remote", "protocol"}
<1>1. op \in Client!Writes /\ op \notin DOMAIN Client!ListOf
  BY DEF OrderCalls, Client!Writes, Client!ListOf
<1>2. \A answer : Client!ErrorOf(op, answer) =
          IF Client!PostError(answer) = "none" /\ Client!ParseBody(op, answer.body) = {}
          THEN "protocol" ELSE Client!PostError(answer)
  BY <1>1 DEF Client!ErrorOf
<1>3. Client!ParseBody(op, Empty) = {}
  BY NothingIsNoResult DEF OrderCalls, Client!ParseBody
<1>4. Ok(Empty).body = Empty  BY DEF Ok
<1>5. Client!ErrorOf(op, Ok(Empty)) = "protocol"
  BY <1>2, <1>3, <1>4, OtherAnswers
<1>6. Client!ErrorOf(op, Error(502, "none")) = "remote"
  BY <1>2, OtherAnswers
<1> QED  BY <1>2, <1>5, <1>6 DEF SpoiledAnswers

-----------------------------------------------------------------------------
(* The inductive invariant. *)

Knowledge == {"unused", "pending", "unsure", "rejected", "filled"}

CommandInv ==
    /\ DOMAIN cmd = DOMAIN IdleCommand
    /\ cmd.name \in DOMAIN Script \union {"none"}
    /\ cmd.name # "none" => cmd.step \in 1..Len(Script[cmd.name])
    /\ cmd.id \in Ids \union {"none"}
    /\ cmd.id \in Ids <=> cmd.name \in {"demo_open", "demo_close"}

\* A write under way belongs to an id whose caller knows nothing.
LateInv ==
    \A call \in late :
        /\ call.op \in OrderCalls \union OtherWrites
        /\ call.op \in OrderCalls => call.id \in Ids
        /\ call.id \in Ids => told[call.id] = "unsure"

ToldInv(id) ==
    /\ told[id] = "pending" <=> cmd.id = id
    /\ told[id] \in {"unused", "pending"} => orders[id] = "none"
    /\ told[id] = "rejected" => orders[id] \in {"none", "denied"}
    /\ told[id] = "filled" => orders[id] = "filled"

RowsInv == orders \in [Ids -> OrderStates] /\ told \in [Ids -> Knowledge]

IInv == CommandInv /\ LateInv /\ RowsInv /\ \A id \in Ids : ToldInv(id)

LEMMA NoneIsNoId == "none" \notin Ids
BY IdsAssumption

LEMMA IdleInv ==
  /\ DOMAIN IdleCommand = {"name", "step", "id", "target", "volume", "facts", "problem"}
  /\ IdleCommand.name = "none" /\ IdleCommand.id = "none"
BY DEF IdleCommand

LEMMA NoneIsNoScript == "none" \notin DOMAIN Script
BY ScriptDomain

LEMMA InitIInv == Init => IInv
<1> SUFFICES ASSUME Init  PROVE IInv  OBVIOUS
<1>1. CommandInv
  BY IdleInv, NoneIsNoId DEF Init, CommandInv
<1>2. LateInv
  BY DEF Init, LateInv
<1>3. RowsInv
  BY DEF Init, RowsInv, OrderStates, Knowledge
<1>4. ASSUME NEW id \in Ids  PROVE ToldInv(id)
  BY <1>4, IdleInv, NoneIsNoId DEF Init, ToldInv
<1> QED  BY <1>1, <1>2, <1>3, <1>4 DEF IInv

\* The call at hand: an order only as the last one of demo-open or demo-close.
LEMMA CallAtHand ==
  ASSUME CommandInv, cmd.name # "none"
  PROVE  /\ Call.op = Script[cmd.name][cmd.step] /\ Call.id = cmd.id
         /\ Call.op \in OrderCalls => cmd.id \in Ids /\ LastStep /\ cmd.step # 1
         /\ cmd.id \in Ids => Call.op \in Reads \union OrderCalls
         /\ Call.op \in Reads \union OrderCalls \union OtherWrites
<1>1. Call.op = Script[cmd.name][cmd.step] /\ Call.id = cmd.id
  BY DEF Call
<1>2. CASE cmd.name = "demo_open"
  <2>1. cmd.step \in 1..8  BY <1>2, DemoOpenScript DEF CommandInv
  <2>2. cmd.step \in 1..7 \/ cmd.step = 8  BY <2>1
  <2> QED  BY <1>1, <1>2, <2>2, DemoOpenScript DEF CommandInv, LastStep, Reads, OrderCalls, OtherWrites
<1>3. CASE cmd.name = "demo_close"
  <2>1. cmd.step \in 1..7  BY <1>3, DemoCloseScript DEF CommandInv
  <2>2. cmd.step \in 1..6 \/ cmd.step = 7  BY <2>1
  <2> QED  BY <1>1, <1>3, <2>2, DemoCloseScript DEF CommandInv, LastStep, Reads, OrderCalls, OtherWrites
<1>4. CASE cmd.name \notin {"demo_open", "demo_close"}
  <2>1. Script[cmd.name][cmd.step] \in Reads \union OtherWrites
    BY <1>4, OtherScripts DEF CommandInv, SendsNoOrder
  <2>2. OrderCalls \cap (Reads \union OtherWrites) = {}  BY DEF Reads, OrderCalls, OtherWrites
  <2> QED  BY <1>1, <1>4, <2>1, <2>2 DEF CommandInv
<1> QED  BY <1>2, <1>3, <1>4

\* How a command goes on: it ends and tells the caller, or it asks the next thing.
LEMMA AfterCall ==
  ASSUME CommandInv, cmd.name # "none", NEW error, NEW answer, NEW fate,
         Concludes(Call.op, error, answer, fate)
  PROVE  \/ /\ cmd' = IdleCommand
            /\ told' = IF cmd.id \in Ids THEN [told EXCEPT ![cmd.id] = Conclusion(Call.op, error, answer)]
                       ELSE told
         \/ /\ Call.op \notin OrderCalls
            /\ CommandInv' /\ cmd'.id = cmd.id /\ told' = told
<1> PICK op : op = Call.op  OBVIOUS
<1>1. \/ Exit(error, fate, Conclusion(op, error, answer))
      \/ op \notin OrderCalls /\ Exit("denied", fate, "unused")
      \/ ~LastStep /\ Proceed(op, error, answer)
      \/ LastStep /\ \E code : Exit(code, fate, Conclusion(op, error, answer))
  <2>1. op \in OrderCalls => ~Refuses(op, answer, FactsAfter(op, answer))
    BY CallAtHand DEF Refuses, OrderCalls
  <2> QED  BY <2>1, Zenon DEF Concludes
<1>2. op \notin OrderCalls => Conclusion(op, error, answer) = "unused"
  BY DEF Conclusion, OrderCalls
<1>3. ASSUME NEW code, NEW conclusion, Exit(code, fate, conclusion)
      PROVE  /\ cmd' = IdleCommand
             /\ told' = IF cmd.id \in Ids THEN [told EXCEPT ![cmd.id] = conclusion] ELSE told
  BY <1>3 DEF Exit
<1>4. CASE ~LastStep /\ Proceed(op, error, answer)
  <2>1. op \notin OrderCalls  BY <1>4, CallAtHand
  <2>2. /\ DOMAIN cmd' = DOMAIN cmd /\ cmd'.name = cmd.name /\ cmd'.id = cmd.id /\ cmd'.step = cmd.step + 1
        /\ told' = told
    BY <1>4, IdleInv DEF Proceed, CommandInv
  <2>3. cmd'.step \in 1..Len(Script[cmd.name])
    <3>1. Len(Script[cmd.name]) \in Nat  BY DemoOpenScript, DemoCloseScript, OtherScripts DEF CommandInv, SendsNoOrder
    <3> QED  BY <3>1, <2>2, <1>4 DEF CommandInv, LastStep
  <2>4. CommandInv'  BY <2>2, <2>3 DEF CommandInv
  <2> QED  BY <2>1, <2>2, <2>4
<1> QED  BY <1>1, <1>2, <1>3, <1>4, Zenon

\* An order's call ends its command; what its caller is told fits its row.
LEMMA OrderCallStep ==
  ASSUME IInv, cmd.name # "none", Call.op \in OrderCalls,
         cmd' = IdleCommand,
         NEW conclusion \in {"unsure", "rejected", "filled"}, told' = [told EXCEPT ![cmd.id] = conclusion],
         orders' \in [Ids -> OrderStates], \A other \in Ids \ {cmd.id} : orders'[other] = orders[other],
         conclusion = "rejected" => orders'[cmd.id] \in {"none", "denied"},
         conclusion = "filled" => orders'[cmd.id] = "filled",
         late' = late \/ (late' = late \union {Call} /\ conclusion = "unsure")
  PROVE  IInv'
<1>1. cmd.id \in Ids /\ Call.id = cmd.id  BY CallAtHand DEF IInv
<1>2. CommandInv'  BY IdleInv, NoneIsNoId DEF CommandInv
<1>3. RowsInv' /\ told'[cmd.id] = conclusion /\ \A other \in Ids \ {cmd.id} : told'[other] = told[other]
  BY <1>1 DEF IInv, RowsInv, Knowledge
<1>4. told[cmd.id] = "pending"  BY <1>1 DEF IInv, ToldInv
<1>5. LateInv'
  <2>1. \A call \in late : call.id \in Ids => told'[call.id] = "unsure"
    BY <1>3, <1>4 DEF IInv, LateInv
  <2>2. late' # late => told'[Call.id] = "unsure"
    BY <1>1, <1>3
  <2> QED  BY <1>1, <2>1, <2>2, Zenon DEF IInv, LateInv, OrderCalls, OtherWrites
<1>6. ASSUME NEW id \in Ids  PROVE ToldInv(id)'
  <2>1. CASE id = cmd.id
    BY <2>1, <1>3, IdleInv, NoneIsNoId DEF ToldInv
  <2>2. CASE id # cmd.id
    BY <2>2, <1>3, IdleInv, NoneIsNoId DEF IInv, ToldInv
  <2> QED  BY <2>1, <2>2
<1> QED  BY <1>2, <1>3, <1>5, <1>6 DEF IInv

\* Any other call leaves the rows as they are, or aborts one that was received.
LEMMA OtherCallStep ==
  ASSUME IInv, cmd.name # "none", Call.op \notin OrderCalls,
         \/ /\ cmd' = IdleCommand
            /\ told' = IF cmd.id \in Ids THEN [told EXCEPT ![cmd.id] = "unused"] ELSE told
         \/ CommandInv' /\ cmd'.id = cmd.id /\ told' = told,
         orders' \in [Ids -> OrderStates],
         \A id \in Ids : orders'[id] = orders[id] \/ (orders[id] = "received" /\ orders'[id] = "aborted"),
         late' = late \/ (late' = late \union {Call} /\ Call.op \in OtherWrites)
  PROVE  IInv'
<1>1. CommandInv'  BY IdleInv, NoneIsNoId DEF CommandInv
<1>2. RowsInv' /\ \A other \in Ids \ {cmd.id} : told'[other] = told[other]
  BY DEF IInv, RowsInv, Knowledge
<1>3. \A id \in Ids : told[id] = "pending" <=> cmd.id = id  BY DEF IInv, ToldInv
<1>4. LateInv'
  <2>1. \A call \in late : call.id \in Ids => told'[call.id] = "unsure"
    BY <1>2, <1>3 DEF IInv, LateInv
  <2>2. Call.op \in OtherWrites => Call.id \notin Ids
    <3>1. Call.id \in Ids => Call.op \in Reads \union OrderCalls  BY CallAtHand DEF IInv
    <3>2. OtherWrites \cap (Reads \union OrderCalls) = {}  BY DEF OtherWrites, Reads, OrderCalls
    <3> QED  BY <3>1, <3>2
  <2> QED  BY <2>1, <2>2 DEF IInv, LateInv
<1>5. ASSUME NEW id \in Ids  PROVE ToldInv(id)'
  <2>1. /\ orders[id] = "none" => orders'[id] = "none"
        /\ orders[id] = "denied" => orders'[id] = "denied"
        /\ orders[id] = "filled" => orders'[id] = "filled"
    OBVIOUS
  <2>2. CASE told' = told /\ cmd'.id = cmd.id
    BY <2>1, <2>2 DEF IInv, ToldInv
  <2>3. CASE cmd' = IdleCommand /\ told' = IF cmd.id \in Ids THEN [told EXCEPT ![cmd.id] = "unused"] ELSE told
    <3>1. cmd'.id \notin Ids  BY <2>3, IdleInv, NoneIsNoId
    <3>2. CASE id = cmd.id
      <4>1. told'[id] = "unused" /\ orders[id] = "none"  BY <3>2, <2>3, <1>3 DEF IInv, RowsInv, ToldInv
      <4> QED  BY <3>1, <4>1, <2>1 DEF ToldInv
    <3>3. CASE id # cmd.id
      <4>1. told'[id] = told[id] /\ told[id] # "pending"  BY <3>3, <1>2, <1>3
      <4> QED  BY <3>1, <4>1, <2>1 DEF IInv, ToldInv
    <3> QED  BY <3>2, <3>3
  <2> QED  BY <2>2, <2>3
<1> QED  BY <1>1, <1>2, <1>4, <1>5 DEF IInv

\* The bridge answers: the caller hears it, a spoiled answer, or nothing.
LEMMA HandledStep ==
  ASSUME IInv, cmd.name # "none", NEW fate, NEW result \in Handled(Call), Become(result.state), late' = late,
         NEW error, NEW answer, Concludes(Call.op, error, answer, fate),
         \/ error = Client!ErrorOf(Call.op, result.answer)
         \/ answer \in SpoiledAnswers /\ error = Client!ErrorOf(Call.op, answer)
         \/ error \in {"timeout", "transport"}
  PROVE  IInv'
<1>1. orders' = result.state.orders  BY DEF Become
<1>2. \/ /\ cmd' = IdleCommand
         /\ told' = IF cmd.id \in Ids THEN [told EXCEPT ![cmd.id] = Conclusion(Call.op, error, answer)]
                    ELSE told
      \/ Call.op \notin OrderCalls /\ CommandInv' /\ cmd'.id = cmd.id /\ told' = told
  BY AfterCall, Zenon DEF IInv
<1>3. CASE Call.op \in OrderCalls
  <2>1. cmd.id \in Ids /\ Call.id = cmd.id /\ orders \in [Ids -> OrderStates] /\ orders[cmd.id] = "none"
    BY <1>3, CallAtHand DEF IInv, RowsInv, ToldInv
  <2>2. OrderOutcome(cmd.id, result)
    BY <2>1, <1>3, OrderRoutes, Zenon
  <2>3. PICK conclusion : conclusion = Conclusion(Call.op, error, answer)  OBVIOUS
  <2>4. /\ conclusion \in {"unsure", "rejected", "filled"}
        /\ conclusion = "rejected" => error = "rejected"
        /\ conclusion = "filled" => error = "none"
    BY <2>3, <1>3 DEF Conclusion, OrderCalls
  <2>5. error \in {"rejected", "none"} => error = Client!PostError(result.answer)
    <3>1. error = Client!ErrorOf(Call.op, result.answer) =>
            error = Client!PostError(result.answer) \/ error = "protocol"
      BY <1>3, OrderErrors
    <3>2. answer \in SpoiledAnswers /\ error = Client!ErrorOf(Call.op, answer) =>
            error \in {"remote", "protocol"}
      BY <1>3, OrderErrors
    <3> QED  BY <3>1, <3>2
  <2>6. /\ orders' \in [Ids -> OrderStates]
        /\ \A other \in Ids \ {cmd.id} : orders'[other] = orders[other]
        /\ error = "rejected" => orders'[cmd.id] \in {"none", "denied"}
        /\ error = "none" => orders'[cmd.id] = "filled"
    BY <1>1, <2>1, <2>2, <2>5 DEF OrderOutcome
  <2>7. cmd' = IdleCommand /\ told' = [told EXCEPT ![cmd.id] = conclusion]
    BY <1>2, <1>3, <2>1, <2>3
  <2> QED  BY <1>3, <2>4, <2>6, <2>7, OrderCallStep
<1>4. CASE Call.op \notin OrderCalls
  <2>1. Call.op \in Reads \union OtherWrites  BY <1>4, CallAtHand DEF IInv
  <2>2. /\ orders' \in [Ids -> OrderStates]
        /\ \A id \in Ids : orders'[id] = orders[id] \/ (orders[id] = "received" /\ orders'[id] = "aborted")
    BY <1>1, <2>1, OtherRoutes, Zenon DEF IInv, RowsInv
  <2>3. Conclusion(Call.op, error, answer) = "unused"  BY <1>4 DEF Conclusion, OrderCalls
  <2>4. \/ /\ cmd' = IdleCommand
           /\ told' = IF cmd.id \in Ids THEN [told EXCEPT ![cmd.id] = "unused"] ELSE told
        \/ CommandInv' /\ cmd'.id = cmd.id /\ told' = told
    BY <1>2, <2>3, Zenon
  <2> QED  BY <1>4, <2>2, <2>4, OtherCallStep, Zenon
<1> QED  BY <1>3, <1>4

\* The client gives up on a call; a write may still be under way.
LEMMA UnansweredStep ==
  ASSUME IInv, cmd.name # "none", NEW fate, NEW error \in {"timeout", "transport"}, NEW answer,
         Concludes(Call.op, error, answer, fate), orders' = orders,
         late' = late \/ (Call.op \in Client!Writes /\ late' = late \union {Call})
  PROVE  IInv'
<1>1. \/ /\ cmd' = IdleCommand
         /\ told' = IF cmd.id \in Ids THEN [told EXCEPT ![cmd.id] = Conclusion(Call.op, error, answer)]
                    ELSE told
      \/ Call.op \notin OrderCalls /\ CommandInv' /\ cmd'.id = cmd.id /\ told' = told
  BY AfterCall, Zenon DEF IInv
<1>2. orders' \in [Ids -> OrderStates] /\ orders \in [Ids -> OrderStates]  BY DEF IInv, RowsInv
<1>3. CASE Call.op \in OrderCalls
  <2>1. Conclusion(Call.op, error, answer) = "unsure"  BY <1>3 DEF Conclusion, OrderCalls
  <2>2. cmd.id \in Ids  BY <1>3, CallAtHand DEF IInv
  <2>3. cmd' = IdleCommand /\ told' = [told EXCEPT ![cmd.id] = "unsure"]
    BY <1>1, <1>3, <2>1, <2>2
  <2>4. \A other \in Ids \ {cmd.id} : orders'[other] = orders[other]  OBVIOUS
  <2> QED  BY <1>2, <1>3, <2>3, <2>4, OrderCallStep
<1>4. CASE Call.op \notin OrderCalls
  <2>1. Conclusion(Call.op, error, answer) = "unused"  BY <1>4 DEF Conclusion, OrderCalls
  <2>2. \/ /\ cmd' = IdleCommand
           /\ told' = IF cmd.id \in Ids THEN [told EXCEPT ![cmd.id] = "unused"] ELSE told
        \/ CommandInv' /\ cmd'.id = cmd.id /\ told' = told
    BY <1>1, <2>1, Zenon
  <2>3. Call.op \in Client!Writes => Call.op \in OtherWrites
    BY <1>4 DEF Client!Writes, OrderCalls, OtherWrites
  <2>4. \A id \in Ids : orders'[id] = orders[id]  OBVIOUS
  <2> QED  BY <1>2, <1>4, <2>2, <2>3, <2>4, OtherCallStep, Zenon
<1> QED  BY <1>3, <1>4

LEMMA MakeCallStep ==
  ASSUME IInv, NEW fate, MakeCall(fate)
  PROVE  IInv'
<1>1. cmd.name # "none"  BY DEF MakeCall
<1>2. CASE fate \in {"answered", "lost", "damaged"}
  <2>1. late' = late  BY <1>2 DEF MakeCall
  <2>2. PICK result \in Handled(Call) :
          /\ Become(result.state)
          /\ \/ /\ fate = "answered"
                /\ Concludes(Call.op, Client!ErrorOf(Call.op, result.answer), result.answer, fate)
             \/ /\ fate = "damaged"
                /\ \E spoiled \in SpoiledAnswers :
                      Concludes(Call.op, Client!ErrorOf(Call.op, spoiled), spoiled, fate)
             \/ /\ fate = "lost"
                /\ \E error \in {"timeout", "transport"} :
                      Concludes(Call.op, error, result.answer, fate)
    BY <1>2 DEF MakeCall
  <2>3. PICK error, answer :
          /\ Concludes(Call.op, error, answer, fate)
          /\ \/ error = Client!ErrorOf(Call.op, result.answer)
             \/ answer \in SpoiledAnswers /\ error = Client!ErrorOf(Call.op, answer)
             \/ error \in {"timeout", "transport"}
    BY <2>2, Zenon
  <2> QED  BY <1>1, <2>1, <2>2, <2>3, HandledStep, Zenon
<1>3. CASE fate \in {"unreached", "delayed"}
  <2>1. PICK error \in {"timeout", "transport"} : Concludes(Call.op, error, Internal, fate)
    BY <1>3 DEF MakeCall
  <2>2. /\ late' = late \/ (Call.op \in Client!Writes /\ late' = late \union {Call})
        /\ orders' = orders
    BY <1>3 DEF MakeCall, bridge
  <2> QED  BY <1>1, <2>1, <2>2, UnansweredStep, Zenon
<1> QED  BY <1>2, <1>3 DEF MakeCall

LEMMA HandleLateStep ==
  ASSUME IInv, HandleLate
  PROVE  IInv'
<1>1. PICK call \in late : (\E result \in Handled(call) : Become(result.state)) /\ late' = late \ {call}
  BY DEF HandleLate
<1>2. PICK result \in Handled(call) : Become(result.state)  BY <1>1
<1>3. cmd' = cmd /\ told' = told  BY DEF HandleLate
<1>4. orders' = result.state.orders  BY <1>2 DEF Become
<1>5. CommandInv' /\ LateInv'
  BY <1>1, <1>3 DEF IInv, CommandInv, LateInv
<1>6. orders \in [Ids -> OrderStates] /\ told \in [Ids -> Knowledge]  BY DEF IInv, RowsInv
<1>7. CASE call.op \in OrderCalls
  <2>1. call.id \in Ids /\ told[call.id] = "unsure"  BY <1>1, <1>7 DEF IInv, LateInv
  <2>2. OrderOutcome(call.id, result)  BY <1>2, <1>6, <1>7, <2>1, OrderRoutes, Zenon
  <2>3. orders' \in [Ids -> OrderStates] /\ \A id \in Ids \ {call.id} : orders'[id] = orders[id]
    BY <1>4, <2>2 DEF OrderOutcome
  <2>4. \A id \in Ids : ToldInv(id)'
    BY <1>3, <2>1, <2>3 DEF IInv, ToldInv
  <2> QED  BY <1>3, <1>5, <1>6, <2>3, <2>4 DEF IInv, RowsInv
<1>8. CASE call.op \in OtherWrites
  <2>1. call.op \in Reads \union OtherWrites  BY <1>8
  <2>2. /\ orders' \in [Ids -> OrderStates]
        /\ \A id \in Ids : orders'[id] = orders[id] \/ (orders[id] = "received" /\ orders'[id] = "aborted")
    BY <1>2, <1>4, <1>6, <2>1, OtherRoutes, Zenon
  <2>3. ASSUME NEW id \in Ids  PROVE ToldInv(id)'
    BY <1>3, <2>2 DEF IInv, ToldInv
  <2> QED  BY <1>3, <1>5, <1>6, <2>2, <2>3 DEF IInv, RowsInv
<1> QED  BY <1>1, <1>7, <1>8 DEF IInv, LateInv

LEMMA BeginStep ==
  ASSUME IInv, NEW name \in Commands, Begin(name)
  PROVE  IInv'
<1>1. PICK id \in Ids \union {"none"}, target \in Ids \union {"none"} :
        /\ id # "none" <=> name \in {"demo_open", "demo_close"}
        /\ id # "none" => told[id] = "unused"
        /\ cmd' = [IdleCommand EXCEPT !.name = name, !.id = id, !.target = target]
        /\ told' = IF id = "none" THEN told ELSE [told EXCEPT ![id] = "pending"]
  BY DEF Begin
<1>2. cmd.name = "none" /\ orders' = orders /\ late' = late  BY DEF Begin, bridge
<1>3. /\ DOMAIN cmd' = DOMAIN IdleCommand /\ cmd'.name = name /\ cmd'.id = id /\ cmd'.step = 1
  BY <1>1 DEF IdleCommand
<1>4. name \in DOMAIN Script /\ Len(Script[name]) \in Nat \ {0}
  BY RemoteTradingAssumption, DemoOpenScript, DemoCloseScript, OtherScripts DEF SendsNoOrder
<1>5. 1 \in 1..Len(Script[name])  BY <1>4
<1>6. CommandInv'  BY <1>1, <1>3, <1>4, <1>5, NoneIsNoId DEF CommandInv
<1>7. cmd.id \notin Ids  BY <1>2 DEF IInv, CommandInv
<1>8. RowsInv'  BY <1>1, <1>2, NoneIsNoId DEF IInv, RowsInv, Knowledge
<1>9. LateInv'
  BY <1>1, <1>2, NoneIsNoId DEF IInv, RowsInv, LateInv
<1>10. ASSUME NEW other \in Ids  PROVE ToldInv(other)'
  <2>1. told[other] # "pending"  BY <1>7 DEF IInv, ToldInv
  <2>2. CASE other = id
    BY <2>2, <1>1, <1>2, <1>3, NoneIsNoId DEF IInv, RowsInv, ToldInv
  <2>3. CASE other # id
    <3>1. told'[other] = told[other]  BY <2>3, <1>1 DEF IInv, RowsInv
    <3> QED  BY <2>1, <2>3, <3>1, <1>2, <1>3 DEF IInv, ToldInv
  <2> QED  BY <2>2, <2>3
<1> QED  BY <1>6, <1>8, <1>9, <1>10 DEF IInv

LEMMA NextIInv == IInv /\ [Next]_vars => IInv'
<1> SUFFICES ASSUME IInv, [Next]_vars  PROVE IInv'  OBVIOUS
<1>1. CASE \E name \in Commands : Begin(name)  BY <1>1, BeginStep
<1>2. CASE \E fate \in Fates : MakeCall(fate)  BY <1>2, MakeCallStep
<1>3. CASE HandleLate  BY <1>3, HandleLateStep
<1>4. CASE UNCHANGED <<orders, late, cmd, told>>
  BY <1>4 DEF IInv, CommandInv, LateInv, RowsInv, ToldInv
<1> QED  BY <1>1, <1>2, <1>3, <1>4 DEF Next, TerminalChanges, vars, bridge

\* Whatever the network does to calls and answers, whenever a write that timed
\* out arrives, and however the terminal changes: the caller who is told that
\* an order was refused or filled is told the truth, and keeps being right.
THEOREM OutcomesAreDefinite == Spec => []DefiniteOutcomes
<1>1. IInv => DefiniteOutcomes
  BY DEF IInv, LateInv, ToldInv, DefiniteOutcomes
<1> QED  BY InitIInv, NextIInv, <1>1, PTL DEF Spec

-----------------------------------------------------------------------------
(* An order to open leaves the client only on evidence.  For each gate of  *)
(* the policy, the client's parser gives the value that opens it only for  *)
(* an answer the bridge made while the gate held (the lemmas called        *)
(* ...IsEvidence), never for a spoiled one (NothingIsNoEvidence); the      *)
(* facts of a command are therefore backed by the gates that held while it *)
(* ran (Backed), and authorize_open reads nothing but these facts.         *)

\* What an answer that is understood says.
LEMMA ParsedValue ==
  ASSUME NEW op, op \notin Client!Writes, op \notin DOMAIN Client!ListOf, NEW answer,
         Client!ErrorOf(op, answer) = "none"
  PROVE  Client!GetError(answer) = "none" /\ Client!ValueOf(op, answer) \in Client!ParseBody(op, answer.body)
<1>1. Client!GetError(answer) = "none" /\ Client!ParseBody(op, answer.body) # {}
  BY DEF Client!ErrorOf
<1> QED  BY <1>1 DEF Client!ValueOf

LEMMA ParsedField ==
  ASSUME NEW body, NEW type, NEW invariant, NEW value \in Client!Parsed(body, type, invariant),
         NEW f \in DOMAIN type
  PROVE  value[f] = IF f \in DOMAIN body THEN body[f] ELSE "null"
BY DEF Client!Parsed

LEMMA Unparsed ==
  ASSUME NEW body, NEW type, NEW invariant, NEW f \in DOMAIN type, f \notin DOMAIN body,
         "absent" \notin type[f], "null" \notin type[f]
  PROVE  Client!Parsed(body, type, invariant) = {}
<1>1. Client!Field(body, f) = "absent"  BY DEF Client!Field
<1>2. ~Client!Accepts(body, type)  BY <1>1 DEF Client!Accepts
<1> QED  BY <1>2 DEF Client!Parsed

LEMMA StatusAndBody ==
  /\ Client!GetError(BackendUnavailable) # "none" /\ Client!GetError(Unauthorized) # "none"
  /\ Client!GetError(NotFound) # "none" /\ Client!GetError(Error(502, "none")) # "none"
  /\ \A body : Ok(body).body = body
<1>1. BackendUnavailable.status = 502 /\ Unauthorized.status = 403 /\ NotFound.status = 404
      /\ Error(502, "none").status = 502
  BY DEF BackendUnavailable, Unauthorized, NotFound, Error
<1>2. \A body : Ok(body).body = body  BY DEF Ok
<1> QED  BY <1>1, <1>2 DEF Client!GetError

LEMMA AccountIsEvidence ==
  ASSUME Client!ErrorOf("account", GetAccount(terminal)) = "none",
         Client!ValueOf("account", GetAccount(terminal)).trade_mode = "demo"
  PROVE  "demo" \in Gates
<1>1. PICK value : value = Client!ValueOf("account", GetAccount(terminal))  OBVIOUS
<1>2. "account" \notin Client!Writes /\ "account" \notin DOMAIN Client!ListOf
  BY DEF Client!Writes, Client!ListOf
<1>3. Client!GetError(GetAccount(terminal)) = "none"
      /\ value \in Client!ParseAccount(GetAccount(terminal).body)
  BY <1>1, <1>2, ParsedValue DEF Client!ParseBody
<1>4. AccountInfo(terminal) # {}
  BY <1>3, StatusAndBody DEF GetAccount, OkOf
<1>5. PICK info : AccountInfo(terminal) = {info} /\ info.trade_mode_code = terminal.code /\ terminal.answers
  BY <1>4 DEF AccountInfo, When
<1>6. GetAccount(terminal).body = AccountResponse(info)
  BY <1>5, StatusAndBody DEF GetAccount, OkOf
<1>7. PICK body : body = AccountResponse(info)  OBVIOUS
<1>8. "trade_mode" \in DOMAIN body /\ body["trade_mode"] = TradeModeString(terminal.code)
  BY <1>5, <1>7 DEF AccountResponse
<1>9. PICK read : read = Client!Fallback(body, "trade_mode", Client!AccountTradeModes, "unknown")  OBVIOUS
<1>10. "trade_mode" \in DOMAIN read /\ read["trade_mode"] \in {body["trade_mode"], "unknown"}
  <2>1. read = body \/ read = Client!Set(body, "trade_mode", "unknown")
    BY <1>9, Zenon DEF Client!Fallback
  <2>2. PICK other : other = Client!Set(body, "trade_mode", "unknown")  OBVIOUS
  <2>3. DOMAIN other = DOMAIN body \union {"trade_mode"} /\ other["trade_mode"] = "unknown"
    <3>1. /\ DOMAIN Client!Set(body, "trade_mode", "unknown") = DOMAIN body \union {"trade_mode"}
          /\ Client!Set(body, "trade_mode", "unknown")["trade_mode"] = "unknown"
      BY DEF Client!Set, Client!Merge
    <3> QED  BY <2>2, <3>1
  <2> QED  BY <1>8, <2>1, <2>2, <2>3
<1>11. "trade_mode" \in DOMAIN Client!AccountSummary  BY DEF Client!AccountSummary
<1>12. value["trade_mode"] = read["trade_mode"]
  <2>1. value \in Client!Parsed(read, Client!AccountSummary, TRUE)
    BY <1>3, <1>6, <1>7, <1>9, Zenon DEF Client!ParseAccount
  <2>2. value["trade_mode"] = IF "trade_mode" \in DOMAIN read THEN read["trade_mode"] ELSE "null"
    BY <2>1, <1>11, ParsedField, Zenon
  <2> QED  BY <2>2, <1>10, Zenon
<1>13. TradeModeString(terminal.code) = "demo"
  BY <1>1, <1>8, <1>10, <1>12
<1> QED  BY <1>5, <1>13 DEF Gates

LEMMA SwitchIsEvidence ==
  ASSUME Client!ErrorOf("kill_switch_status", GetKillSwitch(killSwitch)) = "none",
         Client!ValueOf("kill_switch_status", GetKillSwitch(killSwitch)).status = "inactive"
  PROVE  "switch" \in Gates
<1>1. PICK value : value = Client!ValueOf("kill_switch_status", GetKillSwitch(killSwitch))  OBVIOUS
<1>2. "kill_switch_status" \notin Client!Writes /\ "kill_switch_status" \notin DOMAIN Client!ListOf
  BY DEF Client!Writes, Client!ListOf
<1>3. PICK body : body = KillSwitchResponse(killSwitch)  OBVIOUS
<1>4. GetKillSwitch(killSwitch).body = body  BY <1>3, StatusAndBody DEF GetKillSwitch
<1>5. value \in Client!Parsed(body, Client!KillSwitchState, TRUE)
  BY <1>1, <1>2, <1>4, ParsedValue DEF Client!ParseBody, Client!ParseKillSwitchState
<1>6. "status" \in DOMAIN body /\ body["status"] = killSwitch /\ "status" \in DOMAIN Client!KillSwitchState
  BY <1>3 DEF KillSwitchResponse, Client!KillSwitchState
<1>7. value["status"] = killSwitch
  <2>1. value["status"] = IF "status" \in DOMAIN body THEN body["status"] ELSE "null"
    <3>1. "status" \in DOMAIN Client!KillSwitchState  BY <1>6
    <3> QED  BY <1>5, <3>1, ParsedField, Zenon
  <2> QED  BY <2>1, <1>6, Zenon
<1> QED  BY <1>1, <1>7 DEF Gates

LEMMA ReportIsEvidence ==
  ASSUME Client!ErrorOf("reconciliation_status", GetReconciliation(recon)) = "none",
         Client!ValueOf("reconciliation_status", GetReconciliation(recon)).state = "ok"
  PROVE  "recon" \in Gates
<1>1. PICK value : value = Client!ValueOf("reconciliation_status", GetReconciliation(recon))  OBVIOUS
<1>2. "reconciliation_status" \notin Client!Writes /\ "reconciliation_status" \notin DOMAIN Client!ListOf
  BY DEF Client!Writes, Client!ListOf
<1>3. PICK body : body = ReconciliationResponse(recon)  OBVIOUS
<1>4. GetReconciliation(recon).body = body  BY <1>3, StatusAndBody DEF GetReconciliation
<1>5. PICK read : read = Client!Default(Client!Fallback(body, "state", Client!ReconciliationStates, "unknown"),
                                        "details", "list")
  OBVIOUS
<1>6. value \in Client!ParseReconciliationReport(body)
  BY <1>1, <1>2, <1>4, ParsedValue DEF Client!ParseBody
<1>7. value \in Client!Parsed(read, Client!ReconciliationReport, "state" \in DOMAIN body)
  BY <1>5, <1>6, Zenon DEF Client!ParseReconciliationReport
<1>8. /\ "state" \in DOMAIN body /\ body["state"] = recon
      /\ "details" \in DOMAIN body /\ "state" \in DOMAIN Client!ReconciliationReport
  BY <1>3 DEF ReconciliationResponse, Client!ReconciliationReport
<1>9. "state" \in DOMAIN read /\ read["state"] \in {recon, "unknown"}
  <2>1. PICK other : other = Client!Set(body, "state", "unknown")  OBVIOUS
  <2>2. PICK kept : kept = Client!Fallback(body, "state", Client!ReconciliationStates, "unknown")  OBVIOUS
  <2>3. DOMAIN other = DOMAIN body \union {"state"} /\ other["state"] = "unknown"
    <3>1. /\ DOMAIN Client!Set(body, "state", "unknown") = DOMAIN body \union {"state"}
          /\ Client!Set(body, "state", "unknown")["state"] = "unknown"
      BY DEF Client!Set, Client!Merge
    <3> QED  BY <2>1, <3>1
  <2>4. kept = body \/ kept = other  BY <2>1, <2>2, Zenon DEF Client!Fallback
  <2>5. "details" \in DOMAIN kept /\ "state" \in DOMAIN kept /\ kept["state"] \in {recon, "unknown"}
    BY <1>8, <2>3, <2>4
  <2>6. read = kept  BY <1>5, <2>2, <2>5, Zenon DEF Client!Default
  <2> QED  BY <2>5, <2>6
<1>10. value["state"] = read["state"]
  <2>1. value["state"] = IF "state" \in DOMAIN read THEN read["state"] ELSE "null"
    <3>1. "state" \in DOMAIN Client!ReconciliationReport  BY <1>8
    <3> QED  BY <1>7, <3>1, ParsedField, Zenon
  <2> QED  BY <2>1, <1>9, Zenon
<1> QED  BY <1>1, <1>9, <1>10 DEF Gates

LEMMA QuoteIsEvidence ==
  ASSUME Client!ErrorOf("quote", GetQuote(terminal)) = "none",
         Fresh(Client!ValueOf("quote", GetQuote(terminal)).timestamp)
  PROVE  "quote" \in Gates
<1>1. PICK value : value = Client!ValueOf("quote", GetQuote(terminal))  OBVIOUS
<1>2. "quote" \notin Client!Writes /\ "quote" \notin DOMAIN Client!ListOf
  BY DEF Client!Writes, Client!ListOf
<1>3. Client!GetError(GetQuote(terminal)) = "none" /\ value \in Client!ParseQuote(GetQuote(terminal).body)
  BY <1>1, <1>2, ParsedValue DEF Client!ParseBody
<1>4. SymbolInfoTick(terminal) = {terminal.tick} /\ GetQuote(terminal) = Ok(QuoteResponse(terminal.tick))
  BY <1>3, StatusAndBody DEF GetQuote, OkOf, SymbolInfoTick, TickRaises, When
<1>5. PICK body : body = QuoteResponse(terminal.tick)  OBVIOUS
<1>6. /\ "symbol" \in DOMAIN body /\ "timestamp" \in DOMAIN body /\ body["timestamp"] = terminal.tick.timestamp
      /\ "timestamp" \in DOMAIN Client!Quote
  BY <1>5 DEF QuoteResponse, Client!Quote
<1>7. value \in Client!ParseQuote(body)  BY <1>3, <1>4, <1>5, StatusAndBody
<1>8. Client!Default(body, "symbol", "text") = body  BY <1>6 DEF Client!Default
<1>9. value["timestamp"] = body["timestamp"]
  <2>1. PICK invariant : value \in Client!Parsed(body, Client!Quote, invariant)
    BY <1>7, <1>8, Zenon DEF Client!ParseQuote
  <2>2. value["timestamp"] = IF "timestamp" \in DOMAIN body THEN body["timestamp"] ELSE "null"
    BY <2>1, <1>6, ParsedField, Zenon
  <2> QED  BY <2>2, <1>6, Zenon
<1> QED  BY <1>1, <1>6, <1>9 DEF Gates, Fresh

\* As many items as positions.
LEMMA SetToSeqLen ==
  ASSUME NEW S, IsFiniteSet(S)
  PROVE  DOMAIN SetToSeq(S) = 1..Cardinality(S) /\ Cardinality(S) \in Nat
<1>1. Cardinality(S) \in Nat /\ ExistsBijection(1..Cardinality(S), S)  BY FS_CardinalityType
<1>2. PICK f \in [1..Cardinality(S) -> S] : IsInjective(f)
  BY <1>1 DEF ExistsBijection, Bijection, Injection, IsInjective
<1>3. SetToSeq(S) \in [1..Cardinality(S) -> S]
  BY <1>2, Zenon DEF SetToSeq
<1> QED  BY <1>1, <1>3

LEMMA PositionsAreEvidence ==
  ASSUME IsFiniteSet(positions),
         Client!ErrorOf("positions", GetPositions(terminal, positions)) = "none",
         Len(GetPositions(terminal, positions).items) < MaxSimultaneousPositions
  PROVE  "count" \in Gates
<1>1. PICK answer : answer = GetPositions(terminal, positions)  OBVIOUS
<1>2. Client!GetError(answer) = "none"
  BY <1>1 DEF Client!ErrorOf, Client!Writes
<1>3. CASE ~terminal.answers
  BY <1>3 DEF Gates
<1>4. CASE positions = {}
  BY <1>4, FS_EmptySet, RemoteTradingAssumption DEF Gates
<1>5. CASE terminal.answers /\ positions # {}
  <2>1. PositionsGet(terminal, positions) # {}
    <3>1. ASSUME PositionsGet(terminal, positions) = {}
          PROVE  answer = BackendUnavailable
      BY <1>1, <3>1 DEF GetPositions, OkListOf
    <3> QED  BY <3>1, <1>2, StatusAndBody
  <2>2. PositionsGet(terminal, positions) = {positions}
    BY <1>5, <2>1 DEF PositionsGet
  <2>3. answer = OkList("positions", [i \in DOMAIN SetToSeq(positions) |-> PositionResponse(SetToSeq(positions)[i])])
    BY <1>1, <2>2 DEF GetPositions, OkListOf
  <2>4. answer.items = [i \in 1..Cardinality(positions) |-> PositionResponse(SetToSeq(positions)[i])]
    BY <2>3, SetToSeqLen DEF OkList, Ok
  <2>5. Len(answer.items) = Cardinality(positions)
    BY <2>4, SetToSeqLen
  <2> QED  BY <1>1, <2>5 DEF Gates
<1> QED  BY <1>3, <1>4, <1>5

GateCalls == {"account", "kill_switch_status", "reconciliation_status", "quote", "positions"}

\* Nothing is read out of a spoiled answer.
LEMMA NothingIsNoEvidence ==
  ASSUME NEW op \in GateCalls, NEW spoiled \in SpoiledAnswers
  PROVE  Client!ErrorOf(op, spoiled) # "none"
<1>1. op \notin Client!Writes  BY DEF GateCalls, Client!Writes
<1>2. CASE spoiled = Error(502, "none")
  BY <1>1, <1>2, StatusAndBody DEF Client!ErrorOf
<1>3. CASE spoiled = Ok(Empty)
  <2>1. spoiled.body = Empty  BY <1>3, StatusAndBody
  <2>2. DOMAIN Empty = {}  BY DEF Empty
  <2>3. "absent" \notin Client!Texts /\ "null" \notin Client!Texts
    BY IdsAssumption DEF Client!Texts
  <2>4. Client!ParseAccount(Empty) = {}
    <3>1. PICK body : body = Client!Fallback(Empty, "trade_mode", Client!AccountTradeModes, "unknown")  OBVIOUS
    <3>2. "account_id" \notin DOMAIN body
      BY <2>2, <3>1 DEF Client!Fallback, Client!Set, Client!Merge
    <3>3. "account_id" \in DOMAIN Client!AccountSummary /\ Client!AccountSummary["account_id"] = Client!Texts
      BY DEF Client!AccountSummary
    <3>4. Client!Parsed(body, Client!AccountSummary, TRUE) = {}
      BY <2>3, <3>2, <3>3, Unparsed
    <3> QED  BY <3>1, <3>4, Zenon DEF Client!ParseAccount
  <2>5. Client!ParseKillSwitchState(Empty) = {}
    <3>1. /\ "status" \in DOMAIN Client!KillSwitchState
          /\ Client!KillSwitchState["status"] = Client!KillSwitchStatuses
      BY DEF Client!KillSwitchState
    <3>2. "absent" \notin Client!KillSwitchStatuses /\ "null" \notin Client!KillSwitchStatuses
      BY DEF Client!KillSwitchStatuses
    <3> QED  BY <2>2, <3>1, <3>2, Unparsed DEF Client!ParseKillSwitchState
  <2>6. Client!ParseReconciliationReport(Empty) = {}
    BY <2>2 DEF Client!ParseReconciliationReport, Client!Parsed
  <2>7. Client!ParseQuote(Empty) = {}
    <3>1. PICK body : body = Client!Default(Empty, "symbol", "text")  OBVIOUS
    <3>2. "bid" \notin DOMAIN body
      BY <2>2, <3>1 DEF Client!Default, Client!Set, Client!Merge
    <3>3. "bid" \in DOMAIN Client!Quote /\ Client!Quote["bid"] = Client!Decimals
      BY DEF Client!Quote
    <3>4. "absent" \notin Client!Decimals /\ "null" \notin Client!Decimals
      BY DEF Client!Decimals
    <3>5. \A invariant : Client!Parsed(body, Client!Quote, invariant) = {}
      BY <3>2, <3>3, <3>4, Unparsed
    <3> QED  BY <3>1, <3>5, Zenon DEF Client!ParseQuote
  <2>8. CASE op = "positions"
    <3>1. Client!ListOf[op] = "positions" /\ op \in DOMAIN Client!ListOf  BY <2>8 DEF Client!ListOf
    <3>2. Client!Field(Empty, "positions") = "absent"  BY <2>2 DEF Client!Field
    <3>3. Client!ParseList(op, Empty, spoiled.items) = {}  BY <3>1, <3>2 DEF Client!ParseList
    <3> QED  BY <1>1, <2>1, <3>1, <3>3 DEF Client!ErrorOf
  <2>9. CASE op # "positions"
    <3>1. op \notin DOMAIN Client!ListOf  BY <2>9 DEF GateCalls, Client!ListOf
    <3>2. Client!ParseBody(op, Empty) = {}
      BY <2>4, <2>5, <2>6, <2>7, <2>9 DEF GateCalls, Client!ParseBody
    <3> QED  BY <1>1, <2>1, <3>1, <3>2 DEF Client!ErrorOf
  <2> QED  BY <2>8, <2>9
<1> QED  BY <1>2, <1>3 DEF SpoiledAnswers

-----------------------------------------------------------------------------
(* The inductive invariant: what demo-open has found good was good once. *)

Backed(facts, gates) ==
    /\ facts.mode = "demo" => "demo" \in gates
    /\ facts.switch = "inactive" => "switch" \in gates
    /\ facts.recon = "ok" => "recon" \in gates
    /\ facts.fresh => "quote" \in gates

Counted(facts, gates) == facts.count < MaxSimultaneousPositions => "count" \in gates

FactsInv ==
    cmd.name = "demo_open" =>
        /\ DOMAIN cmd.facts = DOMAIN NoFacts
        /\ Backed(cmd.facts, held)
        /\ cmd.step >= 3 => cmd.facts.fresh
        /\ cmd.step >= 6 => Counted(cmd.facts, held)
        /\ cmd.step = 8 => AuthorizeOpen(cmd.facts, cmd.volume)

OpenInv == CommandInv /\ IsFiniteSet(positions) /\ FactsInv

\* What an answer adds to the facts is backed by the gates of that moment.
LEMMA NewFactsAreBacked ==
  ASSUME CommandInv, IsFiniteSet(positions), cmd.name = "demo_open", Call.op \in Reads,
         DOMAIN cmd.facts = DOMAIN NoFacts, Backed(cmd.facts, held),
         NEW answer, Client!ErrorOf(Call.op, answer) = "none",
         answer \in SpoiledAnswers \/ \E result \in Handled(Call) : answer = result.answer,
         NEW facts, facts = FactsAfter(Call.op, answer)
  PROVE  /\ DOMAIN facts = DOMAIN NoFacts
         /\ Backed(facts, held \union Gates)
         /\ Call.op # "positions" => facts.count = cmd.facts.count
         /\ Call.op = "positions" => Counted(facts, held \union Gates)
         /\ Call.op # "quote" => facts.fresh = cmd.facts.fresh
<1>1. DOMAIN NoFacts = {"mode", "recon", "switch", "count", "minimum", "maximum", "fresh"}
  BY DEF NoFacts
<1>2. PICK op, value : op = Call.op /\ value = Client!ValueOf(op, answer)  OBVIOUS
<1>3. CASE op \notin GateCalls
  <2>1. facts = cmd.facts \/ facts = [cmd.facts EXCEPT !.minimum = value.volume_min, !.maximum = value.volume_max]
    BY <1>2, <1>3 DEF FactsAfter, GateCalls
  <2> QED  BY <1>1, <1>2, <1>3, <2>1 DEF Backed, GateCalls
<1>4. CASE op \in GateCalls
  <2>1. answer \notin SpoiledAnswers  BY <1>2, <1>4, NothingIsNoEvidence
  <2>2. PICK result \in Handled(Call) : answer = result.answer  BY <2>1
  <2>3. answer # Unauthorized
    <3>1. op \notin Client!Writes  BY <1>4 DEF GateCalls, Client!Writes
    <3>2. Client!ErrorOf(op, Unauthorized) # "none"  BY <3>1, StatusAndBody DEF Client!ErrorOf
    <3> QED  BY <1>2, <3>2
  <2>4. answer = Read(op)
    <3>1. result \in IF ~terminal.authentic THEN {With(Unauthorized, Unchanged)} ELSE {With(Read(op), Unchanged)}
      BY <1>2, <1>4, Zenon DEF Handled, GateCalls
    <3>2. result = With(Unauthorized, Unchanged) \/ result = With(Read(op), Unchanged)  BY <3>1
    <3> QED  BY <2>2, <2>3, <3>2 DEF With
  <2>5. CASE op = "account"
    <3>1. answer = GetAccount(terminal)  BY <2>4, <2>5 DEF Read
    <3>2. facts = [cmd.facts EXCEPT !.mode = value.trade_mode]  BY <1>2, <2>5 DEF FactsAfter
    <3>3. value.trade_mode = "demo" => "demo" \in Gates
      BY <1>2, <2>5, <3>1, AccountIsEvidence
    <3> QED  BY <1>1, <1>2, <2>5, <3>2, <3>3 DEF Backed
  <2>6. CASE op = "kill_switch_status"
    <3>1. answer = GetKillSwitch(killSwitch)  BY <2>4, <2>6 DEF Read
    <3>2. facts = [cmd.facts EXCEPT !.switch = value.status]  BY <1>2, <2>6 DEF FactsAfter
    <3>3. value.status = "inactive" => "switch" \in Gates
      BY <1>2, <2>6, <3>1, SwitchIsEvidence
    <3> QED  BY <1>1, <1>2, <2>6, <3>2, <3>3 DEF Backed
  <2>7. CASE op = "reconciliation_status"
    <3>1. answer = GetReconciliation(recon)  BY <2>4, <2>7 DEF Read
    <3>2. facts = [cmd.facts EXCEPT !.recon = value.state]  BY <1>2, <2>7 DEF FactsAfter
    <3>3. value.state = "ok" => "recon" \in Gates
      BY <1>2, <2>7, <3>1, ReportIsEvidence
    <3> QED  BY <1>1, <1>2, <2>7, <3>2, <3>3 DEF Backed
  <2>8. CASE op = "quote"
    <3>1. answer = GetQuote(terminal)  BY <2>4, <2>8 DEF Read
    <3>2. facts = [cmd.facts EXCEPT !.fresh = Fresh(value.timestamp)]  BY <1>2, <2>8 DEF FactsAfter
    <3>3. Fresh(value.timestamp) => "quote" \in Gates
      BY <1>2, <2>8, <3>1, QuoteIsEvidence
    <3> QED  BY <1>1, <1>2, <2>8, <3>2, <3>3 DEF Backed
  <2>9. CASE op = "positions"
    <3>1. answer = GetPositions(terminal, positions)  BY <2>4, <2>9 DEF Read
    <3>2. facts = [cmd.facts EXCEPT !.count = Len(answer.items)]  BY <1>2, <2>9 DEF FactsAfter
    <3>3. Len(answer.items) < MaxSimultaneousPositions => "count" \in Gates
      BY <1>2, <2>9, <3>1, PositionsAreEvidence
    <3> QED  BY <1>1, <1>2, <2>9, <3>2, <3>3 DEF Backed, Counted
  <2> QED  BY <1>4, <2>5, <2>6, <2>7, <2>8, <2>9 DEF GateCalls
<1> QED  BY <1>3, <1>4

\* No route makes the positions infinite; a read leaves everything as it is.
LEMMA RoutePositions ==
  ASSUME NEW call, NEW result \in Handled(call)
  PROVE  /\ IsFiniteSet(positions) => IsFiniteSet(result.state.positions)
         /\ call.op \in Reads => result.state = Unchanged
<1>1. \A answer, state : With(answer, state).state = state  BY DEF With
<1>2. Unchanged.positions = positions  BY DEF Unchanged
<1>3. \A id, status : Row(id, status).positions = positions  BY DEF Row, Unchanged
<1>4. CASE ~terminal.authentic
  BY <1>1, <1>2, <1>4 DEF Handled
<1>5. CASE terminal.authentic /\ call.op \in Reads
  <2>1. result = With(Read(call.op), Unchanged)  BY <1>5, Zenon DEF Handled, Reads
  <2> QED  BY <1>1, <1>2, <2>1
<1>6. CASE terminal.authentic /\ call.op \in OrderCalls
  <2>1. ASSUME NEW id, NEW checks, NEW filled, NEW response, IsFiniteSet(positions), IsFiniteSet(filled.positions),
               DOMAIN filled = {"orders", "positions", "killSwitch", "recon"},
               result \in Attempt(id, checks, filled, response)
        PROVE  IsFiniteSet(result.state.positions)
    <3>1. [filled EXCEPT !.orders[id] = "adrift_executed"].positions = filled.positions  BY <2>1
    <3>2. \/ result.state = Unchanged \/ \E status : result.state = Row(id, status)
          \/ result.state = filled \/ result.state = [filled EXCEPT !.orders[id] = "adrift_executed"]
      BY <2>1, <1>1 DEF Attempt
    <3> QED  BY <2>1, <3>1, <3>2, <1>2, <1>3
  <2>2. CASE call.op = "place_order"
    <3>1. result \in PostDemoOrder(call.id, call.volume)  BY <1>6, <2>2 DEF Handled
    <3>2. PICK filled :
             filled = [Unchanged EXCEPT !.orders[call.id] = "filled", !.positions = positions \union {call.id}]
      OBVIOUS
    <3>3. \E checks : result \in Attempt(call.id, checks, filled, DemoOrderResultResponse(call.id))
      BY <3>1, <3>2, Zenon DEF PostDemoOrder
    <3>4. /\ filled.positions = positions \union {call.id}
          /\ DOMAIN filled = {"orders", "positions", "killSwitch", "recon"}
      BY <3>2 DEF Unchanged
    <3>5. IsFiniteSet(positions) => IsFiniteSet(filled.positions)  BY <3>4, FS_AddElement
    <3> QED  BY <2>1, <2>2, <3>3, <3>4, <3>5 DEF Reads
  <2>3. CASE call.op = "close_position"
    <3>1. result \in PostDemoClose(call.id, call.target)  BY <1>6, <2>3 DEF Handled
    <3>2. PICK filled :
             filled = [Unchanged EXCEPT !.orders[call.id] = "filled", !.positions = positions \ {call.target}]
      OBVIOUS
    <3>3. \E checks : result \in Attempt(call.id, checks, filled, DemoCloseResultResponse(call.id, call.target))
      BY <3>1, <3>2, Zenon DEF PostDemoClose
    <3>4. /\ filled.positions = positions \ {call.target}
          /\ DOMAIN filled = {"orders", "positions", "killSwitch", "recon"}
      BY <3>2 DEF Unchanged
    <3>5. IsFiniteSet(positions) => IsFiniteSet(filled.positions)  BY <3>4, FS_RemoveElement
    <3> QED  BY <2>1, <2>3, <3>3, <3>4, <3>5 DEF Reads
  <2> QED  BY <1>6, <2>2, <2>3 DEF OrderCalls
<1>7. CASE terminal.authentic /\ call.op \notin Reads \union OrderCalls
  <2>1. \A rows : Reconciled(rows).state.positions = positions
    BY DEF Reconciled, With, Unchanged
  <2>2. \A status : \A r \in SetKillSwitch(status) : r.state.positions = positions
    BY DEF SetKillSwitch, With, Unchanged
  <2>3. result.state.positions = positions
    BY <1>1, <1>2, <1>7, <2>1, <2>2 DEF Handled, PostReconciliationRun, PostResolveReceived, OrderCalls
  <2> QED  BY <1>7, <2>3
<1> QED  BY <1>4, <1>5, <1>6, <1>7

LEMMA BackedGrows ==
  ASSUME NEW facts, NEW fewer, NEW more, fewer \subseteq more
  PROVE  /\ Backed(facts, fewer) => Backed(facts, more)
         /\ Counted(facts, fewer) => Counted(facts, more)
BY DEF Backed, Counted

LEMMA HeldGrows ==
  ASSUME NoteHistory, cmd.name = "demo_open", cmd'.name = "demo_open"
  PROVE  held' = held \union Gates'
BY DEF NoteHistory

\* A step of demo-open that goes on: an answer without error, of a read.
LEMMA OpenGoesOn ==
  ASSUME OpenInv, cmd.name = "demo_open", NEW error, NEW answer, NEW fate,
         Concludes(Call.op, error, answer, fate), cmd'.name # "none"
  PROVE  /\ error = "none" /\ Call.op \in Reads
         /\ cmd'.name = "demo_open" /\ cmd'.step = cmd.step + 1 /\ cmd.step \in 1..7
         /\ cmd'.facts = FactsAfter(Call.op, answer)
         /\ cmd.step # 1 => cmd'.volume = cmd.volume
         /\ ~Refuses(Call.op, answer, FactsAfter(Call.op, answer))
<1>1. PICK op : op = Call.op  OBVIOUS
<1>2. \A code, conclusion : ~Exit(code, fate, conclusion)
  BY IdleInv DEF Exit
<1>3. ~Tolerated(op)  BY DEF Tolerated
<1>4. /\ error = "none" /\ ~Refuses(op, answer, FactsAfter(op, answer))
      /\ ~LastStep /\ Proceed(op, error, answer)
  BY <1>1, <1>2, <1>3, Zenon DEF Concludes
<1>5. cmd.id \in Ids /\ DOMAIN cmd = DOMAIN IdleCommand  BY DEF OpenInv, CommandInv
<1>6. /\ cmd'.name = cmd.name /\ cmd'.step = cmd.step + 1 /\ cmd'.facts = FactsAfter(op, answer)
      /\ cmd.step # 1 => cmd'.volume = cmd.volume
  BY <1>4, <1>5, IdleInv DEF Proceed
<1>7. cmd.step \in 1..8 /\ cmd.step # 8
  BY <1>4, DemoOpenScript DEF OpenInv, CommandInv, LastStep
<1>8. cmd.step \in 1..7  BY <1>7
<1>9. op \in Reads
  BY <1>1, <1>8, CallAtHand, DemoOpenScript DEF OpenInv
<1> QED  BY <1>1, <1>4, <1>6, <1>8, <1>9

\* What the client hears of a call: nothing, what the bridge made of it, or a
\* spoiled answer.
Hears(fate, error, answer) ==
    \/ error \in {"timeout", "transport"} /\ fate # "answered"
    \/ /\ error = Client!ErrorOf(Call.op, answer)
       /\ \E result \in Handled(Call) :
             /\ Become(result.state)
             /\ \/ fate = "answered" /\ answer = result.answer
                \/ fate = "damaged" /\ answer \in SpoiledAnswers

LEMMA CallOutcome ==
  ASSUME NEW fate, MakeCall(fate)
  PROVE  \E error, answer : Concludes(Call.op, error, answer, fate) /\ Hears(fate, error, answer)
<1>1. CASE fate \in {"answered", "lost", "damaged"}
  <2>1. PICK result \in Handled(Call) :
          /\ Become(result.state)
          /\ \/ /\ fate = "answered"
                /\ Concludes(Call.op, Client!ErrorOf(Call.op, result.answer), result.answer, fate)
             \/ /\ fate = "damaged"
                /\ \E spoiled \in SpoiledAnswers :
                      Concludes(Call.op, Client!ErrorOf(Call.op, spoiled), spoiled, fate)
             \/ /\ fate = "lost"
                /\ \E error \in {"timeout", "transport"} :
                      Concludes(Call.op, error, result.answer, fate)
    BY <1>1 DEF MakeCall
  <2>2. CASE fate = "answered"  BY <2>1, <2>2, Zenon DEF Hears
  <2>3. CASE fate = "damaged"
    <3>1. PICK spoiled \in SpoiledAnswers :
             Concludes(Call.op, Client!ErrorOf(Call.op, spoiled), spoiled, fate)
      BY <2>1, <2>3
    <3> QED  BY <2>1, <2>3, <3>1, Zenon DEF Hears
  <2>4. CASE fate = "lost"
    <3>1. PICK error \in {"timeout", "transport"} : Concludes(Call.op, error, result.answer, fate)
      BY <2>1, <2>4
    <3>2. fate # "answered"  BY <2>4
    <3> QED  BY <3>1, <3>2, Zenon DEF Hears
  <2> QED  BY <1>1, <2>2, <2>3, <2>4
<1>2. CASE fate \in {"unreached", "delayed"}
  <2>1. PICK error \in {"timeout", "transport"} : Concludes(Call.op, error, Internal, fate)
    BY <1>2 DEF MakeCall
  <2>2. fate # "answered"  BY <1>2
  <2> QED  BY <2>1, <2>2, Zenon DEF Hears
<1> QED  BY <1>1, <1>2 DEF MakeCall

LEMMA OpenCallStep ==
  ASSUME OpenInv, cmd.name = "demo_open", NEW fate, MakeCall(fate), cmd'.name # "none"
  PROVE  FactsInv'
<1>1. OpenInv /\ CommandInv /\ IsFiniteSet(positions) /\ FactsInv  BY DEF OpenInv
<1>2. PICK answer, error :
        /\ Concludes(Call.op, error, answer, fate)
        /\ error = "none" =>
              /\ error = Client!ErrorOf(Call.op, answer)
              /\ \E result \in Handled(Call) :
                    /\ Become(result.state)
                    /\ answer \in SpoiledAnswers \/ answer = result.answer
  <2>1. PICK error, answer : Concludes(Call.op, error, answer, fate) /\ Hears(fate, error, answer)
    BY CallOutcome
  <2>2. error = "none" =>
          /\ error = Client!ErrorOf(Call.op, answer)
          /\ \E result \in Handled(Call) :
                Become(result.state) /\ (answer \in SpoiledAnswers \/ answer = result.answer)
    BY <2>1 DEF Hears
  <2> QED  BY <2>1, <2>2
<1>3. PICK facts : facts = FactsAfter(Call.op, answer)  OBVIOUS
<1>4. /\ error = "none" /\ Call.op \in Reads
      /\ cmd'.name = "demo_open" /\ cmd'.step = cmd.step + 1 /\ cmd.step \in 1..7
      /\ cmd'.facts = facts
      /\ cmd.step # 1 => cmd'.volume = cmd.volume
      /\ ~Refuses(Call.op, answer, facts)
  BY <1>2, <1>3, OpenGoesOn, Zenon
<1>5. PICK result \in Handled(Call) : Become(result.state) /\ (answer \in SpoiledAnswers \/ answer = result.answer)
  BY <1>2, <1>4
<1>6. Gates' = Gates
  <2>1. result.state = Unchanged  BY <1>4, <1>5, RoutePositions
  <2>2. killSwitch' = killSwitch /\ recon' = recon /\ positions' = positions
    BY <1>5, <2>1 DEF Become, Unchanged
  <2>3. terminal' = terminal  BY DEF MakeCall
  <2> QED  BY <2>2, <2>3 DEF Gates, Fresh
<1>7. held' = held \union Gates
  <2>1. NoteHistory  BY DEF MakeCall
  <2> QED  BY <2>1, <1>4, <1>6, HeldGrows
<1>8. DOMAIN cmd.facts = DOMAIN NoFacts /\ Backed(cmd.facts, held)  BY <1>1 DEF FactsInv
<1>9. /\ DOMAIN facts = DOMAIN NoFacts
      /\ Backed(facts, held \union Gates)
      /\ Call.op # "positions" => facts.count = cmd.facts.count
      /\ Call.op = "positions" => Counted(facts, held \union Gates)
      /\ Call.op # "quote" => facts.fresh = cmd.facts.fresh
  BY <1>1, <1>2, <1>3, <1>4, <1>5, <1>8, NewFactsAreBacked, Zenon
<1>10. Call.op = Script["demo_open"][cmd.step]  BY <1>1, CallAtHand
<1>11. cmd'.step >= 3 => facts.fresh
  <2>1. CASE Call.op = "quote"  BY <2>1, <1>4 DEF Refuses
  <2>2. CASE Call.op # "quote"
    <3>1. cmd.step # 2  BY <2>2, <1>10, DemoOpenScript
    <3>2. cmd'.step >= 3 => cmd.step >= 3  BY <3>1, <1>4
    <3>3. cmd.step >= 3 => cmd.facts.fresh  BY <1>1 DEF FactsInv
    <3> QED  BY <2>2, <3>2, <3>3, <1>9, Zenon
  <2> QED  BY <2>1, <2>2
<1>12. cmd'.step >= 6 => Counted(facts, held')
  <2>1. CASE Call.op = "positions"  BY <2>1, <1>7, <1>9
  <2>2. CASE Call.op # "positions"
    <3>1. cmd.step # 5  BY <2>2, <1>10, DemoOpenScript
    <3>2. cmd'.step >= 6 => cmd.step >= 6  BY <3>1, <1>4
    <3>3. cmd.step >= 6 => Counted(cmd.facts, held)  BY <1>1 DEF FactsInv
    <3> QED  BY <2>2, <3>2, <3>3, <1>7, <1>9 DEF Counted
  <2> QED  BY <2>1, <2>2
<1>13. cmd'.step = 8 => AuthorizeOpen(cmd'.facts, cmd'.volume)
  <2>1. cmd'.step = 8 => cmd.step = 7  BY <1>4
  <2>2. cmd.step = 7 => Call.op = "reconciliation_status"  BY <1>10, DemoOpenScript
  <2>3. Call.op = "reconciliation_status" => AuthorizeOpen(facts, cmd.volume)  BY <1>4 DEF Refuses
  <2>4. cmd.step = 7 => cmd'.volume = cmd.volume  BY <1>4
  <2> QED  BY <2>1, <2>2, <2>3, <2>4, <1>4
<1> QED  BY <1>4, <1>7, <1>9, <1>11, <1>12, <1>13 DEF FactsInv

LEMMA InitOpenInv == Init => OpenInv
<1> SUFFICES ASSUME Init  PROVE OpenInv  OBVIOUS
<1>1. CommandInv  BY InitIInv DEF IInv
<1>2. IsFiniteSet(positions)  BY FS_EmptySet DEF Init
<1>3. FactsInv  BY IdleInv DEF Init, FactsInv
<1> QED  BY <1>1, <1>2, <1>3 DEF OpenInv

LEMMA PositionsStayFinite ==
  ASSUME IsFiniteSet(positions), Next
  PROVE  IsFiniteSet(positions)'
<1>1. \/ positions' = positions
      \/ \E call : \E result \in Handled(call) : Become(result.state)
  BY DEF Next, Begin, MakeCall, HandleLate, TerminalChanges, bridge
<1>2. ASSUME NEW call, NEW result \in Handled(call), Become(result.state)
      PROVE  IsFiniteSet(positions')
  <2>1. positions' = result.state.positions  BY <1>2 DEF Become
  <2>2. IsFiniteSet(result.state.positions)  BY <1>2, RoutePositions
  <2> QED  BY <2>1, <2>2
<1> QED  BY <1>1, <1>2

LEMMA NextFactsInv ==
  ASSUME OpenInv, Next
  PROVE  FactsInv'
<1>1. CASE \E name \in Commands : Begin(name)
  <2>1. /\ cmd'.facts = NoFacts /\ cmd'.step = 1
    BY <1>1 DEF Begin, IdleCommand
  <2>2. /\ NoFacts.mode = "unknown" /\ NoFacts.switch = "active" /\ NoFacts.recon = "unknown"
        /\ NoFacts.fresh = FALSE
    BY DEF NoFacts
  <2> QED  BY <2>1, <2>2 DEF FactsInv, Backed
<1>2. CASE \E fate \in Fates : MakeCall(fate)
  <2>1. PICK fate \in Fates : MakeCall(fate)  BY <1>2
  <2>2. CASE cmd'.name = "demo_open"
    <3>1. cmd.name # "none"  BY <2>1 DEF MakeCall
    <3>2. cmd'.name = cmd.name
      <4>1. PICK op, error, answer : Concludes(op, error, answer, fate)
        BY <2>1, Zenon DEF MakeCall
      <4>2. (\E code, conclusion : Exit(code, fate, conclusion)) \/ Proceed(op, error, answer)
        BY <4>1, Zenon DEF Concludes
      <4>3. cmd' # IdleCommand  BY <2>2, IdleInv
      <4>4. Proceed(op, error, answer)  BY <4>2, <4>3 DEF Exit
      <4> QED  BY <4>4, IdleInv DEF Proceed, OpenInv, CommandInv
    <3> QED  BY <2>1, <2>2, <3>1, <3>2, OpenCallStep
  <2>3. CASE cmd'.name # "demo_open"  BY <2>3 DEF FactsInv
  <2> QED  BY <2>2, <2>3
<1>3. CASE HandleLate \/ TerminalChanges
  <2>1. cmd' = cmd /\ NoteHistory  BY <1>3 DEF HandleLate, TerminalChanges
  <2>2. CASE cmd.name = "demo_open"
    <3>1. held \subseteq held'  BY <2>1, <2>2, HeldGrows
    <3>2. FactsInv  BY DEF OpenInv
    <3>3. /\ Backed(cmd.facts, held) => Backed(cmd.facts, held')
          /\ Counted(cmd.facts, held) => Counted(cmd.facts, held')
      BY <3>1, BackedGrows
    <3> QED  BY <2>1, <3>2, <3>3, Zenon DEF FactsInv
  <2>3. CASE cmd.name # "demo_open"  BY <2>1, <2>3 DEF FactsInv
  <2> QED  BY <2>2, <2>3
<1> QED  BY <1>1, <1>2, <1>3 DEF Next

LEMMA NextOpenInv == OpenInv /\ IInv /\ IInv' /\ [Next]_vars => OpenInv'
<1> SUFFICES ASSUME OpenInv, IInv', [Next]_vars  PROVE OpenInv'  OBVIOUS
<1>1. CommandInv'  BY DEF IInv
<1>2. CASE Next
  BY <1>1, <1>2, PositionsStayFinite, NextFactsInv DEF OpenInv
<1>3. CASE UNCHANGED vars
  <2>1. cmd' = cmd /\ held' = held /\ positions' = positions  BY <1>3 DEF vars, bridge
  <2> QED  BY <1>1, <2>1 DEF OpenInv, FactsInv
<1> QED  BY <1>2, <1>3

\* An order to open leaves the client only if each gate of the policy held at
\* some moment of its command: for any terminals, ids, policy limit and network,
\* and however the bridge's state changes between the calls.
THEOREM OpensAreBacked == Spec => []OpensAreAuthorized
<1>1. OpenInv => OpensAreAuthorized
  <2> SUFFICES ASSUME OpenInv, cmd.name = "demo_open", cmd.step = 8  PROVE AllGates \subseteq held
    BY DemoOpenScript DEF OpensAreAuthorized
  <2>1. Backed(cmd.facts, held) /\ cmd.facts.fresh /\ Counted(cmd.facts, held)
        /\ AuthorizeOpen(cmd.facts, cmd.volume)
    BY DEF OpenInv, FactsInv
  <2>2. cmd.facts.mode = "demo" /\ cmd.facts.recon = "ok" /\ cmd.facts.switch = "inactive"
        /\ cmd.facts.count < MaxSimultaneousPositions
    BY <2>1 DEF AuthorizeOpen, Identified
  <2> QED  BY <2>1, <2>2 DEF Backed, Counted, AllGates
<1>2. Spec => [](IInv /\ OpenInv)
  BY InitIInv, NextIInv, InitOpenInv, NextOpenInv, PTL DEF Spec
<1> QED  BY <1>1, <1>2, PTL

-----------------------------------------------------------------------------
(* The types. *)

Facts == [mode : AccountTradeModes, recon : ReconciliationStates, switch : KillSwitchStatuses,
          count : 0..Cardinality(Ids), minimum : Decimals, maximum : Decimals, fresh : BOOLEAN]

\* A parser lets no value through that its field may not hold.
LEMMA AcceptedField ==
  ASSUME NEW body, NEW type, NEW invariant, NEW value \in Client!Parsed(body, type, invariant),
         NEW f \in DOMAIN type, "null" \notin type[f], "absent" \notin type[f]
  PROVE  value[f] \in type[f]
<1>1. Client!Accepts(body, type)  BY DEF Client!Parsed
<1>2. Client!Field(body, f) \in type[f]  BY <1>1 DEF Client!Accepts
<1>3. f \in DOMAIN body /\ body[f] \in type[f]  BY <1>2 DEF Client!Field
<1>4. value[f] = IF f \in DOMAIN body THEN body[f] ELSE "null"  BY ParsedField
<1> QED  BY <1>3, <1>4

\* What the client makes facts of has its type, whatever the answer is.
LEMMA ParsedTypes ==
  ASSUME NEW body
  PROVE  /\ \A value \in Client!ParseAccount(body) : value["trade_mode"] \in AccountTradeModes
         /\ \A value \in Client!ParseSymbolMetadata(body) :
               value["volume_min"] \in Decimals /\ value["volume_max"] \in Decimals
         /\ \A value \in Client!ParseKillSwitchState(body) : value["status"] \in KillSwitchStatuses
         /\ \A value \in Client!ParseReconciliationReport(body) : value["state"] \in ReconciliationStates
<1>1. ASSUME NEW value \in Client!ParseAccount(body)  PROVE value["trade_mode"] \in AccountTradeModes
  <2>1. PICK read : value \in Client!Parsed(read, Client!AccountSummary, TRUE)
    BY <1>1, Zenon DEF Client!ParseAccount
  <2>2. /\ "trade_mode" \in DOMAIN Client!AccountSummary
        /\ Client!AccountSummary["trade_mode"] = AccountTradeModes
    BY DEF Client!AccountSummary, Client!AccountTradeModes, AccountTradeModes
  <2>3. "null" \notin AccountTradeModes /\ "absent" \notin AccountTradeModes  BY DEF AccountTradeModes
  <2> QED  BY <2>1, <2>2, <2>3, AcceptedField
<1>2. ASSUME NEW value \in Client!ParseSymbolMetadata(body)
      PROVE  value["volume_min"] \in Decimals /\ value["volume_max"] \in Decimals
  <2>1. PICK read, invariant : value \in Client!Parsed(read, Client!SymbolMetadata, invariant)
    BY <1>2, Zenon DEF Client!ParseSymbolMetadata
  <2>2. \A f \in {"volume_min", "volume_max"} :
           f \in DOMAIN Client!SymbolMetadata /\ Client!SymbolMetadata[f] = Decimals
    BY DEF Client!SymbolMetadata, Client!Merge, Client!Decimals, Decimals
  <2>3. "null" \notin Decimals /\ "absent" \notin Decimals  BY DEF Decimals
  <2> QED  BY <2>1, <2>2, <2>3, AcceptedField
<1>3. ASSUME NEW value \in Client!ParseKillSwitchState(body)  PROVE value["status"] \in KillSwitchStatuses
  <2>1. value \in Client!Parsed(body, Client!KillSwitchState, TRUE)
    BY <1>3, Zenon DEF Client!ParseKillSwitchState
  <2>2. /\ "status" \in DOMAIN Client!KillSwitchState
        /\ Client!KillSwitchState["status"] = KillSwitchStatuses
    BY DEF Client!KillSwitchState, Client!KillSwitchStatuses, KillSwitchStatuses
  <2>3. "null" \notin KillSwitchStatuses /\ "absent" \notin KillSwitchStatuses  BY DEF KillSwitchStatuses
  <2> QED  BY <2>1, <2>2, <2>3, AcceptedField
<1>4. ASSUME NEW value \in Client!ParseReconciliationReport(body)
      PROVE  value["state"] \in ReconciliationStates
  <2>1. PICK read, invariant : value \in Client!Parsed(read, Client!ReconciliationReport, invariant)
    BY <1>4, Zenon DEF Client!ParseReconciliationReport
  <2>2. /\ "state" \in DOMAIN Client!ReconciliationReport
        /\ Client!ReconciliationReport["state"] = ReconciliationStates
    BY DEF Client!ReconciliationReport, Client!ReconciliationStates, ReconciliationStates
  <2>3. "null" \notin ReconciliationStates /\ "absent" \notin ReconciliationStates
    BY DEF ReconciliationStates
  <2> QED  BY <2>1, <2>2, <2>3, AcceptedField
<1> QED  BY <1>1, <1>2, <1>3, <1>4

\* No more positions are listed than there are ids.
LEMMA ListedPositions ==
  ASSUME IsFiniteSet(Ids), positions \subseteq Ids,
         Client!ErrorOf("positions", GetPositions(terminal, positions)) = "none"
  PROVE  Len(GetPositions(terminal, positions).items) \in 0..Cardinality(Ids)
<1>1. PICK answer : answer = GetPositions(terminal, positions)  OBVIOUS
<1>2. Client!GetError(answer) = "none"
  BY <1>1 DEF Client!ErrorOf, Client!Writes
<1>3. PositionsGet(terminal, positions) # {}
  <2>1. ASSUME PositionsGet(terminal, positions) = {}
        PROVE  answer = BackendUnavailable
    BY <1>1, <2>1 DEF GetPositions, OkListOf
  <2> QED  BY <2>1, <1>2, StatusAndBody
<1>4. PICK listed : listed \in {{}, positions} /\ PositionsGet(terminal, positions) = {listed}
  BY <1>3 DEF PositionsGet
<1>5. answer = OkList("positions", [i \in DOMAIN SetToSeq(listed) |-> PositionResponse(SetToSeq(listed)[i])])
  BY <1>1, <1>4 DEF GetPositions, OkListOf
<1>6. IsFiniteSet(listed) /\ Cardinality(listed) <= Cardinality(Ids) /\ Cardinality(Ids) \in Nat
  BY <1>4, FS_Subset, FS_CardinalityType
<1>7. answer.items = [i \in 1..Cardinality(listed) |-> PositionResponse(SetToSeq(listed)[i])]
      /\ Cardinality(listed) \in Nat
  BY <1>5, <1>6, SetToSeqLen DEF OkList, Ok
<1>8. Len(answer.items) = Cardinality(listed)  BY <1>7
<1> QED  BY <1>1, <1>6, <1>7, <1>8

LEMMA NewFactsAreTyped ==
  ASSUME NEW op \in Reads, NEW answer, Client!ErrorOf(op, answer) = "none", cmd.facts \in Facts,
         op = "positions" => Len(answer.items) \in 0..Cardinality(Ids)
  PROVE  FactsAfter(op, answer) \in Facts
<1>1. PICK value : value = Client!ValueOf(op, answer)  OBVIOUS
<1>2. op \notin DOMAIN Client!ListOf => value \in Client!ParseBody(op, answer.body)
  <2>1. op \notin Client!Writes  BY DEF Reads, Client!Writes
  <2> QED  BY <1>1, <2>1, ParsedValue
<1>3. CASE op = "account"
  <2>1. value \in Client!ParseAccount(answer.body)  BY <1>2, <1>3 DEF Client!ParseBody, Client!ListOf
  <2>2. value.trade_mode \in AccountTradeModes  BY <2>1, ParsedTypes
  <2> QED  BY <1>1, <1>3, <2>2 DEF FactsAfter, Facts
<1>4. CASE op = "symbol_metadata"
  <2>1. value \in Client!ParseSymbolMetadata(answer.body)  BY <1>2, <1>4 DEF Client!ParseBody, Client!ListOf
  <2>2. value.volume_min \in Decimals /\ value.volume_max \in Decimals  BY <2>1, ParsedTypes
  <2> QED  BY <1>1, <1>4, <2>2 DEF FactsAfter, Facts
<1>5. CASE op = "kill_switch_status"
  <2>1. value \in Client!ParseKillSwitchState(answer.body)  BY <1>2, <1>5 DEF Client!ParseBody, Client!ListOf
  <2>2. value.status \in KillSwitchStatuses  BY <2>1, ParsedTypes
  <2> QED  BY <1>1, <1>5, <2>2 DEF FactsAfter, Facts
<1>6. CASE op = "reconciliation_status"
  <2>1. value \in Client!ParseReconciliationReport(answer.body)
    BY <1>2, <1>6 DEF Client!ParseBody, Client!ListOf
  <2>2. value.state \in ReconciliationStates  BY <2>1, ParsedTypes
  <2> QED  BY <1>1, <1>6, <2>2 DEF FactsAfter, Facts
<1>7. CASE op = "positions"  BY <1>7 DEF FactsAfter, Facts
<1>8. CASE op = "quote"  BY <1>8 DEF FactsAfter, Facts, Fresh
<1>9. CASE op \notin {"account", "symbol_metadata", "positions", "kill_switch_status",
                      "reconciliation_status", "quote"}
  BY <1>9 DEF FactsAfter
<1> QED  BY <1>3, <1>4, <1>5, <1>6, <1>7, <1>8, <1>9

LEMMA RouteTypes ==
  ASSUME positions \subseteq Ids, killSwitch \in KillSwitchStatuses, recon \in ReconciliationStates,
         NEW call, call.op \in Reads \union OrderCalls \union OtherWrites,
         call.op \in OrderCalls => call.id \in Ids, NEW result \in Handled(call)
  PROVE  /\ result.state.positions \subseteq Ids
         /\ result.state.killSwitch \in KillSwitchStatuses
         /\ result.state.recon \in ReconciliationStates
<1> DEFINE Typed(state) == /\ state.positions \subseteq Ids
                           /\ state.killSwitch \in KillSwitchStatuses
                           /\ state.recon \in ReconciliationStates
<1>1. \A answer, state : With(answer, state).state = state  BY DEF With
<1>2. Typed(Unchanged)  BY DEF Unchanged
<1>3. \A id, status : Typed(Row(id, status))  BY DEF Row, Unchanged
<1>4. ASSUME NEW id, NEW checks, NEW filled, NEW response, Typed(filled),
             DOMAIN filled = {"orders", "positions", "killSwitch", "recon"},
             result \in Attempt(id, checks, filled, response)
      PROVE  Typed(result.state)
  <2>1. Typed([filled EXCEPT !.orders[id] = "adrift_executed"])  BY <1>4
  <2>2. \/ result.state = Unchanged \/ \E status : result.state = Row(id, status)
        \/ result.state = filled \/ result.state = [filled EXCEPT !.orders[id] = "adrift_executed"]
    BY <1>1, <1>4 DEF Attempt
  <2> HIDE DEF Typed
  <2> QED  BY <1>2, <1>3, <1>4, <2>1, <2>2
<1>5. CASE ~terminal.authentic \/ call.op \in Reads
  <2>1. \E answer : result = With(answer, Unchanged)  BY <1>5, Zenon DEF Handled, Reads
  <2> QED  BY <1>1, <1>2, <2>1
<1>6. CASE terminal.authentic /\ call.op = "place_order"
  <2>1. result \in PostDemoOrder(call.id, call.volume)  BY <1>6 DEF Handled
  <2>2. PICK filled :
           filled = [Unchanged EXCEPT !.orders[call.id] = "filled", !.positions = positions \union {call.id}]
    OBVIOUS
  <2>3. \E checks : result \in Attempt(call.id, checks, filled, DemoOrderResultResponse(call.id))
    BY <2>1, <2>2, Zenon DEF PostDemoOrder
  <2>4. DOMAIN filled = {"orders", "positions", "killSwitch", "recon"} /\ Typed(filled)
    BY <1>6, <2>2 DEF Unchanged, OrderCalls
  <2> HIDE DEF Typed
  <2>5. Typed(result.state)  BY <1>4, <2>3, <2>4, Zenon
  <2> QED  BY <2>5 DEF Typed
<1>7. CASE terminal.authentic /\ call.op = "close_position"
  <2>1. result \in PostDemoClose(call.id, call.target)  BY <1>7 DEF Handled
  <2>2. PICK filled :
           filled = [Unchanged EXCEPT !.orders[call.id] = "filled", !.positions = positions \ {call.target}]
    OBVIOUS
  <2>3. \E checks : result \in Attempt(call.id, checks, filled, DemoCloseResultResponse(call.id, call.target))
    BY <2>1, <2>2, Zenon DEF PostDemoClose
  <2>4. DOMAIN filled = {"orders", "positions", "killSwitch", "recon"} /\ Typed(filled)
    BY <2>2 DEF Unchanged
  <2> HIDE DEF Typed
  <2>5. Typed(result.state)  BY <1>4, <2>3, <2>4, Zenon
  <2> QED  BY <2>5 DEF Typed
<1>8. CASE terminal.authentic /\ call.op \in OtherWrites
  <2>1. \A rows : Typed(Reconciled(rows).state)
    BY DEF Reconciled, With, Unchanged, ReconciliationStates
  <2>2. \A status \in KillSwitchStatuses : \A r \in SetKillSwitch(status) : Typed(r.state)
    BY DEF SetKillSwitch, With, Unchanged
  <2>3. "active" \in KillSwitchStatuses /\ "inactive" \in KillSwitchStatuses  BY DEF KillSwitchStatuses
  <2> HIDE DEF Typed
  <2>4. Typed(result.state)
    BY <1>1, <1>2, <1>8, <2>1, <2>2, <2>3
    DEF Handled, PostReconciliationRun, PostResolveReceived, OtherWrites
  <2> QED  BY <2>4 DEF Typed
<1> QED  BY <1>5, <1>6, <1>7, <1>8 DEF OrderCalls

\* The calls of a command are numbered from one.
LEMMA ScriptSteps ==
  ASSUME NEW name \in DOMAIN Script
  PROVE  DOMAIN Script[name] = 1..Len(Script[name])
<1>1. CASE name = "demo_open"
  <2>1. PICK a, b, o : a = "symbol_metadata" /\ b = "quote" /\ o = "place_order"  OBVIOUS
  <2>2. a \in Reads /\ b \in Reads /\ o \in OrderCalls  BY <2>1 DEF Reads, OrderCalls
  <2>3. <<b>> \o Context \in Seq(Reads \union OrderCalls)  BY <2>2, ContextCalls, Prepended
  <2>4. <<a>> \o ((<<b>> \o Context) \o <<o>>) \in Seq(Reads \union OrderCalls)
    BY <2>2, <2>3, Appended, Prepended
  <2>5. Script["demo_open"] = DemoOpenCalls  BY DEF Script, Merge, KillCalls
  <2>6. Script["demo_open"] \in Seq(Reads \union OrderCalls)
    BY <2>1, <2>4, <2>5, Zenon DEF DemoOpenCalls, SafeOpenCalls
  <2> QED  BY <1>1, <2>6
<1>2. CASE name = "demo_close"
  <2>1. PICK a, o : a = "positions" /\ o = "close_position"  OBVIOUS
  <2>2. a \in Reads /\ o \in OrderCalls  BY <2>1 DEF Reads, OrderCalls
  <2>3. <<a>> \o (Context \o <<o>>) \in Seq(Reads \union OrderCalls)
    BY <2>2, ContextCalls, Appended, Prepended
  <2>4. Script["demo_close"] = DemoCloseCalls  BY DEF Script, Merge, KillCalls
  <2>5. Script["demo_close"] \in Seq(Reads \union OrderCalls)
    BY <2>1, <2>3, <2>4, Zenon DEF DemoCloseCalls, SafeCloseCalls
  <2> QED  BY <1>2, <2>5
<1>3. CASE name \notin {"demo_open", "demo_close"}
  <2>1. \/ Script[name] \in {StatusCalls, PreflightCalls, PositionsCalls, ReconcileCalls,
                             ResolveCalls, JournalCalls, TimeCalls, LibraryCalls}
        \/ Script[name] \in {<<"kill_switch_status">>, <<"activate">>, <<"deactivate">>}
    BY <1>3, ScriptDomain DEF Script, Merge, KillCalls
  <2> QED
    BY <2>1 DEF StatusCalls, PreflightCalls, PositionsCalls, ReconcileCalls, ResolveCalls,
                JournalCalls, TimeCalls, LibraryCalls
<1> QED  BY <1>1, <1>2, <1>3

\* What the client keeps of its commands has its type.
KeptTypes ==
    /\ \A call \in late : call.op \in Client!Writes
    /\ cmd.name \in Commands \union {"none"}
    /\ cmd.facts \in Facts

\* The bridge, and how the last commands stand.
BridgeTypes ==
    /\ terminal \in Terminals \union Turns
    /\ positions \subseteq Ids
    /\ killSwitch \in KillSwitchStatuses
    /\ recon \in ReconciliationStates

HistoryTypes == held \subseteq AllGates /\ checked \in {"no", "running", "passed"}

Types == BridgeTypes /\ KeptTypes /\ HistoryTypes

LEMMA TypesAreOK == IInv /\ Types => TypeOK
<1> SUFFICES ASSUME IInv, Types  PROVE TypeOK  OBVIOUS
<1>1. cmd.name # "none" => cmd.step \in DOMAIN Script[cmd.name]
  BY ScriptSteps DEF IInv, CommandInv
<1> QED
  BY <1>1 DEF IInv, RowsInv, Knowledge, Types, BridgeTypes, KeptTypes, HistoryTypes, TypeOK, Facts

LEMMA IdleFacts ==
  ASSUME IsFiniteSet(Ids)
  PROVE  NoFacts \in Facts
<1>1. 0 \in 0..Cardinality(Ids)  BY FS_CardinalityType
<1> QED
  BY <1>1
  DEF NoFacts, Facts, AccountTradeModes, ReconciliationStates, KillSwitchStatuses, Decimals

\* A command goes on with typed facts, or ends.
LEMMA AfterCallTypes ==
  ASSUME IsFiniteSet(Ids), CommandInv, cmd.name # "none", KeptTypes, positions \subseteq Ids,
         NEW fate, MakeCall(fate)
  PROVE  cmd'.name \in {cmd.name, "none"} /\ cmd'.facts \in Facts
<1>0. PICK error, answer : Concludes(Call.op, error, answer, fate) /\ Hears(fate, error, answer)
  BY CallOutcome
<1>1. PICK op : op = Call.op  OBVIOUS
<1>2. (\E code, conclusion : Exit(code, fate, conclusion)) \/ (~LastStep /\ Proceed(op, error, answer))
  BY <1>0, <1>1, Zenon DEF Concludes
<1>3. CASE \E code, conclusion : Exit(code, fate, conclusion)
  <2>1. cmd' = IdleCommand  BY <1>3 DEF Exit
  <2>2. IdleCommand.facts = NoFacts  BY DEF IdleCommand
  <2> QED  BY <2>1, <2>2, IdleInv, IdleFacts
<1>4. CASE ~LastStep /\ Proceed(op, error, answer)
  <2>1. /\ cmd'.name = cmd.name
        /\ cmd'.facts = IF cmd.id \in Ids THEN FactsAfter(op, answer) ELSE cmd.facts
    BY <1>4, IdleInv DEF Proceed, CommandInv
  <2>2. CASE cmd.id \notin Ids  BY <2>1, <2>2 DEF KeptTypes
  <2>3. CASE cmd.id \in Ids
    <3>1. op \in Reads  BY <1>1, <1>4, <2>3, CallAtHand
    <3>2. ~Tolerated(op)  BY <2>3 DEF Tolerated, CommandInv
    <3>3. error = "none"
      <4>1. \A code, conclusion : Exit(code, fate, conclusion) => cmd'.name = "none"
        BY IdleInv DEF Exit
      <4>2. ~\E code, conclusion : Exit(code, fate, conclusion)  BY <2>1, <4>1
      <4> QED  BY <1>0, <1>1, <3>2, <4>2, Zenon DEF Concludes
    <3>4. /\ Client!ErrorOf(op, answer) = "none"
          /\ \E result \in Handled(Call) : answer \in SpoiledAnswers \/ answer = result.answer
      BY <1>0, <1>1, <3>3 DEF Hears
    <3>5. ASSUME op = "positions"  PROVE Len(answer.items) \in 0..Cardinality(Ids)
      <4>1. answer \notin SpoiledAnswers  BY <3>4, <3>5, NothingIsNoEvidence DEF GateCalls
      <4>2. PICK result \in Handled(Call) : answer = result.answer  BY <3>4, <4>1
      <4>3. answer = Unauthorized \/ answer = Read("positions")
        BY <1>1, <3>5, <4>2 DEF Handled, With
      <4>4. answer # Unauthorized
        <5>1. "positions" \notin Client!Writes  BY DEF Client!Writes
        <5> QED  BY <3>4, <3>5, <5>1, StatusAndBody DEF Client!ErrorOf
      <4>5. Read("positions") = GetPositions(terminal, positions)  BY DEF Read
      <4> QED  BY <3>4, <3>5, <4>3, <4>4, <4>5, ListedPositions
    <3>6. FactsAfter(op, answer) \in Facts
      BY <3>1, <3>4, <3>5, NewFactsAreTyped DEF KeptTypes
    <3> QED  BY <2>1, <2>3, <3>6
  <2> QED  BY <2>2, <2>3
<1> QED  BY <1>2, <1>3, <1>4

LEMMA BridgeTypesStep ==
  ASSUME IInv, BridgeTypes, Next
  PROVE  BridgeTypes'
<1>1. terminal' \in Terminals \union Turns
  BY DEF BridgeTypes, Next, Begin, MakeCall, HandleLate, TerminalChanges
<1>2. \/ bridge' = bridge
      \/ /\ cmd.name # "none" /\ \E result \in Handled(Call) : Become(result.state)
      \/ \E call \in late : \E result \in Handled(call) : Become(result.state)
  BY DEF Next, Begin, MakeCall, HandleLate, TerminalChanges
<1>3. CASE bridge' = bridge  BY <1>1, <1>3 DEF bridge, BridgeTypes
<1>4. ASSUME NEW call, call.op \in Reads \union OrderCalls \union OtherWrites,
             call.op \in OrderCalls => call.id \in Ids,
             NEW result \in Handled(call), Become(result.state)
      PROVE  BridgeTypes'
  BY <1>1, <1>4, RouteTypes DEF BridgeTypes, Become
<1>5. CASE cmd.name # "none" /\ \E result \in Handled(Call) : Become(result.state)
  <2>1. /\ Call.op \in Reads \union OrderCalls \union OtherWrites
        /\ Call.op \in OrderCalls => Call.id \in Ids
    BY <1>5, CallAtHand DEF IInv
  <2> QED  BY <1>4, <1>5, <2>1
<1>6. CASE \E call \in late : \E result \in Handled(call) : Become(result.state)
  BY <1>4, <1>6 DEF IInv, LateInv
<1> QED  BY <1>2, <1>3, <1>5, <1>6

LEMMA KeptTypesStep ==
  ASSUME IsFiniteSet(Ids), IInv, Types, Next
  PROVE  KeptTypes'
<1>1. \A call \in late' : call.op \in Client!Writes
  <2>1. \/ late' \subseteq late
        \/ Call.op \in Client!Writes /\ late' = late \union {Call}
    BY DEF Next, Begin, MakeCall, HandleLate, TerminalChanges
  <2> QED  BY <2>1, Zenon DEF Types, KeptTypes
<1>2. CASE \E name \in Commands : Begin(name)
  <2>1. PICK name \in Commands : Begin(name)  BY <1>2
  <2>2. cmd'.name = name /\ cmd'.facts = NoFacts  BY <2>1 DEF Begin, IdleCommand
  <2> QED  BY <1>1, <2>2, IdleFacts DEF KeptTypes
<1>3. CASE \E fate \in Fates : MakeCall(fate)
  <2>1. PICK fate \in Fates : MakeCall(fate)  BY <1>3
  <2>2. cmd.name # "none"  BY <2>1 DEF MakeCall
  <2>3. CommandInv /\ KeptTypes /\ positions \subseteq Ids  BY DEF IInv, Types, BridgeTypes
  <2>4. cmd'.name \in {cmd.name, "none"} /\ cmd'.facts \in Facts
    BY <2>1, <2>2, <2>3, AfterCallTypes, Zenon
  <2> QED  BY <1>1, <2>3, <2>4 DEF KeptTypes
<1>4. CASE HandleLate \/ TerminalChanges
  <2>1. cmd' = cmd  BY <1>4 DEF HandleLate, TerminalChanges
  <2> QED  BY <1>1, <2>1 DEF Types, KeptTypes
<1> QED  BY <1>2, <1>3, <1>4 DEF Next

LEMMA HistoryTypesStep ==
  ASSUME HistoryTypes, Next
  PROVE  HistoryTypes'
<1>1. NoteHistory  BY DEF Next, Begin, MakeCall, HandleLate, TerminalChanges
<1>2. Gates' \subseteq AllGates  BY DEF Gates, AllGates
<1>3. held' \subseteq AllGates  BY <1>1, <1>2 DEF NoteHistory, HistoryTypes
<1>4. checked' \in {"no", "running", "passed", checked}  BY <1>1, Zenon DEF NoteHistory
<1> QED  BY <1>3, <1>4 DEF HistoryTypes

LEMMA InitTypes ==
  ASSUME IsFiniteSet(Ids), Init
  PROVE  Types
<1>1. BridgeTypes  BY DEF Init, BridgeTypes
<1>2. KeptTypes  BY IdleInv, IdleFacts DEF Init, KeptTypes, IdleCommand
<1>3. HistoryTypes  BY DEF Init, HistoryTypes
<1> QED  BY <1>1, <1>2, <1>3 DEF Types

LEMMA NextTypes ==
  ASSUME IsFiniteSet(Ids), IInv, Types, [Next]_vars
  PROVE  Types'
<1>1. CASE Next
  BY <1>1, BridgeTypesStep, KeptTypesStep, HistoryTypesStep DEF Types
<1>2. CASE UNCHANGED vars
  BY <1>2 DEF vars, bridge, Types, BridgeTypes, KeptTypes, HistoryTypes
<1> QED  BY <1>1, <1>2

\* For any finite set of ids and any terminals, policy and network: the rows, the
\* facts a command collects through the client's parsers, the writes under way and
\* what callers are told keep their types; a command is always at one of its calls.
THEOREM RemoteTypes == ASSUME IsFiniteSet(Ids) PROVE Spec => []TypeOK
<1>1. Init => Types  BY InitTypes
<1>2. IInv /\ Types /\ [Next]_vars => Types'  BY NextTypes
<1> QED  BY InitIInv, NextIInv, <1>1, <1>2, TypesAreOK, PTL DEF Spec
================================================================================
