-------------------------- MODULE RemoteAnswersProofs --------------------------
(***************************************************************************)
(* Proofs about what the client makes of the bridge's answers: demo-open   *)
(* is not denied what preflight found in order, and every answer of the    *)
(* bridge is parsed unless the terminal's report is irregular.             *)
(***************************************************************************)
EXTENDS RemoteTradingProofs, WellFoundedInduction

-----------------------------------------------------------------------------
(* Preflight and demo-open. *)

\* The call finds what preflight wants to see.
Seen(op) ==
    /\ terminal.authentic
    /\ Client!ErrorOf(op, Read(op)) = "none"
    /\ ~ProblemIn(op, Read(op))

AllSeen == \A i \in 1..8 : Seen(PreflightCalls[i])

\* The symbol's metadata as the client would read them now.
Metadata == Client!ValueOf("symbol_metadata", Read("symbol_metadata"))

\* What demo-open has learnt, while what a preflight saw still holds.
OpenAsSeen ==
    /\ cmd.step >= 2 => cmd.volume = Metadata.volume_min
    /\ cmd.step >= 4 => cmd.facts.mode = "demo"
    /\ cmd.step >= 5 => /\ cmd.facts.minimum = Metadata.volume_min
                        /\ cmd.facts.maximum = Metadata.volume_max
    /\ cmd.step >= 6 => cmd.facts.count = 0
    /\ cmd.step >= 7 => cmd.facts.switch = "inactive"

PreflightInv ==
    /\ cmd.name # "none" => last = NoExit
    /\ checked = "running" => /\ cmd.name = "preflight"
                              /\ ~cmd.problem => \A i \in 1..(cmd.step - 1) : Seen(PreflightCalls[i])
    /\ checked = "passed" => AllSeen
    /\ checked = "passed" /\ cmd.name = "demo_open" => OpenAsSeen

Questions == GateCalls \union {"health", "terminal", "symbol_metadata"}

LEMMA PreflightScript ==
  /\ Len(Script["preflight"]) = 8 /\ Script["preflight"] = PreflightCalls
  /\ \A i \in 1..8 : PreflightCalls[i] \in Questions
  /\ \A op \in Questions : \E i \in 1..8 : PreflightCalls[i] = op
<1>1. Script["preflight"] = PreflightCalls  BY DEF Script, Merge, KillCalls
<1>2. /\ PreflightCalls[1] = "health" /\ PreflightCalls[2] = "terminal"
      /\ PreflightCalls[3] = "account" /\ PreflightCalls[4] = "kill_switch_status"
      /\ PreflightCalls[5] = "reconciliation_status" /\ PreflightCalls[6] = "positions"
      /\ PreflightCalls[7] = "symbol_metadata" /\ PreflightCalls[8] = "quote"
      /\ Len(PreflightCalls) = 8
  BY DEF PreflightCalls
<1>3. \A i \in 1..8 : i \in {1, 2, 3, 4, 5, 6, 7, 8}  OBVIOUS
<1>4. \A i \in 1..8 : PreflightCalls[i] \in Questions
  BY <1>2, <1>3 DEF Questions, GateCalls
<1>5. \A op \in Questions : \E i \in {1, 2, 3, 4, 5, 6, 7, 8} : PreflightCalls[i] = op
  BY <1>2 DEF Questions, GateCalls
<1>6. \A i \in {1, 2, 3, 4, 5, 6, 7, 8} : i \in 1..8  OBVIOUS
<1> QED  BY <1>1, <1>2, <1>4, <1>5, <1>6

LEMMA AllSeenIs == AllSeen <=> \A op \in Questions : Seen(op)
BY PreflightScript DEF AllSeen

\* None of preflight's questions is answered by a spoiled answer.
LEMMA NothingIsNoAnswer ==
  ASSUME NEW op \in Questions, NEW spoiled \in SpoiledAnswers
  PROVE  Client!ErrorOf(op, spoiled) # "none"
<1>1. op \notin Client!Writes  BY DEF Questions, GateCalls, Client!Writes
<1>2. CASE op \in GateCalls  BY <1>2, NothingIsNoEvidence
<1>3. CASE spoiled = Error(502, "none")
  BY <1>1, <1>3, StatusAndBody DEF Client!ErrorOf
<1>4. CASE op \notin GateCalls /\ spoiled = Ok(Empty)
  <2>1. spoiled.body = Empty  BY <1>4, StatusAndBody
  <2>2. DOMAIN Empty = {}  BY DEF Empty
  <2>3. "absent" \notin Client!Bools /\ "null" \notin Client!Bools
        /\ "absent" \notin Client!Decimals /\ "null" \notin Client!Decimals
    BY DEF Client!Bools, Client!Decimals
  <2>4. Client!ParseHealth(Empty) = {}
    <3>1. "bridge_alive" \in DOMAIN Client!HealthStatus /\ Client!HealthStatus["bridge_alive"] = Client!Bools
      BY DEF Client!HealthStatus
    <3> QED  BY <2>2, <2>3, <3>1, Unparsed DEF Client!ParseHealth
  <2>5. Client!ParseTerminal(Empty) = {}
    <3>1. "connected" \in DOMAIN Client!TerminalStatus /\ Client!TerminalStatus["connected"] = Client!Bools
      BY DEF Client!TerminalStatus
    <3> QED  BY <2>2, <2>3, <3>1, Unparsed DEF Client!ParseTerminal
  <2>6. Client!ParseSymbolMetadata(Empty) = {}
    <3>1. PICK body : body = Client!Default(Empty, "symbol", "text")  OBVIOUS
    <3>2. "volume_min" \notin DOMAIN body
      BY <2>2, <3>1 DEF Client!Default, Client!Set, Client!Merge
    <3>3. /\ "volume_min" \in DOMAIN Client!SymbolMetadata
          /\ Client!SymbolMetadata["volume_min"] = Client!Decimals
      BY DEF Client!SymbolMetadata, Client!Merge
    <3>4. \A invariant : Client!Parsed(body, Client!SymbolMetadata, invariant) = {}
      BY <2>3, <3>2, <3>3, Unparsed
    <3> QED  BY <3>1, <3>4, Zenon DEF Client!ParseSymbolMetadata
  <2>7. op \notin DOMAIN Client!ListOf  BY <1>4 DEF Questions, GateCalls, Client!ListOf
  <2>8. Client!ParseBody(op, Empty) = {}
    BY <1>4, <2>4, <2>5, <2>6 DEF Questions, Client!ParseBody
  <2> QED  BY <1>1, <2>1, <2>7, <2>8 DEF Client!ErrorOf
<1> QED  BY <1>2, <1>3, <1>4 DEF SpoiledAnswers

\* A question that is answered is answered with what the bridge reads at that moment.
LEMMA AnsweredQuestion ==
  ASSUME Call.op \in Questions, NEW fate, NEW answer, Hears(fate, "none", answer)
  PROVE  /\ terminal.authentic /\ answer = Read(Call.op)
         /\ Client!ErrorOf(Call.op, Read(Call.op)) = "none"
<1>1. PICK op : op = Call.op  OBVIOUS
<1>2. "none" \notin {"timeout", "transport"}  OBVIOUS
<1>3. /\ Client!ErrorOf(op, answer) = "none"
      /\ \E result \in Handled(Call) : answer \in SpoiledAnswers \/ answer = result.answer
  BY <1>1, <1>2 DEF Hears
<1>4. answer \notin SpoiledAnswers  BY <1>1, <1>3, NothingIsNoAnswer
<1>5. PICK result \in Handled(Call) : answer = result.answer  BY <1>3, <1>4
<1>6. op \in Reads /\ op \notin Client!Writes
  BY <1>1 DEF Questions, GateCalls, Reads, Client!Writes
<1>7. CASE ~terminal.authentic
  <2>1. answer = Unauthorized  BY <1>5, <1>7 DEF Handled, With
  <2> QED  BY <1>3, <1>6, <2>1, StatusAndBody DEF Client!ErrorOf
<1>8. CASE terminal.authentic
  <2>1. result = With(Read(op), Unchanged)  BY <1>1, <1>5, <1>6, <1>8, Zenon DEF Handled, Reads
  <2>2. answer = Read(op)  BY <1>5, <2>1 DEF With
  <2> QED  BY <1>1, <1>3, <1>8, <2>2
<1> QED  BY <1>7, <1>8

\* The verdict of an error is never the verdict of a command.
LEMMA ErrorsAreNoVerdicts ==
  ASSUME NEW fate, NEW error, NEW answer, Hears(fate, error, answer)
  PROVE  error \notin {"denied", "ok", "problems"}
<1>1. Client!GetError(answer) \in {"authentication", "remote", "request", "none"}
  BY DEF Client!GetError
<1>2. Client!PostError(answer) \in {"authentication", "remote", "rejected", "none"}
  BY DEF Client!PostError
<1>3. Client!ErrorOf(Call.op, answer) \in
        {"authentication", "remote", "request", "rejected", "protocol", "none"}
  BY <1>1, <1>2 DEF Client!ErrorOf
<1>4. \/ error \in {"timeout", "transport"}
      \/ error \in {"authentication", "remote", "request", "rejected", "protocol", "none"}
  BY <1>3 DEF Hears
<1> QED  BY <1>4

\* What is seen stays as it is while nothing changes.
LEMMA SeenStays ==
  ASSUME Steady, NEW op
  PROVE  Seen(op)' <=> Seen(op)
<1>1. /\ terminal' = terminal /\ positions' = positions /\ orders' = orders
      /\ killSwitch' = killSwitch /\ recon' = recon
  BY DEF Steady, bridge
<1>2. Read(op)' = Read(op)  BY <1>1 DEF Read
<1>3. ProblemIn(op, Read(op))' <=> ProblemIn(op, Read(op))
  BY <1>2 DEF ProblemIn, QuoteProblem, Fresh
<1> QED  BY <1>1, <1>2, <1>3 DEF Seen

\* The parser of the symbol's metadata lets no smallest volume through that is not
\* positive, or above the largest.
LEMMA MetadataAmounts ==
  ASSUME NEW body, NEW value \in Client!ParseSymbolMetadata(body)
  PROVE  Amount[value.volume_min] > 0 /\ Amount[value.volume_min] <= Amount[value.volume_max]
<1>1. Client!Amount = Amount  BY Zenon DEF Client!Amount, Amount, Client!Decimals, Decimals
<1>2. PICK read : read = Client!Default(body, "symbol", "text")  OBVIOUS
<1>3. PICK invariant :
        /\ value \in Client!Parsed(read, Client!SymbolMetadata, invariant)
        /\ invariant => /\ Client!Positive(body, {"volume_min", "volume_step", "volume_max"})
                        /\ Client!Amount[body.volume_min] <= Client!Amount[body.volume_max]
  BY <1>2, Zenon DEF Client!ParseSymbolMetadata
<1>4. Amount[body["volume_min"]] > 0 /\ Amount[body["volume_min"]] <= Amount[body["volume_max"]]
  <2>1. invariant  BY <1>3 DEF Client!Parsed
  <2> QED  BY <1>1, <1>3, <2>1 DEF Client!Positive
<1>5. ASSUME NEW f \in {"volume_min", "volume_max"}
      PROVE  value[f] = body[f]
  <2>1. /\ f \in DOMAIN Client!SymbolMetadata
        /\ Client!SymbolMetadata[f] = Client!Decimals
    BY DEF Client!SymbolMetadata, Client!Merge
  <2>2. "null" \notin Client!Decimals /\ "absent" \notin Client!Decimals  BY DEF Client!Decimals
  <2>3. value[f] = IF f \in DOMAIN read THEN read[f] ELSE "null"  BY <1>3, <2>1, ParsedField
  <2>4. value[f] \in Client!Decimals  BY <1>3, <2>1, <2>2, AcceptedField
  <2>5. f \in DOMAIN read /\ value[f] = read[f]  BY <2>2, <2>3, <2>4
  <2>6. read = body \/ read = Client!Set(body, "symbol", "text")  BY <1>2, Zenon DEF Client!Default
  <2>7. CASE read = Client!Set(body, "symbol", "text")
    <3>1. \A g \in DOMAIN Client!Set(body, "symbol", "text") :
             g # "symbol" => Client!Set(body, "symbol", "text")[g] = body[g]
      BY DEF Client!Set, Client!Merge
    <3> QED  BY <2>5, <2>7, <3>1
  <2> QED  BY <2>5, <2>6, <2>7
<1>6. value["volume_min"] = body["volume_min"] /\ value["volume_max"] = body["volume_max"]  BY <1>5
<1> QED  BY <1>4, <1>6

\* The next question of a preflight, and its verdict.
LEMMA PreflightCall ==
  ASSUME CommandInv, cmd.name = "preflight", NEW fate, MakeCall(fate), Steady,
         ~cmd.problem => \A i \in 1..(cmd.step - 1) : Seen(PreflightCalls[i])
  PROVE  /\ cmd'.name # "none" =>
              /\ cmd'.name = "preflight"
              /\ ~cmd'.problem => \A i \in 1..(cmd'.step - 1) : Seen(PreflightCalls[i])
         /\ cmd'.name = "none" /\ last'.exit = "ok" => AllSeen
<1>1. PICK error, answer : Concludes(Call.op, error, answer, fate) /\ Hears(fate, error, answer)
  BY CallOutcome
<1>2. PICK op : op = Call.op  OBVIOUS
<1>3. cmd.step \in 1..8 /\ op = PreflightCalls[cmd.step] /\ op \in Questions
  BY <1>2, CallAtHand, PreflightScript DEF CommandInv
<1>4. ASSUME error = "none", ~ProblemIn(op, answer)
      PROVE  Seen(op)
  <2>1. Hears(fate, "none", answer)  BY <1>1, <1>4
  <2> QED  BY <2>1, <1>2, <1>3, <1>4, AnsweredQuestion DEF Seen
<1>5. ASSUME NEW code, NEW conclusion, Exit(code, fate, conclusion)
      PROVE  cmd'.name = "none" /\ last'.exit = code
  BY <1>5, IdleInv DEF Exit
<1>6. CASE error # "none" /\ ~Tolerated(op)
  <2>1. Exit(error, fate, Conclusion(op, error, answer))  BY <1>1, <1>2, <1>6, Zenon DEF Concludes
  <2> QED  BY <1>1, <1>5, <2>1, ErrorsAreNoVerdicts
<1>7. CASE ~(error # "none" /\ ~Tolerated(op)) /\ error = "none" /\ Refuses(op, answer, FactsAfter(op, answer))
  <2>1. Exit("denied", fate, "unused")  BY <1>1, <1>2, <1>7, Zenon DEF Concludes
  <2> QED  BY <1>5, <2>1
<1>8. CASE ~(error # "none" /\ ~Tolerated(op)) /\ ~(error = "none" /\ Refuses(op, answer, FactsAfter(op, answer)))
  <2>1. CASE ~LastStep
    <3>1. Proceed(op, error, answer)  BY <1>1, <1>2, <1>8, <2>1, Zenon DEF Concludes
    <3>2. /\ cmd'.name = "preflight" /\ cmd'.step = cmd.step + 1
          /\ cmd'.problem = (cmd.name = "preflight" /\
                                (cmd.problem \/ error # "none" \/ ProblemIn(op, answer)))
      BY <3>1, IdleInv DEF Proceed, CommandInv
    <3>3. ASSUME ~cmd'.problem  PROVE \A i \in 1..(cmd'.step - 1) : Seen(PreflightCalls[i])
      <4>1. ~cmd.problem /\ error = "none" /\ ~ProblemIn(op, answer)  BY <3>2, <3>3
      <4>2. Seen(PreflightCalls[cmd.step])  BY <1>3, <1>4, <4>1
      <4>3. \A i \in 1..(cmd'.step - 1) : i \in 1..(cmd.step - 1) \/ i = cmd.step  BY <1>3, <3>2
      <4> QED  BY <4>1, <4>2, <4>3
    <3> QED  BY <3>2, <3>3
  <2>2. CASE LastStep
    <3>1. PICK problem : problem = (cmd.problem \/ error # "none" \/ ProblemIn(op, answer))  OBVIOUS
    <3>2. Exit(IF cmd.name = "preflight" /\ problem THEN "problems" ELSE "ok",
               fate, Conclusion(op, error, answer))
      BY <1>1, <1>2, <1>8, <2>2, <3>1, Zenon DEF Concludes
    <3>3. cmd'.name = "none" /\ last'.exit = IF cmd.name = "preflight" /\ problem THEN "problems" ELSE "ok"
      BY <1>5, <3>2, Zenon
    <3>4. ASSUME last'.exit = "ok"  PROVE AllSeen
      <4>1. ~cmd.problem /\ error = "none" /\ ~ProblemIn(op, answer)  BY <3>1, <3>3, <3>4
      <4>2. cmd.step = 8  BY <2>2, PreflightScript DEF LastStep
      <4>3. Seen(PreflightCalls[8])  BY <1>3, <1>4, <4>1, <4>2
      <4>4. \A i \in 1..8 : i \in 1..(cmd.step - 1) \/ i = 8  BY <4>2
      <4> QED  BY <4>1, <4>3, <4>4 DEF AllSeen
    <3> QED  BY <3>3, <3>4
  <2> QED  BY <2>1, <2>2
<1> QED  BY <1>6, <1>7, <1>8

\* What demo-open learns from an answer that preflight would like too.
Learnt(op, facts) ==
    /\ facts.mode = IF op = "account" THEN "demo" ELSE cmd.facts.mode
    /\ facts.minimum = IF op = "symbol_metadata" THEN Metadata.volume_min ELSE cmd.facts.minimum
    /\ facts.maximum = IF op = "symbol_metadata" THEN Metadata.volume_max ELSE cmd.facts.maximum
    /\ facts.count = IF op = "positions" THEN 0 ELSE cmd.facts.count
    /\ facts.switch = IF op = "kill_switch_status" THEN "inactive" ELSE cmd.facts.switch
    /\ op = "reconciliation_status" => facts.recon = "ok"
    /\ op = "quote" => facts.fresh

LEMMA SeenFacts ==
  ASSUME AllSeen, NEW op \in Questions, DOMAIN cmd.facts = DOMAIN NoFacts,
         NEW facts, facts = FactsAfter(op, Read(op))
  PROVE  Learnt(op, facts)
<1>1. PICK value : value = Client!ValueOf(op, Read(op))  OBVIOUS
<1>2. DOMAIN cmd.facts = {"mode", "recon", "switch", "count", "minimum", "maximum", "fresh"}
  BY DEF NoFacts
<1>3. ~ProblemIn(op, Read(op))  BY AllSeenIs DEF Seen
<1>4. CASE op = "account"
  <2>1. value.trade_mode = "demo"  BY <1>1, <1>3, <1>4 DEF ProblemIn
  <2>2. facts = [cmd.facts EXCEPT !.mode = value.trade_mode]  BY <1>1, <1>4 DEF FactsAfter
  <2> QED  BY <1>2, <1>4, <2>1, <2>2 DEF Learnt
<1>5. CASE op = "symbol_metadata"
  <2>1. facts = [cmd.facts EXCEPT !.minimum = value.volume_min, !.maximum = value.volume_max]
    BY <1>1, <1>5 DEF FactsAfter
  <2> QED  BY <1>1, <1>2, <1>5, <2>1 DEF Learnt, Metadata
<1>6. CASE op = "positions"
  <2>1. Read(op).items = << >>  BY <1>3, <1>6 DEF ProblemIn
  <2>2. facts = [cmd.facts EXCEPT !.count = Len(Read(op).items)]  BY <1>6 DEF FactsAfter
  <2>3. facts = [cmd.facts EXCEPT !.count = 0]  BY <2>1, <2>2
  <2> QED  BY <1>2, <1>6, <2>3 DEF Learnt
<1>7. CASE op = "kill_switch_status"
  <2>1. value.status # "active"  BY <1>1, <1>3, <1>7 DEF ProblemIn
  <2>2. value \in Client!ParseKillSwitchState(Read(op).body)
    <3>1. op \notin Client!Writes /\ op \notin DOMAIN Client!ListOf
      BY <1>7 DEF Client!Writes, Client!ListOf
    <3>2. Client!ErrorOf(op, Read(op)) = "none"  BY AllSeenIs DEF Seen
    <3> QED  BY <1>1, <1>7, <3>1, <3>2, ParsedValue DEF Client!ParseBody
  <2>3. value["status"] \in KillSwitchStatuses  BY <2>2, ParsedTypes
  <2>4. value.status = "inactive"  BY <2>1, <2>3 DEF KillSwitchStatuses
  <2>5. facts = [cmd.facts EXCEPT !.switch = value.status]  BY <1>1, <1>7 DEF FactsAfter
  <2> QED  BY <1>2, <1>7, <2>4, <2>5 DEF Learnt
<1>8. CASE op = "reconciliation_status"
  <2>1. value.state = "ok"  BY <1>1, <1>3, <1>8 DEF ProblemIn
  <2>2. facts = [cmd.facts EXCEPT !.recon = value.state]  BY <1>1, <1>8 DEF FactsAfter
  <2> QED  BY <1>2, <1>8, <2>1, <2>2 DEF Learnt
<1>9. CASE op = "quote"
  <2>1. Fresh(value.timestamp)  BY <1>1, <1>3, <1>9 DEF ProblemIn, QuoteProblem
  <2>2. facts = [cmd.facts EXCEPT !.fresh = Fresh(value.timestamp)]  BY <1>1, <1>9 DEF FactsAfter
  <2>3. facts.fresh = Fresh(value.timestamp)  BY <1>2, <2>2
  <2> QED  BY <1>2, <1>9, <2>1, <2>2, <2>3 DEF Learnt
<1>10. CASE op \in {"health", "terminal"}
  BY <1>10 DEF FactsAfter, Learnt
<1> QED  BY <1>4, <1>5, <1>6, <1>7, <1>8, <1>9, <1>10 DEF Questions, GateCalls

\* Its volume is within the policy's limits.
LEMMA SeenVolume ==
  ASSUME AllSeen
  PROVE  Amount[Metadata.volume_min] > 0 /\ Amount[Metadata.volume_min] <= Amount[Metadata.volume_max]
<1>1. "symbol_metadata" \notin Client!Writes /\ "symbol_metadata" \notin DOMAIN Client!ListOf
  BY DEF Client!Writes, Client!ListOf
<1>2. Client!ErrorOf("symbol_metadata", Read("symbol_metadata")) = "none"
  BY AllSeenIs DEF Seen, Questions
<1>3. Metadata \in Client!ParseSymbolMetadata(Read("symbol_metadata").body)
  BY <1>1, <1>2, ParsedValue DEF Client!ParseBody, Metadata
<1> QED  BY <1>3, MetadataAmounts

\* After a preflight that passed, no call of demo-open is denied.
LEMMA OpenCall ==
  ASSUME ~LiveEnabled, CommandInv, cmd.name = "demo_open", DOMAIN cmd.facts = DOMAIN NoFacts,
         last = NoExit, AllSeen, OpenAsSeen, NEW fate, MakeCall(fate)
  PROVE  /\ last'.exit # "denied"
         /\ Steady /\ cmd'.name # "none" => OpenAsSeen'
<1>1. PICK error, answer : Concludes(Call.op, error, answer, fate) /\ Hears(fate, error, answer)
  BY CallOutcome
<1>2. PICK op : op = Call.op  OBVIOUS
<1>3. PICK facts : facts = FactsAfter(op, answer)  OBVIOUS
<1>5. cmd.step \in 1..8 /\ op = Script["demo_open"][cmd.step]
  BY <1>2, CallAtHand, DemoOpenScript DEF CommandInv
<1>6. op \in Questions \/ op = "place_order"
  <2>1. cmd.step \in {1, 2, 3, 4, 5, 6, 7, 8}  BY <1>5
  <2> QED  BY <1>5, <2>1, DemoOpenScript DEF Questions, GateCalls
<1>7. cmd.id \in Ids /\ ~Tolerated(op)  BY DEF CommandInv, Tolerated
<1>8. ASSUME error = "none", op \in Questions
      PROVE  answer = Read(op)
  BY <1>1, <1>2, <1>8, AnsweredQuestion
<1>9. ~(error = "none" /\ Refuses(op, answer, facts))
  <2> SUFFICES ASSUME error = "none", Refuses(op, answer, facts)  PROVE FALSE  OBVIOUS
  <2>1. \/ op = "quote" /\ ~facts.fresh
        \/ op = "reconciliation_status" /\ ~AuthorizeOpen(facts, cmd.volume)
    BY DEF Refuses
  <2>2. op \in Questions  BY <2>1 DEF Questions, GateCalls
  <2>3. facts = FactsAfter(op, Read(op))  BY <1>3, <1>8, <2>2
  <2>4. Learnt(op, facts)  BY <2>2, <2>3, SeenFacts, Zenon
  <2>5. op = "reconciliation_status" /\ ~AuthorizeOpen(facts, cmd.volume)  BY <2>1, <2>4 DEF Learnt
  <2>6. cmd.step = 7
    <3>1. cmd.step \in {1, 2, 3, 4, 5, 6, 7, 8}  BY <1>5
    <3> QED  BY <1>5, <2>5, <3>1, DemoOpenScript
  <2>7. /\ facts.mode = "demo" /\ facts.minimum = Metadata.volume_min
        /\ facts.maximum = Metadata.volume_max /\ facts.count = 0 /\ facts.switch = "inactive"
        /\ facts.recon = "ok" /\ cmd.volume = Metadata.volume_min
    BY <2>4, <2>5, <2>6 DEF OpenAsSeen, Learnt
  <2>8. Amount[Metadata.volume_min] > 0 /\ Amount[Metadata.volume_min] <= Amount[Metadata.volume_max]
    BY SeenVolume
  <2>9. 0 < MaxSimultaneousPositions  BY RemoteTradingAssumption
  <2> QED  BY <2>5, <2>7, <2>8, <2>9 DEF AuthorizeOpen, Identified
<1>10. ASSUME NEW code, NEW conclusion, Exit(code, fate, conclusion)
       PROVE  cmd'.name = "none" /\ last'.exit = code
  BY <1>10, IdleInv DEF Exit
<1>11. CASE error # "none"
  <2>1. Exit(error, fate, Conclusion(op, error, answer))
    BY <1>1, <1>2, <1>7, <1>11, Zenon DEF Concludes
  <2> QED  BY <1>1, <1>10, <2>1, ErrorsAreNoVerdicts
<1>12. CASE error = "none" /\ LastStep
  <2>1. \E code \in {"problems", "ok"} : Exit(code, fate, Conclusion(op, error, answer))
    <3>1. PICK problem : problem = (cmd.problem \/ error # "none" \/ ProblemIn(op, answer))  OBVIOUS
    <3>2. Exit(IF cmd.name = "preflight" /\ problem THEN "problems" ELSE "ok",
               fate, Conclusion(op, error, answer))
      BY <1>1, <1>2, <1>3, <1>9, <1>12, <3>1, Zenon DEF Concludes
    <3>3. (IF cmd.name = "preflight" /\ problem THEN "problems" ELSE "ok") \in {"problems", "ok"}  OBVIOUS
    <3> QED  BY <3>2, <3>3, Zenon
  <2>2. PICK code \in {"problems", "ok"} : Exit(code, fate, Conclusion(op, error, answer))  BY <2>1
  <2>3. code # "denied"  BY <2>2
  <2> QED  BY <1>10, <2>2, <2>3
<1>13. CASE error = "none" /\ ~LastStep
  <2>1. Proceed(op, error, answer)
    BY <1>1, <1>2, <1>3, <1>9, <1>13, Zenon DEF Concludes
  <2>2. last' = NoExit  BY <2>1 DEF Proceed
  <2>3. NoExit.exit # "denied"  BY DEF NoExit
  <2>4. /\ cmd'.step = cmd.step + 1 /\ cmd'.facts = facts
        /\ cmd'.volume = IF cmd.step = 1 THEN Client!ValueOf(op, answer).volume_min ELSE cmd.volume
    BY <1>3, <1>7, <2>1, IdleInv DEF Proceed, CommandInv
  <2>5. cmd.step \in 1..7  BY <1>5, <1>13, DemoOpenScript DEF LastStep
  <2>6. op \in Questions
    <3>1. op \in Reads  BY <1>5, <2>5, DemoOpenScript
    <3> QED  BY <1>6, <3>1 DEF Reads
  <2>7. facts = FactsAfter(op, Read(op)) /\ answer = Read(op)  BY <1>3, <1>8, <1>13, <2>6
  <2>8. Learnt(op, facts)  BY <2>6, <2>7, SeenFacts, Zenon
  <2>9. ASSUME Steady  PROVE OpenAsSeen'
    <3>1. Metadata' = Metadata  BY <2>9 DEF Steady, Metadata, Read
    <3>2. PICK step : step = cmd.step /\ step \in {1, 2, 3, 4, 5, 6, 7} /\ cmd'.step = step + 1
      BY <2>4, <2>5
    <3>3. op = Script["demo_open"][step]  BY <1>5, <3>2
    <3>4. step = 1 => cmd'.volume = Metadata.volume_min
      <4>1. step = 1 => op = "symbol_metadata"  BY <3>3, DemoOpenScript
      <4> QED  BY <2>4, <2>7, <3>2, <4>1 DEF Metadata
    <3>5. step # 1 => cmd'.volume = Metadata.volume_min
      BY <2>4, <3>2 DEF OpenAsSeen
    <3>6. step >= 3 => facts.mode = "demo"
      BY <2>8, <3>2, <3>3, DemoOpenScript DEF OpenAsSeen, Learnt
    <3>7. step >= 4 => facts.minimum = Metadata.volume_min /\ facts.maximum = Metadata.volume_max
      BY <2>8, <3>2, <3>3, DemoOpenScript DEF OpenAsSeen, Learnt
    <3>8. step >= 5 => facts.count = 0
      BY <2>8, <3>2, <3>3, DemoOpenScript DEF OpenAsSeen, Learnt
    <3>9. step >= 6 => facts.switch = "inactive"
      BY <2>8, <3>2, <3>3, DemoOpenScript DEF OpenAsSeen, Learnt
    <3> QED
      BY <2>4, <3>1, <3>2, <3>4, <3>5, <3>6, <3>7, <3>8, <3>9 DEF OpenAsSeen
  <2> QED  BY <2>2, <2>3, <2>9
<1> QED  BY <1>11, <1>12, <1>13

LEMMA AllSeenStays ==
  ASSUME Steady
  PROVE  /\ AllSeen => AllSeen'
         /\ OpenAsSeen /\ cmd' = cmd => OpenAsSeen'
<1>1. AllSeen => AllSeen'  BY SeenStays DEF AllSeen
<1>2. Metadata' = Metadata  BY DEF Steady, Metadata, Read, bridge
<1> QED  BY <1>1, <1>2 DEF OpenAsSeen

LEMMA InitPreflightInv == Init => PreflightInv
BY IdleInv DEF Init, PreflightInv

\* A step that leaves the command as it is.
LEMMA PreflightStands ==
  ASSUME PreflightInv, cmd' = cmd, last' = last, NoteHistory \/ (Steady /\ checked' = checked)
  PROVE  PreflightInv'
<1>1. checked' # "no" => Steady
  BY Zenon DEF NoteHistory, PreflightInv
<1>2. checked' # "no" => checked' = checked
  <2>1. checked = "running" => cmd'.name # "none"  BY DEF PreflightInv
  <2>2. ~(cmd.name = "none" /\ cmd'.name = "preflight")  OBVIOUS
  <2> QED  BY <2>1, <2>2, Zenon DEF NoteHistory
<1>3. CASE checked' = "no"  BY <1>3 DEF PreflightInv
<1>4. CASE checked' # "no"
  <2>1. Steady /\ checked' = checked  BY <1>1, <1>2, <1>4
  <2>2. \A i : Seen(PreflightCalls[i])' <=> Seen(PreflightCalls[i])  BY <2>1, SeenStays
  <2>3. /\ AllSeen => AllSeen'
        /\ OpenAsSeen => OpenAsSeen'
    BY <2>1, AllSeenStays
  <2> QED  BY <2>1, <2>2, <2>3 DEF PreflightInv
<1> QED  BY <1>3, <1>4

LEMMA PreflightBegins ==
  ASSUME PreflightInv, NEW name \in Commands, Begin(name)
  PROVE  PreflightInv'
<1>1. /\ cmd.name = "none" /\ last' = NoExit /\ NoteHistory
      /\ cmd'.name = name /\ cmd'.step = 1 /\ cmd'.problem = FALSE
  BY DEF Begin, IdleCommand
<1>2. Steady  BY DEF Begin, Steady
<1>3. name # "none"  BY RemoteTradingAssumption, NoneIsNoScript
<1>4. checked # "running"  BY <1>1 DEF PreflightInv
<1>5. checked' = IF name = "preflight" THEN "running" ELSE checked
  BY <1>1, <1>2, <1>3, Zenon DEF NoteHistory
<1>6. CASE name = "preflight"
  <2>1. \A i \in 1..(cmd'.step - 1) : FALSE  BY <1>1
  <2> QED  BY <1>1, <1>5, <1>6, <2>1 DEF PreflightInv
<1>7. CASE name # "preflight"
  <2>1. checked' = checked  BY <1>5, <1>7
  <2>2. checked' = "passed" => AllSeen'  BY <1>2, <2>1, AllSeenStays DEF PreflightInv
  <2>3. OpenAsSeen'  BY <1>1 DEF OpenAsSeen
  <2> QED  BY <1>1, <1>4, <2>1, <2>2, <2>3 DEF PreflightInv
<1> QED  BY <1>6, <1>7

\* A command that goes on keeps its name, and no exit is noted.
LEMMA GoesOn ==
  ASSUME CommandInv, NEW fate, MakeCall(fate), cmd'.name # "none"
  PROVE  cmd'.name = cmd.name /\ last' = last
<1>1. PICK error, answer : Concludes(Call.op, error, answer, fate)  BY CallOutcome
<1>2. (\E code, conclusion : Exit(code, fate, conclusion)) \/ Proceed(Call.op, error, answer)
  BY <1>1, Zenon DEF Concludes
<1>3. Proceed(Call.op, error, answer)
  <2>1. cmd' # IdleCommand  BY IdleInv
  <2> QED  BY <1>2, <2>1 DEF Exit
<1> QED  BY <1>3, IdleInv DEF Proceed, CommandInv

LEMMA PreflightCalled ==
  ASSUME ~LiveEnabled, OpenInv, PreflightInv, NEW fate, MakeCall(fate)
  PROVE  /\ PreflightInv'
         /\ checked = "passed" /\ cmd.name = "demo_open" => last'.exit # "denied"
<1>1. CommandInv /\ NoteHistory /\ cmd.name # "none"  BY DEF OpenInv, MakeCall
<1>2. cmd'.name # "none" => cmd'.name = cmd.name /\ last' = NoExit
  BY <1>1, GoesOn DEF PreflightInv
<1>3. ASSUME checked = "running", Steady
      PROVE  /\ cmd'.name # "none" =>
                   /\ cmd'.name = "preflight"
                   /\ ~cmd'.problem => \A i \in 1..(cmd'.step - 1) : Seen(PreflightCalls[i])
             /\ cmd'.name = "none" /\ last'.exit = "ok" => AllSeen
  <2>1. /\ cmd.name = "preflight"
        /\ ~cmd.problem => \A i \in 1..(cmd.step - 1) : Seen(PreflightCalls[i])
    BY <1>3 DEF PreflightInv
  <2> QED  BY <1>1, <1>3, <2>1, PreflightCall
<1>4. ASSUME checked = "passed", cmd.name = "demo_open"
      PROVE  last'.exit # "denied" /\ (Steady /\ cmd'.name # "none" => OpenAsSeen')
  <2>1. last = NoExit /\ AllSeen /\ OpenAsSeen  BY <1>1, <1>4 DEF PreflightInv
  <2>2. DOMAIN cmd.facts = DOMAIN NoFacts  BY <1>4 DEF OpenInv, FactsInv
  <2> QED  BY <1>1, <1>4, <2>1, <2>2, OpenCall, Zenon
<1>5. checked' # "no" => Steady  BY <1>1, Zenon DEF NoteHistory
<1>6. ASSUME Steady
      PROVE  checked' = IF checked = "running" /\ cmd'.name = "none"
                        THEN IF last'.exit = "ok" THEN "passed" ELSE "no"
                        ELSE checked
  BY <1>1, <1>6, Zenon DEF NoteHistory
<1>7. ASSUME Steady, NEW i  PROVE Seen(PreflightCalls[i])' <=> Seen(PreflightCalls[i])
  BY <1>7, SeenStays
<1>8. ASSUME checked' = "running"
      PROVE  /\ cmd'.name = "preflight"
             /\ ~cmd'.problem => \A i \in 1..(cmd'.step - 1) : Seen(PreflightCalls[i])'
  <2>1. Steady  BY <1>5, <1>8
  <2>2. checked = "running" /\ cmd'.name # "none"  BY <1>6, <1>8, <2>1
  <2> QED  BY <1>3, <1>7, <2>1, <2>2
<1>9. ASSUME checked' = "passed"
      PROVE  AllSeen' /\ (cmd'.name = "demo_open" => OpenAsSeen')
  <2>1. Steady  BY <1>5, <1>9
  <2>2. CASE checked = "running"
    <3>1. cmd'.name = "none" /\ last'.exit = "ok"  BY <1>6, <1>9, <2>1, <2>2
    <3>2. AllSeen  BY <1>3, <2>1, <2>2, <3>1
    <3> QED  BY <2>1, <3>1, <3>2, AllSeenStays
  <2>3. CASE checked # "running"
    <3>1. checked = "passed"  BY <1>6, <1>9, <2>1, <2>3
    <3>2. AllSeen'  BY <2>1, <3>1, AllSeenStays DEF PreflightInv
    <3>3. cmd'.name = "demo_open" => OpenAsSeen'
      BY <1>2, <1>4, <2>1, <3>1
    <3> QED  BY <3>2, <3>3
  <2> QED  BY <2>2, <2>3
<1>10. PreflightInv'  BY <1>2, <1>8, <1>9 DEF PreflightInv
<1> QED  BY <1>4, <1>10

LEMMA NextPreflightInv ==
  ASSUME ~LiveEnabled, OpenInv, PreflightInv, [Next]_vars
  PROVE  /\ PreflightInv'
         /\ checked = "passed" /\ cmd.name = "demo_open" => last'.exit # "denied" \/ UNCHANGED vars
<1>1. CASE \E name \in Commands : Begin(name)
  <2>1. cmd.name = "none"  BY <1>1 DEF Begin
  <2> QED  BY <1>1, <2>1, PreflightBegins
<1>2. CASE \E fate \in Fates : MakeCall(fate)  BY <1>2, PreflightCalled
<1>3. CASE HandleLate \/ TerminalChanges
  <2>1. cmd' = cmd /\ last' = last /\ NoteHistory  BY <1>3 DEF HandleLate, TerminalChanges
  <2>2. PreflightInv'  BY <2>1, PreflightStands
  <2>3. cmd.name = "demo_open" => last'.exit # "denied"
    BY <2>1 DEF PreflightInv, NoExit
  <2> QED  BY <2>2, <2>3
<1>4. CASE UNCHANGED vars
  <2>1. cmd' = cmd /\ last' = last /\ Steady /\ checked' = checked  BY <1>4 DEF vars, Steady
  <2> QED  BY <1>4, <2>1, PreflightStands
<1> QED  BY <1>1, <1>2, <1>3, <1>4 DEF Next

\* When the policy has live trading off, as every demo policy must, demo-open is
\* never denied on the client's side after a preflight without problems, as long as
\* nothing has changed: for any terminals, ids, position limit and network.  (With
\* live trading on the policy denies every order to open, which preflight does not ask.)
THEOREM PreflightIsRight == ASSUME ~LiveEnabled PROVE Spec => PreflightAgrees
<1>1. IInv /\ IInv' /\ OpenInv /\ PreflightInv /\ [Next]_vars =>
        /\ OpenInv' /\ PreflightInv'
        /\ [checked = "passed" /\ cmd.name = "demo_open" => last'.exit # "denied"]_vars
  BY NextOpenInv, NextPreflightInv
<1> QED
  BY InitIInv, NextIInv, InitOpenInv, InitPreflightInv, <1>1, PTL DEF Spec, PreflightAgrees

-----------------------------------------------------------------------------
(* The client understands the bridge. *)

LEMMA Accepted ==
  ASSUME NEW body, NEW type, NEW invariant, invariant,
         \A f \in DOMAIN type : f \in DOMAIN body /\ body[f] \in type[f]
  PROVE  Client!Parsed(body, type, invariant) # {}
<1>1. \A f \in DOMAIN type : Client!Field(body, f) = body[f]  BY DEF Client!Field
<1>2. Client!Accepts(body, type)  BY <1>1 DEF Client!Accepts
<1> QED  BY <1>2 DEF Client!Parsed

\* A protocol error is the error of an answer whose status is good.
LEMMA ProtocolError ==
  ASSUME NEW op, NEW answer, Client!ErrorOf(op, answer) = "protocol"
  PROVE  /\ op \notin Client!Writes => Client!GetError(answer) = "none"
         /\ op \in Client!Writes => Client!PostError(answer) = "none"
         /\ op \notin DOMAIN Client!ListOf => Client!ParseBody(op, answer.body) = {}
         /\ op \in DOMAIN Client!ListOf => Client!ParseList(op, answer.body, answer.items) = {}
<1>1. Client!GetError(answer) # "protocol"
  BY ZenonT(60) DEF Client!GetError
<1>2. Client!PostError(answer) # "protocol"
  BY ZenonT(60) DEF Client!PostError
<1> QED  BY <1>1, <1>2 DEF Client!ErrorOf

\* The values on the wire that the responses are made of.
LEMMA WireValues ==
  /\ "text" \in Client!Texts /\ "int" \in Client!Ints
  /\ "1" \in Client!Decimals /\ "2" \in Client!Decimals /\ "0" \in Client!Decimals /\ "-1" \in Client!Decimals
  /\ "t2" \in Client!Times /\ "t1" \in Client!Times
  /\ \A condition : Bool(condition) \in Client!Bools
  /\ \A values : "null" \in Client!Nullable(values) /\ values \subseteq Client!Nullable(values)
  /\ \A w, name, value : Attribute(w, name, value) \in {"null", value}
BY DEF Client!Texts, Client!Ints, Client!Decimals, Client!Times, Bool, Client!Bools, Client!Nullable, Attribute

LEMMA HealthIsUnderstood ==
  ASSUME NEW w
  PROVE  Client!ParseHealth(GetHealth(w).body) # {}
<1>1. PICK broker : /\ broker \in {"null", "text"}
                    /\ \E connected : GetHealth(w) = Ok(HealthResponse(connected, broker))
  <2>1. CASE TerminalInfo(w) = {}
    BY <2>1, Zenon DEF GetHealth
  <2>2. CASE TerminalInfo(w) # {}
    <3>1. PICK t : TerminalInfo(w) = {t} /\ t.company \in {"null", "text"} /\ t.name \in {"null", "text"}
      BY <2>2, WireValues DEF TerminalInfo, When
    <3>2. (CHOOSE x \in TerminalInfo(w) : TRUE) = t  BY <3>1
    <3> QED  BY <2>2, <3>1, <3>2 DEF GetHealth
  <2> QED  BY <2>1, <2>2
<1>2. PICK connected : GetHealth(w) = Ok(HealthResponse(connected, broker))  BY <1>1
<1>3. PICK body : body = HealthResponse(connected, broker)  OBVIOUS
<1>4. GetHealth(w).body = body  BY <1>2, <1>3, StatusAndBody
<1>5. \A f \in DOMAIN Client!HealthStatus : f \in DOMAIN body /\ body[f] \in Client!HealthStatus[f]
  BY <1>1, <1>3, WireValues DEF HealthResponse, Client!HealthStatus, Client!Bools
<1> QED  BY <1>4, <1>5, Accepted DEF Client!ParseHealth

LEMMA TerminalIsUnderstood ==
  ASSUME NEW w, Client!GetError(GetTerminal(w)) = "none"
  PROVE  Client!ParseTerminal(GetTerminal(w).body) # {}
<1>1. TerminalInfo(w) # {}
  BY StatusAndBody DEF GetTerminal, OkOf
<1>2. PICK info : info = [connected     |-> Bool("connected" \in w.permissions),
                          trade_allowed |-> Bool("terminal" \in w.permissions),
                          dlls_allowed  |-> Bool("dlls_allowed" \notin w.missing),
                          name          |-> Attribute(w, "name", "text"),
                          company       |-> Attribute(w, "company", "text"),
                          build         |-> Attribute(w, "build", "int")]
  OBVIOUS
<1>3. TerminalInfo(w) = {info}  BY <1>1, <1>2, Zenon DEF TerminalInfo, When
<1>4. GetTerminal(w).body = info
  BY <1>3, StatusAndBody DEF GetTerminal, OkOf, TerminalResponse
<1>5. \A f \in DOMAIN Client!TerminalStatus : f \in DOMAIN info /\ info[f] \in Client!TerminalStatus[f]
  BY <1>2, WireValues DEF Client!TerminalStatus
<1> QED  BY <1>4, <1>5, Accepted DEF Client!ParseTerminal

LEMMA AccountIsUnderstood ==
  ASSUME NEW w, ~Irregular(w), Client!GetError(GetAccount(w)) = "none"
  PROVE  Client!ParseAccount(GetAccount(w).body) # {}
<1>1. AccountInfo(w) # {}
  BY StatusAndBody DEF GetAccount, OkOf
<1>2. PICK info : /\ AccountInfo(w) = {info}
                  /\ info.currency = "text" /\ info.balance = "2" /\ info.equity = "2"
                  /\ info.server \in {"null", "text"}
                  /\ info.trade_allowed \in {"null"} \union Client!Bools
                  /\ info.trade_expert \in {"null"} \union Client!Bools
  <2>1. PICK info : info = [login           |-> "int",
                            trade_mode_code |-> w.code,
                            server          |-> Attribute(w, "server", "text"),
                            currency        |-> Attribute(w, "currency", "text"),
                            balance         |-> Attribute(w, "balance", "2"),
                            equity          |-> Attribute(w, "equity", "2"),
                            trade_allowed   |-> Attribute(w, "trade_allowed", Bool("account" \in w.permissions)),
                            trade_expert    |-> Attribute(w, "trade_expert", Bool("expert" \in w.permissions))]
    OBVIOUS
  <2>2. AccountInfo(w) = {info}  BY <1>1, <2>1, Zenon DEF AccountInfo, When
  <2>3. {"currency", "balance", "equity"} \cap w.missing = {}  BY DEF Irregular
  <2> QED  BY <2>1, <2>2, <2>3, WireValues DEF Attribute
<1>3. PICK body : body = AccountResponse(info)  OBVIOUS
<1>4. GetAccount(w).body = body  BY <1>2, <1>3, StatusAndBody DEF GetAccount, OkOf
<1>5. "trade_mode" \in DOMAIN body /\ body["trade_mode"] \in Client!AccountTradeModes
  BY <1>3 DEF AccountResponse, TradeModeString, Client!AccountTradeModes
<1>6. Client!Fallback(body, "trade_mode", Client!AccountTradeModes, "unknown") = body
  BY <1>5 DEF Client!Fallback, Client!Field
<1>7. \A f \in DOMAIN Client!AccountSummary : f \in DOMAIN body /\ body[f] \in Client!AccountSummary[f]
  BY <1>2, <1>3, <1>5, WireValues DEF AccountResponse, Client!AccountSummary
<1> QED  BY <1>4, <1>6, <1>7, Accepted DEF Client!ParseAccount

\* What the backend says of a symbol.
LEMMA SymbolInfoValues ==
  ASSUME NEW w, NEW info, info = BackendSymbolInfo(w)
  PROVE  /\ info.name = "text" /\ info.description \in {"null", "text"}
         /\ info.volume_min = w.volume_min /\ info.volume_max = w.volume_max
         /\ info.tick_size \in {"null", "1"} /\ info.swap_long \in {"null", "-1"}
         /\ info.trade_enabled \in {"null"} \union Client!Bools /\ info.visible \in Client!Bools
         /\ info.currency_base \in {"null", "text"} /\ info.swap_mode \in {"null", "int"}
BY WireValues DEF BackendSymbolInfo

LEMMA SymbolsAreUnderstood ==
  ASSUME NEW w, Client!GetError(GetSymbols(w)) = "none"
  PROVE  Client!ParseList("symbols", GetSymbols(w).body, GetSymbols(w).items) # {}
<1>1. PICK infos : SymbolsGet(w) = {infos} /\ infos \in {<<BackendSymbolInfo(w)>>, << >>}
  BY StatusAndBody DEF GetSymbols, OkListOf, SymbolsGet, When
<1>2. PICK items : items = [i \in DOMAIN infos |-> SymbolSummaryResponse(infos[i])]  OBVIOUS
<1>3. GetSymbols(w) = OkList("symbols", items)  BY <1>1, <1>2 DEF GetSymbols, OkListOf
<1>4. ASSUME NEW i \in DOMAIN items
      PROVE  Client!ParseItem("symbols", items[i]) # {}
  <2>1. PICK info : info = BackendSymbolInfo(w) /\ items[i] = SymbolSummaryResponse(info)
    BY <1>1, <1>2, <1>4
  <2>2. PICK body : body = SymbolSummaryResponse(info)  OBVIOUS
  <2>3. \A f \in DOMAIN Client!SymbolSummary : f \in DOMAIN body /\ body[f] \in Client!SymbolSummary[f]
    BY <2>1, <2>2, SymbolInfoValues, WireValues DEF SymbolSummaryResponse, Client!SymbolSummary
  <2>4. Client!ParseSymbolSummary(body) # {}  BY <2>3, Accepted DEF Client!ParseSymbolSummary
  <2> QED  BY <2>1, <2>2, <2>4 DEF Client!ParseItem
<1> QED  BY <1>3, <1>4 DEF Client!ParseList, OkList, Ok, Client!Field, Client!ListOf

LEMMA AmountsAgree == Client!Amount = Amount /\ Client!Decimals = Decimals /\ Client!Instant = Instant
BY Zenon DEF Client!Amount, Amount, Client!Decimals, Decimals, Client!Instant, Instant

LEMMA MetadataIsUnderstood ==
  ASSUME NEW w \in MT5Terminals, ~Irregular(w), Client!GetError(GetSymbol(w)) = "none"
  PROVE  Client!ParseSymbolMetadata(GetSymbol(w).body) # {}
<1>1. SymbolInfo(w) # {}  BY StatusAndBody DEF GetSymbol, OkOf
<1>2. PICK info : info = BackendSymbolInfo(w) /\ SymbolInfo(w) = {info}
  BY <1>1 DEF SymbolInfo, When
<1>3. PICK body : body = SymbolResponse(info)  OBVIOUS
<1>4. GetSymbol(w).body = body  BY <1>2, <1>3, StatusAndBody DEF GetSymbol, OkOf
<1>5. w.volume_min \in Decimals /\ w.volume_max \in Decimals  BY DEF MT5Terminals
<1>6. Client!Default(body, "symbol", "text") = body
  BY <1>3 DEF SymbolResponse, Merge, Client!Default
<1>7. /\ body["volume_min"] = w.volume_min /\ body["volume_max"] = w.volume_max
      /\ body["volume_step"] = "1"
  BY <1>2, <1>3, SymbolInfoValues DEF SymbolResponse, Merge
<1>8. Amount["1"] > 0  BY DEF Amount, Decimals
<1>9. /\ Amount[w.volume_min] > 0 /\ Amount[w.volume_min] <= Amount[w.volume_max]
      /\ Amount[w.volume_max] > 0
  <2>1. Amount[w.volume_min] \in Int /\ Amount[w.volume_max] \in Int
    BY <1>5 DEF Amount, Decimals
  <2>2. ~(Amount[w.volume_min] <= 0) /\ ~(Amount[w.volume_min] > Amount[w.volume_max])
    BY DEF Irregular
  <2> QED  BY <2>1, <2>2
<1>10. /\ Client!Positive(body, {"volume_min", "volume_step", "volume_max"})
       /\ Client!Amount[body["volume_min"]] <= Client!Amount[body["volume_max"]]
  BY <1>7, <1>8, <1>9, AmountsAgree DEF Client!Positive
<1>11. \A f \in DOMAIN Client!SymbolMetadata : f \in DOMAIN body /\ body[f] \in Client!SymbolMetadata[f]
  <2>1. PICK r : r = [symbol |-> info.name, description |-> info.description, digits |-> "int",
                      volume_min |-> info.volume_min, volume_max |-> info.volume_max,
                      trade_tick_size |-> info.tick_size, trade_tick_value |-> info.tick_size,
                      trade_enabled |-> info.trade_enabled, visible |-> info.visible,
                      currency_base |-> info.currency_base, currency_profit |-> info.currency_base,
                      currency_margin |-> info.currency_base, swap_long |-> info.swap_long,
                      swap_short |-> info.swap_long, swap_mode |-> info.swap_mode,
                      swap_rollover3days |-> info.swap_mode]
    OBVIOUS
  <2>2. /\ DOMAIN body = DOMAIN r \union {"point", "volume_step", "trade_contract_size"}
        /\ \A f \in DOMAIN r : body[f] = r[f]
        /\ \A f \in {"point", "volume_step", "trade_contract_size"} : body[f] = "1"
    BY <1>3, <2>1 DEF SymbolResponse, Merge
  <2>3. DOMAIN Client!SymbolMetadata =
          {"symbol", "digits", "trade_tick_size", "trade_tick_value", "currency_base",
           "currency_profit", "currency_margin", "swap_long", "swap_short", "swap_mode",
           "swap_rollover3days", "volume_min", "volume_step", "volume_max",
           "trade_contract_size", "point"}
    BY DEF Client!SymbolMetadata, Client!Merge
  <2>4. \A f \in {"symbol", "digits", "trade_tick_size", "trade_tick_value", "currency_base",
                  "currency_profit", "currency_margin", "swap_long", "swap_short", "swap_mode",
                  "swap_rollover3days", "volume_min", "volume_max"} :
           f \in DOMAIN r /\ r[f] \in Client!SymbolMetadata[f]
    BY <1>2, <1>5, <2>1, SymbolInfoValues, WireValues, AmountsAgree DEF Client!SymbolMetadata, Client!Merge
  <2>5. \A f \in {"point", "volume_step", "trade_contract_size"} : "1" \in Client!SymbolMetadata[f]
    BY WireValues DEF Client!SymbolMetadata, Client!Merge
  <2> QED  BY <2>2, <2>3, <2>4, <2>5
<1>12. Client!Parsed(body, Client!SymbolMetadata,
                     /\ Client!Positive(body, {"volume_min", "volume_step", "volume_max"})
                     /\ Client!Amount[body["volume_min"]] <= Client!Amount[body["volume_max"]]) # {}
  BY <1>10, <1>11, Accepted
<1> QED  BY <1>4, <1>6, <1>12, Zenon DEF Client!ParseSymbolMetadata
-----------------------------------------------------------------------------
LEMMA QuoteIsUnderstood ==
  ASSUME NEW w \in MT5Terminals, ~Irregular(w), Client!GetError(GetQuote(w)) = "none"
  PROVE  Client!ParseQuote(GetQuote(w).body) # {}
<1>1. /\ ~\E tick \in SymbolInfoTick(w) : Amount[tick.bid] <= 0 \/ Amount[tick.ask] <= 0
      /\ GetQuote(w) = OkOf(SymbolInfoTick(w), QuoteResponse,
                            IF HasTick(w) THEN BackendUnavailable ELSE NotFound)
  BY StatusAndBody, Zenon DEF GetQuote
<1>2. SymbolInfoTick(w) # {}
  BY <1>1, StatusAndBody DEF OkOf
<1>3. SymbolInfoTick(w) = {w.tick} /\ w.tick.timestamp \notin {"none", "unclear"}
  BY <1>2 DEF SymbolInfoTick, TickRaises, When, HasTick
<1>4. PICK body : body = QuoteResponse(w.tick)  OBVIOUS
<1>5. GetQuote(w).body = body
  BY <1>1, <1>3, <1>4, StatusAndBody DEF OkOf
<1>6. /\ w.tick.timestamp \in Times \union {"none", "unclear"} /\ w.tick.bid \in Decimals /\ w.tick.ask \in Decimals
  BY DEF MT5Terminals, Ticks
<1>7. /\ body["symbol"] = "text" /\ body["bid"] = w.tick.bid /\ body["ask"] = w.tick.ask
      /\ body["timestamp"] = w.tick.timestamp /\ DOMAIN body = {"symbol", "timestamp", "bid", "ask"}
  BY <1>4 DEF QuoteResponse
<1>8. Client!Default(body, "symbol", "text") = body  BY <1>7 DEF Client!Default
<1>9. /\ Client!Positive(body, {"bid", "ask"})
      /\ Client!Amount[body["ask"]] >= Client!Amount[body["bid"]]
  <2>1. Amount[w.tick.bid] \in Int /\ Amount[w.tick.ask] \in Int  BY <1>6 DEF Amount, Decimals
  <2>2. ~(Amount[w.tick.bid] <= 0) /\ ~(Amount[w.tick.ask] <= 0)  BY <1>1, <1>3
  <2>3. ~(Amount[w.tick.ask] < Amount[w.tick.bid])  BY DEF Irregular
  <2> QED  BY <1>7, <2>1, <2>2, <2>3, AmountsAgree DEF Client!Positive
<1>10. \A f \in DOMAIN Client!Quote : f \in DOMAIN body /\ body[f] \in Client!Quote[f]
  <2>1. Client!Times = Times  BY DEF Client!Times, Times
  <2> QED  BY <1>3, <1>6, <1>7, <2>1, WireValues, AmountsAgree DEF Client!Quote
<1>11. Client!Parsed(body, Client!Quote,
                     /\ Client!Positive(body, {"bid", "ask"})
                     /\ Client!Amount[body["ask"]] >= Client!Amount[body["bid"]]) # {}
  BY <1>9, <1>10, Accepted
<1> QED  BY <1>5, <1>8, <1>11, Zenon DEF Client!ParseQuote

LEMMA TimeIsUnderstood ==
  ASSUME NEW w \in MT5Terminals, Client!GetError(GetTimeDiagnostics(w)) = "none"
  PROVE  Client!ParseTimeDiagnostics(GetTimeDiagnostics(w).body) # {}
<1>1. PICK time : time \in Client!Nullable(Client!Times) /\ GetTimeDiagnostics(w).body = TimeDiagnosticsResponse(time)
  <2>1. CASE SymbolInfoTick(w) = {}
    <3>1. GetTimeDiagnostics(w) = Ok(TimeDiagnosticsResponse("null"))
      BY <2>1, StatusAndBody DEF GetTimeDiagnostics, OkOf
    <3> QED  BY <3>1, StatusAndBody, WireValues
  <2>2. CASE SymbolInfoTick(w) # {}
    <3>1. SymbolInfoTick(w) = {w.tick} /\ w.tick.timestamp \notin {"none", "unclear"}
      BY <2>2 DEF SymbolInfoTick, TickRaises, When, HasTick
    <3>2. GetTimeDiagnostics(w) = Ok(TimeDiagnosticsResponse(w.tick.timestamp))
      BY <3>1 DEF GetTimeDiagnostics, OkOf
    <3>3. w.tick.timestamp \in Client!Times
      BY <3>1 DEF MT5Terminals, Ticks, Client!Times, Times
    <3> QED  BY <3>2, <3>3, StatusAndBody, WireValues
  <2> QED  BY <2>1, <2>2
<1>2. PICK body : body = TimeDiagnosticsResponse(time)  OBVIOUS
<1>3. Client!Default(body, "symbol", "text") = body
  BY <1>2 DEF TimeDiagnosticsResponse, Client!Default
<1>4. \A f \in DOMAIN Client!TimeDiagnostics : f \in DOMAIN body /\ body[f] \in Client!TimeDiagnostics[f]
  BY <1>1, <1>2, WireValues DEF TimeDiagnosticsResponse, Client!TimeDiagnostics
<1> QED  BY <1>1, <1>2, <1>3, <1>4, Accepted DEF Client!ParseTimeDiagnostics

LEMMA ProfitIsUnderstood ==
  ASSUME NEW w, Client!GetError(GetProfitCalc(w)) = "none"
  PROVE  Client!ParseProfit(GetProfitCalc(w).body) # {}
<1>1. OrderCalcProfit(w) = {"1"}
  BY StatusAndBody DEF GetProfitCalc, OkOf, OrderCalcProfit, When
<1>2. PICK body : body = ProfitCalcResponse("1")  OBVIOUS
<1>3. GetProfitCalc(w).body = body
  BY <1>1, <1>2, StatusAndBody DEF GetProfitCalc, OkOf
<1>4. \A f \in {"profit"} : f \in DOMAIN body /\ body[f] \in Client!Decimals
  BY <1>2, WireValues DEF ProfitCalcResponse
<1>5. PICK type : type = [profit |-> Client!Decimals]  OBVIOUS
<1>6. \A f \in DOMAIN type : f \in DOMAIN body /\ body[f] \in type[f]  BY <1>4, <1>5
<1> QED  BY <1>3, <1>5, <1>6, Accepted DEF Client!ParseProfit

LEMMA SwitchIsUnderstood ==
  ASSUME NEW status \in KillSwitchStatuses
  PROVE  Client!ParseKillSwitchState(KillSwitchResponse(status)) # {}
<1>1. PICK body : body = KillSwitchResponse(status)  OBVIOUS
<1>2. status \in Client!KillSwitchStatuses  BY DEF KillSwitchStatuses, Client!KillSwitchStatuses
<1>3. \A f \in DOMAIN Client!KillSwitchState : f \in DOMAIN body /\ body[f] \in Client!KillSwitchState[f]
  BY <1>1, <1>2, WireValues DEF KillSwitchResponse, Client!KillSwitchState
<1> QED  BY <1>1, <1>3, Accepted DEF Client!ParseKillSwitchState

LEMMA ReportIsUnderstood ==
  ASSUME NEW report \in ReconciliationStates
  PROVE  Client!ParseReconciliationReport(ReconciliationResponse(report)) # {}
<1>1. PICK body : body = ReconciliationResponse(report)  OBVIOUS
<1>2. report \in Client!ReconciliationStates  BY DEF ReconciliationStates, Client!ReconciliationStates
<1>3. body["state"] = report /\ DOMAIN body = {"state", "checked_at", "details"}
  BY <1>1 DEF ReconciliationResponse
<1>4. Client!Fallback(body, "state", Client!ReconciliationStates, "unknown") = body
  BY <1>2, <1>3 DEF Client!Fallback, Client!Field
<1>5. Client!Default(body, "details", "list") = body  BY <1>3 DEF Client!Default
<1>6. \A f \in DOMAIN Client!ReconciliationReport :
         f \in DOMAIN body /\ body[f] \in Client!ReconciliationReport[f]
  BY <1>1, <1>2, WireValues DEF ReconciliationResponse, Client!ReconciliationReport
<1>7. Client!Parsed(body, Client!ReconciliationReport, "state" \in DOMAIN body) # {}
  BY <1>3, <1>6, Accepted
<1> QED  BY <1>1, <1>4, <1>5, <1>7, Zenon DEF Client!ParseReconciliationReport
-----------------------------------------------------------------------------
\* A set as a sequence holds nothing else.
LEMMA SetToSeqElements ==
  ASSUME NEW S, IsFiniteSet(S)
  PROVE  \A i \in DOMAIN SetToSeq(S) : SetToSeq(S)[i] \in S
<1>1. ExistsBijection(1..Cardinality(S), S)  BY FS_CardinalityType
<1>2. PICK f \in [1..Cardinality(S) -> S] : IsInjective(f)
  BY <1>1 DEF ExistsBijection, Bijection, Injection, IsInjective
<1>3. SetToSeq(S) \in [1..Cardinality(S) -> S]
  BY <1>2, Zenon DEF SetToSeq
<1> QED  BY <1>3

LEMMA PositionsAreUnderstood ==
  ASSUME NEW w, NEW listed \in SUBSET Ids, IsFiniteSet(listed), Client!GetError(GetPositions(w, listed)) = "none"
  PROVE  Client!ParseList("positions", GetPositions(w, listed).body, GetPositions(w, listed).items) # {}
<1>1. PICK found : found \in {{}, listed} /\ PositionsGet(w, listed) = {found}
  <2>1. ASSUME PositionsGet(w, listed) = {}  PROVE FALSE
    BY <2>1, StatusAndBody DEF GetPositions, OkListOf
  <2> QED  BY <2>1 DEF PositionsGet
<1>2. IsFiniteSet(found) /\ found \subseteq Ids  BY <1>1, FS_EmptySet
<1>3. PICK tickets : tickets = SetToSeq(found)  OBVIOUS
<1>4. \A i \in DOMAIN tickets : tickets[i] \in Client!Texts
  BY <1>2, <1>3, SetToSeqElements DEF Client!Texts
<1>5. PICK items : items = [i \in DOMAIN tickets |-> PositionResponse(tickets[i])]  OBVIOUS
<1>6. GetPositions(w, listed) = OkList("positions", items)
  BY <1>1, <1>3, <1>5 DEF GetPositions, OkListOf
<1>7. ASSUME NEW i \in DOMAIN items
      PROVE  Client!ParseItem("positions", items[i]) # {}
  <2>1. PICK body : body = PositionResponse(tickets[i])  OBVIOUS
  <2>2. \A f \in DOMAIN Client!Position : f \in DOMAIN body /\ body[f] \in Client!Position[f]
    BY <1>4, <1>5, <2>1, WireValues DEF PositionResponse, Client!Position, Client!Sides
  <2>3. Client!Positive(body, {"volume"})
    BY <2>1 DEF PositionResponse, Client!Positive, Client!Amount, Client!Decimals
  <2>4. Client!ParsePosition(body) # {}  BY <2>2, <2>3, Accepted DEF Client!ParsePosition
  <2> QED  BY <1>5, <2>1, <2>4 DEF Client!ParseItem
<1> QED  BY <1>6, <1>7 DEF Client!ParseList, OkList, Ok, Client!Field, Client!ListOf

LEMMA OrdersAreUnderstood ==
  ASSUME NEW w
  PROVE  Client!ParseList("orders", GetOrders(w).body, GetOrders(w).items) # {}
<1>1. PICK tickets : tickets = [i \in 1..OrdersGet(w) |-> i]  OBVIOUS
<1>2. PICK items : items = [i \in DOMAIN tickets |-> OrderResponse(tickets[i])]  OBVIOUS
<1>3. GetOrders(w) = OkList("orders", items)
  BY <1>1, <1>2 DEF GetOrders, OkListOf
<1>4. ASSUME NEW i \in DOMAIN items
      PROVE  Client!ParseItem("orders", items[i]) # {}
  <2>1. PICK body : body = OrderResponse(tickets[i])  OBVIOUS
  <2>2. \A f \in DOMAIN Client!Order : f \in DOMAIN body /\ body[f] \in Client!Order[f]
    BY <2>1, WireValues DEF OrderResponse, Client!Order, Client!Sides, Client!OrderStatuses
  <2>3. Client!Fallback(body, "status", Client!OrderStatuses, "error") = body
    BY <2>1 DEF OrderResponse, Client!Fallback, Client!Field, Client!OrderStatuses
  <2>4. "client_order_id" \in DOMAIN body  BY <2>1 DEF OrderResponse
  <2>5. Client!Parsed(body, Client!Order, "client_order_id" \in DOMAIN body) # {}
    BY <2>2, <2>4, Accepted
  <2>6. Client!ParseOrder(body) # {}  BY <2>3, <2>5, Zenon DEF Client!ParseOrder
  <2> QED  BY <1>2, <2>1, <2>6 DEF Client!ParseItem
<1> QED  BY <1>3, <1>4 DEF Client!ParseList, OkList, Ok, Client!Field, Client!ListOf

LEMMA JournalIsUnderstood ==
  ASSUME NEW rows \in SUBSET Ids, IsFiniteSet(rows)
  PROVE  Client!ParseList("journal", GetJournal(rows).body, GetJournal(rows).items) # {}
<1>1. PICK ids : ids = SetToSeq(rows)  OBVIOUS
<1>2. \A i \in DOMAIN ids : ids[i] \in Client!Texts
  BY <1>1, SetToSeqElements DEF Client!Texts
<1>3. PICK items : items = [i \in DOMAIN ids |-> JournalResponse(ids[i])]  OBVIOUS
<1>4. GetJournal(rows) = OkList("entries", items)
  BY <1>1, <1>3 DEF GetJournal, OkListOf
<1>5. ASSUME NEW i \in DOMAIN items
      PROVE  Client!ParseItem("journal", items[i]) # {}
  <2>1. PICK body : body = JournalResponse(ids[i])  OBVIOUS
  <2>2. \A f \in DOMAIN Client!JournalEntry : f \in DOMAIN body /\ body[f] \in Client!JournalEntry[f]
    BY <1>2, <1>3, <2>1, WireValues DEF JournalResponse, Client!JournalEntry
  <2>3. Client!ParseJournalEntry(body) # {}  BY <2>2, Accepted DEF Client!ParseJournalEntry
  <2> QED  BY <1>3, <2>1, <2>3 DEF Client!ParseItem
<1> QED  BY <1>4, <1>5 DEF Client!ParseList, OkList, Ok, Client!Field, Client!ListOf

\* What both results of a write say of the deal is understood.
LEMMA DealIsUnderstood ==
  ASSUME NEW id \in Ids, NEW target \in Client!Texts, NEW more, NEW type,
         \A f \in DOMAIN type \ DOMAIN Client!Deal : f \in DOMAIN more /\ more[f] \in type[f],
         \A f \in DOMAIN type \cap DOMAIN Client!Deal :
            type[f] = Client!Deal[f] \/ (f = "position_id" /\ type[f] = Client!Texts),
         "mt5_retcode" \notin DOMAIN type
  PROVE  Client!ParseResult(Merge(DealResponse(id, target), more), type) # {}
<1>1. PICK deal : deal = DealResponse(id, target)  OBVIOUS
<1>2. PICK body : body = Merge(deal, more)  OBVIOUS
<1>3. /\ DOMAIN body = DOMAIN deal \union DOMAIN more
      /\ \A f \in DOMAIN deal : body[f] = deal[f]
      /\ \A f \in DOMAIN more \ DOMAIN deal : body[f] = more[f]
  BY <1>2 DEF Merge
<1>4. deal["status"] = "filled" /\ "status" \in DOMAIN deal /\ "idempotent_replay" \in DOMAIN deal
  BY <1>1 DEF DealResponse
<1>5. Client!Fallback(body, "status", Client!OrderStatuses, "error") = body
  BY <1>3, <1>4 DEF Client!Fallback, Client!Field, Client!OrderStatuses
<1>6. Client!Default(body, "idempotent_replay", "false") = body
  BY <1>3, <1>4 DEF Client!Default
<1>7. DOMAIN Client!Deal = {"client_order_id", "status", "position_id", "deal_id", "timestamp",
                            "idempotent_replay", "error_message", "observed_bid", "observed_ask",
                            "reference_price", "fill_price", "slippage"}
  BY DEF Client!Deal, Client!Merge
<1>8. id \in Client!Texts  BY DEF Client!Texts
<1>9. \A f \in DOMAIN Client!Deal : f \in DOMAIN deal /\ deal[f] \in Client!Deal[f]
  <2>1. /\ Client!Deal["client_order_id"] = Client!Texts /\ Client!Deal["timestamp"] = Client!Times
        /\ Client!Deal["status"] = Client!OrderStatuses /\ Client!Deal["idempotent_replay"] = Client!Bools
        /\ \A f \in {"position_id", "deal_id", "error_message"} :
              Client!Deal[f] = Client!Nullable(Client!Texts)
    BY DEF Client!Deal, Client!Merge
  <2>2. \A f \in {"observed_bid", "observed_ask", "reference_price", "fill_price", "slippage"} :
           Client!Deal[f] = Client!Nullable(Client!Decimals)
    BY DEF Client!Deal, Client!Merge
  <2>3. DOMAIN Client!Deal \subseteq DOMAIN deal  BY <1>1, <1>7 DEF DealResponse
  <2>4. /\ deal["client_order_id"] = id /\ deal["timestamp"] = "t2" /\ deal["status"] = "filled"
        /\ deal["idempotent_replay"] = "false" /\ deal["position_id"] = target
        /\ deal["deal_id"] = "text" /\ deal["error_message"] = "null" /\ deal["slippage"] = "0"
        /\ \A f \in {"observed_bid", "observed_ask", "reference_price", "fill_price"} : deal[f] = "1"
    BY <1>1 DEF DealResponse
  <2>5. "filled" \in Client!OrderStatuses /\ "false" \in Client!Bools
    BY DEF Client!OrderStatuses, Client!Bools
  <2>6. /\ target \in Client!Nullable(Client!Texts) /\ "text" \in Client!Nullable(Client!Texts)
        /\ "null" \in Client!Nullable(Client!Texts)
        /\ "0" \in Client!Nullable(Client!Decimals) /\ "1" \in Client!Nullable(Client!Decimals)
    BY WireValues
  <2> QED  BY <1>7, <1>8, <2>1, <2>2, <2>3, <2>4, <2>5, <2>6, WireValues
<1>10. deal["position_id"] \in Client!Texts  BY <1>1 DEF DealResponse
<1>11. DOMAIN deal \subseteq DOMAIN Client!Deal \union {"mt5_retcode"}
  BY <1>1, <1>7 DEF DealResponse
<1>12. \A f \in DOMAIN type : f \in DOMAIN body /\ body[f] \in type[f]
  BY <1>3, <1>9, <1>10, <1>11
<1>13. Client!Parsed(body, type, TRUE) # {}  BY <1>12, Accepted
<1> QED  BY <1>1, <1>2, <1>5, <1>6, <1>13, Zenon DEF Client!ParseResult

LEMMA ResultsAreUnderstood ==
  ASSUME NEW id \in Ids
  PROVE  /\ Client!ParseOrderResult(DemoOrderResultResponse(id)) # {}
         /\ \A target \in Ids : Client!ParseCloseResult(DemoCloseResultResponse(id, target)) # {}
<1>0. DOMAIN Client!Deal = {"client_order_id", "status", "position_id", "deal_id", "timestamp",
                            "idempotent_replay", "error_message", "observed_bid", "observed_ask",
                            "reference_price", "fill_price", "slippage"}
  BY DEF Client!Deal, Client!Merge
<1>1. Ids \subseteq Client!Texts  BY DEF Client!Texts
<1>2. Client!ParseOrderResult(DemoOrderResultResponse(id)) # {}
  <2>1. PICK more : more = [broker_order_id |-> "text", requested_volume |-> "1", filled_volume |-> "1"]
    OBVIOUS
  <2>2. PICK type : type = Client!ExecutionResult  OBVIOUS
  <2>3. \A f \in DOMAIN type \ DOMAIN Client!Deal : f \in DOMAIN more /\ more[f] \in type[f]
    BY <1>0, <2>1, <2>2, WireValues DEF Client!ExecutionResult, Client!Merge
  <2>4. \A f \in DOMAIN type \cap DOMAIN Client!Deal : type[f] = Client!Deal[f]
    BY <2>2 DEF Client!ExecutionResult, Client!Merge
  <2>5. "mt5_retcode" \notin DOMAIN type
    BY <1>0, <2>2 DEF Client!ExecutionResult, Client!Merge
  <2>6. Client!ParseResult(Merge(DealResponse(id, id), more), type) # {}
    BY <1>1, <2>3, <2>4, <2>5, DealIsUnderstood
  <2> QED  BY <2>1, <2>2, <2>6, Zenon DEF Client!ParseOrderResult, DemoOrderResultResponse
<1>3. ASSUME NEW target \in Ids
      PROVE  Client!ParseCloseResult(DemoCloseResultResponse(id, target)) # {}
  <2>1. PICK more : more = [closed_volume |-> "1"]  OBVIOUS
  <2>2. PICK type : type = Client!CloseResult  OBVIOUS
  <2>3. \A f \in DOMAIN type \ DOMAIN Client!Deal : f \in DOMAIN more /\ more[f] \in type[f]
    BY <1>0, <2>1, <2>2, WireValues DEF Client!CloseResult, Client!Merge
  <2>4. \A f \in DOMAIN type \cap DOMAIN Client!Deal :
           type[f] = Client!Deal[f] \/ (f = "position_id" /\ type[f] = Client!Texts)
    BY <1>0, <2>2 DEF Client!CloseResult, Client!Merge
  <2>5. "mt5_retcode" \notin DOMAIN type
    BY <1>0, <2>2 DEF Client!CloseResult, Client!Merge
  <2>6. Client!ParseResult(Merge(DealResponse(id, target), more), type) # {}
    BY <1>1, <2>3, <2>4, <2>5, DealIsUnderstood
  <2> QED  BY <2>1, <2>2, <2>6, Zenon DEF Client!ParseCloseResult, DemoCloseResultResponse
<1> QED  BY <1>2, <1>3

\* A set of numbers has a least one.
LEMMA LeastNumber ==
  ASSUME NEW T \in SUBSET Nat, T # {}
  PROVE  \E x \in T : \A y \in T : x <= y
<1>1. PICK R : R = OpToRel(<, Nat)  OBVIOUS
<1>2. IsWellFoundedOn(R, Nat)  BY <1>1, NatLessThanWellFounded
<1>3. PICK x \in T : \A y \in T : ~ (<<y, x>> \in R)  BY <1>2, WFMin
<1>4. \A y \in T : ~(y < x)  BY <1>1, <1>3 DEF OpToRel
<1> QED  BY <1>3, <1>4

\* The places of a finite set can be put in order.
LEMMA PlacesInOrder ==
  ASSUME NEW S \in SUBSET Nat, IsFiniteSet(S)
  PROVE  /\ Cardinality(S) \in Nat
         /\ InOrder(S) \in [1..Cardinality(S) -> S]
         /\ \A m, n \in 1..Cardinality(S) : m < n => InOrder(S)[m] < InOrder(S)[n]
<1> DEFINE Up(k) == {j \in S : j <= k}
           size  == Cardinality(S)
           Rank  == [k \in S |-> Cardinality(Up(k))]
<1>0. \A i \in S : i \in Int  OBVIOUS
<1>1. size \in Nat  BY FS_CardinalityType
<1>2. ASSUME NEW k \in S
      PROVE  IsFiniteSet(Up(k)) /\ Cardinality(Up(k)) \in 1..size
  <2>1. IsFiniteSet(Up(k)) /\ Cardinality(Up(k)) <= size  BY FS_Subset
  <2>2. Cardinality(Up(k)) \in Nat  BY <2>1, FS_CardinalityType
  <2>3. k \in Up(k)  OBVIOUS
  <2>4. Cardinality(Up(k)) # 0  BY <2>1, <2>3, FS_EmptySet
  <2> QED  BY <1>1, <2>1, <2>2, <2>4
<1>3. ASSUME NEW j \in S, NEW k \in S, j < k
      PROVE  Rank[j] < Rank[k]
  <2>1. Up(j) \in SUBSET Up(k)
    <3>1. \A i \in S : i <= j => i <= k  BY <1>0, <1>3
    <3> QED  BY <3>1
  <2>2. k \in Up(k) /\ k \notin Up(j)  BY <1>0, <1>3
  <2>3. Cardinality(Up(j)) <= Cardinality(Up(k)) /\ Cardinality(Up(j)) # Cardinality(Up(k))
    <3> HIDE DEF Up
    <3> QED  BY <1>2, <2>1, <2>2, FS_Subset
  <2>4. Cardinality(Up(j)) \in Nat /\ Cardinality(Up(k)) \in Nat  BY <1>1, <1>2
  <2> QED  BY <2>3, <2>4
<1>4. Rank \in [S -> 1..size]  BY <1>2
<1> HIDE DEF Up, Rank
<1>5. Rank \in Injection(S, 1..size)
  <2>1. ASSUME NEW j \in S, NEW k \in S, Rank[j] = Rank[k]  PROVE j = k
    <3>1. Rank[j] \in Int /\ Rank[k] \in Int  BY <1>1, <1>4
    <3>2. ~(j < k) /\ ~(k < j)  BY <1>3, <2>1, <3>1
    <3> QED  BY <3>2
  <2> QED  BY <1>4, <2>1 DEF Injection, IsInjective
<1>6. \A n \in 1..size : \E k \in S : Rank[k] = n
  <2>1. IsFiniteSet(1..size) /\ Cardinality(1..size) = size  BY <1>1, FS_Interval
  <2>2. Rank \in Surjection(S, 1..size)  BY <1>5, <2>1, FS_Injection
  <2> QED  BY <2>2 DEF Surjection
<1>7. PICK p : p = [n \in 1..size |-> CHOOSE k \in S : Rank[k] = n]  OBVIOUS
<1>8. \A n \in 1..size : p[n] \in S /\ Rank[p[n]] = n  BY <1>6, <1>7
<1>9. \A m, n \in 1..size : m < n => p[m] < p[n]
  <2>1. ASSUME NEW m \in 1..size, NEW n \in 1..size, m < n, ~(p[m] < p[n])  PROVE FALSE
    <3>1. p[m] \in S /\ p[n] \in S /\ Rank[p[m]] = m /\ Rank[p[n]] = n  BY <1>8
    <3>2. p[m] \in Int /\ p[n] \in Int  BY <1>0, <3>1
    <3>3. p[n] < p[m] \/ p[m] = p[n]  BY <2>1, <3>2
    <3>4. p[n] < p[m] => Rank[p[n]] < Rank[p[m]]  BY <1>3, <3>1
    <3>5. m \in Int /\ n \in Int  BY <1>1
    <3> QED  BY <2>1, <3>1, <3>3, <3>4, <3>5
  <2> QED  BY <2>1
<1>10. p \in [1..size -> S] /\ DOMAIN p = 1..size  BY <1>7, <1>8
<1>11. \E s \in [1..Cardinality(S) -> S] : \A m, n \in DOMAIN s : m < n => s[m] < s[n]
  BY <1>9, <1>10
<1>12. /\ InOrder(S) \in [1..Cardinality(S) -> S]
       /\ \A m, n \in DOMAIN InOrder(S) : m < n => InOrder(S)[m] < InOrder(S)[n]
  BY <1>11, Zenon DEF InOrder
<1> QED  BY <1>1, <1>12

\* Bars each later than the one before are each later than all before.
LEMMA IncreasingThroughout ==
  ASSUME NEW bars \in Seq(Bars), Client!StrictlyIncreasing(bars),
         NEW i \in DOMAIN bars, NEW j \in DOMAIN bars, i < j
  PROVE  Instant[bars[i].timestamp] < Instant[bars[j].timestamp]
<1> DEFINE At(k) == Instant[bars[k].timestamp]
           Late  == {k \in DOMAIN bars : i < k /\ ~(At(i) < At(k))}
<1>1. \A k \in DOMAIN bars : At(k) \in Int
  <2>0. \A k \in DOMAIN bars : bars[k] \in Bars  OBVIOUS
  <2>1. \A k \in DOMAIN bars : bars[k].timestamp \in Times  BY <2>0 DEF Bars
  <2>2. \A t \in Times : Instant[t] \in Int  BY DEF Times, Instant
  <2> QED  BY <2>1, <2>2
<1>2. DOMAIN bars = 1..Len(bars) /\ Len(bars) \in Nat  OBVIOUS
<1>3. \A k \in 1..(Len(bars) - 1) : At(k) < At(k + 1)
  BY AmountsAgree DEF Client!StrictlyIncreasing
<1>4. ASSUME Late # {}  PROVE FALSE
  <2>1. Late \in SUBSET Nat  BY <1>2
  <2>2. PICK k \in Late : \A y \in Late : k <= y
    <3> HIDE DEF Late
    <3> QED  BY <1>4, <2>1, LeastNumber
  <2>3. k \in DOMAIN bars /\ i < k /\ ~(At(i) < At(k))  BY <2>2
  <2>4. k - 1 \in 1..(Len(bars) - 1) /\ k - 1 \in DOMAIN bars /\ (k - 1) + 1 = k
    BY <1>2, <2>3
  <2>5. At(k - 1) < At(k)  BY <1>3, <2>4
  <2>6. k - 1 = i \/ At(i) < At(k - 1)
    <3>1. k - 1 \notin Late  BY <1>2, <2>2, <2>3
    <3>2. k - 1 = i \/ i < k - 1  BY <1>2, <2>3
    <3> QED  BY <2>4, <3>1, <3>2
  <2> HIDE DEF At
  <2> QED  BY <1>1, <2>3, <2>4, <2>5, <2>6
<1> QED  BY <1>4


LEMMA HistoryIsUnderstood ==
  ASSUME NEW w \in MT5Terminals, ~Irregular(w), NEW ordered, Client!GetError(GetHistory(w, ordered)) = "none",
         NEW op \in {"history", "reversed_history"}
  PROVE  Client!ParseList(op, GetHistory(w, ordered).body, GetHistory(w, ordered).items) # {}
<1> DEFINE rates  == w.rates
           kept   == {i \in DOMAIN w.rates : Instant[w.rates[i].timestamp] <= Instant["t2"]}
           places == InOrder(kept)
           items  == [n \in DOMAIN places |->
                        [w.rates[places[n]] EXCEPT !.spread = Attribute(w, "spread", "int"),
                                                   !.real_volume = Attribute(w, "real_volume", "0")]]
<1>1. rates \in Seq(Bars) /\ Client!StrictlyIncreasing(rates)
  BY DEF MT5Terminals, Irregular
<1>2. CopyRatesRange(w) = When(HasSymbol(w), items)
  BY DEF CopyRatesRange
<1>3. kept \subseteq DOMAIN rates  OBVIOUS
<1>4. GetHistory(w, ordered) = OkListOf("bars", CopyRatesRange(w), HistoryBarResponse, BackendUnavailable)
  <2>1. GetHistory(w, ordered) # BadRequest
    BY DEF BadRequest, Error, Client!GetError
  <2> QED  BY <2>1, Zenon DEF GetHistory
<1>5. CopyRatesRange(w) = {items}
  <2>1. CopyRatesRange(w) # {}  BY <1>4, StatusAndBody DEF OkListOf
  <2> HIDE DEF items
  <2> QED  BY <1>2, <2>1 DEF When
<1>6. GetHistory(w, ordered) = OkList("bars", [i \in DOMAIN items |-> items[i]])
  <2> HIDE DEF items
  <2> QED  BY <1>4, <1>5 DEF OkListOf, HistoryBarResponse
<1>7. /\ Cardinality(kept) \in Nat /\ kept \subseteq DOMAIN rates
      /\ places \in [1..Cardinality(kept) -> kept]
      /\ \A m, n \in 1..Cardinality(kept) : m < n => places[m] < places[n]
  <2> HIDE DEF kept, rates
  <2>1. DOMAIN rates = 1..Len(rates) /\ Len(rates) \in Int  BY <1>1
  <2>2. kept \in SUBSET Nat /\ kept \in SUBSET (1..Len(rates))  BY <1>3, <2>1
  <2>3. IsFiniteSet(1..Len(rates))  BY <2>1, FS_Interval
  <2>4. IsFiniteSet(kept)  BY <2>2, <2>3, FS_Subset
  <2> QED  BY <1>3, <2>2, <2>4, PlacesInOrder
<1> HIDE DEF kept, places, rates
<1>8. /\ DOMAIN items = 1..Cardinality(kept) /\ Len(items) = Cardinality(kept)
      /\ [i \in DOMAIN items |-> items[i]] = items
  <2>1. DOMAIN items = 1..Cardinality(kept)  BY <1>7
  <2>2. [i \in DOMAIN items |-> items[i]] = items  OBVIOUS
  <2> HIDE DEF items
  <2> QED  BY <1>7, <2>1, <2>2
<1>9. \A n \in DOMAIN items : places[n] \in DOMAIN rates /\ rates[places[n]] \in Bars
  BY <1>1, <1>7, <1>8
<1>10. ASSUME NEW n \in DOMAIN items
       PROVE  /\ \A f \in DOMAIN rates[places[n]] \ {"spread", "real_volume"} :
                    items[n][f] = rates[places[n]][f]
              /\ items[n]["spread"] \in {"null", "int"} /\ items[n]["real_volume"] \in {"null", "0"}
              /\ DOMAIN items[n] = DOMAIN rates[places[n]]
  <2>1. PICK bar, spread, volume :
           /\ bar = rates[places[n]] /\ spread = Attribute(w, "spread", "int")
           /\ volume = Attribute(w, "real_volume", "0")
    OBVIOUS
  <2>2. items[n] = [bar EXCEPT !.spread = spread, !.real_volume = volume]
    BY <1>8, <1>10, <2>1 DEF rates
  <2>3. bar \in Bars  BY <1>9, <2>1
  <2>4. spread \in {"null", "int"} /\ volume \in {"null", "0"}  BY <2>1, WireValues
  <2> QED  BY <2>1, <2>2, <2>3, <2>4 DEF Bars
<1> HIDE DEF items
<1>11. ASSUME NEW n \in DOMAIN items
       PROVE  Client!ParseHistoryBar(items[n]) # {}
  <2>1. PICK bar : bar = rates[places[n]] /\ bar \in Bars /\ bar = rates[places[n]]
    BY <1>9
  <2>2. PICK body : body = items[n]  OBVIOUS
  <2>3. DOMAIN bar = {"timestamp", "open", "high", "low", "close", "tick_volume", "spread", "real_volume"}
    BY <2>1 DEF Bars
  <2>4. /\ \A f \in {"timestamp", "open", "high", "low", "close", "tick_volume"} : body[f] = bar[f]
        /\ body["spread"] \in {"null", "int"} /\ body["real_volume"] \in {"null", "0"}
        /\ DOMAIN body = DOMAIN bar
    BY <1>10, <2>1, <2>2, <2>3
  <2>5. DOMAIN Client!HistoryBar = DOMAIN bar
    BY <2>3 DEF Client!HistoryBar, Client!Merge
  <2>6. /\ \A f \in {"open", "high", "low", "close", "tick_volume"} : Client!HistoryBar[f] = Decimals
        /\ Client!HistoryBar["timestamp"] = Times
        /\ Client!HistoryBar["real_volume"] = Client!Nullable(Decimals)
        /\ Client!HistoryBar["spread"] = Client!Nullable(Client!Ints)
    BY AmountsAgree DEF Client!HistoryBar, Client!Merge, Client!Times, Times
  <2>7. /\ bar["timestamp"] \in Times
        /\ \A f \in {"open", "high", "low", "close", "tick_volume"} : bar[f] \in Decimals
    BY <2>1 DEF Bars
  <2>8. /\ {"null", "int"} \subseteq Client!Nullable(Client!Ints)
        /\ {"null", "0"} \subseteq Client!Nullable(Decimals)
    BY WireValues, AmountsAgree
  <2>9. \A f \in DOMAIN Client!HistoryBar : f \in DOMAIN body /\ body[f] \in Client!HistoryBar[f]
    BY <2>3, <2>4, <2>5, <2>6, <2>7, <2>8
  <2>10. \A price \in {bar["open"], bar["high"], bar["close"]} :
            Amount[bar["low"]] <= Amount[price] /\ Amount[price] <= Amount[bar["high"]]
    <3>1. places[n] \in DOMAIN w.rates /\ bar = w.rates[places[n]]  BY <1>9, <2>1 DEF rates
    <3> QED  BY <3>1 DEF Irregular
  <2>11. Amount[bar["low"]] <= Amount[bar["low"]]
    <3>1. Amount[bar["low"]] \in Int  BY <2>7 DEF Amount, Decimals
    <3> QED  BY <3>1
  <2>12. \A f \in {"open", "close", "high", "low"} :
            /\ Client!Amount[body["low"]] <= Client!Amount[body[f]]
            /\ Client!Amount[body[f]] <= Client!Amount[body["high"]]
    BY <2>4, <2>10, <2>11, AmountsAgree
  <2>13. Client!Parsed(body, Client!HistoryBar,
             \A f \in {"open", "close", "high", "low"} :
                 /\ Client!Amount[body["low"]] <= Client!Amount[body[f]]
                 /\ Client!Amount[body[f]] <= Client!Amount[body["high"]]) # {}
    BY <2>9, <2>12, Accepted
  <2> QED  BY <2>2, <2>13, Zenon DEF Client!ParseHistoryBar
<1>12. Client!StrictlyIncreasing(items)
  <2>1. ASSUME NEW n \in 1..(Len(items) - 1)
        PROVE  Client!Instant[items[n].timestamp] < Client!Instant[items[n + 1].timestamp]
    <3>1. n \in DOMAIN items /\ n + 1 \in DOMAIN items /\ n < n + 1  BY <1>7, <1>8
    <3>2. places[n] < places[n + 1]  BY <1>7, <1>8, <3>1
    <3>3. Instant[rates[places[n]].timestamp] < Instant[rates[places[n + 1]].timestamp]
      BY <1>1, <1>9, <3>1, <3>2, IncreasingThroughout
    <3>4. \A m \in DOMAIN items : items[m].timestamp = rates[places[m]].timestamp
      BY <1>9, <1>10 DEF Bars
    <3> QED  BY <3>1, <3>3, <3>4, AmountsAgree
  <2> QED  BY <2>1 DEF Client!StrictlyIncreasing
<1>13. GetHistory(w, ordered).items = items /\ GetHistory(w, ordered).body = [f \in {"bars"} |-> "list"]
  BY <1>6, <1>8 DEF OkList, Ok
<1>14. \A n \in DOMAIN items : Client!ParseItem(op, items[n]) # {}
  BY <1>11 DEF Client!ParseItem
<1> QED  BY <1>12, <1>13, <1>14 DEF Client!ParseList, Client!Field, Client!ListOf

-----------------------------------------------------------------------------
\* An order's request that is answered with a good status has its result.
LEMMA OrdersAreAnswered ==
  ASSUME NEW call, call.op \in OrderCalls, call.id \in Ids,
         call.op = "close_position" => call.target \in Ids,
         NEW result \in Handled(call), Client!PostError(result.answer) = "none"
  PROVE  Client!ParseBody(call.op, result.answer.body) # {}
<1>1. terminal.authentic
  <2>1. ~terminal.authentic => result.answer = Unauthorized  BY DEF Handled, With
  <2> QED  BY <2>1, OtherAnswers
<1>2. ASSUME NEW response, Attempted(call, result, response)
      PROVE  result.answer = Ok(response)
  <2>1. PICK checks, filled :
           /\ DOMAIN checks \in SUBSET (1..10)
           /\ \A i \in DOMAIN checks : checks[i].code \in Codes \union {"raises"}
           /\ result \in Attempt(call.id, checks, filled, response)
    BY <1>2 DEF Attempted
  <2>2. \/ \E code \in Codes : \E state : result = With(TradingError(code), state)
        \/ \E state : result = With(Internal, state)
        \/ \E state : result = With(Ok(response), state)
    <3>1. "not_demo" \in Codes /\ "order_send_failed" \in Codes  BY DEF Codes, TradingErrorStatus
    <3>2. \/ result = With(TradingError("not_demo"), Unchanged)
          \/ result = With(Internal, Row(call.id, "received"))
          \/ \E code \in Codes : result = With(TradingError(code), Row(call.id, "denied"))
          \/ result = With(Ok(response), filled)
          \/ \E state : result = With(TradingError("order_send_failed"), state)
      BY <2>1, AttemptResults
    <3> QED  BY <3>1, <3>2, Zenon
  <2>3. \A answer, state : With(answer, state).answer = answer  BY DEF With
  <2>4. \A code \in Codes : Client!PostError(TradingError(code)) # "none"  BY TradingErrorIsRefusal
  <2> QED  BY <2>2, <2>3, <2>4, OtherAnswers
<1>3. CASE call.op = "place_order"
  <2>1. result.answer = Ok(DemoOrderResultResponse(call.id))
    BY <1>1, <1>2, <1>3, OrderAttempts
  <2> QED  BY <1>3, <2>1, ResultsAreUnderstood, StatusAndBody DEF Client!ParseBody
<1>4. CASE call.op = "close_position"
  <2>1. result.answer = Ok(DemoCloseResultResponse(call.id, call.target))
    BY <1>1, <1>2, <1>4, OrderAttempts
  <2> QED  BY <1>4, <2>1, ResultsAreUnderstood, StatusAndBody DEF Client!ParseBody
<1> QED  BY <1>3, <1>4 DEF OrderCalls

LEMMA WritesAreAnswered ==
  ASSUME NEW call, call.op \in OtherWrites, NEW result \in Handled(call),
         Client!PostError(result.answer) = "none"
  PROVE  Client!ParseBody(call.op, result.answer.body) # {}
<1>0. \A answer, state : With(answer, state).answer = answer  BY DEF With
<1>1. terminal.authentic
  <2>1. ~terminal.authentic => result.answer = Unauthorized  BY DEF Handled, With
  <2> QED  BY <2>1, OtherAnswers
<1>2. CASE call.op \in {"activate", "deactivate"}
  <2>1. PICK status \in KillSwitchStatuses : result.answer = Ok(KillSwitchResponse(status))
    BY <1>0, <1>1, <1>2 DEF Handled, SetKillSwitch, KillSwitchStatuses
  <2> QED  BY <1>2, <2>1, SwitchIsUnderstood, StatusAndBody DEF Client!ParseBody
<1>3. CASE call.op \in {"run_reconciliation", "resolve_received"}
  <2>1. Client!PostError(Conflict) # "none"
    <3>1. Conflict.status = 409 /\ Conflict.code = "conflict"  BY DEF Conflict, Error
    <3> QED  BY <3>1, PostErrorBy
  <2>2. \A rows : \E report \in ReconciliationStates :
           Reconciled(rows).answer = Ok(ReconciliationResponse(report))
    BY <1>0 DEF Reconciled, ReconciliationStates
  <2>3. result.answer = Conflict \/ \E rows : result = Reconciled(rows)
    BY <1>0, <1>1, <1>3 DEF Handled, PostReconciliationRun, PostResolveReceived
  <2>4. PICK report \in ReconciliationStates : result.answer = Ok(ReconciliationResponse(report))
    BY <2>1, <2>2, <2>3
  <2> QED  BY <1>3, <2>4, ReportIsUnderstood, StatusAndBody DEF Client!ParseBody
<1> QED  BY <1>2, <1>3 DEF OtherWrites

\* What a read is answered with is understood, of a regular terminal.
LEMMA ReadsAreUnderstood ==
  ASSUME IsFiniteSet(Ids), terminal \in MT5Terminals, ~Irregular(terminal), positions \subseteq Ids,
         killSwitch \in KillSwitchStatuses, recon \in ReconciliationStates,
         NEW op \in Reads, Client!GetError(Read(op)) = "none"
  PROVE  /\ op \notin DOMAIN Client!ListOf => Client!ParseBody(op, Read(op).body) # {}
         /\ op \in DOMAIN Client!ListOf => Client!ParseList(op, Read(op).body, Read(op).items) # {}
<1>0. DOMAIN Client!ListOf = {"symbols", "positions", "orders", "journal", "history", "reversed_history"}
  BY DEF Client!ListOf
<1>1. CASE op = "health"
  BY <1>0, <1>1, HealthIsUnderstood DEF Read, Client!ParseBody
<1>2. CASE op = "terminal"
  BY <1>0, <1>2, TerminalIsUnderstood DEF Read, Client!ParseBody
<1>3. CASE op = "account"
  BY <1>0, <1>3, AccountIsUnderstood DEF Read, Client!ParseBody
<1>4. CASE op = "symbols"
  BY <1>0, <1>4, SymbolsAreUnderstood DEF Read
<1>5. CASE op = "symbol_metadata"
  BY <1>0, <1>5, MetadataIsUnderstood DEF Read, Client!ParseBody
<1>6. CASE op = "quote"
  BY <1>0, <1>6, QuoteIsUnderstood DEF Read, Client!ParseBody
<1>7. CASE op = "time_diagnostics"
  BY <1>0, <1>7, TimeIsUnderstood DEF Read, Client!ParseBody
<1>8. CASE op \in {"history", "reversed_history"}
  BY <1>0, <1>8, HistoryIsUnderstood DEF Read
<1>9. CASE op = "profit_calc"
  BY <1>0, <1>9, ProfitIsUnderstood DEF Read, Client!ParseBody
<1>10. CASE op = "positions"
  <2>1. IsFiniteSet(positions)  BY FS_Subset
  <2> QED  BY <1>0, <1>10, <2>1, PositionsAreUnderstood DEF Read
<1>11. CASE op = "orders"
  BY <1>0, <1>11, OrdersAreUnderstood DEF Read
<1>12. CASE op = "kill_switch_status"
  <2>1. Read(op).body = KillSwitchResponse(killSwitch)
    BY <1>12, StatusAndBody DEF Read, GetKillSwitch
  <2> QED  BY <1>0, <1>12, <2>1, SwitchIsUnderstood DEF Client!ParseBody
<1>13. CASE op = "reconciliation_status"
  <2>1. Read(op).body = ReconciliationResponse(recon)
    BY <1>13, StatusAndBody DEF Read, GetReconciliation
  <2> QED  BY <1>0, <1>13, <2>1, ReportIsUnderstood DEF Client!ParseBody
<1>14. CASE op = "journal"
  <2>1. PICK rows : rows = {id \in Ids : orders[id] # "none"}  OBVIOUS
  <2>2. rows \in SUBSET Ids  BY <2>1
  <2>3. IsFiniteSet(rows)  BY <2>2, FS_Subset
  <2>4. Read(op) = GetJournal(rows)  BY <1>14, <2>1, Zenon DEF Read
  <2> QED  BY <1>0, <1>14, <2>2, <2>3, <2>4, JournalIsUnderstood
<1> QED
  BY <1>1, <1>2, <1>3, <1>4, <1>5, <1>6, <1>7, <1>8, <1>9, <1>10, <1>11, <1>12, <1>13, <1>14 DEF Reads

\* An answer of the bridge is only a protocol error if the terminal is irregular.
LEMMA BridgeIsUnderstood ==
  ASSUME IsFiniteSet(Ids), BridgeTypes,
         NEW call, call.op \in Reads \union OrderCalls \union OtherWrites,
         call.op \in OrderCalls => call.id \in Ids,
         call.op = "close_position" => call.target \in Ids,
         NEW result \in Handled(call), Client!ErrorOf(call.op, result.answer) = "protocol"
  PROVE  Irregular(terminal)
<1>1. terminal \in MT5Terminals  BY RemoteTradingAssumption DEF BridgeTypes
<1>2. Client!Writes = OrderCalls \union OtherWrites
  BY DEF Client!Writes, OrderCalls, OtherWrites
<1>3. CASE call.op \in OrderCalls \union OtherWrites
  <2>1. call.op \notin DOMAIN Client!ListOf
    BY <1>3 DEF OrderCalls, OtherWrites, Client!ListOf
  <2>2. /\ Client!PostError(result.answer) = "none"
        /\ Client!ParseBody(call.op, result.answer.body) = {}
    BY <1>2, <1>3, <2>1, ProtocolError
  <2> QED  BY <1>3, <2>2, OrdersAreAnswered, WritesAreAnswered
<1>4. CASE call.op \in Reads
  <2>1. call.op \notin Client!Writes  BY <1>4 DEF Reads, Client!Writes
  <2>2. \/ result = With(Unauthorized, Unchanged)
        \/ result = With(Read(call.op), Unchanged)
    BY <1>4, Zenon DEF Handled, Reads
  <2>3. result.answer = Unauthorized \/ result.answer = Read(call.op)  BY <2>2 DEF With
  <2>4. Client!GetError(result.answer) = "none"  BY <2>1, ProtocolError
  <2>5. result.answer = Read(call.op)  BY <2>3, <2>4, StatusAndBody
  <2>6. /\ call.op \notin DOMAIN Client!ListOf => Client!ParseBody(call.op, Read(call.op).body) = {}
        /\ call.op \in DOMAIN Client!ListOf =>
              Client!ParseList(call.op, Read(call.op).body, Read(call.op).items) = {}
    BY <2>1, <2>5, ProtocolError
  <2> QED  BY <1>1, <1>4, <2>4, <2>5, <2>6, ReadsAreUnderstood DEF BridgeTypes
<1> QED  BY <1>3, <1>4

\* Only demo-close closes, and it names a position.
TargetInv == cmd.name = "demo_close" => cmd.target \in Ids

LEMMA NextTargetInv == IInv /\ TargetInv /\ [Next]_vars => TargetInv'
<1> SUFFICES ASSUME IInv, TargetInv, [Next]_vars  PROVE TargetInv'  OBVIOUS
<1>1. CASE \E name \in Commands : Begin(name)
  <2>1. PICK name \in Commands, id \in Ids \union {"none"}, target \in Ids \union {"none"} :
           /\ target # "none" <=> name \in {"demo_close", "resolve_received"}
           /\ cmd' = [IdleCommand EXCEPT !.name = name, !.id = id, !.target = target]
    BY <1>1 DEF Begin
  <2>2. cmd'.name = name /\ cmd'.target = target  BY <2>1, IdleInv
  <2> QED  BY <2>1, <2>2 DEF TargetInv
<1>2. CASE \E fate \in Fates : MakeCall(fate)
  <2>1. PICK fate, error, answer : Concludes(Call.op, error, answer, fate)
    BY <1>2, CallOutcome
  <2>2. (\E code, conclusion : Exit(code, fate, conclusion)) \/ Proceed(Call.op, error, answer)
    BY <2>1, Zenon DEF Concludes
  <2>3. cmd'.name = "none" \/ (cmd'.name = cmd.name /\ cmd'.target = cmd.target)
    <3>1. \A code, conclusion : Exit(code, fate, conclusion) => cmd'.name = "none"
      BY IdleInv DEF Exit
    <3>2. Proceed(Call.op, error, answer) => cmd'.name = cmd.name /\ cmd'.target = cmd.target
      BY IdleInv DEF Proceed, IInv, CommandInv
    <3> QED  BY <2>2, <3>1, <3>2
  <2> QED  BY <2>3 DEF TargetInv
<1>3. CASE HandleLate \/ TerminalChanges \/ UNCHANGED vars
  <2>1. cmd' = cmd  BY <1>3 DEF HandleLate, TerminalChanges, vars
  <2> QED  BY <2>1 DEF TargetInv
<1> QED  BY <1>1, <1>2, <1>3 DEF Next

LEMMA CloseAtHand ==
  ASSUME CommandInv, TargetInv, cmd.name # "none", Call.op = "close_position"
  PROVE  Call.target \in Ids
<1>1. cmd.id \in Ids /\ LastStep  BY CallAtHand DEF OrderCalls
<1>2. cmd.name \in {"demo_open", "demo_close"}  BY <1>1 DEF CommandInv
<1>3. cmd.name # "demo_open"
  BY <1>1, DemoOpenScript DEF Call, LastStep
<1> QED  BY <1>2, <1>3 DEF Call, TargetInv

\* A command ends in a protocol error that it heard only if the client could not
\* parse what the bridge answered.
LEMMA ProtocolExit ==
  ASSUME NEW fate, MakeCall(fate), last' # last, last'.exit = "protocol", last'.heard
  PROVE  \E result \in Handled(Call) : Client!ErrorOf(Call.op, result.answer) = "protocol"
<1>1. PICK error, answer : Concludes(Call.op, error, answer, fate) /\ Hears(fate, error, answer)
  BY CallOutcome
<1>2. PICK op : op = Call.op  OBVIOUS
<1>3. \/ \E conclusion : Exit(error, fate, conclusion)
      \/ \E code \in {"denied", "problems", "ok"} : \E conclusion : Exit(code, fate, conclusion)
      \/ Proceed(op, error, answer)
  BY <1>1, <1>2, Zenon DEF Concludes
<1>4. ~Proceed(op, error, answer)  BY DEF Proceed
<1>5. PICK code, conclusion : Exit(code, fate, conclusion) /\ code \in {error, "denied", "problems", "ok"}
  BY <1>3, <1>4
<1>6. code = "protocol" /\ fate = "answered"  BY <1>5 DEF Exit
<1>7. error = "protocol"  BY <1>5, <1>6
<1> QED  BY <1>1, <1>6, <1>7 DEF Hears

LEMMA UnderstandingStep ==
  IsFiniteSet(Ids) /\ IInv /\ Types /\ TargetInv /\ [Next]_vars
     => [last'.exit = "protocol" /\ last'.heard => Irregular(terminal)]_last
<1> SUFFICES ASSUME IsFiniteSet(Ids), IInv, Types, TargetInv, [Next]_vars,
                    last' # last, last'.exit = "protocol", last'.heard
             PROVE  Irregular(terminal)
  OBVIOUS
<1>1. CASE \E name \in Commands : Begin(name)
  BY <1>1 DEF Begin, NoExit
<1>2. CASE \E fate \in Fates : MakeCall(fate)
  <2>1. PICK fate : MakeCall(fate)  BY <1>2
  <2>2. PICK result \in Handled(Call) : Client!ErrorOf(Call.op, result.answer) = "protocol"
    BY <2>1, ProtocolExit
  <2>3. cmd.name # "none"  BY <2>1 DEF MakeCall
  <2>4. /\ Call.op \in Reads \union OrderCalls \union OtherWrites
        /\ Call.op \in OrderCalls => Call.id \in Ids
        /\ Call.op = "close_position" => Call.target \in Ids
    BY <2>3, CallAtHand, CloseAtHand DEF IInv
  <2> QED  BY <2>2, <2>4, BridgeIsUnderstood DEF Types
<1>3. CASE HandleLate \/ TerminalChanges \/ UNCHANGED vars
  BY <1>3 DEF HandleLate, TerminalChanges, vars
<1> QED  BY <1>1, <1>2, <1>3 DEF Next

\* For any finite set of ids, any terminals of the type, any policy and network: the
\* client parses every answer the bridge gives, on all of its routes, unless the
\* terminal's own report is irregular.
THEOREM BridgeIsUnderstandable == ASSUME IsFiniteSet(Ids) PROVE Spec => AnswersAreUnderstood
<1>1. Init => Types  BY InitTypes
<1>2. IInv /\ Types /\ [Next]_vars => Types'  BY NextTypes
<1>3. Init => TargetInv  BY IdleInv DEF Init, TargetInv
<1>4. IInv /\ Types /\ TargetInv /\ [Next]_vars
         => [last'.exit = "protocol" /\ last'.heard => Irregular(terminal)]_last
  BY UnderstandingStep
<1> QED
  BY InitIInv, NextIInv, NextTargetInv, <1>1, <1>2, <1>3, <1>4, PTL DEF Spec, AnswersAreUnderstood
================================================================================
