----------------------------- MODULE ObserverCycle -----------------------------
(***************************************************************************)
(* OperationalRuntime.cycle (src/src/runtime/operational.py): one round of *)
(* read-only calls to the bridge and the verdict on it.                    *)
(*                                                                         *)
(* What the calls answer is an observation: for each read, in the order in *)
(* which cycle makes them, "good", "bad" (an answer that fails its check)  *)
(* or "raise".  The reads are spread over time; an observation being       *)
(* arbitrary, so is what happens at the bridge between them.               *)
(***************************************************************************)
EXTENDS Integers, Sequences

\* Positions and orders are checked together, after both were read.
ReadOrder == <<"health", "terminal", "account", "metadata", "kill_switch",
               "reconciliation", "exposure", "quote">>
Reads == 1..Len(ReadOrder)
Read(name) == CHOOSE r \in Reads : ReadOrder[r] = name
QuoteRead == Len(ReadOrder)

Answers == {"good", "bad", "raise"}
Observation == [Reads -> Answers]
Modes == {"READ_ONLY", "RESEARCH", "DEMO", "LIVE"}

\* "NONE" stands for no reason and no state.
Reasons == {"NONE", "NO_AUTHORIZED_STRATEGY", "MARKET_CLOSED", "QUOTE_STALE",
            "BRIDGE_UNAVAILABLE", "RECONCILIATION_FAILED", "KILL_SWITCH_ACTIVE",
            "PREFLIGHT_FAILED", "UNKNOWN_BROKER_POSITION", "MODE_READ_ONLY", "LIVE_DISABLED"}
ConnectivityStates == {"NONE", "CONNECTED", "DEGRADED", "STALE", "DISCONNECTED", "RECOVERING"}

CycleResult == [reason : Reasons, connectivity : ConnectivityStates, preflight : BOOLEAN]

\* An exception out of any read but the quote's abandons the rest of the round.
Aborts(obs, r) == r # QuoteRead /\ obs[r] = "raise"
Aborted(obs) == \E r \in Reads : Aborts(obs, r)
Completed(obs) == {r \in Reads : \A s \in 1..r : ~Aborts(obs, s)}

\* The values of the checks that count as healthy.
HealthyValues == {"PASS", "NONE", "INACTIVE", "OK"}

CheckValue(r, answer, weekend) ==
    CASE answer = "good" -> (CASE r = Read("kill_switch") -> "INACTIVE"
                               [] r = Read("reconciliation") -> "OK"
                               [] OTHER -> "PASS")
      [] answer = "bad" -> "FAIL"
      [] answer = "raise" -> IF weekend THEN "EXPECTED_MARKET_CLOSED" ELSE "FAIL"

\* Mutant: an abandoned round leaves the checks as they were.
ChecksOfCompleted(obs, weekend) ==
    [r \in Completed(obs) |-> CheckValue(r, obs[r], weekend)]

\* The checks of an abandoned round are the completed ones, with the bridge failed.
Checks(obs, weekend) ==
    LET failed == IF Aborted(obs) THEN {Read("health")} ELSE {}
    IN  [r \in Completed(obs) \union failed |->
            IF r \in failed THEN "FAIL" ELSE CheckValue(r, obs[r], weekend)]

\* What a failed check adds to the reasons; a bad symbol_metadata adds none.
ReasonOf(r, answer, weekend) ==
    LET name == ReadOrder[r]
    IN  CASE answer = "raise" /\ name = "quote" /\ weekend -> "MARKET_CLOSED"
          [] answer = "raise" /\ ~(name = "quote" /\ weekend) -> "BRIDGE_UNAVAILABLE"
          [] answer = "bad" /\ name \in {"health", "terminal"} -> "BRIDGE_UNAVAILABLE"
          [] answer = "bad" /\ name = "account" -> "PREFLIGHT_FAILED"
          [] answer = "bad" /\ name = "kill_switch" -> "KILL_SWITCH_ACTIVE"
          [] answer = "bad" /\ name = "reconciliation" -> "RECONCILIATION_FAILED"
          [] answer = "bad" /\ name = "exposure" -> "UNKNOWN_BROKER_POSITION"
          [] answer = "bad" /\ name = "quote" -> "QUOTE_STALE"
          [] answer = "good" \/ (answer = "bad" /\ name = "metadata") -> "NONE"

\* The reads whose failure has a reason: those made, and the one that raised.
Complaints(obs, weekend) ==
    {r \in Reads : /\ \A s \in 1..(r - 1) : ~Aborts(obs, s)
                   /\ ReasonOf(r, obs[r], weekend) # "NONE"}

PrimaryReason(mode, obs, weekend) ==
    LET complaints == Complaints(obs, weekend)
        first == CHOOSE r \in complaints : \A s \in complaints : r <= s
    IN  CASE mode = "LIVE" -> "LIVE_DISABLED"
          [] mode # "LIVE" /\ complaints # {} -> ReasonOf(first, obs[first], weekend)
          [] mode # "LIVE" /\ complaints = {} -> "NO_AUTHORIZED_STRATEGY"

\* Each failure overwrites the connectivity of the ones before it.
Connectivity(obs) ==
    LET lost == {Read("health"), Read("terminal")}
    IN  CASE Aborted(obs) -> "DISCONNECTED"
          [] ~Aborted(obs) /\ obs[QuoteRead] = "bad" -> "STALE"
          [] ~Aborted(obs) /\ obs[QuoteRead] = "raise" -> "DEGRADED"
          [] ~Aborted(obs) /\ obs[QuoteRead] = "good" ->
                IF \E r \in lost : obs[r] = "bad" THEN "DISCONNECTED" ELSE "CONNECTED"

\* CycleResult.  The decision is NO_ACTION and execution is never allowed,
\* whatever the round found: there is no executor to allow it to.
Verdict(mode, obs, weekend) ==
    LET checks == Checks(obs, weekend)
    IN  [reason |-> PrimaryReason(mode, obs, weekend),
         connectivity |-> Connectivity(obs),
         preflight |-> \A r \in DOMAIN checks : checks[r] \in HealthyValues]
=============================================================================
