----------------------------- MODULE BridgeStore -----------------------------
(***************************************************************************)
(* The bridge's persistent SQLite store (mt5_bridge/store.py): one         *)
(* idempotency row per client_order_id, the append-only journal, the kill  *)
(* switch and the last reconciliation report.  Every method holds the      *)
(* store's one lock for one SQL transaction, so each operator below that   *)
(* primes a variable is one atomic step.  Everything here survives a crash.*)
(*                                                                         *)
(* Abstractions.  A request fingerprint is the request itself (equal       *)
(* fingerprints, equal requests).  Of the journal only the entries that    *)
(* some code reads back are kept: the submission evidence.  Of the         *)
(* timestamps only whether updated_at differs from created_at.             *)
(***************************************************************************)
CONSTANTS
    Ids,    \* client_order_ids; a position is named by the id that opened it
    Opens,  \* the (symbol, side, volume) combinations orders are placed with
    None    \* no request, no id

ASSUME NoneAssumption == None \notin Ids

VARIABLES
    rows,        \* the idempotency table
    journal,     \* submission evidence journalled for each id
    killSwitch,  \* "active" or "inactive"
    recon        \* state of the last reconciliation report

storeVars == <<rows, journal, killSwitch, recon>>

\* What compute_request_fingerprint hashes: an open by its symbol, side and
\* volume, a close by its position, both by their action.
OpenRequests  == [action: {"open"}, what: Opens]
CloseRequests == [action: {"close"}, what: Ids]
Requests      == OpenRequests \cup CloseRequests

OrderStates == {"received", "submitted", "filled", "rejected", "needs_reconciliation"}
Payloads    == {"none", "stored"}
ErrorCodes  == {"none", "pre_submission", "aborted_before_submission", "retcode"}
Evidence    == {"submitting", "crash_during_send", "filled"}
ReconStates == {"ok", "mismatch", "unknown"}

\* A row; "absent" stands for no row at all.  touched: updated_at differs
\* from created_at.  payload: a result_payload (and the broker identifiers
\* written with it) is stored.
Row == [state: OrderStates \cup {"absent"}, hash: Requests \cup {None},
        touched: BOOLEAN, payload: Payloads, error: ErrorCodes]

AbsentRow == [state |-> "absent", hash |-> None, touched |-> FALSE,
              payload |-> "none", error |-> "none"]

StoreTypeOK ==
    /\ rows \in [Ids -> Row]
    /\ journal \in [Ids -> SUBSET Evidence]
    /\ killSwitch \in {"active", "inactive"}
    /\ recon \in ReconStates

\* An empty database: no row, the kill switch inactive, and no
\* reconciliation report, which get_reconciliation_status reads as unknown.
StoreInit ==
    /\ rows = [id \in Ids |-> AbsentRow]
    /\ journal = [id \in Ids |-> {}]
    /\ killSwitch = "inactive"
    /\ recon = "unknown"

-----------------------------------------------------------------------------
\* Each operator named after another with a suffix is that operator as a
\* plausible bug would leave it: no specification uses it, and the properties
\* are to tell it from the real one.

\* INSERT OR REPLACE: an id in use is received again.
InsertReceivedReplacing(id, req) ==
    rows' = [rows EXCEPT ![id] = [state |-> "received", hash |-> req, touched |-> FALSE,
                                  payload |-> "none", error |-> "none"]]

\* begin_idempotent_request for an id with no row: created_at = updated_at.
InsertReceived(id, req) ==
    /\ rows[id].state = "absent"
    /\ rows' = [rows EXCEPT ![id] = [state |-> "received", hash |-> req, touched |-> FALSE,
                                     payload |-> "none", error |-> "none"]]

\* SQL's COALESCE, "none" standing for NULL.
Coalesce(new, old) == IF new = "none" THEN old ELSE new

\* update_idempotency_state: whatever the row's state was.  The payload and
\* the error code are COALESCEd; updated_at is the wall clock, which need not
\* have ticked since created_at.
UpdateRow(id, state, payload, error) ==
    \E touched \in {rows[id].touched, TRUE} :
        rows' = [rows EXCEPT ![id] =
                    [state |-> state, hash |-> rows[id].hash, touched |-> touched,
                     payload |-> Coalesce(payload, rows[id].payload),
                     error |-> Coalesce(error, rows[id].error)]]

\* The WHERE clause without the state.
TransitionRowAlways(id, expected, state, error) ==
    UpdateRow(id, state, "none", error)

\* transition_idempotency_state: the same UPDATE, only WHERE state = expected.
TransitionRow(id, expected, state, error) ==
    /\ rows[id].state = expected
    /\ UpdateRow(id, state, "none", error)

\* find_incomplete_at_startup.
Incomplete == {id \in Ids : rows[id].state \in {"received", "submitted"}}

\* append_journal.
AppendJournal(id, action) ==
    journal' = [journal EXCEPT ![id] = @ \cup {action}]
=============================================================================
