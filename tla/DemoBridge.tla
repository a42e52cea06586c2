------------------------------ MODULE DemoBridge ------------------------------
(***************************************************************************)
(* The write path of the MT5 bridge: mt5_bridge/trading.py,                *)
(* mt5_bridge/reconciliation.py and the write routes of mt5_bridge/app.py, *)
(* over the store of BridgeStore.  FastAPI runs the synchronous route      *)
(* functions in a thread pool, so Threads requests are handled at a time   *)
(* and interleave between any two store or MetaTrader5 calls: each action  *)
(* of a thread is one such call, with the local code up to the next one.   *)
(* The process may crash between two calls and is started again by         *)
(* mt5_bridge/__main__.py.                                                 *)
(*                                                                         *)
(* A journal entry no code reads back, and the return to the caller, belong*)
(* to the call before them.                                                *)
(*                                                                         *)
(* MetaTrader5 is external: an order that comes back with a retcode other  *)
(* than DONE has not been executed; one that comes back with an error may  *)
(* have been.  A filled opening order creates one position named after it. *)
(* RealMT5Backend gives positions and orders no magic number, so the       *)
(* identity match of resolve_received_attempt never finds anything and is  *)
(* left out.                                                               *)
(***************************************************************************)
EXTENDS Naturals, FiniteSets, BridgeStore

CONSTANTS
    Threads,       \* the server's worker threads
    MaxPositions,  \* max_positions of place_demo_order; the route passes 1
    Faults         \* what may go wrong around the bridge

FaultKinds ==
    {"crash",           \* the bridge process dies
     "raise",           \* a MetaTrader5 read raises MT5BackendError
     "silence",         \* MetaTrader5 answers None for a while
     "switch_account"}  \* the terminal logs in to another account

ASSUME DemoBridgeAssumption ==
    /\ MaxPositions \in Nat \ {0}
    /\ Faults \subseteq FaultKinds

VARIABLES
    up,         \* the bridge process is running
    threads,    \* what each worker thread is doing
    account,    \* the account the terminal is logged in to
    terminal,   \* whether MetaTrader5 calls get an answer
    positions,  \* open positions of the demo account
    \* History: no code reads these.
    sends,      \* order_send calls made for each id
    executed,   \* ids whose order the broker has executed
    told,       \* definite outcomes the callers of each id were given
    leftover    \* state of each row the last startup found incomplete

brokerVars  == <<account, terminal, positions>>
historyVars == <<sends, executed, told, leftover>>
vars        == <<storeVars, up, threads, brokerVars, historyVars>>

\* The call a thread makes next.  Before the submission boundary:
PreSubmission == {"kill_switch", "reconciliation", "positions", "match", "reject", "submit"}
\* the thread that moved the row to SUBMITTED and has not recorded an outcome:
BeforeSend    == {"journal", "send"}
AfterSend     == {"record_fill", "record_reject", "journal_crash"}
Owning        == BeforeSend \cup AfterSend
\* and the reconciliation routes:
Reconciling   == {"evidence", "abort", "reconcile", "persist"}
Steps == {"idle", "audit"} \cup PreSubmission \cup Owning \cup Reconciling

Thread == [pc: Steps, id: Ids \cup {None}, req: Requests \cup {None},
           verdict: ReconStates \cup {"none"}]

IdleThread == [pc |-> "idle", id |-> None, req |-> None, verdict |-> "none"]

Outcomes == {"filled", "denied", "refused"}

TypeOK ==
    /\ StoreTypeOK
    /\ up \in BOOLEAN
    /\ threads \in [Threads -> Thread]
    /\ account \in {"demo", "other"}
    /\ terminal \in {"answering", "silent"}
    /\ positions \subseteq Ids
    /\ sends \in [Ids -> Nat]
    /\ executed \subseteq Ids
    /\ told \in [Ids -> SUBSET Outcomes]
    /\ leftover \in [Ids -> {"none", "received", "submitted"}]

Init ==
    /\ StoreInit
    /\ up = FALSE
    /\ threads = [t \in Threads |-> IdleThread]
    /\ account = "demo"
    /\ terminal = "answering"
    /\ positions = {}
    /\ sends = [id \in Ids |-> 0]
    /\ executed = {}
    /\ told = [id \in Ids |-> {}]
    /\ leftover = [id \in Ids |-> "none"]

-----------------------------------------------------------------------------
At(t, pc)   == up /\ threads[t].pc = pc
Goto(t, pc) == threads' = [threads EXCEPT ![t].pc = pc]
Finish(t)   == threads' = [threads EXCEPT ![t] = IdleThread]

Tell(id, outcome) == told' = [told EXCEPT ![id] = @ \cup {outcome}]

\* RealMT5Backend.positions_get: None from MetaTrader5 becomes no positions.
VisiblePositions ==
    IF terminal = "answering" /\ account = "demo" THEN positions ELSE {}

\* A row place_demo_order and close_demo_position do not stop at: neither a
\* stored result to replay, nor rejected, nor seen to have been updated.
Resumable(row) ==
    /\ ~(row.state \in {"filled", "rejected"} /\ row.payload = "stored")
    /\ row.state # "rejected"
    /\ ~(row.state \in {"received", "submitted"} /\ row.touched)

\* A write request arrives, the account is demo, and begin_idempotent_request
\* returns its row, new or resumable.  In every other case (not a demo
\* account, a fingerprint conflict, a terminal or stuck row) the request is
\* answered and nothing changes.
BeginWrite(t, id, req) ==
    /\ At(t, "idle")
    /\ account = "demo" /\ terminal = "answering"
    /\ \/ InsertReceived(id, req)
       \/ /\ rows[id].state # "absent"
          /\ rows[id].hash = req
          /\ Resumable(rows[id])
          /\ UNCHANGED rows
    /\ threads' = [threads EXCEPT ![t] =
                     [pc |-> IF req.action = "open" THEN "kill_switch" ELSE "match",
                      id |-> id, req |-> req, verdict |-> "none"]]
    /\ UNCHANGED <<journal, killSwitch, recon, up, brokerVars, historyVars>>

\* A retry of a request with a stored result gets that result again.
ReplayResult(t, id, req) ==
    /\ At(t, "idle")
    /\ account = "demo" /\ terminal = "answering"
    /\ rows[id].state \in {"filled", "rejected"}
    /\ rows[id].payload = "stored"
    /\ rows[id].hash = req
    /\ Tell(id, "filled")
    /\ UNCHANGED <<storeVars, up, threads, brokerVars, sends, executed, leftover>>

-----------------------------------------------------------------------------
\* The trading permissions alone.
CheckPermissionsOnly(t) ==
    /\ At(t, "kill_switch")
    /\ \E permitted \in BOOLEAN :
          Goto(t, IF permitted /\ terminal = "answering" THEN "reconciliation" ELSE "reject")
    /\ UNCHANGED <<storeVars, up, brokerVars, historyVars>>

\* Opening, before the submission boundary: trading permissions and the kill
\* switch, the stored reconciliation report, then the position count and the
\* market checks (symbol, volume, quote, order_check).  permitted and
\* tradable stand for the checks that depend on nothing modelled here.
CheckKillSwitch(t) ==
    /\ At(t, "kill_switch")
    /\ \E permitted \in BOOLEAN :
          Goto(t, IF permitted /\ terminal = "answering" /\ killSwitch = "inactive"
                  THEN "reconciliation" ELSE "reject")
    /\ UNCHANGED <<storeVars, up, brokerVars, historyVars>>

CheckReconciliation(t) ==
    /\ At(t, "reconciliation")
    /\ Goto(t, IF recon = "ok" THEN "positions" ELSE "reject")
    /\ UNCHANGED <<storeVars, up, brokerVars, historyVars>>

CheckPositionCountOffByOne(t) ==
    /\ At(t, "positions")
    /\ \E tradable \in BOOLEAN :
          Goto(t, IF Cardinality(VisiblePositions) <= MaxPositions /\ tradable
                  THEN "submit" ELSE "reject")
    /\ UNCHANGED <<storeVars, up, brokerVars, historyVars>>

CheckPositionCount(t) ==
    /\ At(t, "positions")
    /\ \E tradable \in BOOLEAN :
          Goto(t, IF Cardinality(VisiblePositions) < MaxPositions /\ tradable
                  THEN "submit" ELSE "reject")
    /\ UNCHANGED <<storeVars, up, brokerVars, historyVars>>

\* Closing checks neither the kill switch nor reconciliation: permissions,
\* the position to close, then the market checks.
MatchPosition(t) ==
    /\ At(t, "match")
    /\ \E tradable \in BOOLEAN :
          Goto(t, IF threads[t].req.what \in VisiblePositions /\ tradable
                  THEN "submit" ELSE "reject")
    /\ UNCHANGED <<storeVars, up, brokerVars, historyVars>>

\* An MT5BackendError in the market checks is no TradingError: nothing catches
\* it below the route's generic handler, and the row stays RECEIVED.
BackendRaises(t) ==
    /\ "raise" \in Faults
    /\ \E pc \in {"positions", "match"} : At(t, pc)
    /\ Finish(t)
    /\ UNCHANGED <<storeVars, up, brokerVars, historyVars>>

\* The rejection recorded with update_idempotency_state.
TerminalizeRejectAlways(t) ==
    /\ At(t, "reject")
    /\ UpdateRow(threads[t].id, "rejected", "none", "pre_submission")
    /\ Tell(threads[t].id, "denied")
    /\ Finish(t)
    /\ UNCHANGED <<journal, killSwitch, recon, up, brokerVars, sends, executed, leftover>>

\* The IdempotencyStateError swallowed: the denial is told all the same.
TerminalizeRejectSwallowing(t) ==
    /\ At(t, "reject")
    /\ LET id == threads[t].id IN
          \/ TransitionRow(id, "received", "rejected", "pre_submission")
          \/ rows[id].state # "received" /\ UNCHANGED rows
    /\ Tell(threads[t].id, "denied")
    /\ Finish(t)
    /\ UNCHANGED <<journal, killSwitch, recon, up, brokerVars, sends, executed, leftover>>

\* _terminalize_pre_submission_reject: the caller is told the denial only if
\* the row was still RECEIVED.
TerminalizeReject(t) ==
    /\ At(t, "reject")
    /\ LET id == threads[t].id IN
          \/ TransitionRow(id, "received", "rejected", "pre_submission") /\ Tell(id, "denied")
          \/ rows[id].state # "received" /\ UNCHANGED <<rows, told>>
    /\ Finish(t)
    /\ UNCHANGED <<journal, killSwitch, recon, up, brokerVars, sends, executed, leftover>>

-----------------------------------------------------------------------------
\* order_send with the row still RECEIVED, to be SUBMITTED on its return.
SubmitLater(t) ==
    /\ At(t, "submit")
    /\ rows[threads[t].id].state = "received"
    /\ Goto(t, "journal")
    /\ UNCHANGED <<storeVars, up, brokerVars, historyVars>>

\* A thread that loses the transition tries again for ever.
SubmitRetrying(t) ==
    /\ At(t, "submit")
    /\ LET id == threads[t].id IN
          \/ TransitionRow(id, "received", "submitted", "none") /\ Goto(t, "journal")
          \/ rows[id].state # "received" /\ UNCHANGED <<rows, threads>>
    /\ UNCHANGED <<journal, killSwitch, recon, up, brokerVars, historyVars>>

\* The submission boundary: RECEIVED -> SUBMITTED or no order_send.
Submit(t) ==
    /\ At(t, "submit")
    /\ LET id == threads[t].id IN
          \/ TransitionRow(id, "received", "submitted", "none") /\ Goto(t, "journal")
          \/ rows[id].state # "received" /\ UNCHANGED rows /\ Finish(t)
    /\ UNCHANGED <<journal, killSwitch, recon, up, brokerVars, historyVars>>

JournalSubmitting(t) ==
    /\ At(t, "journal")
    /\ AppendJournal(threads[t].id, "submitting")
    /\ Goto(t, "send")
    /\ UNCHANGED <<rows, killSwitch, recon, up, brokerVars, historyVars>>

\* What the broker does with an order it executes.
Execute(id, req) ==
    /\ terminal = "answering"
    /\ executed' = executed \cup {id}
    /\ \/ account = "other" /\ UNCHANGED positions
       \/ account = "demo" /\ req.action = "open" /\ positions' = positions \cup {id}
       \/ /\ account = "demo"
          /\ req.action = "close"
          /\ req.what \in positions
          /\ positions' = positions \ {req.what}

\* order_send: DONE, another retcode, or an error with or without execution.
OrderSend(t) ==
    /\ At(t, "send")
    /\ LET id  == threads[t].id
           req == threads[t].req IN
        /\ sends' = [sends EXCEPT ![id] = @ + 1]
        /\ \/ Execute(id, req) /\ Goto(t, "record_fill")
           \/ Execute(id, req) /\ Goto(t, "journal_crash")
           \/ terminal = "answering" /\ UNCHANGED <<executed, positions>> /\ Goto(t, "record_reject")
           \/ UNCHANGED <<executed, positions>> /\ Goto(t, "journal_crash")
    /\ UNCHANGED <<storeVars, up, account, terminal, told, leftover>>

RecordFill(t) ==
    /\ At(t, "record_fill")
    /\ UpdateRow(threads[t].id, "filled", "stored", "none")
    /\ Goto(t, "audit")
    /\ UNCHANGED <<journal, killSwitch, recon, up, brokerVars, historyVars>>

JournalFilled(t) ==
    /\ At(t, "audit")
    /\ AppendJournal(threads[t].id, "filled")
    /\ Tell(threads[t].id, "filled")
    /\ Finish(t)
    /\ UNCHANGED <<rows, killSwitch, recon, up, brokerVars, sends, executed, leftover>>

RecordReject(t) ==
    /\ At(t, "record_reject")
    /\ UpdateRow(threads[t].id, "rejected", "none", "retcode")
    /\ Tell(threads[t].id, "refused")
    /\ Finish(t)
    /\ UNCHANGED <<journal, killSwitch, recon, up, brokerVars, sends, executed, leftover>>

\* An exception out of order_send taken for a refusal.
JournalCrashRejecting(t) ==
    /\ At(t, "journal_crash")
    /\ UpdateRow(threads[t].id, "rejected", "none", "retcode")
    /\ Tell(threads[t].id, "refused")
    /\ Finish(t)
    /\ UNCHANGED <<journal, killSwitch, recon, up, brokerVars, sends, executed, leftover>>

\* The crash window: the row is deliberately left SUBMITTED.
JournalCrash(t) ==
    /\ At(t, "journal_crash")
    /\ AppendJournal(threads[t].id, "crash_during_send")
    /\ Finish(t)
    /\ UNCHANGED <<rows, killSwitch, recon, up, brokerVars, historyVars>>

-----------------------------------------------------------------------------
\* Only rows seen to have been updated are taken for leftovers.
StartResolveTouched(t, id) ==
    /\ At(t, "idle")
    /\ rows[id].state = "received"
    /\ rows[id].touched
    /\ threads' = [threads EXCEPT ![t] = [IdleThread EXCEPT !.pc = "evidence", !.id = id]]
    /\ UNCHANGED <<storeVars, up, brokerVars, historyVars>>

\* resolve_received_attempt: the row is read, then its journal, then the row
\* is rejected if it still is RECEIVED, then reconciliation runs.
StartResolve(t, id) ==
    /\ At(t, "idle")
    /\ rows[id].state = "received"
    /\ rows[id].payload = "none"
    /\ threads' = [threads EXCEPT ![t] = [IdleThread EXCEPT !.pc = "evidence", !.id = id]]
    /\ UNCHANGED <<storeVars, up, brokerVars, historyVars>>

CheckEvidence(t) ==
    /\ At(t, "evidence")
    /\ \/ journal[threads[t].id] = {} /\ Goto(t, "abort")
       \/ (journal[threads[t].id] # {} \/ "raise" \in Faults) /\ Finish(t)
    /\ UNCHANGED <<storeVars, up, brokerVars, historyVars>>

\* The resolution recorded with update_idempotency_state.
AbortReceivedAlways(t) ==
    /\ At(t, "abort")
    /\ UpdateRow(threads[t].id, "rejected", "none", "aborted_before_submission")
    /\ Goto(t, "reconcile")
    /\ UNCHANGED <<journal, killSwitch, recon, up, brokerVars, historyVars>>

AbortReceived(t) ==
    /\ At(t, "abort")
    /\ LET id == threads[t].id IN
          \/ /\ TransitionRow(id, "received", "rejected", "aborted_before_submission")
             /\ Goto(t, "reconcile")
          \/ rows[id].state # "received" /\ UNCHANGED rows /\ Finish(t)
    /\ UNCHANGED <<journal, killSwitch, recon, up, brokerVars, historyVars>>

\* run_reconciliation: the scan of the table and the save of the report are
\* two store calls.
StartReconciliation(t) ==
    /\ At(t, "idle")
    /\ Goto(t, "reconcile")
    /\ UNCHANGED <<storeVars, up, brokerVars, historyVars>>

\* SUBMITTED taken for a terminal state.
VerdictOfReceived == IF \E id \in Ids : rows[id].state = "received" THEN "mismatch" ELSE "ok"

Verdict == IF Incomplete = {} THEN "ok" ELSE "mismatch"

\* The report saved before it is filled in.
ScanRowsUnreported(t) ==
    /\ At(t, "reconcile")
    /\ Goto(t, "persist")
    /\ UNCHANGED <<storeVars, up, brokerVars, historyVars>>

ScanRows(t) ==
    /\ At(t, "reconcile")
    /\ \E verdict \in {Verdict} \cup (IF "raise" \in Faults THEN {"unknown"} ELSE {}) :
          threads' = [threads EXCEPT ![t].pc = "persist", ![t].verdict = verdict]
    /\ UNCHANGED <<storeVars, up, brokerVars, historyVars>>

PersistReconciliation(t) ==
    /\ At(t, "persist")
    /\ recon' = threads[t].verdict
    /\ Finish(t)
    /\ UNCHANGED <<rows, journal, killSwitch, up, brokerVars, historyVars>>

-----------------------------------------------------------------------------
\* The kill switch routes: one store call each.
SetKillSwitch(status) ==
    /\ up
    /\ killSwitch # status
    /\ killSwitch' = status
    /\ UNCHANGED <<rows, journal, recon, up, threads, brokerVars, historyVars>>

\* The process dies: only the store and the broker's books remain.
Crash ==
    /\ "crash" \in Faults
    /\ up
    /\ up' = FALSE
    /\ threads' = [t \in Threads |-> IdleThread]
    /\ UNCHANGED <<storeVars, brokerVars, historyVars>>

\* __main__.main: connect, then reconciliation runs to its end before the
\* server accepts anything.
StartBridge ==
    /\ ~up
    /\ terminal = "answering"
    /\ up' = TRUE
    /\ recon' \in {Verdict} \cup (IF "raise" \in Faults THEN {"unknown"} ELSE {})
    /\ leftover' = [id \in Ids |-> IF id \in Incomplete THEN rows[id].state ELSE "none"]
    /\ UNCHANGED <<rows, journal, killSwitch, threads, brokerVars, sends, executed, told>>

\* The terminal, which the bridge does not control.
TerminalChanges ==
    /\ \/ /\ "switch_account" \in Faults
          /\ account' = IF account = "demo" THEN "other" ELSE "demo"
          /\ UNCHANGED terminal
       \/ /\ "silence" \in Faults
          /\ terminal' = IF terminal = "answering" THEN "silent" ELSE "answering"
          /\ UNCHANGED account
    /\ UNCHANGED <<storeVars, up, threads, positions, historyVars>>

-----------------------------------------------------------------------------
Handle(t) ==
    \/ CheckKillSwitch(t) \/ CheckReconciliation(t) \/ CheckPositionCount(t)
    \/ MatchPosition(t) \/ BackendRaises(t) \/ TerminalizeReject(t)
    \/ Submit(t) \/ JournalSubmitting(t) \/ OrderSend(t)
    \/ RecordFill(t) \/ JournalFilled(t) \/ RecordReject(t) \/ JournalCrash(t)
    \/ CheckEvidence(t) \/ AbortReceived(t) \/ ScanRows(t) \/ PersistReconciliation(t)

Request(t) ==
    \/ \E id \in Ids, req \in Requests : BeginWrite(t, id, req) \/ ReplayResult(t, id, req)
    \/ \E id \in Ids : StartResolve(t, id)
    \/ StartReconciliation(t)

Next ==
    \/ \E t \in Threads : Handle(t) \/ Request(t)
    \/ \E status \in {"active", "inactive"} : SetKillSwitch(status)
    \/ Crash
    \/ StartBridge
    \/ TerminalChanges

Spec == Init /\ [][Next]_vars

=============================================================================
