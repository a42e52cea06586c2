--------------------------- MODULE DemoBridgeProofs ---------------------------
(***************************************************************************)
(* Proofs about the bridge's write path, for any number of threads, ids    *)
(* and kinds of order and any faults: the inductive invariant, the safety  *)
(* invariants it implies, and that the write path implements OrderLedger.  *)
(***************************************************************************)
EXTENDS DemoBridgeProperties, TLAPS

LEMMA InitType == Init => TypeOK
<1> SUFFICES ASSUME Init PROVE TypeOK
  OBVIOUS
<1>1. AbsentRow \in Row
  BY DEF AbsentRow, Row, ErrorCodes, Payloads
<1>2. IdleThread \in Thread
  BY DEF IdleThread, Thread, Steps
<1>3. StoreTypeOK
  BY <1>1 DEF Init, StoreInit, StoreTypeOK, ReconStates
<1> QED
  BY <1>2, <1>3 DEF Init, TypeOK

\* What UpdateRow writes: one row, its request unchanged.
LEMMA UpdateRowType ==
  ASSUME rows \in [Ids -> Row], NEW id \in Ids, NEW state \in OrderStates,
         NEW payload \in Payloads, NEW error \in ErrorCodes, UpdateRow(id, state, payload, error)
  PROVE  /\ rows' \in [Ids -> Row]
         /\ rows'[id].state = state
         /\ rows'[id].hash = rows[id].hash
         /\ rows'[id].payload = Coalesce(payload, rows[id].payload)
         /\ rows'[id].error = Coalesce(error, rows[id].error)
         /\ \A other \in Ids \ {id} : rows'[other] = rows[other]
<1>1. PICK touched \in {rows[id].touched, TRUE} :
        rows' = [rows EXCEPT ![id] =
                   [state |-> state, hash |-> rows[id].hash, touched |-> touched,
                    payload |-> Coalesce(payload, rows[id].payload),
                    error |-> Coalesce(error, rows[id].error)]]
  BY DEF UpdateRow
<1>2. rows[id].touched \in BOOLEAN /\ rows[id].hash \in Requests \cup {None}
  BY DEF Row
<1>3. touched \in BOOLEAN
  BY <1>2
<1>4. Coalesce(payload, rows[id].payload) \in Payloads /\ Coalesce(error, rows[id].error) \in ErrorCodes
  BY DEF Coalesce, Row
<1>5. [state |-> state, hash |-> rows[id].hash, touched |-> touched,
       payload |-> Coalesce(payload, rows[id].payload),
       error |-> Coalesce(error, rows[id].error)] \in Row
  BY <1>2, <1>3, <1>4 DEF Row
<1> QED
  BY <1>1, <1>5

\* A thread that makes one call and goes on to the next.
LEMMA GotoType ==
  ASSUME threads \in [Threads -> Thread], NEW t \in Threads, NEW pc \in Steps, Goto(t, pc)
  PROVE  /\ threads' \in [Threads -> Thread]
         /\ threads'[t] = [threads[t] EXCEPT !.pc = pc]
         /\ \A u \in Threads \ {t} : threads'[u] = threads[u]
  BY DEF Goto, Thread

LEMMA FinishType ==
  ASSUME threads \in [Threads -> Thread], NEW t \in Threads, Finish(t)
  PROVE  /\ threads' \in [Threads -> Thread]
         /\ threads'[t] = IdleThread
         /\ \A u \in Threads \ {t} : threads'[u] = threads[u]
  BY DEF Finish, Thread, IdleThread, Steps

-----------------------------------------------------------------------------
LEMMA ScanRowsType ==
  ASSUME threads \in [Threads -> Thread], NEW t \in Threads, ScanRows(t)
  PROVE  \E verdict \in ReconStates :
           /\ verdict = "ok" => Incomplete = {}
           /\ threads' \in [Threads -> Thread]
           /\ threads'[t].pc = "persist"
           /\ threads'[t].verdict = verdict
           /\ threads'[t].req = threads[t].req
           /\ \A u \in Threads \ {t} : threads'[u] = threads[u]
<1>1. PICK verdict \in {Verdict} \cup (IF "raise" \in Faults THEN {"unknown"} ELSE {}) :
        threads' = [threads EXCEPT ![t].pc = "persist", ![t].verdict = verdict]
  BY DEF ScanRows, Verdict
<1>2. verdict \in ReconStates /\ (verdict = "ok" => Incomplete = {})
  BY DEF Verdict, ReconStates
<1>3. threads' = [threads EXCEPT ![t] = [[threads[t] EXCEPT !.pc = "persist"]
                                            EXCEPT !.verdict = verdict]]
  BY <1>1
<1>4. [[threads[t] EXCEPT !.pc = "persist"] EXCEPT !.verdict = verdict] \in Thread
  BY <1>2 DEF Thread, Steps, Reconciling
<1> QED
  BY <1>2, <1>3, <1>4 DEF Thread

\* A thread handling an id has one, and a thread about to save a report has
\* computed it.
LEMMA WorkerFacts ==
  ASSUME Inv, NEW t \in Threads
  PROVE  /\ threads[t].pc \in PreSubmission \cup Owning \cup {"audit", "evidence", "abort"} =>
              threads[t].id \in Ids
         /\ threads[t].pc = "persist" => threads[t].verdict \in ReconStates
  BY DEF Inv, ThreadInv

\* Every step keeps the types.
LEMMA TypeStep == TypeOK /\ Inv /\ [Next]_vars => TypeOK'
<1> SUFFICES ASSUME TypeOK, Inv, [Next]_vars PROVE TypeOK'
  OBVIOUS
<1> USE DEF TypeOK, StoreTypeOK, storeVars, brokerVars, historyVars
<1>1. ASSUME NEW t \in Threads, Handle(t) PROVE TypeOK'
  <2> USE DEF At, PreSubmission, Owning, BeforeSend, AfterSend, Reconciling, Steps
  <2>1. CASE CheckKillSwitch(t)
    BY <2>1, GotoType DEF CheckKillSwitch
  <2>2. CASE CheckReconciliation(t)
    BY <2>2, GotoType DEF CheckReconciliation
  <2>3. CASE CheckPositionCount(t)
    BY <2>3, GotoType DEF CheckPositionCount
  <2>4. CASE MatchPosition(t)
    BY <2>4, GotoType DEF MatchPosition
  <2>5. CASE BackendRaises(t)
    BY <2>5, FinishType DEF BackendRaises
  <2>6. CASE TerminalizeReject(t)
    <3>1. threads[t].id \in Ids
      BY <2>6, WorkerFacts DEF TerminalizeReject
    <3>2. rows' \in [Ids -> Row]
      BY <2>6, <3>1, UpdateRowType
      DEF TerminalizeReject, TransitionRow, OrderStates, ErrorCodes, Payloads
    <3>3. told' \in [Ids -> SUBSET Outcomes]
      BY <2>6, <3>1 DEF TerminalizeReject, Tell, Outcomes
    <3> QED
      BY <2>6, <3>2, <3>3, FinishType DEF TerminalizeReject
  <2>7. CASE Submit(t)
    <3>1. threads[t].id \in Ids
      BY <2>7, WorkerFacts DEF Submit
    <3>2. rows' \in [Ids -> Row]
      BY <2>7, <3>1, UpdateRowType DEF Submit, TransitionRow, OrderStates, ErrorCodes, Payloads
    <3>3. threads' \in [Threads -> Thread]
      BY <2>7, FinishType, GotoType DEF Submit
    <3> QED
      BY <2>7, <3>2, <3>3 DEF Submit
  <2>8. CASE JournalSubmitting(t)
    BY <2>8, GotoType, WorkerFacts DEF JournalSubmitting, AppendJournal, Evidence
  <2>9. CASE OrderSend(t)
    <3>1. threads[t].id \in Ids
      BY <2>9, WorkerFacts DEF OrderSend
    <3>2. threads' \in [Threads -> Thread]
      BY <2>9, GotoType DEF OrderSend
    <3>3. executed' \subseteq Ids /\ positions' \subseteq Ids
      BY <2>9, <3>1 DEF OrderSend, Execute
    <3> QED
      BY <2>9, <3>1, <3>2, <3>3 DEF OrderSend
  <2>10. CASE RecordFill(t)
    BY <2>10, GotoType, UpdateRowType, WorkerFacts DEF RecordFill, OrderStates, ErrorCodes, Payloads
  <2>11. CASE JournalFilled(t)
    BY <2>11, FinishType, WorkerFacts DEF JournalFilled, AppendJournal, Evidence, Tell, Outcomes
  <2>12. CASE RecordReject(t)
    BY <2>12, FinishType, UpdateRowType, WorkerFacts
    DEF RecordReject, OrderStates, ErrorCodes, Payloads, Tell, Outcomes
  <2>13. CASE JournalCrash(t)
    BY <2>13, FinishType, WorkerFacts DEF JournalCrash, AppendJournal, Evidence
  <2>14. CASE CheckEvidence(t)
    BY <2>14, FinishType, GotoType DEF CheckEvidence
  <2>15. CASE AbortReceived(t)
    <3>1. threads[t].id \in Ids
      BY <2>15, WorkerFacts DEF AbortReceived
    <3>2. rows' \in [Ids -> Row]
      BY <2>15, <3>1, UpdateRowType
      DEF AbortReceived, TransitionRow, OrderStates, ErrorCodes, Payloads
    <3>3. threads' \in [Threads -> Thread]
      BY <2>15, FinishType, GotoType DEF AbortReceived
    <3> QED
      BY <2>15, <3>2, <3>3 DEF AbortReceived
  <2>16. CASE ScanRows(t)
    BY <2>16, ScanRowsType DEF ScanRows
  <2>17. CASE PersistReconciliation(t)
    BY <2>17, FinishType, WorkerFacts DEF PersistReconciliation
  <2> QED
    BY <1>1, <2>1, <2>2, <2>3, <2>4, <2>5, <2>6, <2>7, <2>8, <2>9, <2>10, <2>11, <2>12, <2>13,
       <2>14, <2>15, <2>16, <2>17 DEF Handle
<1>2. ASSUME NEW t \in Threads, NEW id \in Ids, NEW req \in Requests, BeginWrite(t, id, req)
      PROVE  TypeOK'
  <2>1. [pc |-> IF req.action = "open" THEN "kill_switch" ELSE "match",
         id |-> id, req |-> req, verdict |-> "none"] \in Thread
    BY DEF Thread, Steps, PreSubmission
  <2>2. [state |-> "received", hash |-> req, touched |-> FALSE,
         payload |-> "none", error |-> "none"] \in Row
    BY DEF Row, OrderStates, ErrorCodes, Payloads
  <2>3. rows' \in [Ids -> Row]
    BY <1>2, <2>2 DEF BeginWrite, InsertReceived
  <2> QED
    BY <1>2, <2>1, <2>3 DEF BeginWrite
<1>3. ASSUME NEW t \in Threads, NEW id \in Ids, NEW req \in Requests, ReplayResult(t, id, req)
      PROVE  TypeOK'
  BY <1>3 DEF ReplayResult, Tell, Outcomes
<1>4. ASSUME NEW t \in Threads, NEW id \in Ids, StartResolve(t, id) PROVE TypeOK'
  BY <1>4 DEF StartResolve, IdleThread, Thread, Steps, Reconciling
<1>5. ASSUME NEW t \in Threads, StartReconciliation(t) PROVE TypeOK'
  BY <1>5, GotoType DEF StartReconciliation, Steps, Reconciling
<1>6. ASSUME NEW status \in {"active", "inactive"}, SetKillSwitch(status) PROVE TypeOK'
  BY <1>6 DEF SetKillSwitch
<1>7. CASE Crash
  BY <1>7 DEF Crash, IdleThread, Thread, Steps
<1>8. CASE StartBridge
  BY <1>8 DEF StartBridge, Verdict, ReconStates, Incomplete
<1>9. CASE TerminalChanges
  BY <1>9 DEF TerminalChanges
<1>10. CASE UNCHANGED vars
  BY <1>10 DEF vars
<1> QED
  BY <1>1, <1>2, <1>3, <1>4, <1>5, <1>6, <1>7, <1>8, <1>9, <1>10 DEF Next, Request

-----------------------------------------------------------------------------
(***************************************************************************)
(* Inv is preserved.  Two frame lemmas say what is left to prove of a step *)
(* that moves thread t only, and of one that also changes what is recorded *)
(* of one id.                                                              *)
(***************************************************************************)
OrphanClause(t) ==
    /\ threads[t].pc = "persist" => threads[t].verdict # "ok"
    /\ threads[t].pc \in {"positions", "submit"} \cup BeforeSend => threads[t].req.action = "close"

LEMMA ThreadFrame ==
  ASSUME TypeOK, Inv, NEW t \in Threads, up,
         UNCHANGED <<rows, journal, recon, up, sends, executed, told, leftover>>,
         \A u \in Threads \ {t} : threads'[u] = threads[u],
         ThreadInv(t)',
         threads'[t].pc \notin Owning,
         Orphaned => OrphanClause(t)'
  PROVE  Inv'
<1>1. \A id \in Ids : RowInv(id)'
  BY DEF Inv, RowInv
<1>2. \A u \in Threads : ThreadInv(u)'
  BY DEF Inv, ThreadInv
<1>3. OwnersInv'
  BY DEF Inv, OwnersInv
<1>4. OrphanInv'
  BY DEF Inv, OrphanInv, OrphanClause, Orphaned
<1> QED
  BY <1>1, <1>2, <1>3, <1>4 DEF Inv

LEMMA RowFrame ==
  ASSUME TypeOK, Inv, NEW t \in Threads, NEW id \in Ids, up,
         UNCHANGED <<recon, up, leftover>>,
         \A other \in Ids \ {id} :
            /\ rows'[other] = rows[other]
            /\ journal'[other] = journal[other]
            /\ sends'[other] = sends[other]
            /\ told'[other] = told[other]
            /\ other \in executed' <=> other \in executed,
         \A u \in Threads \ {t} : threads'[u] = threads[u],
         RowInv(id)',
         ThreadInv(t)',
         \A u \in Threads \ {t} : threads[u].id = id => ThreadInv(u)',
         \A u \in Threads \ {t} :
            threads'[t].pc \in Owning /\ threads[u].pc \in Owning => threads[u].id # threads'[t].id,
         Orphaned => OrphanClause(t)'
  PROVE  Inv'
<1>1. \A o \in Ids : RowInv(o)'
  BY DEF Inv, RowInv
<1>2. ASSUME NEW u \in Threads \ {t}, threads[u].id # id PROVE ThreadInv(u)'
  <2>1. CASE threads[u].id \in Ids
    BY <1>2, <2>1 DEF Inv, ThreadInv
  <2>2. CASE threads[u].id \notin Ids
    BY <1>2, <2>2 DEF Inv, ThreadInv, Owning, BeforeSend, AfterSend
  <2> QED
    BY <2>1, <2>2
<1>3. OwnersInv'
  BY DEF Inv, OwnersInv
<1>4. OrphanInv'
  BY DEF Inv, OrphanInv, OrphanClause, Orphaned
<1> QED
  BY <1>1, <1>2, <1>3, <1>4 DEF Inv

\* Every step of a thread keeps Inv.
LEMMA HandleInv ==
  ASSUME TypeOK, Inv, NEW t \in Threads, Handle(t)
  PROVE  Inv'
<1> USE DEF TypeOK, StoreTypeOK, storeVars, brokerVars, historyVars, At,
            PreSubmission, Owning, BeforeSend, AfterSend
<1>1. ThreadInv(t) /\ (Orphaned => recon # "ok" /\ OrphanClause(t))
  BY DEF Inv, OrphanInv, OrphanClause
<1>2. CASE CheckKillSwitch(t)
  <2>1. PICK pc \in {"reconciliation", "reject"} : Goto(t, pc)
    BY <1>2 DEF CheckKillSwitch
  <2>2. threads'[t] = [threads[t] EXCEPT !.pc = pc] /\ \A u \in Threads \ {t} : threads'[u] = threads[u]
    BY <2>1, GotoType DEF Steps
  <2> QED
    BY <1>1, <1>2, <2>2, ThreadFrame DEF CheckKillSwitch, ThreadInv, OrphanClause, Thread
<1>3. CASE CheckReconciliation(t)
  <2>1. PICK pc \in {"positions", "reject"} : Goto(t, pc) /\ (pc = "positions" => recon = "ok")
    BY <1>3 DEF CheckReconciliation
  <2>2. threads'[t] = [threads[t] EXCEPT !.pc = pc] /\ \A u \in Threads \ {t} : threads'[u] = threads[u]
    BY <2>1, GotoType DEF Steps
  <2> QED
    BY <1>1, <1>3, <2>1, <2>2, ThreadFrame DEF CheckReconciliation, ThreadInv, OrphanClause, Thread
<1>4. CASE CheckPositionCount(t)
  <2>1. PICK pc \in {"submit", "reject"} : Goto(t, pc)
    BY <1>4 DEF CheckPositionCount
  <2>2. threads'[t] = [threads[t] EXCEPT !.pc = pc] /\ \A u \in Threads \ {t} : threads'[u] = threads[u]
    BY <2>1, GotoType DEF Steps
  <2> QED
    BY <1>1, <1>4, <2>2, ThreadFrame DEF CheckPositionCount, ThreadInv, OrphanClause, Thread
<1>5. CASE MatchPosition(t)
  <2>1. PICK pc \in {"submit", "reject"} : Goto(t, pc)
    BY <1>5 DEF MatchPosition
  <2>2. threads'[t] = [threads[t] EXCEPT !.pc = pc] /\ \A u \in Threads \ {t} : threads'[u] = threads[u]
    BY <2>1, GotoType DEF Steps
  <2> QED
    BY <1>1, <1>5, <2>2, ThreadFrame DEF MatchPosition, ThreadInv, OrphanClause, Thread
<1>6. CASE BackendRaises(t)
  BY <1>6, FinishType, ThreadFrame DEF BackendRaises, ThreadInv, OrphanClause, IdleThread
<1>7. CASE TerminalizeReject(t)
  <2>1. PICK id \in Ids : id = threads[t].id /\ RowInv(id)
    BY <1>7, WorkerFacts DEF TerminalizeReject, Inv
  <2>2. threads'[t] = IdleThread /\ \A u \in Threads \ {t} : threads'[u] = threads[u]
    BY <1>7, FinishType DEF TerminalizeReject
  <2>3. ThreadInv(t)' /\ OrphanClause(t)'
    BY <2>1, <2>2 DEF ThreadInv, OrphanClause, IdleThread
  <2>4. CASE TransitionRow(id, "received", "rejected", "pre_submission") /\ Tell(id, "denied")
    <3>1. /\ rows[id].state = "received"
          /\ rows'[id].state = "rejected"
          /\ rows'[id].hash = rows[id].hash
          /\ rows'[id].payload = rows[id].payload
          /\ rows'[id].error = "pre_submission"
          /\ \A other \in Ids \ {id} : rows'[other] = rows[other]
      BY <2>1, <2>4, UpdateRowType DEF TransitionRow, OrderStates, ErrorCodes, Payloads, Coalesce
    <3>2. told'[id] = told[id] \cup {"denied"} /\ \A other \in Ids \ {id} : told'[other] = told[other]
      BY <2>1, <2>4 DEF Tell
    <3>3. RowInv(id)'
      BY <1>7, <2>1, <3>1, <3>2 DEF TerminalizeReject, RowInv
    <3>4. \A u \in Threads \ {t} : threads[u].id = id => ThreadInv(u)'
      BY <1>7, <2>1, <2>2, <3>1 DEF TerminalizeReject, Inv, ThreadInv
    <3> QED
      BY <1>7, <2>1, <2>2, <2>3, <3>1, <3>2, <3>3, <3>4, RowFrame DEF TerminalizeReject, IdleThread
  <2>5. CASE UNCHANGED <<rows, told>>
    BY <1>7, <2>1, <2>2, <2>3, <2>5, ThreadFrame DEF TerminalizeReject, IdleThread
  <2> QED
    BY <1>7, <2>1, <2>4, <2>5 DEF TerminalizeReject
<1>8. CASE Submit(t)
  <2>1. PICK id \in Ids : id = threads[t].id /\ RowInv(id)
    BY <1>8, WorkerFacts DEF Submit, Inv
  <2>2. CASE TransitionRow(id, "received", "submitted", "none") /\ Goto(t, "journal")
    <3>1. /\ rows[id].state = "received"
          /\ rows'[id].state = "submitted"
          /\ rows'[id].hash = rows[id].hash
          /\ rows'[id].payload = rows[id].payload
          /\ rows'[id].error = rows[id].error
          /\ \A other \in Ids \ {id} : rows'[other] = rows[other]
      BY <2>1, <2>2, UpdateRowType DEF TransitionRow, OrderStates, ErrorCodes, Payloads, Coalesce
    <3>2. threads'[t] = [threads[t] EXCEPT !.pc = "journal"] /\ \A u \in Threads \ {t} : threads'[u] = threads[u]
      BY <2>2, GotoType DEF Steps
    <3>3. RowInv(id)'
      BY <1>8, <2>1, <3>1 DEF Submit, RowInv
    <3>4. ThreadInv(t)' /\ (Orphaned => OrphanClause(t)')
      BY <1>1, <1>8, <2>1, <3>1, <3>2 DEF Submit, RowInv, ThreadInv, OrphanClause, Thread
    <3>5. \A u \in Threads \ {t} : threads[u].id = id => ThreadInv(u)' /\ threads[u].pc \notin Owning
      BY <1>8, <2>1, <3>1, <3>2 DEF Submit, Inv, ThreadInv
    <3> QED
      BY <1>8, <2>1, <3>1, <3>2, <3>3, <3>4, <3>5, RowFrame DEF Submit, Thread
  <2>3. CASE UNCHANGED rows /\ Finish(t)
    BY <1>8, <2>1, <2>3, FinishType, ThreadFrame DEF Submit, ThreadInv, OrphanClause, IdleThread
  <2> QED
    BY <1>8, <2>1, <2>2, <2>3 DEF Submit
<1>9. CASE JournalSubmitting(t)
  <2>1. PICK id \in Ids : id = threads[t].id /\ RowInv(id)
    BY <1>9, WorkerFacts DEF JournalSubmitting, Inv
  <2>2. threads'[t] = [threads[t] EXCEPT !.pc = "send"] /\ \A u \in Threads \ {t} : threads'[u] = threads[u]
    BY <1>9, GotoType DEF JournalSubmitting, Steps
  <2>3. rows[id].state = "submitted" /\ \A other \in Ids \ {id} : journal'[other] = journal[other]
    BY <1>1, <2>1, <1>9 DEF JournalSubmitting, AppendJournal, ThreadInv
  <2>4. RowInv(id)'
    BY <1>9, <2>1, <2>3 DEF JournalSubmitting, RowInv
  <2>5. ThreadInv(t)' /\ (Orphaned => OrphanClause(t)')
    BY <1>1, <2>1, <1>9, <2>2 DEF JournalSubmitting, ThreadInv, OrphanClause, Thread
  <2>6. \A u \in Threads \ {t} : threads[u].id = id => ThreadInv(u)' /\ threads[u].pc \notin Owning
    BY <1>9, <2>1, <2>2 DEF JournalSubmitting, Inv, ThreadInv, OwnersInv
  <2> QED
    BY <1>9, <2>1, <2>2, <2>3, <2>4, <2>5, <2>6, RowFrame DEF JournalSubmitting, Thread
<1>10. CASE OrderSend(t)
  <2>1. PICK id \in Ids : id = threads[t].id /\ RowInv(id)
    BY <1>10, WorkerFacts DEF OrderSend, Inv
  <2>2. PICK pc \in AfterSend :
          /\ Goto(t, pc)
          /\ executed' = executed \/ executed' = executed \cup {id}
          /\ pc = "record_fill" => id \in executed'
          /\ pc = "record_reject" => executed' = executed
    BY <1>10, <2>1 DEF OrderSend, Execute
  <2>3. threads'[t] = [threads[t] EXCEPT !.pc = pc] /\ \A u \in Threads \ {t} : threads'[u] = threads[u]
    BY <2>2, GotoType DEF Steps
  <2>4. /\ rows[id].state = "submitted" /\ sends[id] = 0 /\ sends'[id] = 1
        /\ \A other \in Ids \ {id} : sends'[other] = sends[other]
    BY <1>1, <1>10, <2>1 DEF OrderSend, ThreadInv
  <2>5. id \notin executed
    BY <2>1, <2>4 DEF RowInv
  <2>6. RowInv(id)'
    BY <1>10, <2>1, <2>4 DEF OrderSend, RowInv
  <2>7. ThreadInv(t)' /\ (Orphaned => OrphanClause(t)')
    BY <1>1, <2>1, <1>10, <2>2, <2>3, <2>4, <2>5 DEF OrderSend, ThreadInv, OrphanClause, Thread
  <2>8. \A u \in Threads \ {t} : threads[u].id = id => ThreadInv(u)' /\ threads[u].pc \notin Owning
    BY <1>10, <2>1, <2>3, <2>4 DEF OrderSend, Inv, ThreadInv, OwnersInv
  <2> QED
    BY <1>10, <2>1, <2>2, <2>3, <2>4, <2>6, <2>7, <2>8, RowFrame DEF OrderSend, Thread
<1>11. CASE RecordFill(t)
  <2>1. PICK id \in Ids : id = threads[t].id /\ RowInv(id)
    BY <1>11, WorkerFacts DEF RecordFill, Inv
  <2>2. threads'[t] = [threads[t] EXCEPT !.pc = "audit"] /\ \A u \in Threads \ {t} : threads'[u] = threads[u]
    BY <1>11, GotoType DEF RecordFill, Steps
  <2>3. rows[id].state = "submitted" /\ sends[id] = 1 /\ id \in executed /\ leftover[id] # "submitted"
    BY <1>1, <2>1, <1>11 DEF RecordFill, ThreadInv
  <2>4. /\ rows'[id].state = "filled"
        /\ rows'[id].hash = rows[id].hash
        /\ rows'[id].payload = "stored"
        /\ rows'[id].error = rows[id].error
        /\ \A other \in Ids \ {id} : rows'[other] = rows[other]
    BY <1>11, <2>1, UpdateRowType DEF RecordFill, OrderStates, ErrorCodes, Payloads, Coalesce
  <2>5. RowInv(id)'
    BY <1>11, <2>1, <2>3, <2>4 DEF RecordFill, RowInv
  <2>6. ThreadInv(t)' /\ OrphanClause(t)'
    BY <1>1, <2>1, <1>11, <2>2, <2>4 DEF RecordFill, ThreadInv, OrphanClause, Thread
  <2>7. \A u \in Threads \ {t} : threads[u].id = id => ThreadInv(u)'
    BY <1>11, <2>1, <2>2, <2>3, <2>4 DEF RecordFill, Inv, ThreadInv, OwnersInv
  <2> QED
    BY <1>11, <2>1, <2>2, <2>4, <2>5, <2>6, <2>7, RowFrame DEF RecordFill, Thread
<1>12. CASE JournalFilled(t)
  <2>1. PICK id \in Ids : id = threads[t].id /\ RowInv(id)
    BY <1>12, WorkerFacts DEF JournalFilled, Inv
  <2>2. threads'[t] = IdleThread /\ \A u \in Threads \ {t} : threads'[u] = threads[u]
    BY <1>12, FinishType DEF JournalFilled
  <2>3. /\ rows[id].state = "filled"
        /\ told'[id] = told[id] \cup {"filled"}
        /\ \A other \in Ids \ {id} : told'[other] = told[other] /\ journal'[other] = journal[other]
    BY <1>1, <1>12, <2>1 DEF JournalFilled, ThreadInv, Tell, AppendJournal
  <2>4. RowInv(id)'
    BY <1>12, <2>1, <2>3 DEF JournalFilled, RowInv
  <2>5. ThreadInv(t)' /\ OrphanClause(t)'
    BY <2>1, <2>2 DEF ThreadInv, OrphanClause, IdleThread
  <2>6. \A u \in Threads \ {t} : threads[u].id = id => ThreadInv(u)'
    BY <1>12, <2>1, <2>2 DEF JournalFilled, Inv, ThreadInv
  <2> QED
    BY <1>12, <2>1, <2>2, <2>3, <2>4, <2>5, <2>6, RowFrame DEF JournalFilled, IdleThread
<1>13. CASE RecordReject(t)
  <2>1. PICK id \in Ids : id = threads[t].id /\ RowInv(id)
    BY <1>13, WorkerFacts DEF RecordReject, Inv
  <2>2. threads'[t] = IdleThread /\ \A u \in Threads \ {t} : threads'[u] = threads[u]
    BY <1>13, FinishType DEF RecordReject
  <2>3. rows[id].state = "submitted" /\ sends[id] = 1 /\ id \notin executed /\ leftover[id] # "submitted"
    BY <1>1, <2>1, <1>13 DEF RecordReject, ThreadInv
  <2>4. /\ rows'[id].state = "rejected"
        /\ rows'[id].hash = rows[id].hash
        /\ rows'[id].payload = rows[id].payload
        /\ rows'[id].error = "retcode"
        /\ \A other \in Ids \ {id} : rows'[other] = rows[other]
    BY <1>13, <2>1, UpdateRowType DEF RecordReject, OrderStates, ErrorCodes, Payloads, Coalesce
  <2>5. told'[id] = told[id] \cup {"refused"} /\ \A other \in Ids \ {id} : told'[other] = told[other]
    BY <1>13, <2>1 DEF RecordReject, Tell
  <2>6. RowInv(id)'
    BY <1>13, <2>1, <2>3, <2>4, <2>5 DEF RecordReject, RowInv
  <2>7. ThreadInv(t)' /\ OrphanClause(t)'
    BY <2>1, <2>2 DEF ThreadInv, OrphanClause, IdleThread
  <2>8. \A u \in Threads \ {t} : threads[u].id = id => ThreadInv(u)'
    BY <1>13, <2>1, <2>2, <2>3, <2>4 DEF RecordReject, Inv, ThreadInv, OwnersInv
  <2> QED
    BY <1>13, <2>1, <2>2, <2>4, <2>5, <2>6, <2>7, <2>8, RowFrame DEF RecordReject, IdleThread
<1>14. CASE JournalCrash(t)
  <2>1. PICK id \in Ids : id = threads[t].id /\ RowInv(id)
    BY <1>14, WorkerFacts DEF JournalCrash, Inv
  <2>2. threads'[t] = IdleThread /\ \A u \in Threads \ {t} : threads'[u] = threads[u]
    BY <1>14, FinishType DEF JournalCrash
  <2>3. rows[id].state = "submitted" /\ \A other \in Ids \ {id} : journal'[other] = journal[other]
    BY <1>1, <2>1, <1>14 DEF JournalCrash, AppendJournal, ThreadInv
  <2>4. RowInv(id)'
    BY <1>14, <2>1, <2>3 DEF JournalCrash, RowInv
  <2>5. ThreadInv(t)' /\ OrphanClause(t)'
    BY <2>1, <2>2 DEF ThreadInv, OrphanClause, IdleThread
  <2>6. \A u \in Threads \ {t} : threads[u].id = id => ThreadInv(u)'
    BY <1>14, <2>1, <2>2 DEF JournalCrash, Inv, ThreadInv
  <2> QED
    BY <1>14, <2>1, <2>2, <2>3, <2>4, <2>5, <2>6, RowFrame DEF JournalCrash, IdleThread
<1>15. CASE CheckEvidence(t)
  <2>1. CASE Goto(t, "abort")
    <3>1. threads'[t] = [threads[t] EXCEPT !.pc = "abort"] /\ \A u \in Threads \ {t} : threads'[u] = threads[u]
      BY <2>1, GotoType DEF Steps, Reconciling
    <3> QED
      BY <1>1, <1>15, <3>1, ThreadFrame DEF CheckEvidence, ThreadInv, OrphanClause, Thread
  <2>2. CASE Finish(t)
    BY <1>15, <2>2, FinishType, ThreadFrame DEF CheckEvidence, ThreadInv, OrphanClause, IdleThread
  <2> QED
    BY <1>15, <2>1, <2>2 DEF CheckEvidence
<1>16. CASE AbortReceived(t)
  <2>1. PICK id \in Ids : id = threads[t].id /\ RowInv(id)
    BY <1>16, WorkerFacts DEF AbortReceived, Inv
  <2>2. CASE TransitionRow(id, "received", "rejected", "aborted_before_submission") /\ Goto(t, "reconcile")
    <3>1. /\ rows[id].state = "received"
          /\ rows'[id].state = "rejected"
          /\ rows'[id].hash = rows[id].hash
          /\ rows'[id].payload = rows[id].payload
          /\ rows'[id].error = "aborted_before_submission"
          /\ \A other \in Ids \ {id} : rows'[other] = rows[other]
      BY <2>1, <2>2, UpdateRowType DEF TransitionRow, OrderStates, ErrorCodes, Payloads, Coalesce
    <3>2. threads'[t] = [threads[t] EXCEPT !.pc = "reconcile"] /\ \A u \in Threads \ {t} : threads'[u] = threads[u]
      BY <2>2, GotoType DEF Steps, Reconciling
    <3>3. RowInv(id)'
      BY <1>16, <2>1, <3>1 DEF AbortReceived, RowInv
    <3>4. ThreadInv(t)' /\ OrphanClause(t)'
      BY <2>1, <3>2 DEF ThreadInv, OrphanClause, Thread
    <3>5. \A u \in Threads \ {t} : threads[u].id = id => ThreadInv(u)'
      BY <1>16, <2>1, <3>1, <3>2 DEF AbortReceived, Inv, ThreadInv
    <3> QED
      BY <1>16, <2>1, <3>1, <3>2, <3>3, <3>4, <3>5, RowFrame DEF AbortReceived, Thread
  <2>3. CASE UNCHANGED rows /\ Finish(t)
    BY <1>16, <2>1, <2>3, FinishType, ThreadFrame DEF AbortReceived, ThreadInv, OrphanClause, IdleThread
  <2> QED
    BY <1>16, <2>1, <2>2, <2>3 DEF AbortReceived
<1>17. CASE ScanRows(t)
  <2>1. Orphaned => Incomplete # {}
    BY DEF Orphaned, Incomplete, Inv, RowInv
  <2>2. PICK verdict \in ReconStates :
           /\ verdict = "ok" => Incomplete = {}
           /\ threads'[t].pc = "persist"
           /\ threads'[t].verdict = verdict
           /\ threads'[t].req = threads[t].req
           /\ \A u \in Threads \ {t} : threads'[u] = threads[u]
    BY <1>17, ScanRowsType
  <2> QED
    BY <1>17, <2>1, <2>2, ThreadFrame DEF ScanRows, ThreadInv, OrphanClause
<1>18. CASE PersistReconciliation(t)
  <2>1. threads'[t] = IdleThread /\ \A u \in Threads \ {t} : threads'[u] = threads[u]
    BY <1>18, FinishType DEF PersistReconciliation
  <2>2. \A o \in Ids : RowInv(o)'
    BY <1>18 DEF PersistReconciliation, Inv, RowInv
  <2>3. \A u \in Threads : ThreadInv(u)'
    BY <1>18, <2>1 DEF PersistReconciliation, Inv, ThreadInv, IdleThread
  <2>4. OwnersInv'
    BY <2>1 DEF Inv, OwnersInv, IdleThread
  <2>5. OrphanInv'
    BY <1>1, <1>18, <2>1 DEF PersistReconciliation, Inv, OrphanInv, OrphanClause, Orphaned, IdleThread
  <2> QED
    BY <1>18, <2>2, <2>3, <2>4, <2>5 DEF PersistReconciliation, Inv
<1> QED
  BY <1>2, <1>3, <1>4, <1>5, <1>6, <1>7, <1>8, <1>9, <1>10, <1>11, <1>12, <1>13, <1>14, <1>15,
     <1>16, <1>17, <1>18 DEF Handle

LEMMA InitInv == Init => Inv
<1> SUFFICES ASSUME Init PROVE Inv
  OBVIOUS
<1> USE DEF Init, StoreInit
<1>1. ASSUME NEW id \in Ids PROVE RowInv(id)
  BY DEF RowInv, AbsentRow
<1>2. ASSUME NEW t \in Threads PROVE ThreadInv(t)
  BY DEF ThreadInv, IdleThread, PreSubmission, Owning, BeforeSend, AfterSend
<1>3. OwnersInv
  BY DEF OwnersInv, IdleThread, Owning, BeforeSend, AfterSend
<1>4. OrphanInv
  BY DEF OrphanInv, Orphaned
<1> QED
  BY <1>1, <1>2, <1>3, <1>4 DEF Inv

\* A request that arrives takes an idle thread, and maybe makes a row.
LEMMA BeginWriteInv ==
  ASSUME TypeOK, Inv, NEW t \in Threads, NEW id \in Ids, NEW req \in Requests,
         BeginWrite(t, id, req)
  PROVE  Inv'
<1> USE DEF TypeOK, StoreTypeOK, storeVars, brokerVars, historyVars, At,
            PreSubmission, Owning, BeforeSend, AfterSend
<1>1. PICK pc \in {"kill_switch", "match"} :
        /\ threads'[t].pc = pc
        /\ threads'[t].id = id
        /\ threads'[t].req = req
        /\ pc = "match" => req.action = "close"
        /\ \A u \in Threads \ {t} : threads'[u] = threads[u]
  <2>1. req.action # "open" => req.action = "close"
    BY DEF Requests, OpenRequests, CloseRequests
  <2> QED
    BY <2>1 DEF BeginWrite
<1>2. CASE InsertReceived(id, req)
  <2>1. /\ rows[id].state = "absent"
        /\ rows'[id].state = "received"
        /\ rows'[id].hash = req
        /\ rows'[id].payload = "none"
        /\ rows'[id].error = "none"
        /\ \A other \in Ids \ {id} : rows'[other] = rows[other]
    BY <1>2 DEF InsertReceived
  <2>2. RowInv(id)
    BY DEF Inv
  <2>3. RowInv(id)'
    BY <2>1, <2>2 DEF BeginWrite, RowInv
  <2>4. ThreadInv(t)' /\ OrphanClause(t)'
    BY <1>1, <2>1 DEF ThreadInv, OrphanClause
  <2>5. \A u \in Threads \ {t} : threads[u].id = id => ThreadInv(u)'
    BY <1>1, <2>1 DEF BeginWrite, Inv, ThreadInv
  <2> QED
    BY <1>1, <2>1, <2>3, <2>4, <2>5, RowFrame DEF BeginWrite
<1>3. CASE rows[id].state # "absent" /\ rows[id].hash = req /\ UNCHANGED rows
  <2>1. ThreadInv(t)' /\ OrphanClause(t)'
    BY <1>1, <1>3 DEF ThreadInv, OrphanClause
  <2> QED
    BY <1>1, <1>3, <2>1, ThreadFrame DEF BeginWrite
<1> QED
  BY <1>2, <1>3 DEF BeginWrite

\* A replay tells again what a FILLED row already means.
LEMMA ReplayResultInv ==
  ASSUME TypeOK, Inv, NEW t \in Threads, NEW id \in Ids, NEW req \in Requests,
         ReplayResult(t, id, req)
  PROVE  Inv'
<1> USE DEF TypeOK, StoreTypeOK, storeVars, brokerVars, historyVars, At, ReplayResult
<1>1. /\ told'[id] = told[id] \cup {"filled"}
      /\ \A other \in Ids \ {id} : told'[other] = told[other]
  BY DEF Tell
<1>2. RowInv(id)
  BY DEF Inv
<1>3. RowInv(id)'
  BY <1>1, <1>2 DEF RowInv
<1>4. \A o \in Ids : RowInv(o)'
  BY <1>1, <1>3 DEF Inv, RowInv
<1>5. \A u \in Threads : ThreadInv(u)'
  BY DEF Inv, ThreadInv
<1>6. OwnersInv' /\ OrphanInv'
  BY DEF Inv, OwnersInv, OrphanInv, Orphaned
<1> QED
  BY <1>4, <1>5, <1>6 DEF Inv

\* Starting over an incomplete row leaves reconciliation not OK.
LEMMA StartBridgeInv ==
  ASSUME TypeOK, Inv, StartBridge
  PROVE  Inv'
<1> USE DEF TypeOK, StoreTypeOK, storeVars, brokerVars, historyVars, StartBridge
<1>1. \A id \in Ids : leftover'[id] = "submitted" => rows[id].state = "submitted"
  BY DEF Incomplete
<1>2. \A id \in Ids : RowInv(id)'
  BY <1>1 DEF Inv, RowInv
<1>3. \A t \in Threads : threads'[t] = IdleThread
  BY DEF Inv
<1>4. \A t \in Threads : ThreadInv(t)'
  BY <1>3 DEF ThreadInv, IdleThread, PreSubmission, Owning, BeforeSend, AfterSend
<1>5. OwnersInv'
  BY <1>3 DEF OwnersInv, IdleThread, Owning, BeforeSend, AfterSend
<1>6. OrphanInv'
  <2>1. Orphaned' => Incomplete # {}
    BY <1>1 DEF Orphaned, Incomplete
  <2>2. Orphaned' => recon' # "ok"
    BY <2>1 DEF Verdict
  <2> QED
    BY <1>3, <2>2 DEF OrphanInv, IdleThread, BeforeSend
<1> QED
  BY <1>2, <1>4, <1>5, <1>6 DEF Inv

-----------------------------------------------------------------------------
\* Inv is inductive.
LEMMA InvStep == TypeOK /\ Inv /\ [Next]_vars => Inv'
<1> SUFFICES ASSUME TypeOK, Inv, [Next]_vars PROVE Inv'
  OBVIOUS
<1> USE DEF storeVars, brokerVars, historyVars
<1>1. ASSUME NEW t \in Threads, Handle(t) PROVE Inv'
  BY <1>1, HandleInv
<1>2. ASSUME NEW t \in Threads, NEW id \in Ids, NEW req \in Requests,
             BeginWrite(t, id, req) \/ ReplayResult(t, id, req)
      PROVE  Inv'
  BY <1>2, BeginWriteInv, ReplayResultInv
<1>3. ASSUME NEW t \in Threads, NEW id \in Ids, StartResolve(t, id) PROVE Inv'
  <2>1. /\ threads'[t].pc = "evidence"
        /\ threads'[t].id = id
        /\ \A u \in Threads \ {t} : threads'[u] = threads[u]
    BY <1>3 DEF StartResolve, IdleThread, TypeOK
  <2>2. ThreadInv(t)' /\ OrphanClause(t)' /\ threads'[t].pc \notin Owning
    BY <2>1 DEF ThreadInv, OrphanClause, PreSubmission, Owning, BeforeSend, AfterSend
  <2> QED
    BY <1>3, <2>1, <2>2, ThreadFrame DEF StartResolve, At
<1>4. ASSUME NEW t \in Threads, StartReconciliation(t) PROVE Inv'
  <2>1. threads'[t] = [threads[t] EXCEPT !.pc = "reconcile"] /\ \A u \in Threads \ {t} : threads'[u] = threads[u]
    BY <1>4, GotoType DEF StartReconciliation, TypeOK, Steps, Reconciling
  <2>2. threads'[t].pc = "reconcile"
    BY <2>1 DEF TypeOK, Thread
  <2>3. ThreadInv(t)' /\ OrphanClause(t)' /\ threads'[t].pc \notin Owning
    BY <2>2 DEF ThreadInv, OrphanClause, PreSubmission, Owning, BeforeSend, AfterSend
  <2> QED
    BY <1>4, <2>1, <2>3, ThreadFrame DEF StartReconciliation, At
<1>5. ASSUME UNCHANGED <<rows, journal, recon, sends, executed, told, leftover>>,
             UNCHANGED <<up, threads>>
      PROVE  Inv'
  BY <1>5 DEF Inv, RowInv, ThreadInv, OwnersInv, OrphanInv, Orphaned
<1>6. ASSUME NEW status \in {"active", "inactive"}, SetKillSwitch(status) PROVE Inv'
  BY <1>5, <1>6 DEF SetKillSwitch
<1>7. CASE Crash
  <2>1. \A t \in Threads : threads'[t] = IdleThread
    BY <1>7 DEF Crash
  <2>2. \A id \in Ids : RowInv(id)'
    BY <1>7 DEF Crash, Inv, RowInv
  <2>3. \A t \in Threads : ThreadInv(t)'
    BY <2>1 DEF ThreadInv, IdleThread, PreSubmission, Owning, BeforeSend, AfterSend
  <2>4. OwnersInv'
    BY <2>1 DEF OwnersInv, IdleThread, Owning, BeforeSend, AfterSend
  <2>5. OrphanInv'
    BY <1>7, <2>1 DEF Crash, Inv, OrphanInv, Orphaned, IdleThread, BeforeSend
  <2> QED
    BY <2>1, <2>2, <2>3, <2>4, <2>5 DEF Inv
<1>8. CASE StartBridge
  BY <1>8, StartBridgeInv
<1>9. CASE TerminalChanges
  BY <1>5, <1>9 DEF TerminalChanges
<1>10. CASE UNCHANGED vars
  BY <1>5, <1>10 DEF vars
<1> QED
  BY <1>1, <1>2, <1>3, <1>4, <1>6, <1>7, <1>8, <1>9, <1>10 DEF Next, Request

\* The state of the bridge always has its type: the store's rows and journal,
\* the threads, the broker's books and the history are what they should be.
THEOREM TypeInvariant == Spec => []TypeOK
<1>1. Init => TypeOK /\ Inv
  BY InitType, InitInv
<1>2. TypeOK /\ Inv /\ [Next]_vars => (TypeOK /\ Inv)'
  BY TypeStep, InvStep
<1> QED
  BY <1>1, <1>2, PTL DEF Spec

\* What each row and each thread tells of the broker and of the callers holds
\* in every reachable state, whatever the interleaving, faults and restarts.
THEOREM Invariant == Spec => []Inv
<1>1. Init => TypeOK /\ Inv
  BY InitType, InitInv
<1>2. TypeOK /\ Inv /\ [Next]_vars => (TypeOK /\ Inv)'
  BY TypeStep, InvStep
<1> QED
  BY <1>1, <1>2, PTL DEF Spec

-----------------------------------------------------------------------------
\* Idempotency before MT5: no mix of concurrent requests, retries,
\* resolutions and restarts sends the order of a client_order_id twice.
THEOREM SentOnce == Spec => []AtMostOneSend
<1>1. Inv => AtMostOneSend
  BY DEF Inv, RowInv, AtMostOneSend
<1> QED
  BY <1>1, Invariant, PTL

\* Denied, refused and filled mean, for ever, what they say.
THEOREM AnswersAreTrue == Spec => []DefiniteAnswers
<1>1. Inv => DefiniteAnswers
  BY DEF Inv, RowInv, DefiniteAnswers
<1> QED
  BY <1>1, Invariant, PTL

\* An executed order is never written off as rejected.
THEOREM DealsAreKept == Spec => []NoLostDeal
<1>1. TypeOK /\ Inv => NoLostDeal
  <2> SUFFICES ASSUME TypeOK, Inv, NEW id \in executed
               PROVE  rows[id].state \in {"submitted", "filled"}
    BY DEF NoLostDeal
  <2>1. id \in Ids /\ rows[id].state \in OrderStates \cup {"absent"}
    BY DEF TypeOK, StoreTypeOK, Row
  <2>2. RowInv(id)
    BY <2>1 DEF Inv
  <2> QED
    BY <2>1, <2>2 DEF RowInv, OrderStates
<1> QED
  BY <1>1, Invariant, TypeInvariant, PTL

\* resolve_received_attempt may take a RECEIVED row for an unsent order.
THEOREM ReceivedWasNotSent == Spec => []ReceivedIsPreSubmission
<1>1. Inv => ReceivedIsPreSubmission
  BY DEF Inv, RowInv, ReceivedIsPreSubmission
<1> QED
  BY <1>1, Invariant, PTL

\* The outcome of a submitted order is written by its one owner.
THEOREM OwnerIsUnique == Spec => []OneOwner
<1>1. Inv => OneOwner
  BY DEF Inv, ThreadInv, OwnersInv, OneOwner
<1> QED
  BY <1>1, Invariant, PTL

-----------------------------------------------------------------------------
(***************************************************************************)
(* What a step may do to the rows, and that every step is a ledger step.   *)
(***************************************************************************)

\* A step that writes one row which is not terminal, keeping its request.
LEMMA RowWritten ==
  ASSUME NEW id \in Ids, rows[id].state \notin {"filled", "rejected"},
         rows'[id].hash = rows[id].hash,
         \A other \in Ids \ {id} : rows'[other] = rows[other]
  PROVE  \A o \in Ids :
           /\ rows[o].state \in {"filled", "rejected"} => rows'[o] = rows[o]
           /\ rows[o].state # "absent" => rows'[o].hash = rows[o].hash
  OBVIOUS

LEMMA TerminalStep ==
  ASSUME TypeOK, Inv, [Next]_vars
  PROVE  \A o \in Ids :
           /\ rows[o].state \in {"filled", "rejected"} => rows'[o] = rows[o]
           /\ rows[o].state # "absent" => rows'[o].hash = rows[o].hash
<1> DEFINE Kept == \A o \in Ids :
             /\ rows[o].state \in {"filled", "rejected"} => rows'[o] = rows[o]
             /\ rows[o].state # "absent" => rows'[o].hash = rows[o].hash
<1>1. rows \in [Ids -> Row]
  BY DEF TypeOK, StoreTypeOK
<1>2. CASE UNCHANGED rows
  BY <1>2
<1>3. ASSUME NEW t \in Threads, NEW id \in Ids, NEW state \in OrderStates, NEW payload \in Payloads,
             NEW error \in ErrorCodes, UpdateRow(id, state, payload, error),
             rows[id].state \in {"received", "submitted"}
      PROVE  Kept
  BY <1>1, <1>3, UpdateRowType, RowWritten
<1>4. ASSUME NEW t \in Threads, Handle(t) PROVE Kept
  <2> USE DEF OrderStates, Payloads, ErrorCodes, PreSubmission, Owning, BeforeSend, AfterSend
  <2>1. CASE UNCHANGED rows
    BY <1>2, <2>1
  <2>2. CASE TerminalizeReject(t) \/ Submit(t) \/ AbortReceived(t)
    <3>1. threads[t].id \in Ids
      BY <2>2, WorkerFacts DEF TerminalizeReject, Submit, AbortReceived, At
    <3> QED
      BY <1>2, <1>3, <2>2, <3>1 DEF TerminalizeReject, Submit, AbortReceived, TransitionRow
  <2>3. CASE RecordFill(t) \/ RecordReject(t)
    <3>1. threads[t].id \in Ids
      BY <2>3, WorkerFacts DEF RecordFill, RecordReject, At
    <3>2. rows[threads[t].id].state = "submitted"
      BY <2>3 DEF RecordFill, RecordReject, At, Inv, ThreadInv
    <3> QED
      BY <1>3, <2>3, <3>1, <3>2 DEF RecordFill, RecordReject
  <2> QED
    BY <1>4, <2>1, <2>2, <2>3
    DEF Handle, CheckKillSwitch, CheckReconciliation, CheckPositionCount, MatchPosition,
        BackendRaises, JournalSubmitting, OrderSend, JournalFilled, JournalCrash, CheckEvidence,
        ScanRows, PersistReconciliation, storeVars
<1>5. ASSUME NEW t \in Threads, NEW id \in Ids, NEW req \in Requests, BeginWrite(t, id, req)
      PROVE  Kept
  BY <1>1, <1>2, <1>5 DEF BeginWrite, InsertReceived
<1> QED
  BY <1>2, <1>4, <1>5
  DEF Next, Request, ReplayResult, StartResolve, StartReconciliation, SetKillSwitch, Crash,
      StartBridge, TerminalChanges, vars, storeVars

\* A FILLED or REJECTED row is final, and a row keeps its request for life.
THEOREM TerminalRowsAreFinal == Spec => TerminalIsFinal
<1>1. TypeOK /\ Inv /\ [Next]_vars =>
        [\A id \in Ids :
           /\ rows[id].state \in {"filled", "rejected"} => rows'[id] = rows[id]
           /\ rows[id].state # "absent" => rows'[id].hash = rows[id].hash]_rows
  BY TerminalStep
<1> QED
  BY <1>1, TypeInvariant, Invariant, PTL DEF Spec, TerminalIsFinal

\* Only order_send counts a send, of the order of the thread that calls it.
LEMMA SendStep ==
  ASSUME TypeOK, Inv, [Next]_vars, NEW id \in Ids, Orphaned, sends'[id] # sends[id]
  PROVE  rows[id].hash.action = "close"
<1>1. PICK t \in Threads : OrderSend(t)
  BY DEF Next, Handle, Request, CheckKillSwitch, CheckReconciliation, CheckPositionCount,
         MatchPosition, BackendRaises, TerminalizeReject, Submit, JournalSubmitting, RecordFill,
         JournalFilled, RecordReject, JournalCrash, CheckEvidence, AbortReceived, ScanRows,
         PersistReconciliation, BeginWrite, ReplayResult, StartResolve, StartReconciliation,
         SetKillSwitch, Crash, StartBridge, TerminalChanges, vars, historyVars
<1>2. threads[t].pc = "send" /\ threads[t].id = id
  BY <1>1 DEF OrderSend, At, TypeOK
<1>3. rows[id].hash = threads[t].req /\ threads[t].req.action = "close"
  BY <1>2 DEF Inv, ThreadInv, OrphanInv, Owning, BeforeSend
<1> QED
  BY <1>3

\* Once the bridge has started over an order of unknown outcome, it sends no
\* opening order.
THEOREM OrphanKeepsOpensOut == Spec => NoOpenAfterOrphan
<1>1. TypeOK /\ Inv /\ [Next]_vars =>
        [\A id \in Ids : Orphaned /\ sends'[id] # sends[id] => rows[id].hash.action = "close"]_sends
  BY SendStep
<1> QED
  BY <1>1, TypeInvariant, Invariant, PTL DEF Spec, NoOpenAfterOrphan

-----------------------------------------------------------------------------
(***************************************************************************)
(* The write path implements the ledger.                                   *)
(***************************************************************************)
LEMMA LedgerInitial == Init => Ledger!LedgerInit
  BY DEF Init, StoreInit, AbsentRow, PhaseOf, Ledger!LedgerInit

\* A row that is written moves the phase of its id and of no other.
LEMMA PhaseMoves ==
  ASSUME NEW id \in Ids, NEW from, NEW to, PhaseOf(id) = from, PhaseOf(id)' = to,
         \A other \in Ids \ {id} : rows'[other] = rows[other]
  PROVE  Ledger!Move(id, from, to)
<1>1. \A other \in Ids \ {id} : PhaseOf(other)' = PhaseOf(other)
  BY DEF PhaseOf
<1> QED
  BY <1>1 DEF Ledger!Move

\* Every step of a thread is a step of the ledger or hidden from it.
LEMMA HandleLedger ==
  ASSUME TypeOK, Inv, NEW t \in Threads, Handle(t)
  PROVE  Ledger!LedgerNext \/ UNCHANGED Ledger!ledgerVars
<1> USE DEF storeVars, brokerVars, historyVars, At, PreSubmission, Owning, BeforeSend, AfterSend,
            OrderStates, Payloads, ErrorCodes
<1>1. rows \in [Ids -> Row] /\ threads \in [Threads -> Thread] /\ ThreadInv(t)
  BY DEF TypeOK, StoreTypeOK, Inv
<1>2. ASSUME UNCHANGED <<rows, sends, executed, told>> PROVE UNCHANGED Ledger!ledgerVars
  BY <1>2 DEF Ledger!ledgerVars, PhaseOf
<1>3. CASE TerminalizeReject(t)
  <2>1. PICK id \in Ids : id = threads[t].id /\ RowInv(id)
    BY <1>3, WorkerFacts DEF TerminalizeReject, Inv
  <2>2. CASE TransitionRow(id, "received", "rejected", "pre_submission") /\ Tell(id, "denied")
    <3>1. Ledger!Move(id, "accepted", "void")
      BY <1>1, <2>1, <2>2, UpdateRowType, PhaseMoves DEF TransitionRow, PhaseOf, Coalesce, RowInv
    <3> QED
      BY <1>3, <2>2, <3>1 DEF TerminalizeReject, Tell, Ledger!Void, Ledger!LedgerNext
  <2> QED
    BY <1>2, <1>3, <2>1, <2>2 DEF TerminalizeReject
<1>4. CASE Submit(t)
  <2>1. PICK id \in Ids : id = threads[t].id /\ RowInv(id)
    BY <1>4, WorkerFacts DEF Submit, Inv
  <2>2. CASE TransitionRow(id, "received", "submitted", "none")
    <3>1. Ledger!Move(id, "accepted", "submitted")
      BY <1>1, <2>1, <2>2, UpdateRowType, PhaseMoves DEF TransitionRow, PhaseOf
    <3> QED
      BY <1>4, <3>1 DEF Submit, Ledger!Commit, Ledger!LedgerNext
  <2> QED
    BY <1>2, <1>4, <2>1, <2>2 DEF Submit
<1>5. CASE OrderSend(t)
  <2>1. PICK id \in Ids : id = threads[t].id
    BY <1>5, WorkerFacts DEF OrderSend
  <2>2. PhaseOf(id) = "submitted" /\ sends[id] = 0
    BY <1>1, <1>5, <2>1 DEF OrderSend, ThreadInv, PhaseOf
  <2>3. sends' = [sends EXCEPT ![id] = 1]
    BY <1>5, <2>1, <2>2 DEF OrderSend
  <2>4. executed' \in {executed, executed \cup {id}}
    BY <1>5, <2>1 DEF OrderSend, Execute
  <2>5. UNCHANGED <<rows, told>>
    BY <1>5 DEF OrderSend
  <2>6. [o \in Ids |-> PhaseOf(o)]' = [o \in Ids |-> PhaseOf(o)]
    BY <2>5 DEF PhaseOf
  <2> QED
    BY <2>2, <2>3, <2>4, <2>5, <2>6 DEF Ledger!Send, Ledger!LedgerNext
<1>6. CASE RecordFill(t)
  <2>1. PICK id \in Ids : id = threads[t].id /\ RowInv(id)
    BY <1>6, WorkerFacts DEF RecordFill, Inv
  <2>2. rows[id].state = "submitted" /\ id \in executed
    BY <1>1, <1>6, <2>1 DEF RecordFill, ThreadInv
  <2>3. Ledger!Move(id, "submitted", "filled")
    BY <1>1, <1>6, <2>1, <2>2, UpdateRowType, PhaseMoves DEF RecordFill, PhaseOf
  <2> QED
    BY <1>6, <2>2, <2>3 DEF RecordFill, Ledger!SettleFilled, Ledger!LedgerNext
<1>7. CASE JournalFilled(t)
  <2>1. PICK id \in Ids : id = threads[t].id
    BY <1>7, WorkerFacts DEF JournalFilled
  <2>2. PhaseOf(id) = "filled"
    BY <1>1, <1>7, <2>1 DEF JournalFilled, ThreadInv, PhaseOf
  <2>3. [o \in Ids |-> PhaseOf(o)]' = [o \in Ids |-> PhaseOf(o)]
    BY <1>7 DEF JournalFilled, PhaseOf
  <2> QED
    BY <1>7, <2>1, <2>2, <2>3 DEF JournalFilled, Tell, Ledger!AnswerFilled, Ledger!LedgerNext
<1>8. CASE RecordReject(t)
  <2>1. PICK id \in Ids : id = threads[t].id /\ RowInv(id)
    BY <1>8, WorkerFacts DEF RecordReject, Inv
  <2>2. rows[id].state = "submitted" /\ sends[id] = 1 /\ id \notin executed
    BY <1>1, <1>8, <2>1 DEF RecordReject, ThreadInv
  <2>3. Ledger!Move(id, "submitted", "refused")
    BY <1>1, <1>8, <2>1, <2>2, UpdateRowType, PhaseMoves DEF RecordReject, PhaseOf, Coalesce
  <2> QED
    BY <1>8, <2>1, <2>2, <2>3 DEF RecordReject, Tell, Ledger!SettleRefused, Ledger!LedgerNext
<1>9. CASE AbortReceived(t)
  <2>1. PICK id \in Ids : id = threads[t].id /\ RowInv(id)
    BY <1>9, WorkerFacts DEF AbortReceived, Inv
  <2>2. CASE TransitionRow(id, "received", "rejected", "aborted_before_submission")
    <3>1. Ledger!Move(id, "accepted", "void")
      BY <1>1, <2>1, <2>2, UpdateRowType, PhaseMoves DEF TransitionRow, PhaseOf, Coalesce, RowInv
    <3> QED
      BY <1>9, <3>1 DEF AbortReceived, Ledger!Void, Ledger!LedgerNext
  <2> QED
    BY <1>2, <1>9, <2>1, <2>2 DEF AbortReceived
<1> QED
  BY <1>2, <1>3, <1>4, <1>5, <1>6, <1>7, <1>8, <1>9
  DEF Handle, CheckKillSwitch, CheckReconciliation, CheckPositionCount, MatchPosition,
      BackendRaises, JournalSubmitting, JournalCrash, CheckEvidence, ScanRows,
      PersistReconciliation

\* ... and so is every other step.
LEMMA LedgerStep ==
  ASSUME TypeOK, Inv, [Next]_vars
  PROVE  [Ledger!LedgerNext]_Ledger!ledgerVars
<1> USE DEF storeVars, brokerVars, historyVars
<1>1. ASSUME UNCHANGED <<rows, sends, executed, told>> PROVE UNCHANGED Ledger!ledgerVars
  BY <1>1 DEF Ledger!ledgerVars, PhaseOf
<1>2. ASSUME NEW t \in Threads, NEW id \in Ids, NEW req \in Requests, BeginWrite(t, id, req)
      PROVE  [Ledger!LedgerNext]_Ledger!ledgerVars
  <2>1. CASE InsertReceived(id, req)
    <3>1. rows \in [Ids -> Row]
      BY DEF TypeOK, StoreTypeOK
    <3>2. Ledger!Move(id, "new", "accepted")
      BY <2>1, <3>1, PhaseMoves DEF InsertReceived, PhaseOf
    <3> QED
      BY <1>2, <3>2 DEF BeginWrite, Ledger!Accept, Ledger!LedgerNext
  <2> QED
    BY <1>1, <1>2, <2>1 DEF BeginWrite
<1>3. ASSUME NEW t \in Threads, NEW id \in Ids, NEW req \in Requests, ReplayResult(t, id, req)
      PROVE  [Ledger!LedgerNext]_Ledger!ledgerVars
  <2>1. RowInv(id)
    BY DEF Inv
  <2>2. PhaseOf(id) = "filled"
    BY <1>3, <2>1 DEF ReplayResult, RowInv, PhaseOf
  <2>3. [o \in Ids |-> PhaseOf(o)]' = [o \in Ids |-> PhaseOf(o)]
    BY <1>3 DEF ReplayResult, PhaseOf
  <2> QED
    BY <1>3, <2>2, <2>3 DEF ReplayResult, Tell, Ledger!AnswerFilled, Ledger!LedgerNext
<1>4. CASE UNCHANGED <<rows, sends, executed, told>>
  BY <1>1, <1>4
<1>5. ASSUME NEW t \in Threads, Handle(t) PROVE [Ledger!LedgerNext]_Ledger!ledgerVars
  BY <1>5, HandleLedger
<1> QED
  BY <1>2, <1>3, <1>4, <1>5
  DEF Next, Request, StartResolve, StartReconciliation, SetKillSwitch, Crash, StartBridge,
      TerminalChanges, vars

\* The bridge's write path, with all its threads, crashes and retries, does
\* to each order only what the ledger allows.
THEOREM BridgeImplementsLedger == Spec => LedgerRefined
<1>1. Init => Ledger!LedgerInit
  BY LedgerInitial
<1>2. TypeOK /\ Inv /\ [Next]_vars => [Ledger!LedgerNext]_Ledger!ledgerVars
  BY LedgerStep
<1> QED
  BY <1>1, <1>2, TypeInvariant, Invariant, PTL DEF Spec, LedgerRefined, Ledger!LedgerSpec

=============================================================================
