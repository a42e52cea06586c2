------------------------- MODULE DemoBridgeGatesProofs -------------------------
(***************************************************************************)
(* Proofs about the gates of opening orders, for any number of threads,    *)
(* ids and kinds of order: each order sent had all of its gates open, and  *)
(* the position limit holds where the repository can be held to it.        *)
(***************************************************************************)
EXTENDS DemoBridgeGates, DemoBridgeProofs, FiniteSetTheorems

\* A request past a gate has it among those that held.
GateInv(t) ==
    LET pc == threads[t].pc
    IN  Opening(t) =>
          /\ "demo" \in gates[t]
          /\ pc \in {"reconciliation", "positions", "submit"} \cup BeforeSend => "switch" \in gates[t]
          /\ pc \in {"positions", "submit"} \cup BeforeSend => "report" \in gates[t]
          /\ pc \in {"submit"} \cup BeforeSend => "count" \in gates[t]

GatesInv == /\ gates \in [Threads -> SUBSET AllGates]
            /\ \A t \in Threads : GateInv(t)

\* The write path does not see the history variables.
LEMMA GatesSpecIsSpec == GatesSpec => [](TypeOK /\ Inv)
<1>1. GatesInit => Init  BY DEF GatesInit
<1>2. [GatesNext]_gateVars => [Next]_vars  BY DEF GatesNext, gateVars
<1>3. Init => TypeOK /\ Inv  BY InitType, InitInv
<1>4. TypeOK /\ Inv /\ [Next]_vars => (TypeOK /\ Inv)'  BY TypeStep, InvStep
<1> QED  BY <1>1, <1>2, <1>3, <1>4, PTL DEF GatesSpec

\* How a thread comes to stand where it does with an opening order: it stood
\* there, or it took one step towards sending it, past the gate in between.
OpeningStep(t) ==
    LET from == threads[t].pc
        to   == threads'[t].pc
    IN  \/ threads'[t] = threads[t]
        \/ ~Opening(t) /\ to = "kill_switch" /\ account' = "demo"
        \/ Opening(t) /\ to = "reject"
        \/ Opening(t) /\ from = "kill_switch" /\ to = "reconciliation" /\ killSwitch' = "inactive"
        \/ Opening(t) /\ from = "reconciliation" /\ to = "positions" /\ recon' = "ok"
        \/ /\ Opening(t) /\ from = "positions" /\ to = "submit"
           /\ Cardinality(VisiblePositions) < MaxPositions /\ UNCHANGED brokerVars
        \/ Opening(t) /\ from \in {"submit", "journal"} /\ to \in BeforeSend

LEMMA OpeningSteps ==
  ASSUME TypeOK, Inv, Next, NEW t \in Threads, Opening(t)'
  PROVE  OpeningStep(t)
<1> USE DEF TypeOK, StoreTypeOK, storeVars, brokerVars, historyVars
<1>1. /\ threads'[t].pc \in PreSubmission \cup BeforeSend
      /\ threads'[t].req.action = "open"
  BY DEF Opening
<1>2. IdleThread.pc \notin PreSubmission \cup BeforeSend
  BY DEF IdleThread, PreSubmission, BeforeSend
<1>3. threads[t].pc = "match" => threads[t].req.action = "close"
  BY DEF Inv, ThreadInv
<1>4. ASSUME NEW pc \in Steps, Goto(t, pc)
      PROVE  /\ threads'[t].pc = pc
             /\ threads[t].pc \in PreSubmission \cup BeforeSend => Opening(t)
  <2>1. threads'[t] = [threads[t] EXCEPT !.pc = pc] /\ threads[t] \in Thread
    BY <1>4, GotoType
  <2>2. threads'[t].pc = pc /\ threads'[t].req = threads[t].req
    BY <2>1 DEF Thread
  <2> QED  BY <1>1, <2>2 DEF Opening
<1>5. ASSUME NEW u \in Threads \ {t}, Handle(u) \/ Request(u)
      PROVE  threads'[t] = threads[t]
  <2>1. CASE Handle(u)
    BY <1>5, <2>1
    DEF Handle, CheckKillSwitch, CheckReconciliation, CheckPositionCount, MatchPosition,
        BackendRaises, TerminalizeReject, Submit, JournalSubmitting, OrderSend, RecordFill,
        JournalFilled, RecordReject, JournalCrash, CheckEvidence, AbortReceived, ScanRows,
        PersistReconciliation, Goto, Finish
  <2>2. CASE Request(u)
    BY <1>5, <2>2
    DEF Request, BeginWrite, ReplayResult, StartResolve, StartReconciliation, Goto
  <2> QED  BY <1>5, <2>1, <2>2
<1>6. CASE Handle(t)
  <2> USE DEF At, PreSubmission, BeforeSend, Owning, AfterSend, Reconciling, Steps
  <2>1. CASE CheckKillSwitch(t)
    BY <1>4, <2>1 DEF CheckKillSwitch, OpeningStep
  <2>2. CASE CheckReconciliation(t)
    BY <1>4, <2>2 DEF CheckReconciliation, OpeningStep
  <2>3. CASE CheckPositionCount(t)
    BY <1>4, <2>3 DEF CheckPositionCount, OpeningStep
  <2>4. CASE MatchPosition(t)
    <3>1. PICK pc \in {"submit", "reject"} : Goto(t, pc)
      BY <2>4 DEF MatchPosition
    <3>2. threads'[t] = [threads[t] EXCEPT !.pc = pc] /\ threads[t] \in Thread
      BY <3>1, GotoType
    <3>3. threads'[t].req = threads[t].req
      BY <3>2 DEF Thread
    <3> QED  BY <1>1, <1>3, <2>4, <3>3 DEF MatchPosition
  <2>5. CASE Submit(t)
    BY <1>1, <1>2, <1>4, <2>5, FinishType DEF Submit, OpeningStep
  <2>6. CASE JournalSubmitting(t)
    BY <1>4, <2>6 DEF JournalSubmitting, OpeningStep
  <2>7. CASE \/ BackendRaises(t) \/ TerminalizeReject(t) \/ JournalFilled(t)
             \/ RecordReject(t) \/ JournalCrash(t) \/ PersistReconciliation(t)
    <3>1. Finish(t)
      BY <2>7 DEF BackendRaises, TerminalizeReject, JournalFilled, RecordReject, JournalCrash,
                  PersistReconciliation
    <3> QED  BY <1>1, <1>2, <3>1, FinishType
  <2>8. CASE OrderSend(t) \/ RecordFill(t) \/ CheckEvidence(t) \/ AbortReceived(t)
    BY <1>1, <1>2, <1>4, <2>8, FinishType
    DEF OrderSend, RecordFill, CheckEvidence, AbortReceived
  <2>9. CASE ScanRows(t)
    BY <1>1, <2>9, ScanRowsType
  <2> QED
    BY <1>6, <2>1, <2>2, <2>3, <2>4, <2>5, <2>6, <2>7, <2>8, <2>9 DEF Handle
<1>7. CASE Request(t)
  <2>1. ASSUME NEW id \in Ids, NEW req \in Requests, BeginWrite(t, id, req)
        PROVE  OpeningStep(t)
    <3>1. threads'[t].pc = (IF req.action = "open" THEN "kill_switch" ELSE "match")
          /\ threads'[t].req = req
      BY <2>1 DEF BeginWrite
    <3>2. ~Opening(t) /\ account' = "demo"
      BY <2>1 DEF BeginWrite, Opening, At, PreSubmission, BeforeSend
    <3> QED  BY <1>1, <3>1, <3>2 DEF OpeningStep
  <2>2. ASSUME NEW id \in Ids, NEW req \in Requests, ReplayResult(t, id, req)
        PROVE  OpeningStep(t)
    BY <2>2 DEF ReplayResult, OpeningStep
  <2>3. ASSUME NEW id \in Ids, StartResolve(t, id)
        PROVE  OpeningStep(t)
    BY <1>1, <2>3 DEF StartResolve, IdleThread, PreSubmission, BeforeSend
  <2>4. CASE StartReconciliation(t)
    BY <1>1, <1>4, <2>4 DEF StartReconciliation, Steps, Reconciling, PreSubmission, BeforeSend
  <2> QED  BY <1>7, <2>1, <2>2, <2>3, <2>4 DEF Request
<1>8. CASE Crash
  BY <1>1, <1>2, <1>8 DEF Crash
<1>9. CASE \/ StartBridge \/ TerminalChanges
           \/ \E status \in {"active", "inactive"} : SetKillSwitch(status)
  BY <1>9 DEF StartBridge, TerminalChanges, SetKillSwitch, OpeningStep
<1>10. ASSUME NEW u \in Threads, Handle(u) \/ Request(u)
       PROVE  OpeningStep(t)
  <2>1. CASE u = t  BY <1>6, <1>7, <1>10, <2>1
  <2>2. CASE u # t  BY <1>5, <1>10, <2>2 DEF OpeningStep
  <2> QED  BY <2>1, <2>2
<1> QED  BY <1>8, <1>9, <1>10 DEF Next

\* Each gate that a request gets past held as it did.
LEMMA GatesStep ==
  ASSUME TypeOK, Inv, GatesInv, [GatesNext]_gateVars
  PROVE  GatesInv'
<1>1. CASE UNCHANGED gateVars
  BY <1>1 DEF gateVars, vars, GatesInv, GateInv, Opening
<1>2. CASE GatesNext
  <2>1. Held' \subseteq AllGates  BY DEF Held
  <2>2. gates' \in [Threads -> SUBSET AllGates]
    BY <1>2, <2>1 DEF GatesNext, GatesInv
  <2>3. ASSUME NEW t \in Threads, Opening(t)' PROVE GateInv(t)'
    <3>1. OpeningStep(t)  BY <1>2, <2>3, OpeningSteps DEF GatesNext
    <3>2. Held' \subseteq gates'[t] /\ (Opening(t) => gates[t] \subseteq gates'[t])
      BY <1>2, <2>3 DEF GatesNext, GatesInv
    <3>3. /\ account' = "demo" => "demo" \in Held'
          /\ killSwitch' = "inactive" => "switch" \in Held'
          /\ recon' = "ok" => "report" \in Held'
          /\ Cardinality(VisiblePositions') < MaxPositions => "count" \in Held'
      BY DEF Held, AllGates
    <3>4. UNCHANGED brokerVars => VisiblePositions' = VisiblePositions
      BY DEF brokerVars, VisiblePositions
    <3>5. GateInv(t)  BY DEF GatesInv
    <3>6. threads'[t] = threads[t] => Opening(t)  BY <2>3 DEF Opening
    <3> QED
      BY <3>1, <3>2, <3>3, <3>4, <3>5, <3>6 DEF GateInv, OpeningStep, BeforeSend
  <2>4. \A t \in Threads : GateInv(t)'  BY <2>3 DEF GateInv
  <2> QED  BY <2>2, <2>4 DEF GatesInv
<1> QED  BY <1>1, <1>2

\* Every opening order that is sent had the demo account, an inactive kill
\* switch, an OK report and a free position at some moment of its own request.
THEOREM GatesWerePassed == GatesSpec => []OpensPassedTheirGates
<1>1. GatesInit => GatesInv
  BY DEF GatesInit, Init, GatesInv, GateInv, Opening, IdleThread, PreSubmission, BeforeSend
<1>2. TypeOK /\ Inv /\ GatesInv /\ [GatesNext]_gateVars => GatesInv'
  BY GatesStep
<1>3. GatesInv => OpensPassedTheirGates
  BY DEF GatesInv, GateInv, OpensPassedTheirGates, AllGates
<1> QED  BY <1>1, <1>2, <1>3, GatesSpecIsSpec, PTL DEF GatesSpec

-----------------------------------------------------------------------------
(* The position limit. *)

\* While opening requests have not overlapped and the account has not changed,
\* the request that has passed the count finds room when it is executed.
LimitInv ==
    /\ terminal = "answering"
    /\ ~overlapped /\ ~switched =>
          /\ account = "demo"
          /\ IsFiniteSet(positions) /\ Cardinality(positions) <= MaxPositions
          /\ \A t, u \in Threads : Opening(t) /\ Opening(u) => t = u
          /\ \A t \in Threads :
                Opening(t) /\ threads[t].pc \in {"submit"} \cup BeforeSend =>
                    Cardinality(positions) < MaxPositions

\* A position comes from an opening order that is sent, and from nothing else.
LEMMA PositionsStep ==
  ASSUME TypeOK, Inv, Next
  PROVE  \/ UNCHANGED positions
         \/ \E x : positions' = positions \ {x}
         \/ \E t \in Threads :
               /\ Opening(t) /\ threads[t].pc \in BeforeSend /\ ~Opening(t)'
               /\ positions' = positions \cup {threads[t].id}
               /\ \A u \in Threads \ {t} : threads'[u] = threads[u]
<1> USE DEF TypeOK, StoreTypeOK, storeVars, brokerVars, historyVars
<1>1. ASSUME NEW t \in Threads, OrderSend(t), positions' # positions,
             ~\E x : positions' = positions \ {x}
      PROVE  /\ Opening(t) /\ threads[t].pc \in BeforeSend /\ ~Opening(t)'
             /\ positions' = positions \cup {threads[t].id}
             /\ \A u \in Threads \ {t} : threads'[u] = threads[u]
  <2>1. threads[t].pc = "send"  BY <1>1 DEF OrderSend, At
  <2>2. /\ threads[t].req.action = "open"
        /\ positions' = positions \cup {threads[t].id}
    BY <1>1 DEF OrderSend, Execute
  <2>3. Goto(t, "record_fill") \/ Goto(t, "journal_crash")
    BY <1>1 DEF OrderSend
  <2>4. threads'[t].pc \in AfterSend /\ \A u \in Threads \ {t} : threads'[u] = threads[u]
    <3>1. PICK pc \in {"record_fill", "journal_crash"} : Goto(t, pc)  BY <2>3
    <3>2. pc \in Steps /\ pc \in AfterSend  BY DEF Steps, Owning, AfterSend
    <3>3. threads'[t] = [threads[t] EXCEPT !.pc = pc] /\ threads[t] \in Thread
          /\ \A u \in Threads \ {t} : threads'[u] = threads[u]
      BY <3>1, <3>2, GotoType
    <3> QED  BY <3>2, <3>3 DEF Thread
  <2> QED
    BY <2>1, <2>2, <2>4 DEF Opening, PreSubmission, BeforeSend, AfterSend
<1>2. ASSUME NEW t \in Threads, Handle(t), ~OrderSend(t) PROVE UNCHANGED positions
  BY <1>2
  DEF Handle, CheckKillSwitch, CheckReconciliation, CheckPositionCount, MatchPosition,
      BackendRaises, TerminalizeReject, Submit, JournalSubmitting, RecordFill,
      JournalFilled, RecordReject, JournalCrash, CheckEvidence, AbortReceived, ScanRows,
      PersistReconciliation
<1>3. ASSUME NEW t \in Threads, Request(t) PROVE UNCHANGED positions
  BY <1>3 DEF Request, BeginWrite, ReplayResult, StartResolve, StartReconciliation
<1>4. CASE \/ Crash \/ StartBridge \/ TerminalChanges
           \/ \E status \in {"active", "inactive"} : SetKillSwitch(status)
  BY <1>4 DEF Crash, StartBridge, TerminalChanges, SetKillSwitch
<1> QED  BY <1>1, <1>2, <1>3, <1>4 DEF Next

LEMMA PairHasTwo ==
  ASSUME NEW t, NEW u, t # u
  PROVE  Cardinality({t, u}) = 2
<1>1. Cardinality({t}) = 1 /\ IsFiniteSet({t})  BY FS_Singleton
<1>2. u \notin {t}  OBVIOUS
<1>3. Cardinality({t} \cup {u}) = Cardinality({t}) + 1
  <2>1. PICK S : S = {t}  OBVIOUS
  <2>2. Cardinality(S \cup {u}) = Cardinality(S) + 1
    BY <1>1, <1>2, <2>1, FS_AddElement, SMTT(20)
  <2> QED  BY <2>1, <2>2
<1>4. {t} \cup {u} = {t, u}  OBVIOUS
<1> QED  BY <1>1, <1>3, <1>4

LEMMA LimitStep ==
  ASSUME IsFiniteSet(Threads), "silence" \notin Faults,
         TypeOK, Inv, LimitInv, [GatesNext]_gateVars
  PROVE  LimitInv'
<1>1. CASE UNCHANGED gateVars
  BY <1>1 DEF gateVars, vars, brokerVars, LimitInv, Opening
<1>2. CASE GatesNext
  <2>1. terminal' = "answering"
    BY <1>2
    DEF LimitInv, GatesNext, Next, Handle, Request, CheckKillSwitch, CheckReconciliation,
        CheckPositionCount, MatchPosition, BackendRaises, TerminalizeReject, Submit,
        JournalSubmitting, OrderSend, RecordFill, JournalFilled, RecordReject, JournalCrash,
        CheckEvidence, AbortReceived, ScanRows, PersistReconciliation, BeginWrite,
        ReplayResult, StartResolve, StartReconciliation, Crash, StartBridge,
        TerminalChanges, SetKillSwitch, brokerVars
  <2>2. SUFFICES ASSUME ~overlapped', ~switched'
                 PROVE  /\ account' = "demo"
                        /\ IsFiniteSet(positions') /\ Cardinality(positions') <= MaxPositions
                        /\ \A t, u \in Threads : Opening(t)' /\ Opening(u)' => t = u
                        /\ \A t \in Threads :
                              Opening(t)' /\ threads'[t].pc \in {"submit"} \cup BeforeSend =>
                                  Cardinality(positions') < MaxPositions
    BY <2>1 DEF LimitInv
  <2>3. /\ ~overlapped /\ ~switched /\ account' = "demo" /\ Next
        /\ ~(Cardinality({t \in Threads : Opening(t)'}) > 1)
    BY <1>2, <2>2 DEF GatesNext
  <2>4. ASSUME NEW t \in Threads, NEW u \in Threads, Opening(t)', Opening(u)'
        PROVE  t = u
    <3>1. PICK S : S = {w \in Threads : Opening(w)'}  OBVIOUS
    <3>2. IsFiniteSet(S) /\ Cardinality(S) \in Nat  BY <3>1, FS_Subset, FS_CardinalityType
    <3>3. {t, u} \in SUBSET S  BY <2>4, <3>1
    <3>4. Cardinality({t, u}) <= Cardinality(S) /\ IsFiniteSet({t, u})  BY <3>2, <3>3, FS_Subset
    <3>5. PICK k \in Nat : k = Cardinality(S)  BY <3>2
    <3>6. ~(k > 1)  BY <2>3, <3>1, <3>5
    <3>7. PICK m \in Nat : m = Cardinality({t, u})  BY <3>4, FS_CardinalityType
    <3>8. m <= k  BY <3>4, <3>5, <3>7
    <3>9. t # u => m = 2
      <4>1. t # u => Cardinality({t, u}) = 2  BY PairHasTwo, Zenon
      <4> QED  BY <3>7, <4>1
    <3> QED  BY <3>6, <3>8, <3>9
  <2>5. /\ account = "demo" /\ IsFiniteSet(positions) /\ Cardinality(positions) <= MaxPositions
        /\ \A t, u \in Threads : Opening(t) /\ Opening(u) => t = u
        /\ \A t \in Threads :
              Opening(t) /\ threads[t].pc \in {"submit"} \cup BeforeSend =>
                  Cardinality(positions) < MaxPositions
    BY <2>3 DEF LimitInv
  <2>6. Cardinality(positions) \in Nat /\ MaxPositions \in Nat
    BY <2>5, FS_CardinalityType, DemoBridgeAssumption
  <2>7. CASE \E t \in Threads :
               /\ Opening(t) /\ threads[t].pc \in BeforeSend /\ ~Opening(t)'
               /\ positions' = positions \cup {threads[t].id}
               /\ \A u \in Threads \ {t} : threads'[u] = threads[u]
    <3>1. PICK t \in Threads :
               /\ Opening(t) /\ threads[t].pc \in BeforeSend /\ ~Opening(t)'
               /\ positions' = positions \cup {threads[t].id}
               /\ \A u \in Threads \ {t} : threads'[u] = threads[u]
      BY <2>7
    <3>2. Cardinality(positions) < MaxPositions  BY <2>5, <3>1
    <3>3. /\ IsFiniteSet(positions') /\ Cardinality(positions') \in Nat
          /\ Cardinality(positions') <= Cardinality(positions) + 1
      <4>1. PICK x : positions' = positions \cup {x}  BY <3>1
      <4>2. IsFiniteSet(positions \cup {x})
            /\ Cardinality(positions \cup {x}) =
                  IF x \in positions THEN Cardinality(positions) ELSE Cardinality(positions) + 1
        BY <2>5, FS_AddElement
      <4> QED  BY <2>6, <4>1, <4>2
    <3>4. \A u \in Threads : ~Opening(u)'  BY <2>5, <3>1 DEF Opening
    <3> QED  BY <2>3, <2>6, <3>2, <3>3, <3>4
  <2>8. CASE UNCHANGED positions \/ \E x : positions' = positions \ {x}
    <3>1. IsFiniteSet(positions') /\ Cardinality(positions') <= Cardinality(positions)
          /\ Cardinality(positions') \in Nat
      <4>1. CASE UNCHANGED positions  BY <2>5, <2>6, <4>1
      <4>2. CASE \E x : positions' = positions \ {x}
        <5>1. PICK x : positions' = positions \ {x}  BY <4>2
        <5>2. positions' \in SUBSET positions  BY <5>1
        <5> QED  BY <2>5, <5>2, FS_Subset, FS_CardinalityType
      <4> QED  BY <2>8, <4>1, <4>2
    <3>2. ASSUME NEW t \in Threads, Opening(t)', threads'[t].pc \in {"submit"} \cup BeforeSend
          PROVE  Cardinality(positions) < MaxPositions
      <4>1. OpeningStep(t)  BY <2>3, <3>2, OpeningSteps
      <4>2. VisiblePositions = positions  BY <2>5 DEF VisiblePositions, LimitInv
      <4>3. CASE threads'[t] = threads[t]  BY <2>5, <3>2, <4>3 DEF Opening
      <4> QED
        BY <2>5, <3>2, <4>1, <4>2, <4>3 DEF OpeningStep, BeforeSend
    <3> QED  BY <2>3, <2>4, <2>5, <2>6, <3>1, <3>2
  <2> QED  BY <2>3, <2>7, <2>8, PositionsStep
<1> QED  BY <1>1, <1>2

\* With any number of threads, over ambiguous sends, refusals and crashes, the
\* positions opened stay within the limit, unless opening requests overlap, the
\* account changes or MetaTrader5 stops answering.
THEOREM PositionLimitIsKept ==
  ASSUME IsFiniteSet(Threads), "silence" \notin Faults
  PROVE  GatesSpec => []AtMostMaxPositions
<1>1. GatesInit => LimitInv
  BY DemoBridgeAssumption, FS_EmptySet
  DEF GatesInit, Init, LimitInv, Opening, IdleThread, PreSubmission, BeforeSend
<1>2. TypeOK /\ Inv /\ LimitInv /\ [GatesNext]_gateVars => LimitInv'
  BY LimitStep
<1>3. LimitInv => AtMostMaxPositions
  BY DEF LimitInv, AtMostMaxPositions
<1> QED  BY <1>1, <1>2, <1>3, GatesSpecIsSpec, PTL DEF GatesSpec
=============================================================================
