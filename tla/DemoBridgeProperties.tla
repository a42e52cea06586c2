------------------------- MODULE DemoBridgeProperties -------------------------
(***************************************************************************)
(* What must be true of the bridge's write path.  The properties that the  *)
(* code does not keep, each stated from a sentence of the repository, are  *)
(* in the last section; the runs that refute them say why.                 *)
(***************************************************************************)
EXTENDS DemoBridge

\* order_send is called at most once for a client_order_id, whatever mix of
\* concurrent requests, retries, resolutions and restarts carried that id
\* (trading.py: idempotency before MT5, the RECEIVED->SUBMITTED transition).
AtMostOneSend == \A id \in Ids : sends[id] <= 1

\* A definite answer is true and stays true, also for an id that several
\* callers use at once: a pre-submission denial means the order was never
\* sent, a refusal that the broker did not execute it, a fill that it did.
DefiniteAnswers ==
    \A id \in Ids :
        /\ "denied" \in told[id] => sends[id] = 0
        /\ "refused" \in told[id] => id \notin executed
        /\ "filled" \in told[id] => id \in executed

\* An executed order is never forgotten or written off: its row is FILLED or
\* still SUBMITTED, for the operator to find (trading.py, the crash window).
NoLostDeal ==
    \A id \in executed : rows[id].state \in {"submitted", "filled"}

\* The safety argument of resolve_received_attempt: a row that is still
\* RECEIVED has no submission evidence in the journal and was never sent.
ReceivedIsPreSubmission ==
    \A id \in Ids : rows[id].state = "received" => journal[id] = {} /\ sends[id] = 0

\* Between the submission boundary and the recorded outcome one thread owns
\* the id, and the row says SUBMITTED all the while, although the outcome is
\* written by the unconditional update_idempotency_state.
OneOwner ==
    \A t \in Threads : threads[t].pc \in Owning =>
        /\ rows[threads[t].id].state = "submitted"
        /\ \A u \in Threads \ {t} :
              threads[u].pc \in Owning => threads[u].id # threads[t].id

\* A terminal row is never rewritten, and no row ever changes its request
\* (store.py: FILLED and REJECTED are terminal, a conflict never overwrites).
TerminalIsFinal ==
    [][\A id \in Ids :
          /\ rows[id].state \in {"filled", "rejected"} => rows'[id] = rows[id]
          /\ rows[id].state # "absent" => rows'[id].hash = rows[id].hash]_rows

Orphaned == \E id \in Ids : leftover[id] = "submitted"

\* Startup fails closed: once the bridge has started over a SUBMITTED row of
\* an earlier life, it sends no opening order, however often reconciliation
\* is run and whatever else is resolved (__main__.py, reconciliation.py).
NoOpenAfterOrphan ==
    [][\A id \in Ids : Orphaned /\ sends'[id] # sends[id] => rows[id].hash.action = "close"]_sends

-----------------------------------------------------------------------------
(***************************************************************************)
(* Why they hold.  Inv is inductive: it says of each row what its state    *)
(* tells about the broker and the callers, of each thread what it may rely *)
(* on, that owners are unique, and that an orphan keeps new orders out.    *)
(***************************************************************************)
RowInv(id) ==
    LET row == rows[id] IN
    /\ row.state # "needs_reconciliation"
    /\ row.payload = "stored" <=> row.state = "filled"
    /\ row.state \in {"absent", "received"} => sends[id] = 0 /\ journal[id] = {}
    /\ row.state = "filled" => id \in executed
    /\ row.state = "rejected" =>
          \/ row.error \in {"pre_submission", "aborted_before_submission"} /\ sends[id] = 0
          \/ row.error = "retcode" /\ sends[id] = 1 /\ id \notin executed
    /\ row.state # "rejected" => row.error = "none"
    /\ sends[id] \in {0, 1}
    /\ id \in executed => sends[id] = 1
    /\ "denied" \in told[id] => row.state = "rejected" /\ row.error = "pre_submission"
    /\ "refused" \in told[id] => row.state = "rejected" /\ row.error = "retcode"
    /\ "filled" \in told[id] => row.state = "filled"
    /\ leftover[id] = "submitted" => row.state = "submitted"

ThreadInv(t) ==
    LET pc == threads[t].pc
        id == threads[t].id
    IN
    /\ pc \in PreSubmission \cup Owning \cup {"audit"} =>
          /\ id \in Ids
          /\ threads[t].req \in Requests
          /\ rows[id].hash = threads[t].req
          /\ rows[id].state # "absent"
    /\ pc = "match" => threads[t].req.action = "close"
    /\ pc \in {"evidence", "abort"} => id \in Ids
    /\ pc \in Owning => rows[id].state = "submitted" /\ leftover[id] # "submitted"
    /\ pc \in BeforeSend => sends[id] = 0
    /\ pc \in AfterSend => sends[id] = 1
    /\ pc = "record_fill" => id \in executed
    /\ pc = "record_reject" => id \notin executed
    /\ pc = "audit" => rows[id].state = "filled"
    /\ pc = "persist" => threads[t].verdict \in ReconStates

OwnersInv ==
    \A t, u \in Threads :
        threads[t].pc \in Owning /\ threads[u].pc \in Owning /\ threads[t].id = threads[u].id
            => t = u

OrphanInv ==
    Orphaned =>
        /\ recon # "ok"
        /\ \A t \in Threads :
              /\ threads[t].pc = "persist" => threads[t].verdict # "ok"
              /\ threads[t].pc \in {"positions", "submit"} \cup BeforeSend =>
                    threads[t].req.action = "close"

\* The inductive invariant of the write path.
Inv ==
    /\ \A id \in Ids : RowInv(id)
    /\ \A t \in Threads : ThreadInv(t)
    /\ OwnersInv
    /\ OrphanInv
    /\ ~up => \A t \in Threads : threads[t] = IdleThread

\* The write path implements the ledger it promises.
PhaseOf(id) ==
    CASE rows[id].state = "absent"    -> "new"
      [] rows[id].state = "received"  -> "accepted"
      [] rows[id].state = "submitted" -> "submitted"
      [] rows[id].state = "filled"    -> "filled"
      [] rows[id].state = "rejected"  ->
            IF rows[id].error = "retcode" THEN "refused" ELSE "void"
      [] OTHER -> "lost"

Ledger == INSTANCE OrderLedger WITH phase <- [id \in Ids |-> PhaseOf(id)]

\* Every step of the bridge, crashes and races included, is a step of the
\* ledger or changes nothing the ledger shows.
LedgerRefined == Ledger!LedgerSpec

\* The server's threads are scheduled and MetaTrader5 calls return; nothing
\* is assumed of callers, of the operator or of crashes.
FairSpec == Spec /\ \A t \in Threads : WF_vars(Handle(t))

\* Every request is answered, or dies with the process.
RequestsAreAnswered ==
    \A t \in Threads : threads[t].pc # "idle" ~> threads[t].pc = "idle"

\* ... and the operator persists: the bridge is started again when it is
\* down, and the reconciliation and resolution routes are called again and
\* again, also when other requests keep the threads busy in between.
OperatorSpec ==
    /\ FairSpec
    /\ WF_vars(StartBridge)
    /\ \A t \in Threads : SF_vars(StartReconciliation(t))
    /\ \A t \in Threads, id \in Ids : SF_vars(StartResolve(t, id))

\* If crashes end, a mismatch that only RECEIVED rows cause goes away: the
\* resolution route is a way out of every pre-submission crash.
ReceivedIsCleared ==
    <>[]up =>
      (recon = "mismatch" ~> (recon = "ok" \/ \E id \in Ids : rows[id].state = "submitted"))

-----------------------------------------------------------------------------
(***************************************************************************)
(* Sentences of the repository that the code does not keep.                *)
(***************************************************************************)

\* store.py:203, of an existing row with the same request: "caller must NOT
\* resubmit to MT5".  An id that a startup found incomplete is not sent again.
LeftoverIsNotResubmitted ==
    [][\A id \in Ids : leftover[id] # "none" => sends'[id] = sends[id]]_sends
=============================================================================
