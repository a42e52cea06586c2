------------------------------- MODULE DemoProbe -------------------------------
(***************************************************************************)
(* The single-use demo execution probe of src/runtime, with the safety     *)
(* layer and the HTTP client it writes through, against the bridge.        *)
(*                                                                         *)
(* Each process runs once, with ids of its own.  It keeps its progress in  *)
(* one state file which every process shares, reads at the start and       *)
(* rewrites by a temporary file.  Requests may be lost, answered late, or  *)
(* carried out after the client has given up; the process may be killed.   *)
(*                                                                         *)
(* The bridge is OrderLedger, which DemoBridge implements: an order runs   *)
(* through its phases once its request has arrived.  A filled opening      *)
(* order creates a position named after its process.                       *)
(***************************************************************************)
EXTENDS Naturals, FiniteSets

CONSTANTS
    Probes,   \* the processes, one run each
    Foreign,  \* a position that none of them opened
    None      \* no file

OrderIds == Probes \X {"open", "close"}

VARIABLES
    file,       \* the state file
    temp,       \* the temporary file beside it
    probes,     \* what each process is doing
    posts,      \* write requests on their way to the bridge
    positions,  \* open positions at the broker
    phase, sends, executed, told,  \* the bridge, as OrderLedger has it
    overlapped  \* history: a process has started while another was running

bridgeVars == <<phase, sends, executed, told>>
vars       == <<file, temp, probes, posts, positions, bridgeVars, overlapped>>

Bridge == INSTANCE OrderLedger WITH Ids <- OrderIds

Recorded == {"OPENING", "OPEN", "CLOSING", "CLOSED", "AMBIGUOUS", "EXPIRED"}
Used     == Recorded \ {"EXPIRED"}
Record   == [state: Recorded, run: Probes]

ASSUME DemoProbeAssumption == Foreign \notin Probes /\ None \notin Record

\* What a process does next.  Every entry is made in three steps.
Saving   == {"load", "write", "replace"}
Opening  == {"safe_open", "post_open", "await_open", "verify_open"}
Closing  == {"opened", "safe_close", "post_close", "await_close", "verify_close"}
Finished == {"ended", "closed"}
Steps    == {"new", "preflight"} \cup Saving \cup Opening \cup Closing \cup Finished

\* pc, the state it is recording, where it goes on after that, and the entry
\* it has put together.
Probe == [pc: Steps, entry: Recorded, then: Steps, draft: Record \cup {None}]

TypeOK ==
    /\ file \in Record \cup {None}
    /\ temp \in Record \cup {None}
    /\ probes \in [Probes -> Probe]
    /\ posts \subseteq OrderIds
    /\ positions \subseteq Probes \cup {Foreign}
    /\ phase \in [OrderIds -> Bridge!Phases]
    /\ sends \in [OrderIds -> {0, 1}]
    /\ executed \subseteq OrderIds
    /\ told \in [OrderIds -> SUBSET {"filled", "denied", "refused"}]
    /\ overlapped \in BOOLEAN

Init ==
    /\ file = None
    /\ temp = None
    /\ probes = [p \in Probes |-> [pc |-> "new", entry |-> "EXPIRED", then |-> "ended", draft |-> None]]
    /\ posts = {}
    /\ positions = {}
    /\ Bridge!LedgerInit
    /\ overlapped = FALSE

-----------------------------------------------------------------------------
Goto(p, pc) == probes' = [probes EXCEPT ![p].pc = pc]

\* Record an entry, then go on.
Entry(p, state, next) ==
    probes' = [probes EXCEPT ![p].pc = "load", ![p].entry = state, ![p].then = next]

\* What positions and orders may show: None from MetaTrader5 is an empty list.
Seen == {positions, {}}

Elsewhere == UNCHANGED <<file, temp, posts, positions, bridgeVars, overlapped>>

\* _record: load, update, then write the temporary file and replace.
LoadRecord(p) ==
    /\ probes[p].pc = "load"
    /\ probes' = [probes EXCEPT
                    ![p].pc = "write",
                    ![p].draft = [state |-> probes[p].entry,
                                  run   |-> IF probes[p].entry = "OPENING" \/ file = None
                                            THEN p ELSE file.run]]
    /\ Elsewhere

WriteTemp(p) ==
    /\ probes[p].pc = "write"
    /\ temp' = probes[p].draft
    /\ Goto(p, "replace")
    /\ UNCHANGED <<file, posts, positions, bridgeVars, overlapped>>

\* os.replace raises if another process has moved the temporary file away.
ReplaceFile(p) ==
    /\ probes[p].pc = "replace"
    /\ \/ /\ temp # None
          /\ file' = temp
          /\ temp' = None
          /\ Goto(p, probes[p].then)
       \/ /\ temp = None
          /\ Goto(p, "ended")
          /\ UNCHANGED <<file, temp>>
    /\ UNCHANGED <<posts, positions, bridgeVars, overlapped>>

-----------------------------------------------------------------------------
Running == {p \in Probes : probes[p].pc \notin {"new"} \cup Finished}

\* Any file that is there taken for a test still open to be run.
StartRegardless(p) ==
    /\ probes[p].pc = "new"
    /\ Goto(p, "preflight")
    /\ overlapped' = (overlapped \/ Running # {})
    /\ UNCHANGED <<file, temp, posts, positions, bridgeVars>>

\* _preflight: the test is single-use.
Start(p) ==
    /\ probes[p].pc = "new"
    /\ Goto(p, IF file # None /\ file.state \in Used THEN "ended" ELSE "preflight")
    /\ overlapped' = (overlapped \/ Running # {})
    /\ UNCHANGED <<file, temp, posts, positions, bridgeVars>>

\* _preflight: account, terminal, kill switch, reconciliation, metadata and
\* quote (ready), and no exposure; a failed read ends the run as well.
Preflight(p) ==
    /\ probes[p].pc = "preflight"
    /\ \E ready \in BOOLEAN, seen \in Seen :
          IF ready /\ seen = {} THEN Entry(p, "OPENING", "safe_open") ELSE Goto(p, "ended")
    /\ Elsewhere

\* safe_open up to the write: the quote, the context and authorize_open, with
\* the one position that real_money_policy.yaml allows.  A denial says for
\* certain that nothing was written.
SafeOpen(p) ==
    /\ probes[p].pc = "safe_open"
    /\ \/ \E seen \in Seen : seen = {} /\ Goto(p, "post_open")
       \/ Entry(p, "EXPIRED", "ended")
       \/ Entry(p, "AMBIGUOUS", "ended")
    /\ Elsewhere

\* The request leaves; it may still be lost.
PostOpen(p) ==
    /\ probes[p].pc = "post_open"
    /\ posts' = posts \cup {<<p, "open">>}
    /\ Goto(p, "await_open")
    /\ UNCHANGED <<file, temp, positions, bridgeVars, overlapped>>

\* A timed-out request taken for one that never arrived.
AwaitOpenExpiring(p) ==
    /\ probes[p].pc = "await_open"
    /\ \/ "filled" \in told[<<p, "open">>] /\ Goto(p, "verify_open")
       \/ Entry(p, "EXPIRED", "ended")
    /\ Elsewhere

\* No timeout.
AwaitOpenForever(p) ==
    /\ probes[p].pc = "await_open"
    /\ \/ "filled" \in told[<<p, "open">>] /\ Goto(p, "verify_open")
       \/ told[<<p, "open">>] \cap {"denied", "refused"} # {} /\ Entry(p, "AMBIGUOUS", "ended")
    /\ Elsewhere

\* The answer: a fill, or any error, a timeout and a refusal by the bridge
\* among them, which are all ambiguous to the probe.
AwaitOpen(p) ==
    /\ probes[p].pc = "await_open"
    /\ \/ "filled" \in told[<<p, "open">>] /\ Goto(p, "verify_open")
       \/ Entry(p, "AMBIGUOUS", "ended")
    /\ Elsewhere

\* The position must be the only one.  A failed read ends the run with no
\* further entry.
VerifyOpen(p) ==
    /\ probes[p].pc = "verify_open"
    /\ \/ \E seen \in Seen :
             IF seen = {p} THEN Entry(p, "OPEN", "opened") ELSE Entry(p, "AMBIGUOUS", "ended")
       \/ Goto(p, "ended")
    /\ Elsewhere

BeginClose(p) ==
    /\ probes[p].pc = "opened"
    /\ Entry(p, "CLOSING", "safe_close")
    /\ Elsewhere

\* safe_close up to the write: a denial too is ambiguous to the probe.
SafeClose(p) ==
    /\ probes[p].pc = "safe_close"
    /\ \/ Goto(p, "post_close")
       \/ Entry(p, "AMBIGUOUS", "ended")
    /\ Elsewhere

PostClose(p) ==
    /\ probes[p].pc = "post_close"
    /\ posts' = posts \cup {<<p, "close">>}
    /\ Goto(p, "await_close")
    /\ UNCHANGED <<file, temp, positions, bridgeVars, overlapped>>

\* Any answer taken for a close.
AwaitCloseAnswered(p) ==
    /\ probes[p].pc = "await_close"
    /\ \/ told[<<p, "close">>] # {} /\ Goto(p, "verify_close")
       \/ Entry(p, "AMBIGUOUS", "ended")
    /\ Elsewhere

AwaitClose(p) ==
    /\ probes[p].pc = "await_close"
    /\ \/ "filled" \in told[<<p, "close">>] /\ Goto(p, "verify_close")
       \/ Entry(p, "AMBIGUOUS", "ended")
    /\ Elsewhere

VerifyClose(p) ==
    /\ probes[p].pc = "verify_close"
    /\ \/ \E seen \in Seen :
             IF seen = {} THEN Entry(p, "CLOSED", "closed") ELSE Entry(p, "AMBIGUOUS", "ended")
       \/ Goto(p, "ended")
    /\ Elsewhere

\* The process is killed; its files stay.
Kill(p) ==
    /\ p \in Running
    /\ Goto(p, "ended")
    /\ Elsewhere

-----------------------------------------------------------------------------
\* A request arrives, or is lost.
Arrive(id) ==
    /\ id \in posts
    /\ posts' = posts \ {id}
    /\ Bridge!Accept(id)
    /\ UNCHANGED <<file, temp, probes, positions, overlapped>>

Lose(id) ==
    /\ id \in posts
    /\ posts' = posts \ {id}
    /\ UNCHANGED <<file, temp, probes, positions, bridgeVars, overlapped>>

\* The bridge sends an order again whose outcome it does not know.
SendOrderAgain(id) ==
    /\ phase[id] = "submitted"
    /\ sends' = [sends EXCEPT ![id] = @ + 1]
    /\ UNCHANGED <<file, temp, probes, posts, positions, phase, executed, told, overlapped>>

\* order_send, with what an executed order does to the positions.
SendOrder(id) ==
    /\ Bridge!Send(id)
    /\ \/ /\ id \notin executed'
          /\ UNCHANGED positions
       \/ /\ id \in executed'
          /\ id[2] = "open"
          /\ positions' = positions \cup {id[1]}
       \/ /\ id \in executed'
          /\ id[2] = "close"
          /\ id[1] \in positions
          /\ positions' = positions \ {id[1]}
    /\ UNCHANGED <<file, temp, probes, posts, overlapped>>

\* The rest of the bridge's work on an order.
Settle(id) ==
    /\ \/ Bridge!Void(id) \/ Bridge!Commit(id) \/ Bridge!SettleFilled(id)
       \/ Bridge!SettleRefused(id)
       \/ "filled" \notin told[id] /\ Bridge!AnswerFilled(id)
    /\ UNCHANGED <<file, temp, probes, posts, positions, overlapped>>

\* Somebody else trades on the account.
ForeignTrade ==
    /\ \/ positions' = positions \cup {Foreign}
       \/ positions' = positions \ {Foreign}
    /\ UNCHANGED <<file, temp, probes, posts, bridgeVars, overlapped>>

-----------------------------------------------------------------------------
Run(p) ==
    \/ LoadRecord(p) \/ WriteTemp(p) \/ ReplaceFile(p)
    \/ Preflight(p) \/ SafeOpen(p) \/ PostOpen(p) \/ AwaitOpen(p) \/ VerifyOpen(p)
    \/ BeginClose(p) \/ SafeClose(p) \/ PostClose(p) \/ AwaitClose(p) \/ VerifyClose(p)

Next ==
    \/ \E p \in Probes : Start(p) \/ Run(p) \/ Kill(p)
    \/ \E id \in OrderIds : Arrive(id) \/ Lose(id) \/ SendOrder(id) \/ Settle(id)
    \/ ForeignTrade

Spec == Init /\ [][Next]_vars

\* A process that is not killed is scheduled, and its requests time out.
FairSpec == Spec /\ \A p \in Probes : WF_vars(Run(p))

-----------------------------------------------------------------------------
\* The order may have been, or may still be, carried out.
Underway(id) == id \in posts \/ phase[id] \in {"accepted", "submitted", "filled"}

\* As long as no two processes overlap, exposure is on record: while an opening
\* order may be executed, or its position is open, the file names that run and
\* keeps every later one out (demo_execution_test.py: OPENING is saved before
\* the write, an ambiguity is persisted, EXPIRED says that nothing was written).
ExposureIsOnRecord ==
    ~overlapped =>
        \A p \in Probes : Underway(<<p, "open">>) \/ p \in positions =>
            file # None /\ file.run = p /\ file.state \in Used

\* As long as no two processes overlap, CLOSED is true: the recorded run's
\* position was opened, closed, and is gone, though the last look at the
\* positions may have been blind.
ClosedIsTrue ==
    ~overlapped /\ file # None /\ file.state = "CLOSED" =>
        /\ file.run \notin positions
        /\ {<<file.run, "open">>, <<file.run, "close">>} \subseteq executed

\* A process that reports success has really opened and closed its position,
\* whatever others did to the file and the account meanwhile.
SuccessIsTrue ==
    \A p \in Probes : probes[p].pc = "closed" =>
        p \notin positions /\ {<<p, "open">>, <<p, "close">>} \subseteq executed

\* As long as no two processes overlap, an ambiguity is final: once it is on
\* record nothing is written and no other state recorded (OPERATIONS.md: the
\* probe "records AMBIGUOUS, runs reconciliation, and refuses to retry").
AmbiguityIsFinal ==
    [][~overlapped' /\ file # None /\ file.state = "AMBIGUOUS" => posts' \subseteq posts /\ file' = file]_vars

\* A process that is not killed comes to an end, also when no answer comes.
ProbesEnd == \A p \in Probes : probes[p].pc # "new" ~> probes[p].pc \in Finished

-----------------------------------------------------------------------------
(***************************************************************************)
(* Why they hold.  Inv is inductive: what the bridge's books say of an     *)
(* order, what a process may rely on at each step, and, as long as no two  *)
(* overlap, what the file says at each step of the one that runs.          *)
(***************************************************************************)
BookInv ==
    /\ \A id \in OrderIds :
          /\ id \in executed => sends[id] = 1 /\ phase[id] \in {"submitted", "filled"}
          /\ phase[id] = "filled" => id \in executed
          /\ "filled" \in told[id] => id \in executed
    /\ \A p \in Probes :
          /\ p \in positions => <<p, "open">> \in executed
          /\ <<p, "close">> \in executed => <<p, "open">> \in executed /\ p \notin positions

Entries == {<<"OPENING", "safe_open">>, <<"OPEN", "opened">>, <<"CLOSING", "safe_close">>,
            <<"CLOSED", "closed">>, <<"EXPIRED", "ended">>, <<"AMBIGUOUS", "ended">>}

\* The process is at one of these steps, or making one of these entries.
Doing(probe, pcs, entries) ==
    probe.pc \in pcs \/ (probe.pc \in Saving /\ probe.entry \in entries)

Unsent   == {"new", "preflight", "safe_open", "post_open"}
Answered == {"verify_open", "opened", "safe_close", "post_close", "await_close"}
Drafted  == {"write", "replace"}

\* Of a process and what it is doing, whoever else runs: before the opening
\* request leaves there is none, and success is told only of a whole cycle.
StepInv(p, probe) ==
    /\ Doing(probe, Unsent, {"OPENING", "EXPIRED"}) =>
          phase[<<p, "open">>] = "new" /\ <<p, "open">> \notin posts
    /\ Doing(probe, Answered, {"OPEN", "CLOSING"}) => <<p, "open">> \in executed
    /\ Doing(probe, {"verify_close", "closed"}, {"CLOSED"}) =>
          {<<p, "open">>, <<p, "close">>} \subseteq executed
    /\ probe.pc \in Saving => <<probe.entry, probe.then>> \in Entries
    /\ probe.pc \in Drafted => probe.draft # None /\ probe.draft.state = probe.entry

FileIs(state, p) == file # None /\ file.state = state /\ file.run = p

\* Of the only process that runs.
FileInv(p, probe) ==
    /\ Doing(probe, {"preflight"}, {"OPENING"}) => file = None \/ file.state = "EXPIRED"
    /\ probe.pc \in Opening => FileIs("OPENING", p)
    /\ probe.pc = "opened" => FileIs("OPEN", p)
    /\ probe.pc \in Closing \ {"opened"} => FileIs("CLOSING", p)
    /\ Doing(probe, {}, Recorded \ {"OPENING"}) => \E state \in {"OPENING", "OPEN", "CLOSING"} : FileIs(state, p)
    /\ probe.pc \in Drafted => probe.draft.run = p
    /\ probe.pc = "replace" => temp = probe.draft

OneRuns == ~overlapped => \A p, q \in Running : p = q

Inv ==
    /\ TypeOK
    /\ BookInv
    /\ \A p \in Probes : StepInv(p, probes[p])
    /\ \A p \in Probes : ~overlapped => FileInv(p, probes[p])
    /\ OneRuns
    /\ ExposureIsOnRecord
    /\ ClosedIsTrue

-----------------------------------------------------------------------------
\* OPERATIONS.md:219: the test "performs exactly one open and one close" and is
\* single-use.  However often it is started, one opening order at most executes.
AtMostOneCycle == \A p, q \in Probes : {<<p, "open">>, <<q, "open">>} \subseteq executed => p = q
=============================================================================
