-------------------------- MODULE OperationalRuntime --------------------------
(***************************************************************************)
(* The processes of the operational runtime and the files they share       *)
(* (src/src/runtime/operational.py, src/cli/runtime_cli.py): observers in  *)
(* a loop, which hold the runtime lock, and one-shot commands (doctor,     *)
(* dry-run, start --once), which run one cycle and take no lock.  All of   *)
(* them append to one journal, which is rotated when it is full, and       *)
(* install one heartbeat file through one temporary file.                  *)
(*                                                                         *)
(* A system call on a shared file is one step.  Decisions are counted, and *)
(* one of those appended, any one, is followed until two processes are at  *)
(* the journal at once.  Sleep is counted in seconds.                      *)
(***************************************************************************)
EXTENDS ObserverCycle, FiniteSets

CONSTANTS
    Loops, OneShots,
    Mode,
    Observations,       \* what a round of reads may find
    CycleSeconds, MaxBackoff,
    JournalMax          \* decisions that fill the journal

Processes == Loops \union OneShots
Nobody == "nobody"

ASSUME RuntimeAssumption ==
    /\ Loops \cap OneShots = {} /\ Nobody \notin Processes
    /\ Mode \in Modes
    /\ Observations \subseteq Observation
    /\ CycleSeconds \in Nat \ {0} /\ MaxBackoff \in Nat \ {0}
    /\ JournalMax \in Nat \ {0}

VARIABLES
    pc,             \* where each process stands
    stop,           \* _stop_requested
    backoff, left,  \* of each process: the backoff and what is left to sleep
    cycle,          \* of each process: what its round found, and the CycleResult
    owner,          \* who holds the runtime lock
    journal,        \* the decisions in the journal, or Absent
    rotated,        \* does the journal's .1 exist?
    temp,           \* does the heartbeat's temporary file exist?
    followed,       \* where the followed decision is
    since           \* decisions appended after it, up to JournalMax

fileVars == <<journal, rotated, temp>>
followVars == <<followed, since>>
sleepVars == <<stop, backoff, left>>
vars == <<pc, sleepVars, cycle, owner, fileVars, followVars>>

Absent == -1
AllGood == [r \in Reads |-> "good"]
NoCycle == [seen |-> AllGood,
            result |-> [reason |-> "NONE", connectivity |-> "NONE", preflight |-> FALSE]]

\* The cycles there are: what a round may find, with its verdict.
Cycles == {[seen |-> obs, result |-> Verdict(Mode, obs, weekend)] :
              obs \in Observations, weekend \in BOOLEAN}

\* The steps of JsonlDecisionJournal.append between its first look and its write.
AtJournal == {"rotated?", "unlink", "replace", "append"}

Goto(p, label) == pc' = [pc EXCEPT ![p] = label]

\* The locals of a cycle that is over.
Forget(p) == cycle' = [cycle EXCEPT ![p] = NoCycle]

\* The end of a process, however it comes: its memory is gone and the kernel
\* releases its flock.
End(p) ==
    /\ Goto(p, "ended")
    /\ owner' = IF owner = p THEN Nobody ELSE owner
    /\ stop' = [stop EXCEPT ![p] = FALSE]
    /\ backoff' = [backoff EXCEPT ![p] = CycleSeconds]
    /\ left' = [left EXCEPT ![p] = 0]
    /\ Forget(p)

\* A file that another process took away meanwhile raises FileNotFoundError,
\* which nothing catches.
GotoUnless(p, missing, label) ==
    IF missing THEN End(p)
    ELSE Goto(p, label) /\ UNCHANGED <<owner, sleepVars, cycle>>

-----------------------------------------------------------------------------
(* Starting and stopping *)

Start(p) ==
    /\ pc[p] = "ended"
    /\ Goto(p, IF p \in Loops THEN "lock" ELSE "cycle")
    /\ UNCHANGED <<sleepVars, cycle, owner, fileVars, followVars>>

\* Mutant: the lock file's presence, not the flock, is what is looked at.
LockWhateverHolds(p) ==
    /\ pc[p] = "lock"
    /\ Goto(p, "top")
    /\ owner' = p
    /\ UNCHANGED <<sleepVars, cycle, fileVars, followVars>>

\* RuntimeLock.__enter__: never waits.
Lock(p) ==
    /\ pc[p] = "lock"
    /\ \/ owner # Nobody /\ End(p)
       \/ /\ owner = Nobody
          /\ owner' = p
          /\ Goto(p, "top")
          /\ UNCHANGED <<sleepVars, cycle>>
    /\ UNCHANGED <<fileVars, followVars>>

\* SIGINT or SIGTERM, handled from the first line of run_forever on.
RequestStop(p) ==
    /\ p \in Loops /\ pc[p] # "ended"
    /\ stop' = [stop EXCEPT ![p] = TRUE]
    /\ UNCHANGED <<pc, backoff, left, cycle, owner, fileVars, followVars>>

\* The loop of run_forever.
Top(p) ==
    /\ pc[p] = "top"
    /\ GotoUnless(p, stop[p], "cycle")
    /\ UNCHANGED <<fileVars, followVars>>

\* Killed, or the machine went down.
Kill(p) ==
    /\ pc[p] # "ended"
    /\ End(p)
    /\ UNCHANGED <<fileVars, followVars>>

-----------------------------------------------------------------------------
(* run_cycle *)

Overlap(p) == \E q \in Processes \ {p} : pc[q] \in AtJournal

\* cycle, and the size check that append makes right after it.
Observe(p) ==
    /\ pc[p] = "cycle"
    /\ \E c \in Cycles : cycle' = [cycle EXCEPT ![p] = c]
    /\ Goto(p, IF journal >= JournalMax THEN "rotated?" ELSE "append")
    /\ IF Overlap(p) THEN followed' = "none" /\ since' = 0 ELSE UNCHANGED followVars
    /\ UNCHANGED <<sleepVars, owner, fileVars>>

FindRotated(p) ==
    /\ pc[p] = "rotated?"
    /\ Goto(p, IF rotated THEN "unlink" ELSE "replace")
    /\ UNCHANGED <<sleepVars, cycle, owner, fileVars, followVars>>

UnlinkRotated(p) ==
    /\ pc[p] = "unlink"
    /\ GotoUnless(p, ~rotated, "replace")
    /\ rotated' = FALSE
    /\ followed' = IF followed = "rotated" THEN "lost" ELSE followed
    /\ UNCHANGED <<journal, temp, since>>

\* Mutant: the full journal is dropped.
RotateDropping(p) ==
    /\ pc[p] = "replace"
    /\ GotoUnless(p, journal = Absent, "append")
    /\ followed' = IF followed = "journal" THEN "lost" ELSE followed
    /\ journal' = Absent
    /\ UNCHANGED <<rotated, temp, since>>

Rotate(p) ==
    /\ pc[p] = "replace"
    /\ GotoUnless(p, journal = Absent, "append")
    /\ IF journal = Absent THEN UNCHANGED <<rotated, followed>>
       ELSE /\ rotated' = TRUE
            /\ followed' = CASE followed = "journal" -> "rotated"
                             [] followed = "rotated" -> "lost"
                             [] OTHER -> followed
    /\ journal' = Absent
    /\ UNCHANGED <<temp, since>>

\* The write is flushed and synced before append returns.  The check above is
\* not repeated: with several processes the file may outgrow its limit.  Of the
\* cycle, what the rest of the loop looks at is kept.
AppendDecision(p) ==
    LET held == IF journal = Absent THEN 0 ELSE journal
    IN  /\ pc[p] = "append"
        /\ journal' = IF held < JournalMax THEN held + 1 ELSE JournalMax
        /\ \/ followed = "none" /\ ~Overlap(p) /\ followed' = "journal" /\ since' = 0
           \/ /\ UNCHANGED followed
              /\ since' = IF followed # "none" /\ since < JournalMax THEN since + 1 ELSE since
        /\ cycle' = [cycle EXCEPT ![p] = [NoCycle EXCEPT !.result.preflight =
                                             cycle[p].result.preflight]]
        /\ Goto(p, "heartbeat")
        /\ UNCHANGED <<sleepVars, owner, rotated, temp>>

WriteTemp(p) ==
    /\ pc[p] = "heartbeat"
    /\ temp' = TRUE
    /\ Goto(p, "install")
    /\ UNCHANGED <<sleepVars, cycle, owner, journal, rotated, followVars>>

\* Mutant: the doubled backoff is not limited.
NextBackoffUncapped(current, healthy) ==
    IF healthy THEN CycleSeconds
    ELSE IF CycleSeconds > 2 * current THEN CycleSeconds ELSE 2 * current

NextBackoff(current, healthy) ==
    IF healthy THEN CycleSeconds
    ELSE LET doubled == IF CycleSeconds > 2 * current THEN CycleSeconds ELSE 2 * current
         IN  IF doubled < MaxBackoff THEN doubled ELSE MaxBackoff

\* os.replace, and on return the loop computes how long to sleep.  What the
\* heartbeat holds is the decision of whoever wrote the temporary file last.
InstallHeartbeat(p) ==
    /\ pc[p] = "install"
    /\ temp' = FALSE
    /\ \/ (~temp \/ p \in OneShots) /\ End(p)
       \/ /\ temp /\ p \in Loops
          /\ \E b \in {NextBackoff(backoff[p], cycle[p].result.preflight)} :
                /\ backoff' = [backoff EXCEPT ![p] = b]
                /\ left' = [left EXCEPT ![p] = b]
          /\ Goto(p, "sleep")
          /\ Forget(p)
          /\ UNCHANGED <<stop, owner>>
    /\ UNCHANGED <<journal, rotated, followVars>>

-----------------------------------------------------------------------------
(* _sleep_interruptibly *)

Nap(p) ==
    /\ pc[p] = "sleep"
    /\ ~stop[p] /\ left[p] > 0
    /\ left' = [left EXCEPT ![p] = @ - 1]
    /\ UNCHANGED <<pc, stop, backoff, cycle, owner, fileVars, followVars>>

\* Mutant: the wait consumes the request.
WakeClearingStop(p) ==
    /\ pc[p] = "sleep"
    /\ stop[p] \/ left[p] = 0
    /\ Goto(p, "top")
    /\ stop' = [stop EXCEPT ![p] = FALSE]
    /\ left' = [left EXCEPT ![p] = 0]
    /\ UNCHANGED <<backoff, cycle, owner, fileVars, followVars>>

Wake(p) ==
    /\ pc[p] = "sleep"
    /\ stop[p] \/ left[p] = 0
    /\ Goto(p, "top")
    /\ left' = [left EXCEPT ![p] = 0]
    /\ UNCHANGED <<stop, backoff, cycle, owner, fileVars, followVars>>

-----------------------------------------------------------------------------
Init ==
    /\ pc = [p \in Processes |-> "ended"]
    /\ stop = [p \in Processes |-> FALSE]
    /\ backoff = [p \in Processes |-> CycleSeconds]
    /\ left = [p \in Processes |-> 0]
    /\ cycle = [p \in Processes |-> NoCycle]
    /\ owner = Nobody
    /\ journal = Absent /\ rotated = FALSE /\ temp = FALSE
    /\ followed = "none" /\ since = 0

\* What a process does by itself once it has started.
Step(p) ==
    \/ Lock(p) \/ Top(p) \/ Observe(p) \/ FindRotated(p) \/ UnlinkRotated(p)
    \/ Rotate(p) \/ AppendDecision(p) \/ WriteTemp(p) \/ InstallHeartbeat(p)
    \/ Nap(p) \/ Wake(p)

Next == \E p \in Processes : Start(p) \/ RequestStop(p) \/ Kill(p) \/ Step(p)

Spec == Init /\ [][Next]_vars

\* A running loop is scheduled.  Nothing makes anyone start, stop or kill it, and
\* of the one-shot commands, which no loop waits for, nothing is assumed.
FairSpec == Spec /\ \A p \in Loops : WF_vars(Step(p))
-----------------------------------------------------------------------------
Labels == {"ended", "lock", "top", "cycle", "heartbeat", "install", "sleep"} \union AtJournal

LongestSleep == IF CycleSeconds < MaxBackoff THEN MaxBackoff ELSE CycleSeconds

\* The types of the runtime's processes and files, and with them that no sleep
\* is longer than the longer of cycle_seconds and max_backoff_seconds.
TypeOK ==
    /\ pc \in [Processes -> Labels]
    /\ stop \in [Processes -> BOOLEAN]
    /\ backoff \in [Processes -> 1..LongestSleep]
    /\ left \in [Processes -> 0..LongestSleep]
    /\ cycle \in [Processes -> [seen : Observation, result : CycleResult]]
    /\ owner \in Loops \union {Nobody}
    /\ journal \in 0..JournalMax \union {Absent}
    /\ rotated \in BOOLEAN /\ temp \in BOOLEAN
    /\ followed \in {"none", "journal", "rotated", "lost"}
    /\ since \in 0..JournalMax

\* OPERATIONS.md:151: a single-instance loop.  Whatever is killed and restarted,
\* one loop at most is past the lock, and it is the one the kernel has as owner.
InLoop(p) == p \in Loops /\ pc[p] \notin {"ended", "lock"}
OneLoop ==
    /\ \A p, q \in Processes : InLoop(p) /\ InLoop(q) => p = q
    /\ \A p \in Processes : InLoop(p) <=> owner = p

\* A healthy round is one in which nothing failed; the terminal and the quote
\* are not in doubt when the bridge is reported CONNECTED; and the default
\* reason hides no failure but that of symbol_metadata.
Earned(seen, result) ==
    /\ result.preflight <=> (seen = AllGood)
    /\ result.connectivity = "CONNECTED" =>
          /\ \A r \in Reads : seen[r] # "raise"
          /\ \A name \in {"health", "terminal", "quote"} : seen[Read(name)] = "good"
    /\ result.reason = "NO_AUTHORIZED_STRATEGY" =>
          \A r \in Reads \ {Read("metadata")} : seen[r] = "good"

\* operational.py:230-314: a round that was abandoned half way, or that failed
\* one check after passing others, is journaled with the verdict it earned.
VerdictIsEarned ==
    \A p \in Processes : pc[p] \in AtJournal => Earned(cycle[p].seen, cycle[p].result)

\* operational.py:137-147: the journal is append-only and rotation keeps one
\* older file, so a decision that was journaled is on disk until as many
\* decisions as fill a journal were written after it, across restarts and
\* processes killed in mid-rotation.  Not so when two processes are at the
\* journal at once: both may find it full, and the second rotation drops it.
JournalKeepsRecent == followed = "lost" => since >= JournalMax

\* operational.py:340-372: a request to stop ends the loop, from any point of a
\* cycle and from any backoff.
StopIsObeyed == \A p \in Loops : stop[p] ~> pc[p] = "ended"
=============================================================================
