------------------------ MODULE OperationalRuntimeProofs ------------------------
(***************************************************************************)
(* Proofs about the operational runtime, for any loops and one-shot        *)
(* commands, any observations, and any journal and backoff limits.         *)
(***************************************************************************)
EXTENDS OperationalRuntime, TLAPS

-----------------------------------------------------------------------------
(* The verdict of a round. *)

\* There are eight reads, and each name stands for one of them.
LEMMA ReadNumbers ==
    /\ Reads = 1..8 /\ QuoteRead = 8
    /\ Read("health") = 1 /\ Read("terminal") = 2 /\ Read("metadata") = 4
    /\ Read("kill_switch") = 5 /\ Read("reconciliation") = 6 /\ Read("quote") = 8
<1>1. Reads = 1..8 /\ QuoteRead = 8  BY DEF Reads, QuoteRead, ReadOrder
<1>2. \A r \in 1..8 : (ReadOrder[r] = "health" <=> r = 1)  BY DEF ReadOrder
<1>3. \A r \in 1..8 : (ReadOrder[r] = "terminal" <=> r = 2)  BY DEF ReadOrder
<1>4. \A r \in 1..8 : (ReadOrder[r] = "metadata" <=> r = 4)  BY DEF ReadOrder
<1>5. \A r \in 1..8 : (ReadOrder[r] = "kill_switch" <=> r = 5)  BY DEF ReadOrder
<1>6. \A r \in 1..8 : (ReadOrder[r] = "reconciliation" <=> r = 6)  BY DEF ReadOrder
<1>7. \A r \in 1..8 : (ReadOrder[r] = "quote" <=> r = 8)  BY DEF ReadOrder
<1>8. QED  BY <1>1, <1>2, <1>3, <1>4, <1>5, <1>6, <1>7 DEF Read

\* A check counts as healthy exactly when the answer was good.
LEMMA HealthyIsGood ==
    ASSUME NEW r, NEW answer \in Answers, NEW weekend \in BOOLEAN
    PROVE  CheckValue(r, answer, weekend) \in HealthyValues <=> answer = "good"
BY DEF CheckValue, HealthyValues, Answers

\* Where no read is abandoned, every read is made.
LEMMA AllCompleted ==
    ASSUME NEW obs \in Observation, ~Aborted(obs)
    PROVE  Completed(obs) = Reads
BY ReadNumbers DEF Aborted, Completed

LEMMA PreflightIsEarned ==
    ASSUME NEW obs \in Observation, NEW weekend \in BOOLEAN
    PROVE  (\A r \in DOMAIN Checks(obs, weekend) : Checks(obs, weekend)[r] \in HealthyValues)
              <=> obs = AllGood
<1>1. CASE Aborted(obs)
  <2>1. obs # AllGood
    BY <1>1, ReadNumbers DEF Aborted, Aborts, AllGood
  <2>2. 1 \in DOMAIN Checks(obs, weekend) /\ Checks(obs, weekend)[1] = "FAIL"
    BY <1>1, ReadNumbers DEF Checks
  <2>3. QED  BY <2>1, <2>2 DEF HealthyValues
<1>2. CASE ~Aborted(obs)
  <2>1. Checks(obs, weekend) = [r \in Reads |-> CheckValue(r, obs[r], weekend)]
    BY <1>2, AllCompleted DEF Checks
  <2>2. \A r \in Reads : CheckValue(r, obs[r], weekend) \in HealthyValues <=> obs[r] = "good"
    BY HealthyIsGood DEF Observation
  <2>3. (\A r \in Reads : obs[r] = "good") <=> obs = AllGood
    BY DEF Observation, AllGood
  <2>4. QED  BY <2>1, <2>2, <2>3
<1>3. QED  BY <1>1, <1>2

LEMMA ConnectivityIsEarned ==
    ASSUME NEW obs \in Observation, Connectivity(obs) = "CONNECTED"
    PROVE  /\ \A r \in Reads : obs[r] # "raise"
           /\ obs[1] = "good" /\ obs[2] = "good" /\ obs[8] = "good"
<1>1. ~Aborted(obs) /\ obs[8] = "good" /\ obs[1] # "bad" /\ obs[2] # "bad"
  BY ReadNumbers DEF Connectivity, Observation, Answers
<1>2. \A r \in Reads : obs[r] # "raise"
  BY <1>1, ReadNumbers DEF Aborted, Aborts
<1>3. QED  BY <1>1, <1>2, ReadNumbers DEF Observation, Answers

\* Every answer that is not good has a reason, but for the metadata's.
LEMMA BadHasReason ==
    ASSUME NEW r \in Reads, NEW answer \in Answers, NEW weekend \in BOOLEAN
    PROVE  /\ ReasonOf(r, answer, weekend) # "NO_AUTHORIZED_STRATEGY"
           /\ ReasonOf(r, answer, weekend) = "NONE" =>
                 answer = "good" \/ (r = Read("metadata") /\ answer = "bad")
<1>1. \A s \in 1..8 : (ReadOrder[s] = "metadata" <=> s = 4)  BY DEF ReadOrder
<1>2. ReadOrder[r] \in {"health", "terminal", "account", "metadata", "kill_switch",
                        "reconciliation", "exposure", "quote"}
  BY ReadNumbers DEF ReadOrder
<1>3. QED  BY <1>1, <1>2, ReadNumbers DEF ReasonOf, Answers

\* A round without complaints was not abandoned, so each of its answers counts.
LEMMA ReasonIsEarned ==
    ASSUME NEW mode \in Modes, NEW obs \in Observation, NEW weekend \in BOOLEAN,
           PrimaryReason(mode, obs, weekend) = "NO_AUTHORIZED_STRATEGY"
    PROVE  \A r \in Reads \ {Read("metadata")} : obs[r] = "good"
<1>1. \A r \in Reads : obs[r] \in Answers  BY DEF Observation
<1>2. Complaints(obs, weekend) = {}
  <2>1. SUFFICES ASSUME Complaints(obs, weekend) # {} PROVE FALSE  OBVIOUS
  <2>2. PICK c \in Complaints(obs, weekend) : TRUE  BY <2>1
  <2>3. c \in Reads  BY <2>2 DEF Complaints
  <2>4. \E s \in Complaints(obs, weekend) : \A t \in Complaints(obs, weekend) : s <= t
    <3>1. Complaints(obs, weekend) \subseteq 1..8  BY ReadNumbers DEF Complaints
    <3>2. QED  BY <2>2, <3>1, SMTT(30)
  <2>5. (CHOOSE s \in Complaints(obs, weekend) : \A t \in Complaints(obs, weekend) : s <= t)
           \in Reads
    BY <2>4 DEF Complaints
  <2>6. QED  BY <2>1, <2>5, <1>1, BadHasReason DEF PrimaryReason, Modes
<1>3. \A r \in Reads : (\A s \in 1..(r - 1) : ~Aborts(obs, s)) =>
                          obs[r] = "good" \/ (r = Read("metadata") /\ obs[r] = "bad")
  BY <1>1, <1>2, BadHasReason DEF Complaints
<1>4. \A r \in Reads : ~Aborts(obs, r)
  <2>1. ASSUME NEW r \in Reads, \A s \in 1..(r - 1) : ~Aborts(obs, s)
        PROVE  ~Aborts(obs, r)
    BY <2>1, <1>3 DEF Aborts
  <2>2. ~Aborts(obs, 1)  BY <2>1, ReadNumbers
  <2>3. ~Aborts(obs, 2)  BY <2>1, <2>2, ReadNumbers
  <2>4. ~Aborts(obs, 3)  BY <2>1, <2>2, <2>3, ReadNumbers
  <2>5. ~Aborts(obs, 4)  BY <2>1, <2>2, <2>3, <2>4, ReadNumbers
  <2>6. ~Aborts(obs, 5)  BY <2>1, <2>2, <2>3, <2>4, <2>5, ReadNumbers
  <2>7. ~Aborts(obs, 6)  BY <2>1, <2>2, <2>3, <2>4, <2>5, <2>6, ReadNumbers
  <2>8. ~Aborts(obs, 7)  BY <2>1, <2>2, <2>3, <2>4, <2>5, <2>6, <2>7, ReadNumbers
  <2>9. ~Aborts(obs, 8)  BY ReadNumbers DEF Aborts
  <2>10. QED  BY <2>2, <2>3, <2>4, <2>5, <2>6, <2>7, <2>8, <2>9, ReadNumbers
<1>5. QED  BY <1>3, <1>4, ReadNumbers

\* Whatever a round finds, on whatever day, its verdict is the one it earned.
THEOREM VerdictsAreEarned ==
    ASSUME NEW mode \in Modes, NEW obs \in Observation, NEW weekend \in BOOLEAN
    PROVE  Earned(obs, Verdict(mode, obs, weekend))
<1> DEFINE v == Verdict(mode, obs, weekend)
<1>1. /\ v.preflight = (\A r \in DOMAIN Checks(obs, weekend) :
                           Checks(obs, weekend)[r] \in HealthyValues)
      /\ v.connectivity = Connectivity(obs)
      /\ v.reason = PrimaryReason(mode, obs, weekend)
  BY DEF Verdict
<1>2. v.preflight <=> obs = AllGood  BY <1>1, PreflightIsEarned
<1>3. v.connectivity = "CONNECTED" =>
         /\ \A r \in Reads : obs[r] # "raise"
         /\ \A name \in {"health", "terminal", "quote"} : obs[Read(name)] = "good"
  BY <1>1, ConnectivityIsEarned, ReadNumbers
<1>4. v.reason = "NO_AUTHORIZED_STRATEGY" =>
         \A r \in Reads \ {Read("metadata")} : obs[r] = "good"
  BY <1>1, ReasonIsEarned
<1> HIDE DEF v
<1>5. QED  BY <1>2, <1>3, <1>4 DEF Earned, v

-----------------------------------------------------------------------------
(* Type correctness. *)

\* A process whose memory is gone has the values of one that never ran.
LEMMA NoCycleType ==
    NoCycle \in [seen : Observation, result : CycleResult]
<1>1. AllGood \in Observation  BY DEF AllGood, Observation, Answers
<1>2. QED  BY <1>1 DEF NoCycle, CycleResult, Reasons, ConnectivityStates

LEMMA ReasonType ==
    ASSUME NEW mode \in Modes, NEW obs \in Observation, NEW weekend \in BOOLEAN
    PROVE  PrimaryReason(mode, obs, weekend) \in Reasons
<1>1. CASE Complaints(obs, weekend) = {}  BY <1>1, Zenon DEF PrimaryReason, Modes, Reasons
<1>2. CASE Complaints(obs, weekend) # {}
  <2>1. Complaints(obs, weekend) \subseteq 1..8  BY ReadNumbers DEF Complaints
  <2>2. \E s \in Complaints(obs, weekend) : \A t \in Complaints(obs, weekend) : s <= t
    BY <1>2, <2>1, SMTT(30)
  <2>3. PICK f : /\ f \in Complaints(obs, weekend)
                 /\ f = CHOOSE s \in Complaints(obs, weekend) :
                           \A t \in Complaints(obs, weekend) : s <= t
    BY <2>2
  <2>4. obs[f] \in Answers /\ f \in Reads
    BY <2>3 DEF Observation, Complaints
  <2>5. ReadOrder[f] \in {"health", "terminal", "account", "metadata", "kill_switch",
                          "reconciliation", "exposure", "quote"}
    BY <2>4, ReadNumbers DEF ReadOrder
  <2>6. ReasonOf(f, obs[f], weekend) \in Reasons
    BY <2>4, <2>5 DEF ReasonOf, Answers, Reasons
  <2>7. QED  BY <1>2, <2>3, <2>6 DEF PrimaryReason, Modes, Reasons
<1>3. QED  BY <1>1, <1>2

LEMMA VerdictType ==
    ASSUME NEW mode \in Modes, NEW obs \in Observation, NEW weekend \in BOOLEAN
    PROVE  Verdict(mode, obs, weekend)
              \in CycleResult
<1>1. Connectivity(obs) \in ConnectivityStates
  BY ReadNumbers DEF Connectivity, ConnectivityStates, Observation, Answers
<1>2. QED  BY <1>1, ReasonType DEF Verdict, CycleResult

LEMMA CyclesType ==
    Cycles \subseteq [seen : Observation, result : CycleResult]
BY RuntimeAssumption, VerdictType DEF Cycles

LEMMA SleepType == LongestSleep \in Nat \ {0} /\ CycleSeconds \in 1..LongestSleep
BY RuntimeAssumption DEF LongestSleep

LEMMA NextBackoffType ==
    ASSUME NEW b \in 1..LongestSleep, NEW healthy \in BOOLEAN
    PROVE  NextBackoff(b, healthy) \in 1..LongestSleep
BY RuntimeAssumption, SleepType DEF NextBackoff, LongestSleep

ProcessTypes ==
    /\ pc \in [Processes -> Labels]
    /\ stop \in [Processes -> BOOLEAN]
    /\ backoff \in [Processes -> 1..LongestSleep]
    /\ left \in [Processes -> 0..LongestSleep]
    /\ cycle \in [Processes -> [seen : Observation, result : CycleResult]]
    /\ owner \in Loops \union {Nobody}

\* What the end of a process, or its moving on, does to the types.
LEMMA EndTypes ==
    ASSUME TypeOK, NEW p \in Processes, End(p)
    PROVE  ProcessTypes'
<1>1. "ended" \in Labels  BY DEF Labels
<1>2. CycleSeconds \in 1..LongestSleep /\ 0 \in 0..LongestSleep  BY SleepType
<1>3. QED
  BY <1>1, <1>2, NoCycleType DEF TypeOK, ProcessTypes, End, Goto, Forget

LEMMA GotoUnlessTypes ==
    ASSUME TypeOK, NEW p \in Processes, NEW missing \in BOOLEAN, NEW label \in Labels,
           GotoUnless(p, missing, label)
    PROVE  ProcessTypes'
<1>1. CASE End(p)  BY <1>1, EndTypes
<1>2. CASE Goto(p, label) /\ UNCHANGED <<owner, sleepVars, cycle>>
  BY <1>2 DEF TypeOK, ProcessTypes, Goto, sleepVars
<1>3. QED  BY <1>1, <1>2 DEF GotoUnless

\* Only a loop waits for the lock, looks at the request to stop, or sleeps; and
\* the loop that is past the lock is the one that holds it.
LoopInv ==
    \A p \in Processes :
        /\ pc[p] \in {"lock", "top", "sleep"} => p \in Loops
        /\ InLoop(p) <=> owner = p

\* What a process is about to journal is the verdict on some round.
CycleInv == \A p \in Processes : pc[p] \in AtJournal => cycle[p] \in Cycles

\* While a decision is followed one process at most is at the journal, and one
\* that is about to rotate it finds it full.  A decision in the older file was
\* followed by what the journal holds, and by a full journal once it is lost.
JournalInv ==
    followed # "none" =>
        /\ \A p, q \in Processes : pc[p] \in AtJournal /\ pc[q] \in AtJournal => p = q
        /\ \A p \in Processes :
              pc[p] \in {"rotated?", "unlink", "replace"} => journal = JournalMax
        /\ followed = "rotated" => since >= journal
        /\ followed = "lost" => since >= JournalMax

IInv == TypeOK /\ LoopInv /\ CycleInv /\ JournalInv

LEMMA TypeStep ==
    ASSUME TypeOK, LoopInv, NEW p \in Processes,
           Start(p) \/ RequestStop(p) \/ Kill(p) \/ Step(p)
    PROVE  TypeOK'
<1> USE RuntimeAssumption
<1>1. CASE Start(p)
  BY <1>1 DEF Start, TypeOK, Goto, Labels, sleepVars, fileVars, followVars
<1>2. CASE RequestStop(p)
  BY <1>2 DEF RequestStop, TypeOK, fileVars, followVars
<1>3. CASE Kill(p)
  BY <1>3, EndTypes DEF Kill, TypeOK, ProcessTypes, fileVars, followVars
<1>4. CASE Lock(p)
  <2>1. CASE End(p)
    BY <1>4, <2>1, EndTypes DEF Lock, TypeOK, ProcessTypes, fileVars, followVars
  <2>2. CASE owner' = p /\ Goto(p, "top") /\ UNCHANGED <<sleepVars, cycle>>
    BY <1>4, <2>2 DEF Lock, LoopInv, TypeOK, Goto, Labels, sleepVars, fileVars, followVars
  <2>3. QED  BY <1>4, <2>1, <2>2 DEF Lock
<1>5. CASE Top(p)
  <2>1. "cycle" \in Labels  BY DEF Labels
  <2>2. stop[p] \in BOOLEAN  BY DEF TypeOK
  <2>3. QED
    BY <1>5, <2>1, <2>2, GotoUnlessTypes DEF Top, TypeOK, ProcessTypes, fileVars, followVars
<1>6. CASE Observe(p)
  BY <1>6, CyclesType
     DEF Observe, TypeOK, Goto, Labels, AtJournal, sleepVars, fileVars, followVars
<1>7. CASE FindRotated(p)
  BY <1>7 DEF FindRotated, TypeOK, Goto, Labels, AtJournal, sleepVars, fileVars, followVars
<1>8. CASE UnlinkRotated(p)
  <2>1. "replace" \in Labels  BY DEF Labels, AtJournal
  <2>2. QED  BY <1>8, <2>1, GotoUnlessTypes DEF UnlinkRotated, TypeOK, ProcessTypes
<1>9. CASE Rotate(p)
  <2>1. "append" \in Labels  BY DEF Labels, AtJournal
  <2>2. QED  BY <1>9, <2>1, GotoUnlessTypes DEF Rotate, TypeOK, ProcessTypes
<1>10. CASE AppendDecision(p)
  <2>1. journal' \in 0..JournalMax \union {Absent}
    BY <1>10 DEF AppendDecision, TypeOK, Absent
  <2>2. followed' \in {"none", "journal", "rotated", "lost"} /\ since' \in 0..JournalMax
    BY <1>10 DEF AppendDecision, TypeOK
  <2>3. cycle' \in [Processes -> [seen : Observation, result : CycleResult]]
    <3>1. [NoCycle EXCEPT !.result.preflight = cycle[p].result.preflight]
             \in [seen : Observation, result : CycleResult]
      BY NoCycleType DEF TypeOK, CycleResult
    <3>2. QED  BY <1>10, <3>1 DEF AppendDecision, TypeOK
  <2>4. QED
    BY <1>10, <2>1, <2>2, <2>3 DEF AppendDecision, TypeOK, Goto, Labels, sleepVars
<1>11. CASE WriteTemp(p)
  BY <1>11 DEF WriteTemp, TypeOK, Goto, Labels, sleepVars, followVars
<1>12. CASE InstallHeartbeat(p)
  <2>1. CASE End(p)
    BY <1>12, <2>1, EndTypes DEF InstallHeartbeat, TypeOK, ProcessTypes, followVars
  <2>2. CASE ~End(p)
    <3>1. cycle[p].result.preflight \in BOOLEAN  BY DEF TypeOK, CycleResult
    <3>2. PICK b \in 1..LongestSleep : /\ backoff' = [backoff EXCEPT ![p] = b]
                                       /\ left' = [left EXCEPT ![p] = b]
      BY <1>12, <2>2, <3>1, NextBackoffType DEF InstallHeartbeat, TypeOK
    <3>3. b \in 0..LongestSleep  BY SleepType
    <3>4. cycle' = [cycle EXCEPT ![p] = NoCycle] /\ Goto(p, "sleep") /\ UNCHANGED <<stop, owner>>
      BY <1>12, <2>2 DEF InstallHeartbeat, Forget
    <3>5. pc' \in [Processes -> Labels]  BY <3>4 DEF TypeOK, Goto, Labels
    <3>6. ProcessTypes'
      BY <3>2, <3>3, <3>4, <3>5, NoCycleType DEF TypeOK, ProcessTypes
    <3>7. QED  BY <1>12, <3>6 DEF InstallHeartbeat, TypeOK, ProcessTypes, followVars
  <2>3. QED  BY <2>1, <2>2
<1>13. CASE Nap(p)
  BY <1>13, SleepType DEF Nap, TypeOK, fileVars, followVars
<1>14. CASE Wake(p)
  BY <1>14, SleepType DEF Wake, TypeOK, Goto, Labels, fileVars, followVars
<1>15. QED
  BY <1>1, <1>2, <1>3, <1>4, <1>5, <1>6, <1>7, <1>8, <1>9, <1>10, <1>11, <1>12, <1>13, <1>14
     DEF Step

-----------------------------------------------------------------------------
(* The lock, the verdicts and the journal. *)

\* The processes that do not move keep what LoopInv and CycleInv say of them.
LEMMA EndFrees ==
    ASSUME TypeOK, LoopInv, CycleInv, NEW p \in Processes, End(p)
    PROVE  LoopInv' /\ CycleInv'
<1>1. p # Nobody  BY RuntimeAssumption
<1>2. /\ pc'[p] = "ended" /\ owner' # p
      /\ \A q \in Processes \ {p} : pc'[q] = pc[q] /\ cycle'[q] = cycle[q]
      /\ \A q \in Processes \ {p} : owner' = q <=> owner = q
  BY <1>1, RuntimeAssumption DEF TypeOK, End, Goto, Forget
<1>3. QED  BY <1>2 DEF LoopInv, CycleInv, InLoop, AtJournal

LEMMA GoesOn ==
    ASSUME TypeOK, LoopInv, CycleInv, NEW p \in Processes, NEW label,
           pc[p] \notin {"ended", "lock"},
           label \notin {"ended", "lock"}, label \in {"top", "sleep"} => p \in Loops,
           Goto(p, label), owner' = owner,
           \A q \in Processes \ {p} : cycle'[q] = cycle[q],
           label \in AtJournal => cycle'[p] \in Cycles
    PROVE  LoopInv' /\ CycleInv'
<1>1. pc'[p] = label /\ \A q \in Processes \ {p} : pc'[q] = pc[q]
  BY DEF TypeOK, Goto
<1>2. InLoop(p)' <=> InLoop(p)
  BY <1>1 DEF InLoop
<1>3. LoopInv'  BY <1>1, <1>2 DEF LoopInv, InLoop
<1>4. CycleInv'  BY <1>1 DEF CycleInv
<1>5. QED  BY <1>3, <1>4

LEMMA LoopStep ==
    ASSUME TypeOK, LoopInv, CycleInv, NEW p \in Processes,
           Start(p) \/ RequestStop(p) \/ Kill(p) \/ Step(p)
    PROVE  LoopInv' /\ CycleInv'
<1> USE RuntimeAssumption
<1>1. CASE Start(p)
  BY <1>1 DEF Start, TypeOK, Goto, LoopInv, CycleInv, InLoop, AtJournal, Processes
<1>2. CASE RequestStop(p)
  BY <1>2 DEF RequestStop, LoopInv, CycleInv, InLoop
<1>3. CASE Kill(p)  BY <1>3, EndFrees DEF Kill
<1>4. CASE Lock(p)
  <2>1. CASE End(p)  BY <2>1, EndFrees
  <2>2. CASE owner = Nobody /\ owner' = p /\ Goto(p, "top") /\ UNCHANGED <<sleepVars, cycle>>
    <3>1. pc[p] = "lock" /\ p \in Loops  BY <1>4 DEF Lock, LoopInv
    <3>2. pc'[p] = "top" /\ \A q \in Processes \ {p} : pc'[q] = pc[q] /\ owner # q
      BY <2>2 DEF TypeOK, Goto
    <3>3. LoopInv'  BY <2>2, <3>1, <3>2 DEF LoopInv, InLoop
    <3>4. CycleInv'  BY <2>2, <3>2 DEF CycleInv, AtJournal
    <3>5. QED  BY <3>3, <3>4
  <2>3. QED  BY <1>4, <2>1, <2>2 DEF Lock
<1>5. CASE Top(p)
  <2>1. CASE End(p)  BY <2>1, EndFrees
  <2>2. QED  BY <1>5, <2>1, GoesOn DEF Top, GotoUnless, AtJournal
<1>6. CASE Observe(p)
  <2>1. PICK c \in Cycles : cycle' = [cycle EXCEPT ![p] = c]  BY <1>6 DEF Observe
  <2>2. cycle'[p] \in Cycles /\ \A q \in Processes \ {p} : cycle'[q] = cycle[q]
    BY <2>1 DEF TypeOK
  <2>3. Goto(p, "rotated?") \/ Goto(p, "append")  BY <1>6 DEF Observe
  <2>4. QED  BY <1>6, <2>2, <2>3, GoesOn DEF Observe
<1>7. CASE FindRotated(p)
  <2>1. cycle[p] \in Cycles  BY <1>7 DEF FindRotated, CycleInv, AtJournal
  <2>2. Goto(p, "unlink") \/ Goto(p, "replace")  BY <1>7 DEF FindRotated
  <2>3. QED  BY <1>7, <2>1, <2>2, GoesOn DEF FindRotated
<1>8. CASE UnlinkRotated(p)
  <2>1. cycle[p] \in Cycles  BY <1>8 DEF UnlinkRotated, CycleInv, AtJournal
  <2>2. CASE End(p)  BY <2>2, EndFrees
  <2>3. QED  BY <1>8, <2>1, <2>2, GoesOn DEF UnlinkRotated, GotoUnless
<1>9. CASE Rotate(p)
  <2>1. cycle[p] \in Cycles  BY <1>9 DEF Rotate, CycleInv, AtJournal
  <2>2. CASE End(p)  BY <2>2, EndFrees
  <2>3. QED  BY <1>9, <2>1, <2>2, GoesOn DEF Rotate, GotoUnless
<1>10. CASE AppendDecision(p)
  <2>1. \A q \in Processes \ {p} : cycle'[q] = cycle[q]
    BY <1>10 DEF AppendDecision, TypeOK
  <2>2. QED  BY <1>10, <2>1, GoesOn DEF AppendDecision, AtJournal
<1>11. CASE WriteTemp(p)
  BY <1>11, GoesOn DEF WriteTemp, AtJournal
<1>12. CASE InstallHeartbeat(p)
  <2>1. CASE End(p)  BY <2>1, EndFrees
  <2>2. CASE ~End(p)
    <3>1. p \in Loops /\ Goto(p, "sleep") /\ Forget(p) /\ owner' = owner
          /\ pc[p] = "install"
      BY <1>12, <2>2 DEF InstallHeartbeat
    <3>2. \A q \in Processes \ {p} : cycle'[q] = cycle[q]
      BY <3>1 DEF Forget, TypeOK
    <3>3. QED  BY <3>1, <3>2, GoesOn DEF AtJournal
  <2>3. QED  BY <2>1, <2>2
<1>13. CASE Nap(p)
  BY <1>13 DEF Nap, LoopInv, CycleInv, InLoop
<1>14. CASE Wake(p)
  <2>1. p \in Loops  BY <1>14 DEF Wake, LoopInv
  <2>2. QED  BY <1>14, <2>1, GoesOn DEF Wake, AtJournal
<1>15. QED
  BY <1>1, <1>2, <1>3, <1>4, <1>5, <1>6, <1>7, <1>8, <1>9, <1>10, <1>11, <1>12, <1>13, <1>14
     DEF Step

\* A step of a process that leaves the files, and does not go to the journal.
LEMMA JournalLeftAlone ==
    ASSUME TypeOK, JournalInv, NEW p \in Processes,
           \A q \in Processes \ {p} : pc'[q] = pc[q],
           pc'[p] \notin AtJournal \/ pc'[p] = pc[p],
           UNCHANGED <<journal, followVars>>
    PROVE  JournalInv'
BY DEF JournalInv, followVars, AtJournal

LEMMA JournalStep ==
    ASSUME TypeOK, LoopInv, CycleInv, JournalInv, NEW p \in Processes,
           Start(p) \/ RequestStop(p) \/ Kill(p) \/ Step(p)
    PROVE  JournalInv'
<1> USE RuntimeAssumption
<1>1. ASSUME End(p)
      PROVE  pc'[p] = "ended" /\ \A q \in Processes \ {p} : pc'[q] = pc[q]
  BY <1>1 DEF End, Goto, TypeOK
<1>2. ASSUME NEW label, Goto(p, label)
      PROVE  pc'[p] = label /\ \A q \in Processes \ {p} : pc'[q] = pc[q]
  BY <1>2 DEF Goto, TypeOK
<1>3. CASE Start(p)
  BY <1>2, <1>3, JournalLeftAlone DEF Start, AtJournal, fileVars
<1>4. CASE RequestStop(p)
  BY <1>4, JournalLeftAlone DEF RequestStop, fileVars
<1>5. CASE Kill(p)
  BY <1>1, <1>5, JournalLeftAlone DEF Kill, AtJournal, fileVars
<1>6. CASE Lock(p)
  BY <1>1, <1>2, <1>6, JournalLeftAlone DEF Lock, AtJournal, fileVars
<1>7. CASE Top(p)
  BY <1>1, <1>2, <1>7, JournalLeftAlone DEF Top, GotoUnless, AtJournal, fileVars
<1>8. CASE Observe(p)
  <2>1. CASE Overlap(p)  BY <1>8, <2>1 DEF Observe, JournalInv
  <2>2. CASE ~Overlap(p)
    <3>1. journal >= JournalMax => journal = JournalMax  BY DEF TypeOK, Absent
    <3>2. pc'[p] \in {"rotated?", "append"} /\ \A q \in Processes \ {p} : pc'[q] = pc[q]
      BY <1>2, <1>8 DEF Observe
    <3>3. pc'[p] = "rotated?" => journal = JournalMax
      BY <1>2, <1>8, <3>1 DEF Observe
    <3>4. UNCHANGED <<journal, followed, since>>
      BY <1>8, <2>2 DEF Observe, fileVars, followVars
    <3>5. \A q \in Processes \ {p} : pc'[q] \notin AtJournal
      BY <2>2, <3>2 DEF Overlap
    <3>6. QED  BY <3>2, <3>3, <3>4, <3>5 DEF JournalInv, AtJournal
  <2>3. QED  BY <2>1, <2>2
<1>9. CASE FindRotated(p)
  <2>1. pc[p] = "rotated?" /\ pc'[p] \in {"unlink", "replace"}
        /\ \A q \in Processes \ {p} : pc'[q] = pc[q]
    BY <1>2, <1>9 DEF FindRotated
  <2>2. UNCHANGED <<journal, followed, since>>
    BY <1>9 DEF FindRotated, fileVars, followVars
  <2>3. QED  BY <2>1, <2>2 DEF JournalInv, AtJournal
<1>10. CASE UnlinkRotated(p)
  <2>1. pc[p] = "unlink" /\ pc'[p] \in {"replace", "ended"}
        /\ \A q \in Processes \ {p} : pc'[q] = pc[q]
    BY <1>1, <1>2, <1>10 DEF UnlinkRotated, GotoUnless
  <2>2. journal' = journal /\ since' = since
        /\ followed' = IF followed = "rotated" THEN "lost" ELSE followed
    BY <1>10 DEF UnlinkRotated
  <2>3. QED  BY <2>1, <2>2 DEF JournalInv, AtJournal
<1>11. CASE Rotate(p)
  <2>1. pc[p] = "replace" /\ pc'[p] \in {"append", "ended"}
        /\ \A q \in Processes \ {p} : pc'[q] = pc[q]
    BY <1>1, <1>2, <1>11 DEF Rotate, GotoUnless
  <2>2. journal' = Absent /\ since' = since /\ since \in Nat
    BY <1>11 DEF Rotate, TypeOK
  <2>3. CASE journal = Absent
    <3>1. followed' = followed  BY <1>11, <2>3 DEF Rotate
    <3>2. followed = "none"  BY <2>1, <2>3 DEF JournalInv, Absent
    <3>3. QED  BY <3>1, <3>2 DEF JournalInv
  <2>4. CASE journal # Absent
    <3>1. \/ followed = "journal" /\ followed' = "rotated"
          \/ followed = "rotated" /\ followed' = "lost"
          \/ followed \in {"none", "lost"} /\ followed' = followed
      BY <1>11, <2>4 DEF Rotate, TypeOK
    <3>2. QED  BY <2>1, <2>2, <3>1 DEF JournalInv, AtJournal, Absent
  <2>5. QED  BY <2>3, <2>4
<1>12. CASE AppendDecision(p)
  <2>1. pc[p] = "append" /\ pc'[p] = "heartbeat" /\ \A q \in Processes \ {p} : pc'[q] = pc[q]
    BY <1>2, <1>12 DEF AppendDecision
  <2>2. CASE followed = "none" /\ ~Overlap(p) /\ followed' = "journal" /\ since' = 0
    BY <2>1, <2>2 DEF Overlap, JournalInv, AtJournal
  <2>3. CASE followed' = followed /\ followed # "none"
    <3>1. since' = IF since < JournalMax THEN since + 1 ELSE since
      BY <1>12, <2>3 DEF AppendDecision
    <3>2. journal' = IF journal = Absent THEN 1
                     ELSE IF journal < JournalMax THEN journal + 1 ELSE JournalMax
      BY <1>12 DEF AppendDecision
    <3>3. \A q \in Processes : pc'[q] \notin AtJournal
      BY <2>1, <2>3 DEF JournalInv, AtJournal
    <3>4. since \in 0..JournalMax /\ journal \in 0..JournalMax \union {Absent}
      BY DEF TypeOK
    <3>5. (followed = "rotated" => since >= journal) /\ (followed = "lost" => since >= JournalMax)
      BY <2>3 DEF JournalInv
    <3>6. (followed' = "rotated" => since' >= journal')
          /\ (followed' = "lost" => since' >= JournalMax)
      BY <2>3, <3>1, <3>2, <3>4, <3>5 DEF Absent
    <3>7. QED  BY <3>3, <3>6 DEF JournalInv, AtJournal
  <2>4. CASE followed' = followed /\ followed = "none"  BY <2>4 DEF JournalInv
  <2>5. QED  BY <1>12, <2>2, <2>3, <2>4 DEF AppendDecision
<1>13. CASE WriteTemp(p)
  BY <1>2, <1>13, JournalLeftAlone DEF WriteTemp, AtJournal
<1>14. CASE InstallHeartbeat(p)
  BY <1>1, <1>2, <1>14, JournalLeftAlone DEF InstallHeartbeat, AtJournal
<1>15. CASE Nap(p)
  BY <1>15, JournalLeftAlone DEF Nap, fileVars
<1>16. CASE Wake(p)
  BY <1>2, <1>16, JournalLeftAlone DEF Wake, AtJournal, fileVars
<1>17. QED
  BY <1>3, <1>4, <1>5, <1>6, <1>7, <1>8, <1>9, <1>10, <1>11, <1>12, <1>13, <1>14, <1>15, <1>16
     DEF Step

-----------------------------------------------------------------------------
(* The theorems. *)

\* The four parts together are inductive.
LEMMA Inductive == Spec => []IInv
<1> USE RuntimeAssumption
<1>1. Init => IInv
  <2> SUFFICES ASSUME Init PROVE IInv  OBVIOUS
  <2>1. TypeOK
    <3>1. CycleSeconds \in 1..LongestSleep /\ 0 \in 0..LongestSleep  BY SleepType
    <3>2. "ended" \in Labels  BY DEF Labels
    <3>3. 0 \in 0..JournalMax  OBVIOUS
    <3>4. QED  BY <3>1, <3>2, <3>3, NoCycleType DEF Init, TypeOK
  <2>2. LoopInv /\ CycleInv
    BY DEF Init, LoopInv, CycleInv, InLoop, AtJournal
  <2>3. JournalInv  BY DEF Init, JournalInv
  <2>4. QED  BY <2>1, <2>2, <2>3 DEF IInv
<1>2. IInv /\ [Next]_vars => IInv'
  <2> SUFFICES ASSUME IInv, [Next]_vars PROVE IInv'  OBVIOUS
  <2>1. CASE Next
    <3>1. PICK p \in Processes : Start(p) \/ RequestStop(p) \/ Kill(p) \/ Step(p)
      BY <2>1 DEF Next
    <3>2. QED  BY <3>1, TypeStep, LoopStep, JournalStep DEF IInv
  <2>2. CASE UNCHANGED vars
    BY <2>2 DEF vars, sleepVars, fileVars, followVars, IInv, TypeOK, LoopInv, InLoop,
                CycleInv, JournalInv
  <2>3. QED  BY <2>1, <2>2
<1>3. QED  BY <1>1, <1>2, PTL DEF Spec

\* The state of the processes and the files is always well typed, and no loop
\* sleeps longer than cycle_seconds or max_backoff_seconds.
THEOREM RuntimeTypeOK == Spec => []TypeOK
<1>1. IInv => TypeOK  BY DEF IInv
<1>2. QED  BY <1>1, Inductive, PTL

\* At most one loop is past the lock, whatever is killed and restarted.
THEOREM RuntimeOneLoop == Spec => []OneLoop
<1>1. IInv => OneLoop  BY DEF IInv, LoopInv, OneLoop
<1>2. QED  BY <1>1, Inductive, PTL

\* What is journaled is the verdict that its round earned, whatever the reads
\* find, in every mode and on every day.
THEOREM RuntimeVerdictIsEarned == Spec => []VerdictIsEarned
<1>1. ASSUME NEW c \in Cycles PROVE Earned(c.seen, c.result)
  BY <1>1, VerdictsAreEarned, RuntimeAssumption DEF Cycles
<1>2. IInv => VerdictIsEarned  BY <1>1 DEF IInv, CycleInv, VerdictIsEarned
<1>3. QED  BY <1>2, Inductive, PTL

\* A decision is lost only after as many as fill a journal were written after it,
\* as long as no two processes are at the journal at once.
THEOREM RuntimeJournalKeepsRecent == Spec => []JournalKeepsRecent
<1>1. IInv => JournalKeepsRecent  BY DEF IInv, JournalInv, JournalKeepsRecent
<1>2. QED  BY <1>1, Inductive, PTL
=============================================================================
