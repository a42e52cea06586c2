---------------------------- MODULE DemoProbeProofs ----------------------------
(***************************************************************************)
(* Proofs about the demo execution probe, for any number of processes: Inv *)
(* is inductive, and the properties follow from it.                        *)
(***************************************************************************)
EXTENDS DemoProbe, TLAPS

\* Of what its argument does to one process: the new record of that process.
LEMMA GotoIs ==
    ASSUME TypeOK, NEW p \in Probes, NEW pc \in Steps, Goto(p, pc)
    PROVE  \E r \in Probe : /\ probes' = [probes EXCEPT ![p] = r]
                            /\ r.pc = pc
                            /\ r.entry = probes[p].entry
                            /\ r.then = probes[p].then
                            /\ r.draft = probes[p].draft
<1>1. probes[p] \in Probe BY DEF TypeOK
<1>2. PICK r : r = [pc |-> pc, entry |-> probes[p].entry, then |-> probes[p].then, draft |-> probes[p].draft]
  OBVIOUS
<1>3. r \in Probe BY <1>1, <1>2 DEF Probe
<1>4. r = [probes[p] EXCEPT !.pc = pc] BY <1>1, <1>2 DEF Probe
<1>5. probes' = [probes EXCEPT ![p] = r] BY <1>4 DEF Goto
<1> QED BY <1>2, <1>3, <1>5

LEMMA EntryIs ==
    ASSUME TypeOK, NEW p \in Probes, NEW state \in Recorded, NEW next \in Steps, Entry(p, state, next)
    PROVE  \E r \in Probe : /\ probes' = [probes EXCEPT ![p] = r]
                            /\ r.pc = "load"
                            /\ r.entry = state
                            /\ r.then = next
<1>1. probes[p] \in Probe BY DEF TypeOK
<1>2. PICK r : r = [probes[p] EXCEPT !.pc = "load", !.entry = state, !.then = next]
  OBVIOUS
<1>3. probes' = [probes EXCEPT ![p] = r] BY <1>2 DEF Entry
<1>4. "load" \in Steps BY DEF Steps, Saving
<1>5. r \in Probe /\ r.pc = "load" /\ r.entry = state /\ r.then = next
  BY <1>1, <1>2, <1>4 DEF Probe
<1> QED BY <1>3, <1>5

\* Of a step of one process: it keeps Inv if it keeps what Inv says of that
\* process and of the file, and if that process alone may count on the file.
LEMMA ProbeMoves ==
    ASSUME Inv,
           NEW p \in Probes, NEW r \in Probe,
           probes' = [probes EXCEPT ![p] = r],
           file' \in Record \cup {None}, temp' \in Record \cup {None},
           posts' \subseteq OrderIds, \A id \in posts' \ posts : id[1] = p,
           UNCHANGED <<positions, bridgeVars>>,
           overlapped' \in BOOLEAN,
           ~overlapped' => ~overlapped /\ Running \subseteq {p},
           StepInv(p, r)', ~overlapped' => FileInv(p, r)',
           ExposureIsOnRecord', ClosedIsTrue'
    PROVE  Inv'
<1>1. TypeOK' BY DEF Inv, TypeOK, bridgeVars
<1>2. BookInv' BY DEF Inv, BookInv, bridgeVars
<1>3. probes'[p] = r /\ \A q \in Probes \ {p} : probes'[q] = probes[q] BY DEF Inv, TypeOK
<1>4. ASSUME NEW q \in Probes PROVE StepInv(q, probes[q])'
  <2>1. CASE q = p BY <2>1, <1>3 DEF StepInv, Doing
  <2>2. CASE q # p
    <3>1. probes'[q] = probes[q] BY <2>2, <1>3
    <3>2. <<q, "open">> \in posts' => <<q, "open">> \in posts BY <2>2
    <3>3. StepInv(q, probes[q]) BY DEF Inv
    <3> QED BY <3>1, <3>2, <3>3 DEF StepInv, Doing, bridgeVars
  <2> QED BY <2>1, <2>2
<1>5. ASSUME NEW q \in Probes, ~overlapped' PROVE FileInv(q, probes[q])'
  <2>1. CASE q = p BY <2>1, <1>3, <1>5 DEF FileInv, Doing, FileIs
  <2>2. CASE q # p
    <3>1. probes'[q] = probes[q] /\ q \notin Running BY <2>2, <1>3, <1>5
    <3>2. probes'[q].pc \in {"new"} \cup Finished BY <3>1 DEF Running
    <3> QED BY <3>2 DEF FileInv, Doing, Finished, Saving, Opening, Closing, Drafted
  <2> QED BY <2>1, <2>2
<1>6. OneRuns'
  <2>1. ASSUME ~overlapped', NEW q \in Running' PROVE q = p
    BY <2>1, <1>3 DEF Running
  <2> QED BY <2>1 DEF OneRuns
<1> QED BY <1>1, <1>2, <1>4, <1>5, <1>6 DEF Inv

\* A step of a running process that leaves everything else alone.
LEMMA LocalStep ==
    ASSUME Inv,
           NEW p \in Running, NEW r \in Probe,
           probes' = [probes EXCEPT ![p] = r],
           Elsewhere,
           StepInv(p, r), ~overlapped => FileInv(p, r)
    PROVE  Inv'
<1>1. p \in Probes BY DEF Running
<1>2. UNCHANGED <<file, temp, posts, positions, bridgeVars, overlapped>> BY DEF Elsewhere
<1>3. StepInv(p, r)' BY <1>2 DEF StepInv, Doing, bridgeVars
<1>4. ~overlapped' => FileInv(p, r)' BY <1>2 DEF FileInv, FileIs, Doing
<1>5. ~overlapped => Running \subseteq {p} BY DEF Inv, OneRuns
<1>6. ExposureIsOnRecord' BY <1>2 DEF Inv, ExposureIsOnRecord, Underway, bridgeVars
<1>7. ClosedIsTrue' BY <1>2 DEF Inv, ClosedIsTrue, bridgeVars
<1>8. file \in Record \cup {None} /\ temp \in Record \cup {None} /\ posts \subseteq OrderIds /\ overlapped \in BOOLEAN
  BY DEF Inv, TypeOK
<1>9. overlapped' \in BOOLEAN /\ (~overlapped' => ~overlapped /\ Running \subseteq {p}) BY <1>2, <1>5, <1>8
<1> QED BY <1>1, <1>2, <1>3, <1>4, <1>6, <1>7, <1>8, <1>9, ProbeMoves

-----------------------------------------------------------------------------
(***************************************************************************)
(* The process.                                                            *)
(***************************************************************************)
LEMMA RunningFacts ==
    ASSUME Inv, NEW p \in Running
    PROVE  /\ p \in Probes
           /\ probes[p] \in Probe
           /\ StepInv(p, probes[p])
           /\ ~overlapped => FileInv(p, probes[p])
           /\ TypeOK
<1>1. p \in Probes BY DEF Running
<1> QED BY <1>1 DEF Inv, TypeOK

\* The run ends, with the file as it is.
LEMMA EndRun == ASSUME Inv, NEW p \in Running, Goto(p, "ended"), Elsewhere PROVE Inv'
<1>1. PICK r \in Probe : probes' = [probes EXCEPT ![p] = r] /\ r.pc = "ended"
  BY RunningFacts, GotoIs DEF Steps, Finished
<1>2. StepInv(p, r)
  BY <1>1 DEF StepInv, Doing, Unsent, Answered, Drafted, Saving
<1>3. FileInv(p, r)
  BY <1>1 DEF FileInv, Doing, Opening, Closing, Drafted, Saving
<1> QED BY <1>1, <1>2, <1>3, LocalStep

\* An entry is begun that ends the run, when something was sent already or the
\* request to open has not left.
LEMMA BeginLastEntry ==
    ASSUME Inv, NEW p \in Running, NEW state \in {"EXPIRED", "AMBIGUOUS"},
           Entry(p, state, "ended"), Elsewhere,
           probes[p].pc \in Opening \cup (Closing \ {"opened"}),
           state = "EXPIRED" => probes[p].pc = "safe_open"
    PROVE  Inv'
<1>0. /\ p \in Probes /\ probes[p] \in Probe /\ StepInv(p, probes[p]) /\ TypeOK
      /\ ~overlapped => FileInv(p, probes[p])
  BY RunningFacts
<1>1. PICK r \in Probe : probes' = [probes EXCEPT ![p] = r] /\ r.pc = "load" /\ r.entry = state /\ r.then = "ended"
  BY <1>0, EntryIs DEF Recorded, Steps, Finished
<1>2. StepInv(p, r)
  BY <1>0, <1>1 DEF StepInv, Doing, Unsent, Answered, Drafted, Saving, Entries
<1>3. ~overlapped => FileInv(p, r)
  BY <1>0, <1>1 DEF FileInv, Doing, Opening, Closing, Drafted, Saving, Recorded
<1> QED BY <1>1, <1>2, <1>3, LocalStep

LEMMA LoadRecordStep == ASSUME Inv, NEW p \in Running, LoadRecord(p) PROVE Inv'
<1>0. /\ p \in Probes /\ probes[p] \in Probe /\ StepInv(p, probes[p]) /\ TypeOK
      /\ ~overlapped => FileInv(p, probes[p])
  BY RunningFacts
<1>1. PICK d : d = [state |-> probes[p].entry,
                    run |-> IF probes[p].entry = "OPENING" \/ file = None THEN p ELSE file.run]
  OBVIOUS
<1>2. d \in Record /\ d.state = probes[p].entry /\ d # None
  BY <1>0, <1>1, DemoProbeAssumption DEF Record, Probe, TypeOK
<1>3. PICK r : r = [probes[p] EXCEPT !.pc = "write", !.draft = d]
  OBVIOUS
<1>4. probes' = [probes EXCEPT ![p] = r] BY <1>1, <1>3 DEF LoadRecord
<1>5. r \in Probe /\ r.pc = "write" /\ r.entry = probes[p].entry /\ r.then = probes[p].then /\ r.draft = d
  BY <1>0, <1>2, <1>3 DEF Probe, Steps, Saving
<1>6. probes[p].pc = "load" /\ Elsewhere BY DEF LoadRecord
<1>7. StepInv(p, r)
  BY <1>0, <1>2, <1>5, <1>6 DEF StepInv, Doing, Unsent, Answered, Drafted, Saving
<1>8. ASSUME ~overlapped PROVE FileInv(p, r)
  <2>1. d.run = p
    <3>1. CASE probes[p].entry = "OPENING" BY <3>1, <1>1
    <3>2. CASE probes[p].entry # "OPENING"
      BY <3>2, <1>0, <1>1, <1>6, <1>8 DEF FileInv, FileIs, Doing, Saving, Probe
    <3> QED BY <3>1, <3>2
  <2> QED BY <2>1, <1>0, <1>5, <1>6, <1>8 DEF FileInv, Doing, Opening, Closing, Drafted, Saving
<1> QED BY <1>4, <1>5, <1>6, <1>7, <1>8, LocalStep

LEMMA WriteTempStep == ASSUME Inv, NEW p \in Running, WriteTemp(p) PROVE Inv'
<1>0. /\ p \in Probes /\ probes[p] \in Probe /\ StepInv(p, probes[p]) /\ TypeOK
      /\ ~overlapped => FileInv(p, probes[p])
  BY RunningFacts
<1>1. probes[p].pc = "write" /\ temp' = probes[p].draft /\ Goto(p, "replace")
      /\ UNCHANGED <<file, posts, positions, bridgeVars, overlapped>>
  BY DEF WriteTemp
<1>2. PICK r \in Probe : /\ probes' = [probes EXCEPT ![p] = r]
                         /\ r.pc = "replace"
                         /\ r.entry = probes[p].entry
                         /\ r.then = probes[p].then
                         /\ r.draft = probes[p].draft
  BY <1>0, <1>1, GotoIs DEF Steps, Saving
<1>3. temp' \in Record \cup {None} /\ file' \in Record \cup {None} /\ posts' \subseteq OrderIds /\ overlapped' \in BOOLEAN
  BY <1>0, <1>1 DEF TypeOK, Probe
<1>4. ~overlapped' => ~overlapped /\ Running \subseteq {p} BY <1>1 DEF Inv, OneRuns
<1>5. StepInv(p, r)'
  BY <1>0, <1>1, <1>2 DEF StepInv, Doing, Unsent, Answered, Drafted, Saving, bridgeVars
<1>6. ~overlapped' => FileInv(p, r)'
  BY <1>0, <1>1, <1>2 DEF FileInv, FileIs, Doing, Opening, Closing, Drafted, Saving
<1>7. ExposureIsOnRecord' BY <1>1 DEF Inv, ExposureIsOnRecord, Underway, bridgeVars
<1>8. ClosedIsTrue' BY <1>1 DEF Inv, ClosedIsTrue, bridgeVars
<1>9. UNCHANGED <<positions, bridgeVars>> /\ posts' \ posts = {} BY <1>1
<1> QED BY <1>0, <1>2, <1>3, <1>4, <1>5, <1>6, <1>7, <1>8, <1>9, ProbeMoves

\* What a finished entry puts on record is what the process may count on next,
\* and names the only exposure there is.
LEMMA ReplaceFileStep == ASSUME Inv, NEW p \in Running, ReplaceFile(p) PROVE Inv'
<1>0. /\ p \in Probes /\ probes[p] \in Probe /\ StepInv(p, probes[p]) /\ TypeOK
      /\ ~overlapped => FileInv(p, probes[p])
  BY RunningFacts
<1>1. CASE temp = None
  <2>1. Goto(p, "ended") /\ Elsewhere BY <1>1 DEF ReplaceFile, Elsewhere
  <2> QED BY <2>1, EndRun
<1>2. CASE temp # None
  <2>1. /\ probes[p].pc = "replace" /\ file' = temp /\ temp' = None /\ Goto(p, probes[p].then)
        /\ UNCHANGED <<posts, positions, bridgeVars, overlapped>>
    BY <1>2 DEF ReplaceFile
  <2>2. PICK r \in Probe : /\ probes' = [probes EXCEPT ![p] = r]
                           /\ r.pc = probes[p].then
                           /\ r.entry = probes[p].entry
    BY <1>0, <2>1, GotoIs DEF Probe
  <2>3. <<probes[p].entry, probes[p].then>> \in Entries
    BY <1>0, <2>1 DEF StepInv, Saving
  <2>4. file' \in Record \cup {None} /\ temp' \in Record \cup {None} /\ posts' \subseteq OrderIds /\ overlapped' \in BOOLEAN
    BY <1>0, <2>1 DEF TypeOK
  <2>5. ~overlapped' => ~overlapped /\ Running \subseteq {p} BY <2>1 DEF Inv, OneRuns
  <2>6. UNCHANGED <<positions, bridgeVars>> /\ posts' \ posts = {} BY <2>1
  <2>7. StepInv(p, r)
    BY <1>0, <2>1, <2>2, <2>3 DEF StepInv, Doing, Unsent, Answered, Drafted, Saving, Entries
  <2>8. StepInv(p, r)' BY <2>1, <2>7 DEF StepInv, Doing, bridgeVars
  <2>9. ~overlapped' => file' # None /\ file'.state = probes[p].entry /\ file'.run = p
    BY <1>0, <1>2, <2>1 DEF StepInv, FileInv, Drafted
  <2>10. ~overlapped' => FileInv(p, r)'
    BY <2>2, <2>3, <2>9 DEF FileInv, FileIs, Doing, Opening, Closing, Drafted, Saving, Entries
  <2>11. ExposureIsOnRecord'
    <3> SUFFICES ASSUME ~overlapped', NEW q \in Probes, (Underway(<<q, "open">>) \/ q \in positions)'
                 PROVE  q = p /\ probes[p].entry \in Used
      BY <2>9 DEF ExposureIsOnRecord
    <3>1. ~overlapped /\ (Underway(<<q, "open">>) \/ q \in positions)
      BY <2>1 DEF Underway, bridgeVars
    <3>2. file # None /\ file.run = q /\ file.state \in Used
      BY <3>1 DEF Inv, ExposureIsOnRecord
    <3>3. probes[p].entry # "OPENING" /\ q = p
      BY <1>0, <2>1, <3>1, <3>2 DEF FileInv, FileIs, Doing, Saving, Used, Recorded, Probe
    <3>4. probes[p].entry # "EXPIRED"
      <4>1. ASSUME probes[p].entry = "EXPIRED" PROVE FALSE
        <5>1. phase[<<p, "open">>] = "new" /\ <<p, "open">> \notin posts
          BY <1>0, <2>1, <4>1 DEF StepInv, Doing, Saving
        <5>2. p \notin positions
          BY <1>0, <5>1 DEF Inv, BookInv, OrderIds
        <5> QED BY <3>1, <3>3, <5>1, <5>2 DEF Underway
      <4> QED BY <4>1
    <3> QED BY <3>3, <3>4, <1>0 DEF Used, Probe
  <2>12. ClosedIsTrue'
    <3> SUFFICES ASSUME ~overlapped', file'.state = "CLOSED"
                 PROVE  p \notin positions' /\ {<<p, "open">>, <<p, "close">>} \subseteq executed'
      BY <2>9 DEF ClosedIsTrue
    <3>1. {<<p, "open">>, <<p, "close">>} \subseteq executed
      BY <1>0, <2>1, <2>9 DEF StepInv, Doing, Saving
    <3>2. p \notin positions BY <1>0, <3>1 DEF Inv, BookInv
    <3> QED BY <2>1, <3>1, <3>2 DEF bridgeVars
  <2> QED BY <1>0, <2>2, <2>4, <2>5, <2>6, <2>8, <2>10, <2>11, <2>12, ProbeMoves
<1> QED BY <1>1, <1>2

LEMMA StartStep == ASSUME Inv, NEW p \in Probes, Start(p) PROVE Inv'
<1>0. probes[p] \in Probe /\ StepInv(p, probes[p]) /\ TypeOK BY DEF Inv, TypeOK
<1>1. /\ probes[p].pc = "new" /\ overlapped' = (overlapped \/ Running # {})
      /\ UNCHANGED <<file, temp, posts, positions, bridgeVars>>
  BY DEF Start
<1>2. PICK pc \in Steps : /\ Goto(p, pc)
                          /\ pc \in {"preflight", "ended"}
                          /\ pc = "preflight" => file = None \/ file.state \notin Used
  BY DEF Start, Steps, Finished
<1>3. PICK r \in Probe : probes' = [probes EXCEPT ![p] = r] /\ r.pc = pc
  BY <1>0, <1>2, GotoIs
<1>4. file' \in Record \cup {None} /\ temp' \in Record \cup {None} /\ posts' \subseteq OrderIds /\ posts' \ posts = {}
  BY <1>0, <1>1 DEF TypeOK
<1>5. overlapped' \in BOOLEAN /\ (~overlapped' => ~overlapped /\ Running \subseteq {p})
  BY <1>0, <1>1 DEF TypeOK
<1>6. StepInv(p, r)'
  BY <1>0, <1>1, <1>2, <1>3 DEF StepInv, Doing, Unsent, Answered, Drafted, Saving, bridgeVars
<1>7. FileInv(p, r)'
  <2>1. pc = "preflight" => file = None \/ file.state = "EXPIRED"
    BY <1>0, <1>2 DEF TypeOK, Record, Used
  <2> QED BY <2>1, <1>1, <1>2, <1>3 DEF FileInv, Doing, Opening, Closing, Drafted, Saving
<1>8. ExposureIsOnRecord' BY <1>1, <1>5 DEF Inv, ExposureIsOnRecord, Underway, bridgeVars
<1>9. ClosedIsTrue' BY <1>1, <1>5 DEF Inv, ClosedIsTrue, bridgeVars
<1>10. UNCHANGED <<positions, bridgeVars>> BY <1>1
<1> QED BY <1>3, <1>4, <1>5, <1>6, <1>7, <1>8, <1>9, <1>10, ProbeMoves

LEMMA PreflightStep == ASSUME Inv, NEW p \in Running, Preflight(p) PROVE Inv'
<1>0. /\ p \in Probes /\ probes[p] \in Probe /\ StepInv(p, probes[p]) /\ TypeOK
      /\ ~overlapped => FileInv(p, probes[p])
  BY RunningFacts
<1>1. probes[p].pc = "preflight" /\ Elsewhere BY DEF Preflight
<1>2. CASE Goto(p, "ended") BY <1>1, <1>2, EndRun
<1>3. CASE Entry(p, "OPENING", "safe_open")
  <2>1. PICK r \in Probe : probes' = [probes EXCEPT ![p] = r] /\ r.pc = "load" /\ r.entry = "OPENING" /\ r.then = "safe_open"
    BY <1>0, <1>3, EntryIs DEF Recorded, Steps, Opening
  <2>2. StepInv(p, r)
    BY <1>0, <1>1, <2>1 DEF StepInv, Doing, Unsent, Answered, Drafted, Saving, Entries
  <2>3. ~overlapped => FileInv(p, r)
    BY <1>0, <1>1, <2>1 DEF FileInv, Doing, Opening, Closing, Drafted, Saving
  <2> QED BY <1>1, <2>1, <2>2, <2>3, LocalStep
<1> QED BY <1>2, <1>3 DEF Preflight

LEMMA SafeOpenStep == ASSUME Inv, NEW p \in Running, SafeOpen(p) PROVE Inv'
<1>0. /\ p \in Probes /\ probes[p] \in Probe /\ StepInv(p, probes[p]) /\ TypeOK
      /\ ~overlapped => FileInv(p, probes[p])
  BY RunningFacts
<1>1. probes[p].pc = "safe_open" /\ Elsewhere BY DEF SafeOpen
<1>2. CASE Goto(p, "post_open")
  <2>1. PICK r \in Probe : probes' = [probes EXCEPT ![p] = r] /\ r.pc = "post_open"
    BY <1>0, <1>2, GotoIs DEF Steps, Opening
  <2>2. StepInv(p, r)
    BY <1>0, <1>1, <2>1 DEF StepInv, Doing, Unsent, Answered, Drafted, Saving
  <2>3. ~overlapped => FileInv(p, r)
    BY <1>0, <1>1, <2>1 DEF FileInv, Doing, Opening, Closing, Drafted, Saving
  <2> QED BY <1>1, <2>1, <2>2, <2>3, LocalStep
<1>3. CASE Entry(p, "EXPIRED", "ended") BY <1>1, <1>3, BeginLastEntry DEF Opening
<1>4. CASE Entry(p, "AMBIGUOUS", "ended") BY <1>1, <1>4, BeginLastEntry DEF Opening
<1> QED BY <1>2, <1>3, <1>4 DEF SafeOpen
\* Before the request leaves, the file says that it may have.
LEMMA PostOpenStep == ASSUME Inv, NEW p \in Running, PostOpen(p) PROVE Inv'
<1>0. /\ p \in Probes /\ probes[p] \in Probe /\ StepInv(p, probes[p]) /\ TypeOK
      /\ ~overlapped => FileInv(p, probes[p])
  BY RunningFacts
<1>1. /\ probes[p].pc = "post_open" /\ posts' = posts \cup {<<p, "open">>} /\ Goto(p, "await_open")
      /\ UNCHANGED <<file, temp, positions, bridgeVars, overlapped>>
  BY DEF PostOpen
<1>2. PICK r \in Probe : probes' = [probes EXCEPT ![p] = r] /\ r.pc = "await_open"
  BY <1>0, <1>1, GotoIs DEF Steps, Opening, Closing
<1>3. file' \in Record \cup {None} /\ temp' \in Record \cup {None} /\ overlapped' \in BOOLEAN
  BY <1>0, <1>1 DEF TypeOK
<1>4. posts' \subseteq OrderIds /\ \A id \in posts' \ posts : id[1] = p
  BY <1>0, <1>1 DEF TypeOK, OrderIds
<1>5. ~overlapped' => ~overlapped /\ Running \subseteq {p} BY <1>1 DEF Inv, OneRuns
<1>6. StepInv(p, r)'
  BY <1>0, <1>1, <1>2 DEF StepInv, Doing, Unsent, Answered, Drafted, Saving, bridgeVars
<1>7. ~overlapped' => FileInv(p, r)'
  BY <1>0, <1>1, <1>2 DEF FileInv, FileIs, Doing, Opening, Closing, Drafted, Saving
<1>8. ExposureIsOnRecord'
  <2> SUFFICES ASSUME ~overlapped', NEW q \in Probes, (Underway(<<q, "open">>) \/ q \in positions)'
               PROVE  (file # None /\ file.run = q /\ file.state \in Used)'
    BY DEF ExposureIsOnRecord
  <2>1. CASE q = p BY <2>1, <1>0, <1>1 DEF FileInv, FileIs, Opening, Used, Recorded
  <2>2. CASE q # p BY <2>2, <1>1 DEF Inv, ExposureIsOnRecord, Underway, bridgeVars
  <2> QED BY <2>1, <2>2
<1>9. ClosedIsTrue' BY <1>1 DEF Inv, ClosedIsTrue, bridgeVars
<1>10. UNCHANGED <<positions, bridgeVars>> BY <1>1
<1> QED BY <1>0, <1>2, <1>3, <1>4, <1>5, <1>6, <1>7, <1>8, <1>9, <1>10, ProbeMoves

LEMMA AwaitOpenStep == ASSUME Inv, NEW p \in Running, AwaitOpen(p) PROVE Inv'
<1>0. /\ p \in Probes /\ probes[p] \in Probe /\ StepInv(p, probes[p]) /\ TypeOK
      /\ ~overlapped => FileInv(p, probes[p])
  BY RunningFacts
<1>1. probes[p].pc = "await_open" /\ Elsewhere BY DEF AwaitOpen
<1>2. CASE "filled" \in told[<<p, "open">>] /\ Goto(p, "verify_open")
  <2>0. <<p, "open">> \in executed BY <1>0, <1>2 DEF Inv, BookInv, OrderIds
  <2>1. PICK r \in Probe : probes' = [probes EXCEPT ![p] = r] /\ r.pc = "verify_open"
    BY <1>0, <1>2, GotoIs DEF Steps, Opening
  <2>2. StepInv(p, r)
    BY <2>0, <2>1 DEF StepInv, Doing, Unsent, Answered, Drafted, Saving
  <2>3. ~overlapped => FileInv(p, r)
    BY <1>0, <1>1, <2>1 DEF FileInv, Doing, Opening, Closing, Drafted, Saving
  <2> QED BY <1>1, <2>1, <2>2, <2>3, LocalStep
<1>3. CASE Entry(p, "AMBIGUOUS", "ended") BY <1>1, <1>3, BeginLastEntry DEF Opening
<1> QED BY <1>2, <1>3 DEF AwaitOpen

LEMMA VerifyOpenStep == ASSUME Inv, NEW p \in Running, VerifyOpen(p) PROVE Inv'
<1>0. /\ p \in Probes /\ probes[p] \in Probe /\ StepInv(p, probes[p]) /\ TypeOK
      /\ ~overlapped => FileInv(p, probes[p])
  BY RunningFacts
<1>1. probes[p].pc = "verify_open" /\ Elsewhere BY DEF VerifyOpen
<1>2. CASE Entry(p, "OPEN", "opened")
  <2>1. PICK r \in Probe : probes' = [probes EXCEPT ![p] = r] /\ r.pc = "load" /\ r.entry = "OPEN" /\ r.then = "opened"
    BY <1>0, <1>2, EntryIs DEF Recorded, Steps, Closing
  <2>2. StepInv(p, r)
    BY <1>0, <1>1, <2>1 DEF StepInv, Doing, Unsent, Answered, Drafted, Saving, Entries
  <2>3. ~overlapped => FileInv(p, r)
    BY <1>0, <1>1, <2>1 DEF FileInv, Doing, Opening, Closing, Drafted, Saving, Recorded
  <2> QED BY <1>1, <2>1, <2>2, <2>3, LocalStep
<1>3. CASE Entry(p, "AMBIGUOUS", "ended") BY <1>1, <1>3, BeginLastEntry DEF Opening
<1>4. CASE Goto(p, "ended") BY <1>1, <1>4, EndRun
<1> QED BY <1>2, <1>3, <1>4 DEF VerifyOpen

LEMMA BeginCloseStep == ASSUME Inv, NEW p \in Running, BeginClose(p) PROVE Inv'
<1>0. /\ p \in Probes /\ probes[p] \in Probe /\ StepInv(p, probes[p]) /\ TypeOK
      /\ ~overlapped => FileInv(p, probes[p])
  BY RunningFacts
<1>1. probes[p].pc = "opened" /\ Elsewhere BY DEF BeginClose
<1>2. CASE Entry(p, "CLOSING", "safe_close")
  <2>1. PICK r \in Probe : probes' = [probes EXCEPT ![p] = r] /\ r.pc = "load" /\ r.entry = "CLOSING" /\ r.then = "safe_close"
    BY <1>0, <1>2, EntryIs DEF Recorded, Steps, Closing
  <2>2. StepInv(p, r)
    BY <1>0, <1>1, <2>1 DEF StepInv, Doing, Unsent, Answered, Drafted, Saving, Entries
  <2>3. ~overlapped => FileInv(p, r)
    BY <1>0, <1>1, <2>1 DEF FileInv, Doing, Opening, Closing, Drafted, Saving, Recorded
  <2> QED BY <1>1, <2>1, <2>2, <2>3, LocalStep
<1> QED BY <1>2 DEF BeginClose

LEMMA SafeCloseStep == ASSUME Inv, NEW p \in Running, SafeClose(p) PROVE Inv'
<1>0. /\ p \in Probes /\ probes[p] \in Probe /\ StepInv(p, probes[p]) /\ TypeOK
      /\ ~overlapped => FileInv(p, probes[p])
  BY RunningFacts
<1>1. probes[p].pc = "safe_close" /\ Elsewhere BY DEF SafeClose
<1>2. CASE Goto(p, "post_close")
  <2>1. PICK r \in Probe : probes' = [probes EXCEPT ![p] = r] /\ r.pc = "post_close"
    BY <1>0, <1>2, GotoIs DEF Steps, Closing
  <2>2. StepInv(p, r)
    BY <1>0, <1>1, <2>1 DEF StepInv, Doing, Unsent, Answered, Drafted, Saving
  <2>3. ~overlapped => FileInv(p, r)
    BY <1>0, <1>1, <2>1 DEF FileInv, Doing, Opening, Closing, Drafted, Saving
  <2> QED BY <1>1, <2>1, <2>2, <2>3, LocalStep
<1>3. CASE Entry(p, "AMBIGUOUS", "ended") BY <1>1, <1>3, BeginLastEntry DEF Closing
<1> QED BY <1>2, <1>3 DEF SafeClose

LEMMA PostCloseStep == ASSUME Inv, NEW p \in Running, PostClose(p) PROVE Inv'
<1>0. /\ p \in Probes /\ probes[p] \in Probe /\ StepInv(p, probes[p]) /\ TypeOK
      /\ ~overlapped => FileInv(p, probes[p])
  BY RunningFacts
<1>1. /\ probes[p].pc = "post_close" /\ posts' = posts \cup {<<p, "close">>} /\ Goto(p, "await_close")
      /\ UNCHANGED <<file, temp, positions, bridgeVars, overlapped>>
  BY DEF PostClose
<1>2. PICK r \in Probe : probes' = [probes EXCEPT ![p] = r] /\ r.pc = "await_close"
  BY <1>0, <1>1, GotoIs DEF Steps, Opening, Closing
<1>3. file' \in Record \cup {None} /\ temp' \in Record \cup {None} /\ overlapped' \in BOOLEAN
  BY <1>0, <1>1 DEF TypeOK
<1>4. posts' \subseteq OrderIds /\ \A id \in posts' \ posts : id[1] = p
  BY <1>0, <1>1 DEF TypeOK, OrderIds
<1>5. ~overlapped' => ~overlapped /\ Running \subseteq {p} BY <1>1 DEF Inv, OneRuns
<1>6. StepInv(p, r)'
  BY <1>0, <1>1, <1>2 DEF StepInv, Doing, Unsent, Answered, Drafted, Saving, bridgeVars
<1>7. ~overlapped' => FileInv(p, r)'
  BY <1>0, <1>1, <1>2 DEF FileInv, FileIs, Doing, Opening, Closing, Drafted, Saving
<1>8. ExposureIsOnRecord' BY <1>1 DEF Inv, ExposureIsOnRecord, Underway, bridgeVars
<1>9. ClosedIsTrue' BY <1>1 DEF Inv, ClosedIsTrue, bridgeVars
<1>10. UNCHANGED <<positions, bridgeVars>> BY <1>1
<1> QED BY <1>0, <1>2, <1>3, <1>4, <1>5, <1>6, <1>7, <1>8, <1>9, <1>10, ProbeMoves

LEMMA AwaitCloseStep == ASSUME Inv, NEW p \in Running, AwaitClose(p) PROVE Inv'
<1>0. /\ p \in Probes /\ probes[p] \in Probe /\ StepInv(p, probes[p]) /\ TypeOK
      /\ ~overlapped => FileInv(p, probes[p])
  BY RunningFacts
<1>1. probes[p].pc = "await_close" /\ Elsewhere BY DEF AwaitClose
<1>2. CASE "filled" \in told[<<p, "close">>] /\ Goto(p, "verify_close")
  <2>0. {<<p, "open">>, <<p, "close">>} \subseteq executed BY <1>0, <1>2 DEF Inv, BookInv, OrderIds
  <2>1. PICK r \in Probe : probes' = [probes EXCEPT ![p] = r] /\ r.pc = "verify_close"
    BY <1>0, <1>2, GotoIs DEF Steps, Closing
  <2>2. StepInv(p, r)
    BY <2>0, <2>1 DEF StepInv, Doing, Unsent, Answered, Drafted, Saving
  <2>3. ~overlapped => FileInv(p, r)
    BY <1>0, <1>1, <2>1 DEF FileInv, Doing, Opening, Closing, Drafted, Saving
  <2> QED BY <1>1, <2>1, <2>2, <2>3, LocalStep
<1>3. CASE Entry(p, "AMBIGUOUS", "ended") BY <1>1, <1>3, BeginLastEntry DEF Closing
<1> QED BY <1>2, <1>3 DEF AwaitClose

LEMMA VerifyCloseStep == ASSUME Inv, NEW p \in Running, VerifyClose(p) PROVE Inv'
<1>0. /\ p \in Probes /\ probes[p] \in Probe /\ StepInv(p, probes[p]) /\ TypeOK
      /\ ~overlapped => FileInv(p, probes[p])
  BY RunningFacts
<1>1. probes[p].pc = "verify_close" /\ Elsewhere BY DEF VerifyClose
<1>2. CASE Entry(p, "CLOSED", "closed")
  <2>1. PICK r \in Probe : probes' = [probes EXCEPT ![p] = r] /\ r.pc = "load" /\ r.entry = "CLOSED" /\ r.then = "closed"
    BY <1>0, <1>2, EntryIs DEF Recorded, Steps, Finished
  <2>2. StepInv(p, r)
    BY <1>0, <1>1, <2>1 DEF StepInv, Doing, Unsent, Answered, Drafted, Saving, Entries
  <2>3. ~overlapped => FileInv(p, r)
    BY <1>0, <1>1, <2>1 DEF FileInv, Doing, Opening, Closing, Drafted, Saving, Recorded
  <2> QED BY <1>1, <2>1, <2>2, <2>3, LocalStep
<1>3. CASE Entry(p, "AMBIGUOUS", "ended") BY <1>1, <1>3, BeginLastEntry DEF Closing
<1>4. CASE Goto(p, "ended") BY <1>1, <1>4, EndRun
<1> QED BY <1>2, <1>3, <1>4 DEF VerifyClose

LEMMA RunStep == ASSUME Inv, NEW p \in Probes, Run(p) PROVE Inv'
<1>1. p \in Running
  BY DEF Run, Running, Finished, LoadRecord, WriteTemp, ReplaceFile, Preflight, SafeOpen, PostOpen, AwaitOpen,
         VerifyOpen, BeginClose, SafeClose, PostClose, AwaitClose, VerifyClose
<1> QED BY <1>1, LoadRecordStep, WriteTempStep, ReplaceFileStep, PreflightStep, SafeOpenStep, PostOpenStep,
           AwaitOpenStep, VerifyOpenStep, BeginCloseStep, SafeCloseStep, PostCloseStep, AwaitCloseStep,
           VerifyCloseStep DEF Run

-----------------------------------------------------------------------------
(***************************************************************************)
(* The bridge and the account.                                             *)
(***************************************************************************)
\* Of a step of neither process nor file: it keeps Inv if it keeps the books,
\* takes back no execution and puts no opening order under way anew.
LEMMA OthersMove ==
    ASSUME Inv, TypeOK', BookInv',
           UNCHANGED <<file, temp, probes, overlapped>>,
           posts' \subseteq posts, executed \subseteq executed',
           \A id \in OrderIds : phase[id] = "new" /\ id \notin posts => phase'[id] = "new",
           \A p \in Probes : (Underway(<<p, "open">>) \/ p \in positions)' =>
                                Underway(<<p, "open">>) \/ p \in positions
    PROVE  Inv'
<1>1. ASSUME NEW p \in Probes PROVE StepInv(p, probes[p])'
  <2>1. StepInv(p, probes[p]) BY DEF Inv
  <2>2. <<p, "open">> \in OrderIds BY DEF OrderIds
  <2> QED BY <2>1, <2>2 DEF StepInv, Doing
<1>2. ASSUME NEW p \in Probes, ~overlapped' PROVE FileInv(p, probes[p])'
  <2>1. FileInv(p, probes[p]) BY <1>2 DEF Inv
  <2> QED BY <2>1 DEF FileInv, FileIs, Doing
<1>3. OneRuns' BY DEF Inv, OneRuns, Running
<1>4. ExposureIsOnRecord' BY DEF Inv, ExposureIsOnRecord
<1>5. ClosedIsTrue'
  <2> SUFFICES ASSUME ~overlapped, file # None, file.state = "CLOSED"
               PROVE  /\ file.run \notin positions'
                      /\ {<<file.run, "open">>, <<file.run, "close">>} \subseteq executed'
    BY DEF ClosedIsTrue
  <2>1. {<<file.run, "open">>, <<file.run, "close">>} \subseteq executed' BY DEF Inv, ClosedIsTrue
  <2>2. file.run \in Probes BY DEF Inv, TypeOK, Record
  <2> QED BY <2>1, <2>2 DEF BookInv
<1> QED BY <1>1, <1>2, <1>3, <1>4, <1>5 DEF Inv

LEMMA ArriveStep == ASSUME Inv, NEW id \in OrderIds, Arrive(id) PROVE Inv'
<1>1. /\ id \in posts /\ posts' = posts \ {id}
      /\ phase[id] = "new" /\ phase' = [phase EXCEPT ![id] = "accepted"]
      /\ UNCHANGED <<file, temp, probes, positions, sends, executed, told, overlapped>>
  BY DEF Arrive, Bridge!Accept, Bridge!Move
<1>2. TypeOK' BY <1>1 DEF Inv, TypeOK, Bridge!Phases
<1>3. BookInv' BY <1>1 DEF Inv, TypeOK, BookInv
<1>4. ASSUME NEW p \in Probes, (Underway(<<p, "open">>) \/ p \in positions)'
      PROVE  Underway(<<p, "open">>) \/ p \in positions
  BY <1>1, <1>4 DEF Underway, OrderIds, Inv, TypeOK
<1>5. \A i \in OrderIds : phase[i] = "new" /\ i \notin posts => phase'[i] = "new"
  BY <1>1 DEF Inv, TypeOK
<1> QED BY <1>1, <1>2, <1>3, <1>4, <1>5, OthersMove

LEMMA LoseStep == ASSUME Inv, NEW id \in OrderIds, Lose(id) PROVE Inv'
<1>1. posts' = posts \ {id} /\ UNCHANGED <<file, temp, probes, positions, phase, sends, executed, told, overlapped>>
  BY DEF Lose, bridgeVars
<1>2. TypeOK' BY <1>1 DEF Inv, TypeOK
<1>3. BookInv' BY <1>1 DEF Inv, BookInv
<1>4. \A p \in Probes : (Underway(<<p, "open">>) \/ p \in positions)' => Underway(<<p, "open">>) \/ p \in positions
  BY <1>1 DEF Underway
<1> QED BY <1>1, <1>2, <1>3, <1>4, OthersMove

LEMMA SendOrderStep == ASSUME Inv, NEW id \in OrderIds, SendOrder(id) PROVE Inv'
<1>1. /\ phase[id] = "submitted" /\ sends[id] = 0 /\ sends' = [sends EXCEPT ![id] = 1]
      /\ executed' \in {executed, executed \cup {id}}
      /\ UNCHANGED <<file, temp, probes, posts, phase, told, overlapped>>
  BY DEF SendOrder, Bridge!Send
<1>2. id \notin executed BY <1>1 DEF Inv, BookInv
<1>3. \/ executed' = executed /\ positions' = positions
      \/ id[2] = "open" /\ executed' = executed \cup {id} /\ positions' = positions \cup {id[1]}
      \/ /\ id[2] = "close" /\ id[1] \in positions
         /\ executed' = executed \cup {id} /\ positions' = positions \ {id[1]}
  BY <1>1, <1>2 DEF SendOrder
<1>4. PICK q \in Probes, kind \in {"open", "close"} : id = <<q, kind>> /\ id[1] = q /\ id[2] = kind
  BY DEF OrderIds
<1>5. TypeOK' BY <1>1, <1>3, <1>4 DEF Inv, TypeOK
<1>6. BookInv'
  <2>1. ASSUME NEW i \in OrderIds
        PROVE  /\ i \in executed' => sends'[i] = 1 /\ phase'[i] \in {"submitted", "filled"}
               /\ phase'[i] = "filled" => i \in executed'
               /\ "filled" \in told'[i] => i \in executed'
    BY <1>1, <1>3 DEF Inv, TypeOK, BookInv
  <2>2. ASSUME NEW p \in Probes
        PROVE  /\ p \in positions' => <<p, "open">> \in executed'
               /\ <<p, "close">> \in executed' => <<p, "open">> \in executed' /\ p \notin positions'
    <3>1. /\ p \in positions => <<p, "open">> \in executed
          /\ <<p, "close">> \in executed => <<p, "open">> \in executed /\ p \notin positions
      BY DEF Inv, BookInv
    <3> QED BY <1>2, <1>3, <1>4, <3>1
  <2> QED BY <2>1, <2>2 DEF BookInv
<1>7. ASSUME NEW p \in Probes, (Underway(<<p, "open">>) \/ p \in positions)'
      PROVE  Underway(<<p, "open">>) \/ p \in positions
  BY <1>1, <1>3, <1>4, <1>7 DEF Underway
<1> QED BY <1>1, <1>5, <1>6, <1>7, OthersMove

LEMMA SettleStep == ASSUME Inv, NEW id \in OrderIds, Settle(id) PROVE Inv'
<1>1. UNCHANGED <<file, temp, probes, posts, positions, sends, executed, overlapped>>
  BY DEF Settle, Bridge!Void, Bridge!Commit, Bridge!SettleFilled, Bridge!SettleRefused, Bridge!AnswerFilled
<1>2. PICK ph \in Bridge!Phases \ {"new"}, words \in SUBSET {"filled", "denied", "refused"} :
         /\ phase' = [phase EXCEPT ![id] = ph]
         /\ told' = [told EXCEPT ![id] = words]
         /\ ph \in {"accepted", "submitted", "filled"} => phase[id] \in {"accepted", "submitted", "filled"}
         /\ ph \notin {"submitted", "filled"} => id \notin executed
         /\ ph = "filled" => id \in executed
         /\ "filled" \in words => id \in executed
         /\ phase[id] # "new"
  <2> told[id] \in SUBSET {"filled", "denied", "refused"} BY DEF Inv, TypeOK
  <2> {"void", "submitted", "filled", "refused"} \subseteq Bridge!Phases \ {"new"} BY DEF Bridge!Phases
  <2>6. /\ id \in executed => phase[id] \in {"submitted", "filled"}
        /\ phase[id] = "filled" => id \in executed
        /\ "filled" \in told[id] => id \in executed
    BY DEF Inv, BookInv
  <2>7. told = [told EXCEPT ![id] = told[id]] BY DEF Inv, TypeOK
  <2>8. phase = [phase EXCEPT ![id] = phase[id]] BY DEF Inv, TypeOK
  <2>1. CASE Bridge!Void(id)
    <3>1. CASE UNCHANGED told
      <4> WITNESS "void" \in Bridge!Phases \ {"new"}, told[id] \in SUBSET {"filled", "denied", "refused"}
      <4> QED BY <2>1, <3>1, <2>6, <2>7 DEF Bridge!Void, Bridge!Move
    <3>2. CASE told' = [told EXCEPT ![id] = told[id] \cup {"denied"}]
      <4> WITNESS "void" \in Bridge!Phases \ {"new"}, told[id] \cup {"denied"} \in SUBSET {"filled", "denied", "refused"}
      <4> QED BY <2>1, <3>2, <2>6 DEF Bridge!Void, Bridge!Move
    <3> QED BY <2>1, <3>1, <3>2 DEF Bridge!Void
  <2>2. CASE Bridge!Commit(id)
    <3> WITNESS "submitted" \in Bridge!Phases \ {"new"}, told[id] \in SUBSET {"filled", "denied", "refused"}
    <3> QED BY <2>2, <2>6, <2>7 DEF Bridge!Commit, Bridge!Move
  <2>3. CASE Bridge!SettleFilled(id)
    <3> WITNESS "filled" \in Bridge!Phases \ {"new"}, told[id] \in SUBSET {"filled", "denied", "refused"}
    <3> QED BY <2>3, <2>6, <2>7 DEF Bridge!SettleFilled, Bridge!Move
  <2>4. CASE Bridge!SettleRefused(id)
    <3> WITNESS "refused" \in Bridge!Phases \ {"new"}, told[id] \cup {"refused"} \in SUBSET {"filled", "denied", "refused"}
    <3> QED BY <2>4, <2>6 DEF Bridge!SettleRefused, Bridge!Move
  <2>5. CASE Bridge!AnswerFilled(id)
    <3> WITNESS "filled" \in Bridge!Phases \ {"new"}, told[id] \cup {"filled"} \in SUBSET {"filled", "denied", "refused"}
    <3> QED BY <2>5, <2>6, <2>8 DEF Bridge!AnswerFilled
  <2> QED BY <2>1, <2>2, <2>3, <2>4, <2>5 DEF Settle
<1>3. TypeOK' BY <1>1, <1>2 DEF Inv, TypeOK
<1>4. BookInv' BY <1>1, <1>2 DEF Inv, TypeOK, BookInv
<1>5. ASSUME NEW p \in Probes, (Underway(<<p, "open">>) \/ p \in positions)'
      PROVE  Underway(<<p, "open">>) \/ p \in positions
  BY <1>1, <1>2, <1>5 DEF Inv, TypeOK, Underway, OrderIds
<1>6. \A i \in OrderIds : phase[i] = "new" /\ i \notin posts => phase'[i] = "new"
  BY <1>2 DEF Inv, TypeOK
<1> QED BY <1>1, <1>3, <1>4, <1>5, <1>6, OthersMove

LEMMA ForeignTradeStep == ASSUME Inv, ForeignTrade PROVE Inv'
<1>1. /\ positions' \in {positions \cup {Foreign}, positions \ {Foreign}}
      /\ UNCHANGED <<file, temp, probes, posts, phase, sends, executed, told, overlapped>>
  BY DEF ForeignTrade, bridgeVars
<1>2. \A p \in Probes : p \in positions' <=> p \in positions BY <1>1, DemoProbeAssumption
<1>3. TypeOK' BY <1>1 DEF Inv, TypeOK
<1>4. BookInv' BY <1>1, <1>2 DEF Inv, BookInv
<1>5. \A p \in Probes : (Underway(<<p, "open">>) \/ p \in positions)' => Underway(<<p, "open">>) \/ p \in positions
  BY <1>1, <1>2 DEF Underway
<1> QED BY <1>1, <1>3, <1>4, <1>5, OthersMove

-----------------------------------------------------------------------------
LEMMA InvInit == Init => Inv
<1> SUFFICES ASSUME Init PROVE Inv OBVIOUS
<1>1. /\ file = None /\ temp = None /\ posts = {} /\ positions = {} /\ overlapped = FALSE
      /\ probes = [p \in Probes |-> [pc |-> "new", entry |-> "EXPIRED", then |-> "ended", draft |-> None]]
      /\ phase = [id \in OrderIds |-> "new"] /\ sends = [id \in OrderIds |-> 0]
      /\ executed = {} /\ told = [id \in OrderIds |-> {}]
  BY DEF Init, Bridge!LedgerInit
<1>2. [pc |-> "new", entry |-> "EXPIRED", then |-> "ended", draft |-> None] \in Probe
  BY DEF Probe, Steps, Finished, Recorded
<1>3. TypeOK BY <1>1, <1>2 DEF TypeOK, Bridge!Phases
<1>4. BookInv BY <1>1 DEF BookInv
<1>5. \A p \in Probes : probes[p].pc = "new" /\ <<p, "open">> \in OrderIds BY <1>1 DEF OrderIds
<1>6. \A p \in Probes : StepInv(p, probes[p])
  BY <1>1, <1>5 DEF StepInv, Doing, Unsent, Answered, Drafted, Saving
<1>7. \A p \in Probes : FileInv(p, probes[p])
  BY <1>5 DEF FileInv, Doing, Opening, Closing, Drafted, Saving
<1>8. OneRuns BY <1>5 DEF OneRuns, Running
<1>9. ExposureIsOnRecord BY <1>1, <1>5 DEF ExposureIsOnRecord, Underway
<1>10. ClosedIsTrue BY <1>1 DEF ClosedIsTrue
<1> QED BY <1>3, <1>4, <1>6, <1>7, <1>8, <1>9, <1>10 DEF Inv

LEMMA InvNext == Inv /\ [Next]_vars => Inv'
<1> SUFFICES ASSUME Inv, [Next]_vars PROVE Inv' OBVIOUS
<1>1. ASSUME NEW p \in Probes, Start(p) \/ Run(p) \/ Kill(p) PROVE Inv'
  <2>1. CASE Kill(p) BY <2>1, EndRun DEF Kill
  <2> QED BY <1>1, <2>1, StartStep, RunStep
<1>2. ASSUME NEW id \in OrderIds, Arrive(id) \/ Lose(id) \/ SendOrder(id) \/ Settle(id) PROVE Inv'
  BY <1>2, ArriveStep, LoseStep, SendOrderStep, SettleStep
<1>3. CASE UNCHANGED vars
  <2>1. UNCHANGED <<file, temp, probes, posts, positions, phase, sends, executed, told, overlapped>>
    BY <1>3 DEF vars, bridgeVars
  <2>2. TypeOK' BY <2>1 DEF Inv, TypeOK
  <2>3. BookInv' BY <2>1 DEF Inv, BookInv
  <2>4. \A p \in Probes : (Underway(<<p, "open">>) \/ p \in positions)' => Underway(<<p, "open">>) \/ p \in positions
    BY <2>1 DEF Underway
  <2> QED BY <2>1, <2>2, <2>3, <2>4, OthersMove
<1> QED BY <1>1, <1>2, <1>3, ForeignTradeStep DEF Next

\* Inv holds in every state: what the file, the process and the bridge's books
\* say of one another (demo_execution_test.py: run, _record).
THEOREM InvHolds == Spec => []Inv
BY InvInit, InvNext, PTL DEF Spec

\* Types, for any number of processes.
THEOREM ProbeTypes == Spec => []TypeOK
<1>1. Inv => TypeOK BY DEF Inv
<1> QED BY <1>1, InvHolds, PTL

\* As long as no two processes overlap, exposure is on record.
THEOREM ExposureRecorded == Spec => []ExposureIsOnRecord
<1>1. Inv => ExposureIsOnRecord BY DEF Inv
<1> QED BY <1>1, InvHolds, PTL

\* As long as no two processes overlap, CLOSED is true.
THEOREM ClosedTruthful == Spec => []ClosedIsTrue
<1>1. Inv => ClosedIsTrue BY DEF Inv
<1> QED BY <1>1, InvHolds, PTL

\* A process that reports success has opened and closed its position, however
\* many run at once.
THEOREM SuccessTruthful == Spec => []SuccessIsTrue
<1>1. Inv => SuccessIsTrue
  <2> SUFFICES ASSUME Inv, NEW p \in Probes, probes[p].pc = "closed"
               PROVE  p \notin positions /\ {<<p, "open">>, <<p, "close">>} \subseteq executed
    BY DEF SuccessIsTrue
  <2>1. {<<p, "open">>, <<p, "close">>} \subseteq executed BY DEF Inv, StepInv, Doing
  <2> QED BY <2>1 DEF Inv, BookInv
<1> QED BY <1>1, InvHolds, PTL

\* As long as no two processes overlap, an ambiguity is final.
THEOREM AmbiguousForever == Spec => AmbiguityIsFinal
<1>1. Inv /\ [Next]_vars =>
        [~overlapped' /\ file # None /\ file.state = "AMBIGUOUS" => posts' \subseteq posts /\ file' = file]_vars
  <2> SUFFICES ASSUME Inv, Next, ~overlapped', file # None, file.state = "AMBIGUOUS"
               PROVE  posts' \subseteq posts /\ file' = file
    OBVIOUS
  <2>1. ASSUME NEW p \in Probes, Run(p) PROVE posts' \subseteq posts /\ file' = file
    <3>1. overlapped' = overlapped
      BY <2>1 DEF Run, LoadRecord, WriteTemp, ReplaceFile, Preflight, SafeOpen, PostOpen, AwaitOpen,
                  VerifyOpen, BeginClose, SafeClose, PostClose, AwaitClose, VerifyClose, Elsewhere
    <3>2. probes[p].pc \notin Opening /\ probes[p].pc \notin Closing /\ probes[p].pc \notin Saving
      BY <3>1 DEF Inv, TypeOK, Probe, FileInv, FileIs, Doing, Recorded
    <3> QED BY <2>1, <3>2 DEF Run, LoadRecord, WriteTemp, ReplaceFile, Preflight, SafeOpen, PostOpen, AwaitOpen,
                  VerifyOpen, BeginClose, SafeClose, PostClose, AwaitClose, VerifyClose, Elsewhere,
                  Opening, Closing, Saving
  <2>2. ASSUME NEW p \in Probes, Start(p) \/ Kill(p) PROVE posts' \subseteq posts /\ file' = file
    BY <2>2 DEF Start, Kill, Elsewhere
  <2>3. ASSUME NEW id \in OrderIds, Arrive(id) \/ Lose(id) \/ SendOrder(id) \/ Settle(id)
        PROVE  posts' \subseteq posts /\ file' = file
    BY <2>3 DEF Arrive, Lose, SendOrder, Settle
  <2>4. CASE ForeignTrade BY <2>4 DEF ForeignTrade
  <2> QED BY <2>1, <2>2, <2>3, <2>4 DEF Next
<1> QED BY <1>1, InvHolds, PTL DEF Spec, AmbiguityIsFinal

=============================================================================
