-------------------------- MODULE ActionSessionProofs --------------------------
(***************************************************************************)
(* What holds of an authorized action, its record and the session that     *)
(* started it, for any number of sessions, actions, candidates and tabs.   *)
(***************************************************************************)
EXTENDS ActionSession, SequenceTheorems, TLAPS

-----------------------------------------------------------------------------
(* The inductive invariant *)

Ending == {"finalize", "find", "update"}

Waiting(a) == \A c \in Cands : work[a][c] = "waiting"

AllReported(a) == \A c \in record[a].selected : work[a][c] = "reported"

NoResults(a) == \A c \in Cands : record[a].outcome[c] \notin ResultStatus

\* An action that failed before it could open anything, and stays so.
Unrun(a) ==
    /\ task[a] \in {"failing", "failedTwice", "ended"}
    /\ Waiting(a)
    /\ NoResults(a)
    /\ record[a].status \in {"pending", "failed"}
    /\ mirror[a].todo # "outcomes"
    /\ mirror[a].todo \in Ending => mirror[a].step = STEP_AUTHORIZE_FAILED

\* A failure after scan_complete, or one of an action that did not run.
Failed(a) == ("tail" \in faults /\ AllReported(a)) \/ Unrun(a)

\* Until its analysis has succeeded an action has nothing to show.
NotBegun(a) ==
    /\ record[a].status = "absent" => task[a] = "none" /\ a \notin merging
    /\ record[a].status # "absent" => record[a].selected # {}
    /\ task[a] \in {"none", "analysing"} =>
            Waiting(a) /\ mirror[a] = Idle /\ NoResults(a)

\* A thread has a result once it has returned, and works on a selected candidate.
WorkOK(a) ==
    \A c \in Cands :
        /\ work[a][c] \in {"returned", "reported"} <=> result[a][c] \in ResultStatus
        /\ work[a][c] # "waiting" => c \in record[a].selected

\* What each stage of the task knows of the record and of the mirroring.
TaskOK(a) ==
    /\ task[a] \in {"analysing", "opening"} => record[a].status = "pending"
    /\ task[a] = "opening" => mirror[a].todo \notin Ending
    /\ task[a] \in {"finishing", "ready"} =>
            /\ AllReported(a)
            /\ mirror[a].todo # "outcomes"
            /\ mirror[a].todo \in Ending => mirror[a].step = STEP_COMPLETED
    /\ task[a] \in {"failing", "failedTwice"} =>
            /\ Failed(a)
            /\ mirror[a].todo # "outcomes"
            /\ mirror[a].todo \in Ending => mirror[a].step = STEP_AUTHORIZE_FAILED
    /\ task[a] = "finishing" /\ "lost" \notin faults =>
            mirror[a].todo = "finalize" \/ Final(a)

\* A mirroring thread that writes outcomes: those of candidates not opened yet,
\* or the result of one that was reported.
WritesOutcomes(a) ==
    /\ record[a].status = "pending"
    /\ \/ /\ mirror[a].value = "pending"
          /\ \A c \in mirror[a].cands : work[a][c] \in {"waiting", "starting"}
       \/ \E c \in Cands :
             mirror[a].cands = {c} /\ work[a][c] = "reported" /\ mirror[a].value = result[a][c]

\* A mirroring thread that ends the action writes the status of the results.
WritesFinal(a) ==
    /\ mirror[a].value \in FinalStatuses
    /\ mirror[a].todo \in {"find", "update"} => record[a].status = mirror[a].value
    /\ \/ /\ mirror[a].step = STEP_COMPLETED
          /\ AllReported(a)
          /\ mirror[a].value = FinalizeStatus(result[a], record[a].selected)
          /\ mirror[a].todo = "finalize" => record[a].status = "pending"
       \/ /\ mirror[a].step = STEP_AUTHORIZE_FAILED
          /\ mirror[a].value = "failed"
          /\ task[a] \in {"failing", "failedTwice", "ended"}
          /\ Failed(a)

MirrorOK(a) ==
    /\ mirror[a].todo = "nothing" => mirror[a] = Idle
    /\ mirror[a].todo = "outcomes" => WritesOutcomes(a)
    /\ mirror[a].todo \in Ending => WritesFinal(a)

\* The results reported so far are in the record, but for the one under way:
\* unless a write was lost, and where no crash has stopped the action.
Recorded(a) ==
    \A c \in Cands :
        work[a][c] = "reported" =>
            \/ record[a].outcome[c] = result[a][c]
            \/ mirror[a].todo = "outcomes" /\ mirror[a].cands = {c}

Tracked(a) ==
    "crash" \notin faults \/ Live(a) \/ mirror[a] # Idle
        \/ record[a].status \in {"completed", "partial"}

RecordOK(a) ==
    /\ record[a].status \in {"completed", "partial"} =>
            AllReported(a) /\ record[a].status = FinalizeStatus(result[a], record[a].selected)
    /\ "lost" \notin faults /\ Tracked(a) => Recorded(a)
    /\ "lost" \notin faults /\ a \in merging =>
            Final(a) /\ \E c \in record[a].selected : record[a].outcome[c] \in Mergeable

\* A tab that stays closes its stream only when the task has failed or ended.
StayingOK(a) ==
    ~MayLeave /\ ~MayCrash =>
        /\ queue[a] # <<>> => task[a] \in {"failing", "failedTwice", "ended"}
        /\ task[a] \in {"finishing", "ready", "failing", "failedTwice", "ended"} =>
                \A c \in Cands : work[a][c] \in {"waiting", "reported"}

ActionOK(a) ==
    NotBegun(a) /\ WorkOK(a) /\ TaskOK(a) /\ MirrorOK(a) /\ RecordOK(a) /\ StayingOK(a)

\* A session knows the action it started, and nobody else does.
LinkOK(s) ==
    /\ session[s].step \in {"absent", STEP_ASSESSMENT_VIEWED} => session[s].action = NoAction
    /\ session[s].step \in {STEP_AUTHORIZED, STEP_COMPLETED, STEP_AUTHORIZE_FAILED} =>
            session[s].action # NoAction
    /\ session[s].step = STEP_SELECTED \/ session[s].action # NoAction => session[s].selected # {}
    /\ session[s].action # NoAction =>
            /\ record[session[s].action].status # "absent"
            /\ \A t \in Sessions : session[t].action = session[s].action => t = s

\* An authorized action without a final status, or about to tell session s of it.
UnderWay(a, s) ==
    \/ record[a].status = "pending"
    \/ mirror[a].todo = "find"
    \/ mirror[a].todo = "update" /\ mirror[a].found = s

\* The step of a session says how far its action got, unless a retry overtook a
\* mirroring thread of the action before.
StepOK(s) ==
    LET a == session[s].action
    IN  a # NoAction =>
        /\ session[s].step \in {STEP_SELECTED, STEP_AUTHORIZE_FAILED} => ~Acting(a)
        /\ session[s].step = STEP_COMPLETED => AllReported(a) /\ Final(a)
        /\ session[s].step = STEP_AUTHORIZE_FAILED /\ faults \subseteq {"lost"} =>
                Unrun(a) /\ record[a].status = "failed"
        /\ session[s].step = STEP_AUTHORIZED /\ Loaded(s) /\ faults = {} =>
                UnderWay(a, s)

FoundOK(a) ==
    mirror[a].todo = "update" =>
        /\ mirror[a].found \in Sessions
        /\ session[mirror[a].found].action # NoAction
        /\ mirror[a].found \notin overtaken => session[mirror[a].found].action = a

\* Only the faults the constants allow.
FaultsOK ==
    /\ "crash" \in faults => MayCrash
    /\ "lost" \in faults => DbMayFail
    /\ "tail" \in faults => TailMayFail

IInv ==
    /\ TypeOK
    /\ FaultsOK
    /\ \A a \in Actions : ActionOK(a) /\ FoundOK(a)
    /\ \A s \in Sessions : LinkOK(s) /\ (s \notin overtaken => StepOK(s))

-----------------------------------------------------------------------------
(* Steps of one action *)

\* The step leaves action b alone.
Same(b) ==
    /\ record'[b] = record[b] /\ task'[b] = task[b] /\ work'[b] = work[b]
    /\ result'[b] = result[b] /\ mirror'[b] = mirror[b] /\ queue'[b] = queue[b]
    /\ b \in merging' <=> b \in merging

\* What a step of action a must not take from its session.
LeavesSession(a) ==
    /\ record[a].status # "absent" => record'[a].status # "absent"
    /\ Acting(a)' => Acting(a)
    /\ AllReported(a) /\ Final(a) => AllReported(a)' /\ Final(a)'
    /\ faults' \subseteq {"lost"} /\ Unrun(a) /\ record[a].status = "failed" =>
            Unrun(a)' /\ record'[a].status = "failed"
    /\ \A s \in Sessions :
          session[s].action = a /\ Loaded(s) /\ faults' = {} /\ UnderWay(a, s)
              => UnderWay(a, s)'

LEMMA SameKeeps ==
    ASSUME NEW b \in Actions, ActionOK(b), Same(b), faults \subseteq faults'
    PROVE  ActionOK(b)'
    <1>1. NotBegun(b)'
        BY DEF ActionOK, Same, NotBegun, Waiting, NoResults
    <1>2. WorkOK(b)'
        BY DEF ActionOK, Same, WorkOK
    <1>3. Unrun(b) => Unrun(b)'
        BY DEF Same, Unrun, Waiting, NoResults
    <1>4. AllReported(b) => AllReported(b)'
        BY DEF Same, AllReported
    <1>5. Failed(b) => Failed(b)'
        BY <1>3, <1>4 DEF Failed
    <1>6. TaskOK(b)'
        BY <1>4, <1>5 DEF ActionOK, Same, TaskOK, Final
    <1>7. MirrorOK(b)'
        BY <1>4, <1>5 DEF ActionOK, Same, MirrorOK, WritesOutcomes, WritesFinal
    <1>8. RecordOK(b)'
        <2>1. Recorded(b) => Recorded(b)'
            BY DEF Same, Recorded
        <2>2. Tracked(b)' => Tracked(b)
            BY DEF Same, Tracked, Live
        <2> QED
            BY <1>4, <2>1, <2>2 DEF ActionOK, Same, RecordOK, Final
    <1>9. StayingOK(b)'
        BY DEF ActionOK, Same, StayingOK
    <1> QED
        BY <1>1, <1>2, <1>6, <1>7, <1>8, <1>9 DEF ActionOK

\* A step of one action that leaves the sessions as they are.
LEMMA LocalStep ==
    ASSUME IInv, NEW a \in Actions, session' = session, overtaken' = overtaken,
           \A b \in Actions \ {a} : Same(b), faults \subseteq faults',
           TypeOK', FaultsOK', ActionOK(a)', FoundOK(a)', LeavesSession(a)
    PROVE  IInv'
    <1>1. \A b \in Actions : ActionOK(b)'
        BY SameKeeps DEF IInv
    <1>2. \A b \in Actions : FoundOK(b)'
        BY DEF IInv, FoundOK, Same
    <1>3. ASSUME NEW s \in Sessions PROVE LinkOK(s)'
        <2>1. session[s].action \in Actions \cup {NoAction}
            BY DEF IInv, TypeOK, SessionsTypeOK, WizardSession
        <2> QED
            BY <2>1 DEF IInv, LinkOK, Same, LeavesSession
    <1>4. ASSUME NEW s \in Sessions, s \notin overtaken' PROVE StepOK(s)'
        <2> DEFINE b == session[s].action
        <2>1. b \in Actions \cup {NoAction}
            BY DEF IInv, TypeOK, SessionsTypeOK, WizardSession
        <2>2. StepOK(s)
            BY <1>4 DEF IInv
        <2>3. CASE b = NoAction
            BY <2>2, <2>3 DEF StepOK
        <2>4. CASE b = a
            BY <2>2, <2>4 DEF StepOK, LeavesSession, Loaded
        <2>5. CASE b \in Actions \ {a}
            <3>1. Same(b)
                BY <2>5
            <3>2. /\ Acting(b)' => Acting(b)
                  /\ AllReported(b) /\ Final(b) => AllReported(b)' /\ Final(b)'
                  /\ Unrun(b) => Unrun(b)'
                  /\ UnderWay(b, s) => UnderWay(b, s)'
                BY <3>1 DEF Same, Acting, AllReported, Final, Unrun, UnderWay, Waiting, NoResults
            <3> QED
                BY <2>2, <3>1, <3>2 DEF StepOK, Loaded, Same
        <2> QED
            BY <2>1, <2>3, <2>4, <2>5
    <1> QED
        BY <1>1, <1>2, <1>3, <1>4 DEF IInv

-----------------------------------------------------------------------------
(* What the parts of a step do *)

TaskStates == {"none", "ended"} \cup LivePhases

LEMMA IdleIs == Idle \in Mirroring /\ Idle.todo = "nothing"
    BY DEF Idle, Mirroring, Outcomes, Steps

LEMMA MirrorOutcomesIs ==
    ASSUME NEW ids \in SUBSET Cands, NEW outcome \in Outcomes
    PROVE  /\ MirrorOutcomes(ids, outcome) \in Mirroring
           /\ MirrorOutcomes(ids, outcome).todo = "outcomes"
           /\ MirrorOutcomes(ids, outcome).cands = ids
           /\ MirrorOutcomes(ids, outcome).value = outcome
    BY DEF MirrorOutcomes, Idle, Mirroring, Steps

LEMMA MirrorFinalIs ==
    ASSUME NEW status \in FinalStatuses, NEW step \in Steps
    PROVE  /\ MirrorFinal(status, step) \in Mirroring
           /\ MirrorFinal(status, step).todo = "finalize"
           /\ MirrorFinal(status, step).value = status
           /\ MirrorFinal(status, step).step = step
    BY DEF MirrorFinal, Idle, Mirroring

LEMMA FinalizeStatusIs ==
    ASSUME NEW a \in Actions
    PROVE  FinalizeStatus(result[a], record[a].selected) \in FinalStatuses
    BY DEF FinalizeStatus, FinalStatuses

\* A task that moves on, and its event.
LEMMA TaskMoves ==
    ASSUME TypeOK, NEW a \in Actions, NEW from, NEW to \in TaskStates, MoveTask(a, from, to)
    PROVE  /\ task[a] \in from /\ task'[a] = to
           /\ \A b \in Actions \ {a} : task'[b] = task[b]
           /\ task' \in [Actions -> TaskStates]
    BY DEF TypeOK, MoveTask, TaskStates

LEMMA WorkMoves ==
    ASSUME TypeOK, NEW a \in Actions, NEW c \in Cands, NEW from, NEW to \in WorkStages,
           MoveWork(a, c, from, to)
    PROVE  /\ work[a][c] = from /\ work'[a][c] = to
           /\ \A d \in Cands \ {c} : work'[a][d] = work[a][d]
           /\ \A b \in Actions \ {a} : work'[b] = work[b]
           /\ work' \in [Actions -> [Cands -> WorkStages]]
    BY DEF TypeOK, MoveWork

LEMMA Emits ==
    ASSUME TypeOK, NEW a \in Actions, NEW m \in Mirroring, NEW events \in Seq(Events),
           Emit(a, m, events)
    PROVE  /\ mirror[a] = Idle /\ mirror'[a] = m
           /\ \A b \in Actions \ {a} : mirror'[b] = mirror[b] /\ queue'[b] = queue[b]
           /\ mirror' \in [Actions -> Mirroring]
           /\ queue' \in [Actions -> Seq(Events)]
           /\ events = <<>> => queue'[a] = queue[a]
    <1>1. queue \in [Actions -> Seq(Events)] /\ mirror \in [Actions -> Mirroring]
        BY DEF TypeOK
    <1>2. queue[a] \o events \in Seq(Events)
        BY <1>1
    <1>3. events = <<>> => queue[a] \o events = queue[a]
        BY <1>1
    <1> QED
        BY <1>1, <1>2, <1>3 DEF Emit

LEMMA StepTypes ==
    ASSUME TypeOK, UNCHANGED <<session, stream, viewer, overtaken>>,
           prs' \subseteq Cands, faults' \subseteq {"crash", "lost", "tail"},
           record' \in [Actions -> ActionRecord],
           task' \in [Actions -> TaskStates],
           work' \in [Actions -> [Cands -> WorkStages]],
           result' \in [Actions -> [Cands -> {"none"} \cup ResultStatus]],
           mirror' \in [Actions -> Mirroring], queue' \in [Actions -> Seq(Events)],
           merging' \subseteq Actions
    PROVE  TypeOK'
    BY DEF TypeOK, SessionsTypeOK, RecordsTypeOK, TaskStates

-----------------------------------------------------------------------------
(* The task *)

LEMMA AnalysisSucceedsKeeps ==
    ASSUME IInv, NEW a \in Actions, AnalysisSucceeds(a)
    PROVE  IInv'
    <1> DEFINE m == MirrorOutcomes(record[a].selected, "pending")
    <1>1. TypeOK /\ ActionOK(a) /\ record[a].selected \in SUBSET Cands
        BY DEF IInv, TypeOK, RecordsTypeOK, ActionRecord
    <1>2. /\ m \in Mirroring /\ m.todo = "outcomes"
          /\ m.cands = record[a].selected /\ m.value = "pending"
        BY <1>1, MirrorOutcomesIs DEF Outcomes
    <1>3. /\ task[a] = "analysing" /\ task'[a] = "opening"
          /\ \A b \in Actions \ {a} : task'[b] = task[b]
          /\ task' \in [Actions -> TaskStates]
        BY <1>1, TaskMoves DEF AnalysisSucceeds, TaskStates, LivePhases, ActingPhases
    <1> HIDE DEF m
    <1>4. /\ mirror[a] = Idle /\ mirror'[a] = m
          /\ \A b \in Actions \ {a} : mirror'[b] = mirror[b] /\ queue'[b] = queue[b]
          /\ mirror' \in [Actions -> Mirroring]
          /\ queue' \in [Actions -> Seq(Events)]
          /\ queue'[a] = queue[a]
        <2>1. <<>> \in Seq(Events)
            OBVIOUS
        <2> QED
            BY <1>1, <1>2, <2>1, Emits DEF AnalysisSucceeds, m
    <1>5. UNCHANGED <<session, record, work, result, stream, viewer, merging, prs,
                      faults, overtaken>>
        BY DEF AnalysisSucceeds
    <1>6. TypeOK'
        BY <1>1, <1>3, <1>4, <1>5, StepTypes DEF TypeOK, RecordsTypeOK
    <1>7. \A b \in Actions \ {a} : Same(b)
        BY <1>3, <1>4, <1>5 DEF Same
    <1>8. FaultsOK' /\ FoundOK(a)'
        BY <1>2, <1>4, <1>5 DEF IInv, FaultsOK, FoundOK
    <1>9. ActionOK(a)'
        <2> USE <1>1, <1>2, <1>3, <1>4, <1>5 DEF ActionOK, Ending
        <2>1. NotBegun(a)'
            BY DEF NotBegun
        <2>2. WorkOK(a)'
            BY DEF WorkOK
        <2>3. TaskOK(a)'
            BY DEF TaskOK
        <2>4. MirrorOK(a)'
            BY DEF MirrorOK, WritesOutcomes, NotBegun, Waiting, TaskOK
        <2>5. RecordOK(a)'
            BY DEF RecordOK, NotBegun, Waiting, Recorded, TaskOK, Final, FinalStatuses
        <2>6. StayingOK(a)'
            BY DEF StayingOK
        <2> QED
            BY <2>1, <2>2, <2>3, <2>4, <2>5, <2>6
    <1>10. LeavesSession(a)
        BY <1>2, <1>3, <1>5, <1>4
           DEF LeavesSession, Acting, ActingPhases, AllReported, Final, Unrun, UnderWay, Idle
    <1> QED
        BY <1>5, <1>6, <1>7, <1>8, <1>9, <1>10, LocalStep

\* scan_failed, before and after scan_complete, once and again.
LEMMA FailureKeeps ==
    ASSUME IInv, NEW a \in Actions, NEW from, NEW to \in {"failing", "failedTwice"},
           from \subseteq {"analysing", "finishing", "ready", "failing"},
           MoveTask(a, from, to),
           Emit(a, MirrorFinal("failed", STEP_AUTHORIZE_FAILED), <<"scan_failed">>),
           UNCHANGED <<session, record, work, result, stream, viewer, merging, prs, overtaken>>,
           faults' \in {faults, faults \cup {"tail"}},
           "tail" \in faults' \ faults => TailMayFail,
           task[a] \in {"finishing", "ready"} => "tail" \in faults'
    PROVE  IInv'
    <1> DEFINE m == MirrorFinal("failed", STEP_AUTHORIZE_FAILED)
    <1>1. TypeOK /\ ActionOK(a)
        BY DEF IInv
    <1>2. /\ m \in Mirroring /\ m.todo = "finalize"
          /\ m.value = "failed" /\ m.step = STEP_AUTHORIZE_FAILED
        BY MirrorFinalIs DEF FinalStatuses, Steps
    <1>3. /\ task[a] \in from /\ task'[a] = to
          /\ \A b \in Actions \ {a} : task'[b] = task[b]
          /\ task' \in [Actions -> TaskStates]
        BY <1>1, TaskMoves DEF TaskStates, LivePhases, ActingPhases
    <1> HIDE DEF m
    <1>4. /\ mirror[a] = Idle /\ mirror'[a] = m
          /\ \A b \in Actions \ {a} : mirror'[b] = mirror[b] /\ queue'[b] = queue[b]
          /\ mirror' \in [Actions -> Mirroring]
          /\ queue' \in [Actions -> Seq(Events)]
        <2>1. <<"scan_failed">> \in Seq(Events)
            BY DEF Events
        <2> QED
            BY <1>1, <1>2, <2>1, Emits DEF m
    <1>5. UNCHANGED <<session, record, work, result, stream, viewer, merging, prs, overtaken>>
        OBVIOUS
    <1>6. TypeOK'
        BY <1>1, <1>3, <1>4, <1>5, StepTypes DEF TypeOK, RecordsTypeOK
    <1>7. \A b \in Actions \ {a} : Same(b)
        BY <1>3, <1>4, <1>5 DEF Same
    <1>8. FaultsOK' /\ FoundOK(a)'
        BY <1>2, <1>4, <1>5 DEF IInv, FaultsOK, FoundOK
    <1>9. Idle.todo = "nothing"
        BY IdleIs
    <1>10. Failed(a)'
        <2> USE <1>1, <1>2, <1>3, <1>4, <1>5, <1>9
        <2>1. CASE task[a] = "analysing"
            BY <2>1 DEF ActionOK, NotBegun, TaskOK, Failed, Unrun, Waiting, NoResults
        <2>2. CASE task[a] \in {"finishing", "ready"}
            BY <2>2 DEF ActionOK, TaskOK, Failed, AllReported
        <2>3. CASE task[a] = "failing"
            BY <2>3 DEF ActionOK, TaskOK, Failed, Unrun, Waiting, NoResults, AllReported
        <2> QED
            BY <2>1, <2>2, <2>3
    <1>11. ActionOK(a)'
        <2> USE <1>1, <1>2, <1>3, <1>4, <1>5, <1>9, <1>10 DEF ActionOK, Ending
        <2>1. NotBegun(a)'
            BY DEF NotBegun
        <2>2. WorkOK(a)'
            BY DEF WorkOK
        <2>3. TaskOK(a)'
            BY DEF TaskOK
        <2>4. MirrorOK(a)'
            BY DEF MirrorOK, WritesFinal, FinalStatuses
        <2>5. RecordOK(a)'
            BY DEF RecordOK, Recorded, Tracked, Live, LivePhases, ActingPhases, AllReported, Final
        <2>6. StayingOK(a)'
            BY DEF StayingOK, NotBegun, Waiting
        <2> QED
            BY <2>1, <2>2, <2>3, <2>4, <2>5, <2>6
    <1>12. LeavesSession(a)
        BY <1>2, <1>3, <1>5, <1>4, <1>9
           DEF LeavesSession, Acting, ActingPhases, AllReported, Final, Unrun, UnderWay,
               Waiting, NoResults, Ending
    <1> QED
        BY <1>5, <1>6, <1>7, <1>8, <1>11, <1>12, LocalStep

LEMMA FailuresKeep ==
    ASSUME IInv, NEW a \in Actions, AnalysisFails(a) \/ TailFails(a) \/ FailAgain(a)
    PROVE  IInv'
    <1>1. TypeOK
        BY DEF IInv
    <1>2. CASE AnalysisFails(a)
        <2>1. task[a] = "analysing"
            BY <1>2 DEF AnalysisFails, MoveTask
        <2> QED
            BY <1>2, <2>1, FailureKeeps DEF AnalysisFails
    <1>3. CASE TailFails(a)
        <2>1. faults' = faults \cup {"tail"} /\ TailMayFail
            BY <1>3 DEF TailFails
        <2> QED
            BY <1>3, <2>1, FailureKeeps DEF TailFails
    <1>4. CASE FailAgain(a)
        <2>1. task[a] = "failing"
            BY <1>4 DEF FailAgain, MoveTask
        <2> QED
            BY <1>4, <2>1, FailureKeeps DEF FailAgain
    <1> QED
        BY <1>2, <1>3, <1>4

\* The event of one candidate: it takes a slot, or reports its result.
LEMMA CandidateKeeps ==
    ASSUME IInv, NEW a \in Actions, NEW c \in Cands, StartAction(a, c) \/ CompleteAction(a, c)
    PROVE  IInv'
    <1>1. TypeOK /\ ActionOK(a) /\ task[a] = "opening"
        BY DEF IInv, StartAction, CompleteAction
    <1>2. PICK from \in {"waiting", "returned"} :
            /\ from = "waiting" => c \in record[a].selected
            /\ LET value == IF from = "waiting" THEN "pending" ELSE result[a][c]
               IN  Emit(a, MirrorOutcomes({c}, value), <<>>)
            /\ MoveWork(a, c, from, IF from = "waiting" THEN "starting" ELSE "reported")
        BY DEF StartAction, CompleteAction
    <1> DEFINE value == IF from = "waiting" THEN "pending" ELSE result[a][c]
               to == IF from = "waiting" THEN "starting" ELSE "reported"
               m == MirrorOutcomes({c}, value)
    <1>3. /\ work[a][c] = from /\ work'[a][c] = to
          /\ \A d \in Cands \ {c} : work'[a][d] = work[a][d]
          /\ \A b \in Actions \ {a} : work'[b] = work[b]
          /\ work' \in [Actions -> [Cands -> WorkStages]]
        BY <1>1, <1>2, WorkMoves DEF WorkStages
    <1>4. /\ from = "returned" => value \in ResultStatus /\ value = result[a][c]
          /\ value \in Outcomes
        BY <1>1, <1>2, <1>3 DEF ActionOK, WorkOK, Outcomes
    <1>5. m \in Mirroring /\ m.todo = "outcomes" /\ m.cands = {c} /\ m.value = value
        BY <1>4, MirrorOutcomesIs
    <1> HIDE DEF m
    <1>6. /\ mirror[a] = Idle /\ mirror'[a] = m
          /\ \A b \in Actions \ {a} : mirror'[b] = mirror[b] /\ queue'[b] = queue[b]
          /\ mirror' \in [Actions -> Mirroring]
          /\ queue' \in [Actions -> Seq(Events)]
          /\ queue'[a] = queue[a]
        <2>1. <<>> \in Seq(Events)
            OBVIOUS
        <2> QED
            BY <1>1, <1>2, <1>5, <2>1, Emits DEF m
    <1>7. UNCHANGED <<session, record, task, result, stream, viewer, merging, prs,
                      faults, overtaken>>
        BY DEF StartAction, CompleteAction
    <1>8. TypeOK'
        BY <1>1, <1>3, <1>6, <1>7, StepTypes DEF TypeOK, RecordsTypeOK, TaskStates
    <1>9. \A b \in Actions \ {a} : Same(b)
        BY <1>3, <1>6, <1>7 DEF Same
    <1>10. FaultsOK' /\ FoundOK(a)'
        BY <1>5, <1>6, <1>7 DEF IInv, FaultsOK, FoundOK
    <1>11. ActionOK(a)'
        <2> USE <1>1, <1>2, <1>3, <1>4, <1>5, <1>6, <1>7, IdleIs DEF ActionOK, Ending
        <2>1. NotBegun(a)'
            BY DEF NotBegun
        <2>2. WorkOK(a)'
            BY DEF WorkOK
        <2>3. TaskOK(a)'
            BY DEF TaskOK
        <2>4. MirrorOK(a)'
            BY DEF MirrorOK, WritesOutcomes, TaskOK
        <2>5. RecordOK(a)'
            BY DEF RecordOK, Recorded, Tracked, Live, LivePhases, ActingPhases, TaskOK, Final,
                   FinalStatuses
        <2>6. StayingOK(a)'
            BY DEF StayingOK
        <2> QED
            BY <2>1, <2>2, <2>3, <2>4, <2>5, <2>6
    <1>12. LeavesSession(a)
        BY <1>1, <1>6, <1>7, IdleIs
           DEF LeavesSession, Acting, Final, Unrun, UnderWay, ActionOK, TaskOK, FinalStatuses
    <1> QED
        BY <1>7, <1>8, <1>9, <1>10, <1>11, <1>12, LocalStep

\* The thread of a candidate starts, or comes back with a result.
LEMMA ThreadKeeps ==
    ASSUME IInv, NEW a \in Actions, NEW c \in Cands, LaunchThread(a, c) \/ OpenFixPr(a, c)
    PROVE  IInv'
    <1>1. TypeOK /\ ActionOK(a)
        BY DEF IInv
    <1>2. PICK from \in {"starting", "working"} :
            /\ from = "starting" => c \notin mirror[a].cands /\ task[a] = "opening"
            /\ MoveWork(a, c, from, IF from = "starting" THEN "working" ELSE "returned")
            /\ IF from = "starting" THEN result' = result /\ prs' = prs
               ELSE /\ \E status \in ResultStatus : result' = [result EXCEPT ![a][c] = status]
                    /\ prs' \subseteq prs \cup {c}
        BY DEF LaunchThread, OpenFixPr
    <1> DEFINE to == IF from = "starting" THEN "working" ELSE "returned"
    <1>3. /\ work[a][c] = from /\ work'[a][c] = to
          /\ \A d \in Cands \ {c} : work'[a][d] = work[a][d]
          /\ \A b \in Actions \ {a} : work'[b] = work[b]
          /\ work' \in [Actions -> [Cands -> WorkStages]]
        BY <1>1, <1>2, WorkMoves DEF WorkStages
    <1>4. /\ from = "starting" => result' = result
          /\ from = "working" => result'[a][c] \in ResultStatus
          /\ \A d \in Cands \ {c} : result'[a][d] = result[a][d]
          /\ \A b \in Actions \ {a} : result'[b] = result[b]
          /\ result' \in [Actions -> [Cands -> {"none"} \cup ResultStatus]]
        <2>1. CASE from = "starting"
            BY <1>1, <1>2, <2>1 DEF TypeOK
        <2>2. CASE from = "working"
            <3>1. PICK status \in ResultStatus : result' = [result EXCEPT ![a][c] = status]
                BY <1>2, <2>2
            <3> QED
                BY <1>1, <2>2, <3>1 DEF TypeOK
        <2> QED
            BY <2>1, <2>2
    <1>5. UNCHANGED <<session, record, task, mirror, stream, queue, viewer, merging,
                      faults, overtaken>>
        BY DEF LaunchThread, OpenFixPr, streamVars
    <1>6. TypeOK'
        BY <1>1, <1>2, <1>3, <1>4, <1>5, StepTypes DEF TypeOK, RecordsTypeOK, TaskStates
    <1>7. \A b \in Actions \ {a} : Same(b)
        BY <1>3, <1>4, <1>5 DEF Same
    <1>8. FaultsOK' /\ FoundOK(a)'
        BY <1>5 DEF IInv, FaultsOK, FoundOK
    <1>9. /\ \A d \in Cands : work[a][d] = "reported" <=> work'[a][d] = "reported"
          /\ \A d \in Cands : work[a][d] = "reported" => result'[a][d] = result[a][d]
          /\ record[a].selected \subseteq Cands
          /\ ~Waiting(a) /\ ~Unrun(a)
        BY <1>1, <1>2, <1>3, <1>4 DEF Unrun, Waiting, TypeOK, RecordsTypeOK, ActionRecord
    <1>10. /\ AllReported(a) <=> AllReported(a)'
           /\ Failed(a) => Failed(a)'
           /\ AllReported(a) => FinalizeStatus(result[a], record[a].selected)
                                    = FinalizeStatus(result'[a], record'[a].selected)
        BY <1>5, <1>9 DEF AllReported, Failed, FinalizeStatus, WithResult
    <1>11. ActionOK(a)'
        <2> USE <1>1, <1>3, <1>4, <1>5, <1>9, <1>10 DEF ActionOK
        <2>1. NotBegun(a)'
            BY DEF NotBegun
        <2>2. WorkOK(a)'
            BY <1>2 DEF WorkOK
        <2>3. TaskOK(a)'
            BY DEF TaskOK, Final
        <2>4. MirrorOK(a)'
            <3>1. WritesOutcomes(a) => WritesOutcomes(a)'
                <4>1. mirror[a].cands \subseteq Cands
                    BY DEF TypeOK, Mirroring
                <4>2. CASE from = "starting"
                    BY <1>2, <4>1, <4>2 DEF WritesOutcomes
                <4>3. CASE from = "working"
                    BY <1>2, <4>1, <4>3 DEF WritesOutcomes
                <4> QED
                    BY <4>2, <4>3
            <3>2. WritesFinal(a) => WritesFinal(a)'
                BY DEF WritesFinal
            <3> QED
                BY <3>1, <3>2 DEF MirrorOK
        <2>5. RecordOK(a)'
            BY DEF RecordOK, Recorded, Tracked, Live, Final
        <2>6. StayingOK(a)'
            BY <1>2 DEF StayingOK
        <2> QED
            BY <2>1, <2>2, <2>3, <2>4, <2>5, <2>6
    <1>12. LeavesSession(a)
        BY <1>5, <1>9, <1>10 DEF LeavesSession, Acting, Final, UnderWay
    <1> QED
        BY <1>5, <1>6, <1>7, <1>8, <1>11, <1>12, LocalStep

LEMMA ScanCompleteKeeps ==
    ASSUME IInv, NEW a \in Actions, ScanComplete(a)
    PROVE  IInv'
    <1> DEFINE status == FinalizeStatus(result[a], record[a].selected)
               m == MirrorFinal(status, STEP_COMPLETED)
    <1>1. TypeOK /\ ActionOK(a) /\ status \in FinalStatuses
        BY FinalizeStatusIs DEF IInv
    <1>2. /\ m \in Mirroring /\ m.todo = "finalize"
          /\ m.value = status /\ m.step = STEP_COMPLETED
        BY <1>1, MirrorFinalIs DEF Steps
    <1>3. /\ task[a] = "opening" /\ task'[a] = "finishing"
          /\ \A b \in Actions \ {a} : task'[b] = task[b]
          /\ task' \in [Actions -> TaskStates]
        BY <1>1, TaskMoves DEF ScanComplete, TaskStates, LivePhases, ActingPhases
    <1> HIDE DEF m
    <1>4. /\ mirror[a] = Idle /\ mirror'[a] = m
          /\ \A b \in Actions \ {a} : mirror'[b] = mirror[b] /\ queue'[b] = queue[b]
          /\ mirror' \in [Actions -> Mirroring]
          /\ queue' \in [Actions -> Seq(Events)]
          /\ queue'[a] = queue[a]
        <2>1. <<>> \in Seq(Events)
            OBVIOUS
        <2> QED
            BY <1>1, <1>2, <2>1, Emits DEF ScanComplete, m
    <1>5. UNCHANGED <<session, record, work, result, stream, viewer, merging, prs,
                      faults, overtaken>>
        BY DEF ScanComplete
    <1>6. AllReported(a) /\ record[a].status = "pending"
        BY <1>1, <1>3 DEF ScanComplete, AllReported, ActionOK, TaskOK
    <1>7. TypeOK'
        BY <1>1, <1>3, <1>4, <1>5, StepTypes DEF TypeOK, RecordsTypeOK
    <1>8. \A b \in Actions \ {a} : Same(b)
        BY <1>3, <1>4, <1>5 DEF Same
    <1>9. FaultsOK' /\ FoundOK(a)'
        BY <1>2, <1>4, <1>5 DEF IInv, FaultsOK, FoundOK
    <1>10. ActionOK(a)'
        <2> USE <1>1, <1>2, <1>3, <1>4, <1>5, <1>6, IdleIs DEF ActionOK, Ending
        <2>1. NotBegun(a)'
            BY DEF NotBegun
        <2>2. WorkOK(a)'
            BY DEF WorkOK
        <2>3. TaskOK(a)'
            BY DEF TaskOK, AllReported
        <2>4. MirrorOK(a)'
            BY DEF MirrorOK, WritesFinal, AllReported
        <2>5. RecordOK(a)'
            BY DEF RecordOK, Recorded, Tracked, Live, LivePhases, ActingPhases, Final, FinalStatuses
        <2>6. StayingOK(a)'
            BY DEF StayingOK, AllReported, WorkOK
        <2> QED
            BY <2>1, <2>2, <2>3, <2>4, <2>5, <2>6
    <1>11. LeavesSession(a)
        BY <1>3, <1>5, <1>6 DEF LeavesSession, Acting, ActingPhases, AllReported, Final, UnderWay
    <1> QED
        BY <1>5, <1>7, <1>8, <1>9, <1>10, <1>11, LocalStep

\* What a task does when its last event is mirrored: the merge run, the end.
LEMMA LastStepsKeep ==
    ASSUME IInv, NEW a \in Actions, StartMergeRun(a) \/ EndTask(a)
    PROVE  IInv'
    <1>1. TypeOK /\ ActionOK(a) /\ mirror[a] = Idle
        BY DEF IInv, StartMergeRun, EndTask
    <1>2. PICK from \in SUBSET {"finishing", "ready", "failedTwice"}, to \in {"ready", "ended"} :
            /\ MoveTask(a, from, to)
            /\ to = "ready" => from = {"finishing"}
        <2>1. CASE StartMergeRun(a)
            BY <2>1 DEF StartMergeRun
        <2>2. CASE EndTask(a)
            BY <2>2 DEF EndTask
        <2> QED
            BY <2>1, <2>2
    <1>3. /\ task[a] \in from /\ task'[a] = to
          /\ \A b \in Actions \ {a} : task'[b] = task[b]
          /\ task' \in [Actions -> TaskStates]
        BY <1>1, <1>2, TaskMoves DEF TaskStates, LivePhases, ActingPhases
    <1>4. /\ queue' \in [Actions -> Seq(Events)]
          /\ \A b \in Actions \ {a} : queue'[b] = queue[b]
          /\ to = "ready" => queue'[a] = queue[a]
        <2>1. CASE StartMergeRun(a)
            BY <1>1, <2>1 DEF StartMergeRun, streamVars, TypeOK
        <2>2. CASE EndTask(a)
            <3>1. Append(queue[a], "sentinel") \in Seq(Events)
                BY <1>1 DEF TypeOK, Events
            <3> QED
                BY <1>1, <1>3, <2>2, <3>1 DEF EndTask, MoveTask, TypeOK
        <2> QED
            BY <2>1, <2>2
    <1>5. /\ UNCHANGED <<session, record, work, result, mirror, stream, viewer, prs,
                         faults, overtaken>>
          /\ merging' \subseteq merging \cup {a} /\ merging \subseteq merging'
          /\ a \in merging' \ merging =>
                /\ task[a] = "finishing"
                /\ WithResult(result[a], record[a].selected, Mergeable) # {}
        BY DEF StartMergeRun, EndTask, MoveTask, rows, streamVars
    <1>6. TypeOK'
        BY <1>1, <1>3, <1>4, <1>5, StepTypes DEF TypeOK, RecordsTypeOK
    <1>7. \A b \in Actions \ {a} : Same(b)
        BY <1>3, <1>4, <1>5 DEF Same
    <1>8. FaultsOK' /\ FoundOK(a)'
        BY <1>5 DEF IInv, FaultsOK, FoundOK
    <1>9. Idle.todo = "nothing" /\ task[a] \in {"finishing", "ready", "failedTwice"}
        BY <1>2, <1>3, IdleIs
    <1>10. Live(a) /\ (Unrun(a) => Unrun(a)') /\ (Failed(a) => Failed(a)')
        <2>1. Live(a)
            BY <1>9 DEF Live, LivePhases, ActingPhases
        <2>2. to = "ready" => ~Unrun(a)
            BY <1>2, <1>3 DEF Unrun
        <2>3. Unrun(a) => Unrun(a)'
            BY <1>3, <1>5, <2>2 DEF Unrun, Waiting, NoResults
        <2> QED
            BY <1>5, <2>1, <2>3 DEF Failed, AllReported
    <1>11. a \in merging' \ merging /\ "lost" \notin faults =>
             Final(a)' /\ \E c \in record'[a].selected : record'[a].outcome[c] \in Mergeable
        <2> SUFFICES ASSUME a \in merging' \ merging, "lost" \notin faults
                     PROVE  Final(a) /\ \E c \in record[a].selected :
                                record[a].outcome[c] \in Mergeable
            BY <1>5 DEF Final
        <2>1. Final(a) /\ AllReported(a)
            BY <1>1, <1>5, <1>9 DEF ActionOK, TaskOK
        <2>2. PICK c \in record[a].selected : result[a][c] \in Mergeable
            BY <1>5 DEF WithResult
        <2>3. c \in Cands /\ work[a][c] = "reported"
            BY <1>1, <2>1 DEF AllReported, TypeOK, RecordsTypeOK, ActionRecord
        <2>4. Recorded(a)
            BY <1>1, <1>10 DEF ActionOK, RecordOK, Tracked
        <2>5. record[a].outcome[c] = result[a][c]
            BY <1>1, <1>9, <2>3, <2>4 DEF Recorded
        <2> QED
            BY <2>1, <2>2, <2>5
    <1>12. ActionOK(a)'
        <2> USE <1>1, <1>2, <1>3, <1>4, <1>5, <1>9, <1>10 DEF ActionOK, Ending
        <2>1. NotBegun(a)'
            BY DEF NotBegun
        <2>2. WorkOK(a)'
            BY DEF WorkOK
        <2>3. TaskOK(a)'
            BY DEF TaskOK, AllReported
        <2>4. MirrorOK(a)'
            BY DEF MirrorOK
        <2>5. RecordOK(a)'
            BY <1>11 DEF RecordOK, Recorded, Tracked, AllReported, Final
        <2>6. StayingOK(a)'
            BY DEF StayingOK
        <2> QED
            BY <2>1, <2>2, <2>3, <2>4, <2>5, <2>6
    <1>13. LeavesSession(a)
        BY <1>2, <1>3, <1>5, <1>9, <1>10
           DEF LeavesSession, Acting, ActingPhases, AllReported, Final, UnderWay
    <1> QED
        BY <1>5, <1>6, <1>7, <1>8, <1>12, <1>13, LocalStep

-----------------------------------------------------------------------------
(* The mirroring thread *)

\* A thread at work has something to do, for an action that is recorded.
LEMMA AtWork ==
    ASSUME IInv, NEW a \in Actions, mirror[a].todo # "nothing"
    PROVE  /\ TypeOK /\ ActionOK(a)
           /\ mirror[a] \in Mirroring /\ mirror[a] # Idle
           /\ task[a] \notin {"none", "analysing"}
           /\ record[a].status # "absent"
           /\ record[a] \in ActionRecord
           /\ "lost" \notin faults => Recorded(a)
    <1>1. TypeOK /\ ActionOK(a) /\ mirror[a] # Idle
        BY IdleIs DEF IInv
    <1> QED
        BY <1>1 DEF ActionOK, NotBegun, RecordOK, Tracked, TypeOK, RecordsTypeOK

LEMMA MirrorOutcomeKeeps ==
    ASSUME IInv, NEW a \in Actions, MirrorOutcome(a)
    PROVE  IInv'
    <1> DEFINE ids == mirror[a].cands
               value == mirror[a].value
    <1>1. /\ TypeOK /\ ActionOK(a) /\ mirror[a].todo = "outcomes"
          /\ mirror[a] \in Mirroring /\ mirror[a] # Idle
          /\ task[a] \notin {"none", "analysing"}
          /\ record[a] \in ActionRecord
          /\ "lost" \notin faults => Recorded(a)
        BY AtWork DEF MirrorOutcome
    <1>2. WritesOutcomes(a)
        BY <1>1 DEF ActionOK, MirrorOK
    <1>3. ids \in SUBSET Cands /\ value \in Outcomes
        BY <1>1, <1>2 DEF WritesOutcomes, ActionOK, WorkOK, Outcomes, Mirroring
    <1>4. /\ record' \in [Actions -> ActionRecord]
          /\ \A b \in Actions \ {a} : record'[b] = record[b]
          /\ record'[a].status = record[a].status
          /\ record'[a].selected = record[a].selected
          /\ record'[a].outcome = [c \in Cands |-> IF c \in ids THEN value ELSE record[a].outcome[c]]
        <2>1. record' = [record EXCEPT ![a].outcome =
                            [c \in Cands |-> IF c \in ids THEN value ELSE record[a].outcome[c]]]
            BY <1>1 DEF MirrorOutcome, UpdateOutcomes, TypeOK, RecordsTypeOK, ActionRecord
        <2> QED
            BY <1>1, <1>3, <2>1 DEF TypeOK, RecordsTypeOK, ActionRecord
    <1>5. /\ mirror'[a] = Idle
          /\ \A b \in Actions \ {a} : mirror'[b] = mirror[b]
          /\ mirror' \in [Actions -> Mirroring]
        BY <1>1, IdleIs DEF MirrorOutcome, TypeOK
    <1>6. UNCHANGED <<session, task, work, result, merging, stream, queue, viewer, prs,
                      faults, overtaken>>
        BY DEF MirrorOutcome, taskVars, streamVars
    <1>7. TypeOK'
        BY <1>1, <1>4, <1>5, <1>6, StepTypes DEF TypeOK, TaskStates
    <1>8. \A b \in Actions \ {a} : Same(b)
        BY <1>4, <1>5, <1>6 DEF Same
    <1>9. FaultsOK' /\ FoundOK(a)'
        BY <1>5, <1>6, IdleIs DEF IInv, FaultsOK, FoundOK
    <1>10. record[a].status = "pending" /\ task[a] \in {"opening", "ended"}
        <2>1. task[a] \in TaskStates
            BY <1>1 DEF TypeOK, TaskStates
        <2> QED
            BY <1>1, <1>2, <2>1
               DEF WritesOutcomes, ActionOK, TaskOK, TaskStates, LivePhases, ActingPhases
    <1>11. "lost" \notin faults => Recorded(a)'
        <2> SUFFICES ASSUME "lost" \notin faults, NEW c \in Cands, work[a][c] = "reported"
                     PROVE  record'[a].outcome[c] = result[a][c]
            BY <1>6 DEF Recorded
        <2>1. record[a].outcome[c] = result[a][c] \/ ids = {c}
            BY <1>1 DEF Recorded
        <2>2. CASE \A d \in ids : work[a][d] \in {"waiting", "starting"}
            BY <1>4, <2>1, <2>2
        <2>3. CASE \E d \in Cands : ids = {d} /\ value = result[a][d]
            BY <1>4, <2>1, <2>3
        <2> QED
            BY <1>2, <2>2, <2>3 DEF WritesOutcomes
    <1>12. ActionOK(a)'
        <2> USE <1>1, <1>4, <1>5, <1>6, <1>10, IdleIs DEF ActionOK, Ending
        <2>1. NotBegun(a)'
            BY DEF NotBegun
        <2>2. WorkOK(a)'
            BY DEF WorkOK
        <2>3. TaskOK(a)'
            BY DEF TaskOK
        <2>4. MirrorOK(a)'
            BY DEF MirrorOK
        <2>5. RecordOK(a)'
            BY <1>11 DEF RecordOK, Final, FinalStatuses
        <2>6. StayingOK(a)'
            BY DEF StayingOK
        <2> QED
            BY <2>1, <2>2, <2>3, <2>4, <2>5, <2>6
    <1>13. LeavesSession(a)
        BY <1>4, <1>6, <1>10 DEF LeavesSession, Acting, Final, FinalStatuses, UnderWay
    <1> QED
        BY <1>6, <1>7, <1>8, <1>9, <1>12, <1>13, LocalStep

LEMMA MirrorFinalizeKeeps ==
    ASSUME IInv, NEW a \in Actions, MirrorFinalize(a)
    PROVE  IInv'
    <1>1. /\ TypeOK /\ ActionOK(a) /\ mirror[a].todo = "finalize"
          /\ mirror[a] \in Mirroring /\ mirror[a] # Idle
          /\ task[a] \notin {"none", "analysing"}
          /\ record[a].status # "absent"
          /\ record[a] \in ActionRecord
          /\ "lost" \notin faults => Recorded(a)
        BY AtWork DEF MirrorFinalize
    <1>2. WritesFinal(a)
        BY <1>1 DEF ActionOK, MirrorOK, Ending
    <1>3. /\ record' \in [Actions -> ActionRecord]
          /\ \A b \in Actions \ {a} : record'[b] = record[b]
          /\ record'[a].status = mirror[a].value
          /\ record'[a].selected = record[a].selected
          /\ record'[a].outcome = record[a].outcome
        BY <1>1, <1>2
           DEF MirrorFinalize, FinalizeRecord, WritesFinal, TypeOK, RecordsTypeOK, ActionRecord
    <1>4. /\ mirror'[a].todo = "find"
          /\ mirror'[a].value = mirror[a].value
          /\ mirror'[a].step = mirror[a].step
          /\ \A b \in Actions \ {a} : mirror'[b] = mirror[b]
          /\ mirror' \in [Actions -> Mirroring]
        BY <1>1 DEF MirrorFinalize, TypeOK, Mirroring
    <1>5. UNCHANGED <<session, task, work, result, merging, stream, queue, viewer, prs,
                      faults, overtaken>>
        BY DEF MirrorFinalize, taskVars, streamVars
    <1>6. TypeOK'
        BY <1>1, <1>3, <1>4, <1>5, StepTypes DEF TypeOK, TaskStates
    <1>7. \A b \in Actions \ {a} : Same(b)
        BY <1>3, <1>4, <1>5 DEF Same
    <1>8. FaultsOK' /\ FoundOK(a)'
        BY <1>4, <1>5 DEF IInv, FaultsOK, FoundOK
    <1>9. /\ task[a] \notin {"none", "analysing", "opening"}
          /\ record'[a].status \in FinalStatuses
        BY <1>1, <1>2, <1>3 DEF ActionOK, TaskOK, WritesFinal, Ending
    <1>10. /\ AllReported(a) <=> AllReported(a)'
           /\ Unrun(a) => Unrun(a)' /\ record'[a].status = "failed"
           /\ Failed(a) => Failed(a)'
        <2>1. AllReported(a) <=> AllReported(a)'
            BY <1>3, <1>5 DEF AllReported
        <2>2. Unrun(a) => Unrun(a)' /\ record'[a].status = "failed"
            BY <1>1, <1>2, <1>3, <1>4, <1>5
               DEF Unrun, Waiting, NoResults, WritesFinal, Ending, STEP_COMPLETED,
                   STEP_AUTHORIZE_FAILED
        <2> QED
            BY <1>5, <2>1, <2>2 DEF Failed
    <1>11. ActionOK(a)'
        <2> USE <1>1, <1>3, <1>4, <1>5, <1>9, <1>10 DEF ActionOK, Ending
        <2>1. NotBegun(a)'
            BY DEF NotBegun, FinalStatuses
        <2>2. WorkOK(a)'
            BY DEF WorkOK
        <2>3. TaskOK(a)'
            BY DEF TaskOK, Final
        <2>4. MirrorOK(a)'
            <3>1. WritesFinal(a)'
                BY <1>2 DEF WritesFinal
            <3> QED
                BY <3>1 DEF MirrorOK, Idle
        <2>5. RecordOK(a)'
            <3>1. record'[a].status \in {"completed", "partial"} =>
                    /\ AllReported(a)'
                    /\ record'[a].status = FinalizeStatus(result'[a], record'[a].selected)
                BY <1>2 DEF WritesFinal
            <3>2. "lost" \notin faults => Recorded(a)'
                BY DEF Recorded
            <3> QED
                BY <3>1, <3>2 DEF RecordOK, Final
        <2>6. StayingOK(a)'
            BY DEF StayingOK
        <2> QED
            BY <2>1, <2>2, <2>3, <2>4, <2>5, <2>6
    <1>12. LeavesSession(a)
        BY <1>3, <1>4, <1>5, <1>9, <1>10 DEF LeavesSession, Acting, Final, UnderWay, FinalStatuses
    <1> QED
        BY <1>5, <1>6, <1>7, <1>8, <1>11, <1>12, LocalStep

\* The thread looks its session up, or raises and is given up.
LEMMA MirrorLookupKeeps ==
    ASSUME IInv, NEW a \in Actions, MirrorFind(a) \/ MirrorRaises(a)
    PROVE  IInv'
    <1>1. /\ TypeOK /\ ActionOK(a) /\ mirror[a].todo # "nothing"
          /\ mirror[a] \in Mirroring /\ mirror[a] # Idle
          /\ task[a] \notin {"none", "analysing"}
          /\ record[a].status # "absent"
          /\ "lost" \notin faults => Recorded(a)
        <2>1. mirror[a].todo = "nothing" => mirror[a] = Idle
            BY DEF IInv, ActionOK, MirrorOK
        <2> QED
            BY <2>1, AtWork DEF MirrorFind, MirrorRaises
    <1>2. /\ UNCHANGED <<session, record, task, work, result, merging, stream, queue, viewer, prs,
                         overtaken>>
          /\ faults \subseteq faults' /\ faults' \subseteq faults \cup {"lost"}
          /\ FaultsOK'
          /\ faults' # faults => mirror'[a] = Idle
          /\ mirror[a].todo \in {"outcomes", "finalize"} => "lost" \in faults'
        BY <1>1 DEF MirrorFind, MirrorRaises, IInv, FaultsOK, rows, taskVars, streamVars, TypeOK
    <1>3. /\ \A b \in Actions \ {a} : mirror'[b] = mirror[b]
          /\ mirror'[a] \in Mirroring
          /\ \/ mirror'[a] = Idle
             \/ /\ mirror[a].todo = "find" /\ mirror'[a].todo = "update"
                /\ mirror'[a].value = mirror[a].value
                /\ mirror'[a].step = mirror[a].step
                /\ mirror'[a].found \in Sessions
                /\ session[mirror'[a].found].action = a
          /\ mirror' \in [Actions -> Mirroring]
        <2>1. CASE MirrorRaises(a)
            BY <1>1, <2>1, IdleIs DEF MirrorRaises, TypeOK
        <2>2. CASE MirrorFind(a)
            <3> DEFINE found == {s \in Sessions : Loaded(s) /\ session[s].action = a}
            <3>1. CASE SessionOfAction(a) = NoSession
                BY <1>1, <2>2, <3>1, IdleIs DEF MirrorFind, TypeOK
            <3>2. CASE SessionOfAction(a) # NoSession
                <4>1. SessionOfAction(a) \in found
                    BY <3>2 DEF SessionOfAction
                <4> DEFINE m == [mirror[a] EXCEPT !.todo = "update", !.found = SessionOfAction(a)]
                <4>2. mirror' = [mirror EXCEPT ![a] = m] /\ mirror[a].todo = "find"
                    BY <1>1, <2>2, <3>2 DEF MirrorFind, TypeOK
                <4>3. /\ m \in Mirroring /\ m.todo = "update" /\ m.found = SessionOfAction(a)
                      /\ m.value = mirror[a].value /\ m.step = mirror[a].step
                    BY <1>1, <4>1 DEF Mirroring
                <4> HIDE DEF m
                <4> QED
                    BY <1>1, <4>1, <4>2, <4>3 DEF TypeOK
            <3> QED
                BY <3>1, <3>2
        <2> QED
            BY <2>1, <2>2
    <1>4. TypeOK'
        BY <1>1, <1>2, <1>3, StepTypes DEF TypeOK, RecordsTypeOK, TaskStates
    <1>5. \A b \in Actions \ {a} : Same(b)
        BY <1>2, <1>3 DEF Same
    <1>6. FoundOK(a)'
        BY <1>2, <1>3, IdleIs, NoneAssumption DEF FoundOK
    <1>7. /\ AllReported(a) <=> AllReported(a)'
          /\ Unrun(a) => Unrun(a)'
          /\ Failed(a) => Failed(a)'
        <2>1. AllReported(a) <=> AllReported(a)'
            BY <1>2 DEF AllReported
        <2>2. Unrun(a) => Unrun(a)'
            BY <1>2, <1>3, IdleIs DEF Unrun, Waiting, NoResults, Ending
        <2> QED
            BY <1>2, <2>1, <2>2 DEF Failed
    <1>8. ActionOK(a)'
        <2> USE <1>1, <1>2, <1>3, <1>7, IdleIs DEF ActionOK, Ending
        <2>1. NotBegun(a)'
            BY DEF NotBegun
        <2>2. WorkOK(a)'
            BY DEF WorkOK
        <2>3. TaskOK(a)'
            BY DEF TaskOK, Final
        <2>4. MirrorOK(a)'
            BY DEF MirrorOK, WritesFinal
        <2>5. RecordOK(a)'
            BY DEF RecordOK, Recorded, Final
        <2>6. StayingOK(a)'
            BY DEF StayingOK
        <2> QED
            BY <2>1, <2>2, <2>3, <2>4, <2>5, <2>6
    <1>9. LeavesSession(a)
        <2>1. ASSUME NEW s \in Sessions, session[s].action = a, Loaded(s), faults' = {},
                     UnderWay(a, s)
              PROVE  UnderWay(a, s)'
            <3>1. MirrorFind(a)
                BY <2>1 DEF MirrorRaises
            <3>2. \A t \in Sessions : session[t].action = a => t = s
                BY <2>1, NoneAssumption DEF IInv, LinkOK
            <3>3. SessionOfAction(a) = s
                BY <2>1, <3>2 DEF SessionOfAction
            <3>4. mirror'[a].todo = "update" /\ mirror'[a].found = s
                BY <1>1, <2>1, <3>1, <3>3, NoneAssumption DEF MirrorFind, TypeOK, Mirroring
            <3> QED
                BY <3>4 DEF UnderWay
        <2> QED
            BY <1>2, <1>7, <2>1 DEF LeavesSession, Acting, Final
    <1> QED
        BY <1>2, <1>4, <1>5, <1>6, <1>8, <1>9, LocalStep

\* A session that stays as it is, with its action.
LEMMA SessionKeeps ==
    ASSUME NEW s \in Sessions, StepOK(s), session'[s] = session[s], faults \subseteq faults',
           session[s].action # NoAction => Same(session[s].action)
    PROVE  StepOK(s)'
    <1> DEFINE b == session[s].action
    <1>1. CASE b = NoAction
        BY <1>1 DEF StepOK
    <1>2. CASE Same(b)
        <2>1. /\ Acting(b)' <=> Acting(b)
              /\ AllReported(b) => AllReported(b)'
              /\ Final(b) => Final(b)'
              /\ Unrun(b) => Unrun(b)'
              /\ UnderWay(b, s) => UnderWay(b, s)'
            BY <1>2 DEF Same, Acting, AllReported, Final, Unrun, UnderWay, Waiting, NoResults
        <2> QED
            BY <1>2, <2>1 DEF StepOK, Loaded, Same
    <1> QED
        BY <1>1, <1>2

LEMMA MirrorUpdateKeeps ==
    ASSUME IInv, NEW a \in Actions, MirrorUpdate(a)
    PROVE  IInv'
    <1> DEFINE f == mirror[a].found
    <1>1. /\ TypeOK /\ ActionOK(a) /\ mirror[a].todo = "update"
          /\ mirror[a] \in Mirroring /\ mirror[a] # Idle
          /\ task[a] \notin {"none", "analysing"}
          /\ record[a].status # "absent"
          /\ "lost" \notin faults => Recorded(a)
        BY AtWork DEF MirrorUpdate
    <1>2. /\ f \in Sessions /\ session[f].action # NoAction
          /\ f \notin overtaken => session[f].action = a
        BY <1>1 DEF IInv, FoundOK
    <1>3. /\ WritesFinal(a) /\ record[a].status = mirror[a].value
          /\ mirror[a].step \in {STEP_COMPLETED, STEP_AUTHORIZE_FAILED}
        BY <1>1 DEF ActionOK, MirrorOK, WritesFinal, Ending
    <1>4. /\ session' \in [Sessions -> WizardSession]
          /\ \A s \in Sessions \ {f} : session'[s] = session[s]
          /\ session'[f].step = mirror[a].step
          /\ \A s \in Sessions : /\ session'[s].action = session[s].action
                                 /\ session'[s].selected = session[s].selected
        <2> DEFINE row == [session[f] EXCEPT !.step = mirror[a].step]
        <2>1. session \in [Sessions -> WizardSession] /\ session[f] \in WizardSession
            BY <1>1, <1>2 DEF TypeOK, SessionsTypeOK
        <2>2. session' = [session EXCEPT ![f] = row]
            BY <2>1 DEF MirrorUpdate, UpdateStep
        <2>3. /\ row \in WizardSession /\ row.step = mirror[a].step
              /\ row.action = session[f].action /\ row.selected = session[f].selected
            BY <1>3, <2>1 DEF WizardSession, Steps
        <2> HIDE DEF row
        <2> QED
            BY <1>2, <2>1, <2>2, <2>3
    <1>5. /\ mirror'[a] = Idle
          /\ \A b \in Actions \ {a} : mirror'[b] = mirror[b]
          /\ mirror' \in [Actions -> Mirroring]
        BY <1>1, IdleIs DEF MirrorUpdate, TypeOK
    <1>6. UNCHANGED <<record, task, work, result, merging, stream, queue, viewer, prs,
                      faults, overtaken>>
        BY DEF MirrorUpdate, taskVars, streamVars
    <1>7. TypeOK'
        BY <1>1, <1>4, <1>5, <1>6 DEF TypeOK, SessionsTypeOK, RecordsTypeOK
    <1>8. \A b \in Actions \ {a} : Same(b)
        BY <1>5, <1>6 DEF Same
    <1>9. /\ AllReported(a) <=> AllReported(a)'
          /\ Unrun(a) => Unrun(a)'
          /\ Failed(a) => Failed(a)'
        <2>1. AllReported(a) <=> AllReported(a)'
            BY <1>6 DEF AllReported
        <2>2. Unrun(a) => Unrun(a)'
            BY <1>5, <1>6, IdleIs DEF Unrun, Waiting, NoResults, Ending
        <2> QED
            BY <1>6, <2>1, <2>2 DEF Failed
    <1>10. ActionOK(a)'
        <2> USE <1>1, <1>5, <1>6, <1>9, IdleIs DEF ActionOK, Ending
        <2>1. NotBegun(a)'
            BY DEF NotBegun
        <2>2. WorkOK(a)'
            BY DEF WorkOK
        <2>3. TaskOK(a)'
            BY DEF TaskOK, Final
        <2>4. MirrorOK(a)'
            BY DEF MirrorOK
        <2>5. RecordOK(a)'
            BY DEF RecordOK, Recorded, Final
        <2>6. StayingOK(a)'
            BY DEF StayingOK
        <2> QED
            BY <2>1, <2>2, <2>3, <2>4, <2>5, <2>6
    <1>11. \A b \in Actions : ActionOK(b)' /\ FoundOK(b)'
        <2>1. \A b \in Actions : ActionOK(b)'
            BY <1>6, <1>8, <1>10, SameKeeps DEF IInv
        <2>2. FoundOK(a)'
            BY <1>5, IdleIs DEF FoundOK
        <2>3. \A b \in Actions \ {a} : FoundOK(b)'
            BY <1>4, <1>5, <1>6 DEF IInv, FoundOK
        <2> QED
            BY <2>1, <2>2, <2>3
    <1>12. ASSUME NEW s \in Sessions PROVE LinkOK(s)'
        <2>1. session'[s].step \notin {"absent", STEP_ASSESSMENT_VIEWED, STEP_SELECTED}
                \/ session'[s] = session[s]
            BY <1>3, <1>4
               DEF STEP_COMPLETED, STEP_AUTHORIZE_FAILED, STEP_ASSESSMENT_VIEWED, STEP_SELECTED
        <2>2. session'[s] # session[s] => session[s].action # NoAction
            BY <1>2, <1>4
        <2> QED
            BY <1>4, <1>6, <2>1, <2>2 DEF IInv, LinkOK
    <1>13. ASSUME NEW s \in Sessions, s \notin overtaken' PROVE StepOK(s)'
        <2>1. CASE s = f
            <3>1. session'[f].action = a /\ session'[f].step = mirror[a].step
                BY <1>2, <1>4, <1>6, <1>13, <2>1
            <3>2. Final(a)'
                BY <1>3, <1>6 DEF Final, WritesFinal
            <3>3. CASE mirror[a].step = STEP_COMPLETED
                <4>1. AllReported(a)'
                    BY <1>3, <1>9, <3>3 DEF WritesFinal, STEP_COMPLETED, STEP_AUTHORIZE_FAILED
                <4> QED
                    BY <2>1, <3>1, <3>2, <3>3, <4>1
                       DEF StepOK, STEP_COMPLETED, STEP_AUTHORIZE_FAILED, STEP_SELECTED,
                           STEP_AUTHORIZED
            <3>4. CASE mirror[a].step = STEP_AUTHORIZE_FAILED
                <4>1. /\ task[a] \in {"failing", "failedTwice", "ended"} /\ Failed(a)
                      /\ record[a].status = "failed"
                    BY <1>3, <3>4 DEF WritesFinal, STEP_COMPLETED, STEP_AUTHORIZE_FAILED
                <4>2. ~Acting(a)'
                    BY <1>6, <4>1 DEF Acting, ActingPhases
                <4>3. faults' \subseteq {"lost"} => Unrun(a)'
                    BY <1>6, <1>9, <4>1 DEF Failed
                <4> QED
                    BY <1>6, <2>1, <3>1, <3>4, <4>1, <4>2, <4>3
                       DEF StepOK, STEP_COMPLETED, STEP_AUTHORIZE_FAILED, STEP_SELECTED,
                           STEP_AUTHORIZED
            <3> QED
                BY <1>3, <3>3, <3>4
        <2>2. CASE s # f
            <3>1. session'[s] = session[s] /\ StepOK(s)
                BY <1>4, <1>6, <1>13, <2>2 DEF IInv
            <3>2. CASE session[s].action # a
                <4>1. session[s].action # NoAction => Same(session[s].action)
                    BY <1>1, <1>8, <3>2 DEF TypeOK, SessionsTypeOK, WizardSession
                <4> QED
                    BY <1>6, <3>1, <4>1, SessionKeeps
            <3>3. CASE session[s].action = a
                <4>1. ~UnderWay(a, s)
                    BY <1>1, <1>3, <2>2 DEF UnderWay, WritesFinal, FinalStatuses
                <4>2. /\ Acting(a)' <=> Acting(a)
                      /\ Final(a)' <=> Final(a)
                    BY <1>6 DEF Acting, Final
                <4> QED
                    BY <1>6, <1>9, <3>1, <3>3, <4>1, <4>2 DEF StepOK, Loaded
            <3> QED
                BY <3>2, <3>3
        <2> QED
            BY <2>1, <2>2
    <1>14. FaultsOK'
        BY <1>6 DEF IInv, FaultsOK
    <1> QED
        BY <1>7, <1>11, <1>12, <1>13, <1>14 DEF IInv

-----------------------------------------------------------------------------
(* The wizard, streams and tabs *)

\* A step that touches no action, and no session's action.
LEMMA PageStep ==
    ASSUME IInv, TypeOK',
           UNCHANGED <<record, task, work, result, mirror, queue, merging, faults, overtaken>>,
           \A s \in Sessions : session'[s].action = session[s].action,
           \A s \in Sessions :
               session'[s] = session[s] \/ (LinkOK(s)' /\ (s \notin overtaken' => StepOK(s)'))
    PROVE  IInv'
    <1>1. \A b \in Actions : Same(b)
        BY DEF Same
    <1>2. \A b \in Actions : ActionOK(b)' /\ FoundOK(b)'
        BY <1>1, SameKeeps DEF IInv, FoundOK
    <1>3. ASSUME NEW s \in Sessions PROVE LinkOK(s)'
        BY DEF IInv, LinkOK
    <1>4. ASSUME NEW s \in Sessions, s \notin overtaken' PROVE StepOK(s)'
        <2>1. session[s].action \in Actions \cup {NoAction}
            BY DEF IInv, TypeOK, SessionsTypeOK, WizardSession
        <2>2. session'[s] = session[s] => StepOK(s)'
            BY <1>1, <1>4, <2>1, SessionKeeps DEF IInv
        <2> QED
            BY <1>4, <2>2
    <1> QED
        BY <1>2, <1>3, <1>4 DEF IInv, FaultsOK

LEMMA WizardKeeps ==
    ASSUME IInv, NEW s \in Sessions, Plan(s) \/ Choose(s) \/ Lapse(s)
    PROVE  IInv'
    <1>1. /\ session \in [Sessions -> WizardSession]
          /\ session[s] \in WizardSession
          /\ LinkOK(s)
          /\ s \notin overtaken => StepOK(s)
        BY DEF IInv, TypeOK, SessionsTypeOK
    <1>2. UNCHANGED <<record, task, work, result, mirror, stream, queue, viewer, merging, prs,
                      faults, overtaken>>
        BY DEF Plan, Choose, Lapse, wizardOnly
    <1>3. PICK row \in WizardSession :
            /\ session' = [session EXCEPT ![s] = row]
            /\ row.action = session[s].action
            /\ session[s].expired => row.expired
            /\ \/ /\ session[s].step = "absent" /\ row.step = STEP_ASSESSMENT_VIEWED
                  /\ row.selected = session[s].selected
               \/ /\ session[s].step \in {STEP_ASSESSMENT_VIEWED, STEP_SELECTED}
                  /\ row.step = STEP_SELECTED /\ row.selected # {}
               \/ row.step = session[s].step /\ row.selected = session[s].selected
        <2>1. CASE Plan(s)
            <3> DEFINE r == [session[s] EXCEPT !.step = STEP_ASSESSMENT_VIEWED]
            <3>1. session' = [session EXCEPT ![s] = r] /\ session[s].step = "absent"
                BY <1>1, <2>1 DEF Plan, CreateSession, UpdateStep
            <3>2. /\ r \in WizardSession /\ r.step = STEP_ASSESSMENT_VIEWED
                  /\ r.action = session[s].action /\ r.selected = session[s].selected
                  /\ r.expired = session[s].expired
                BY <1>1 DEF WizardSession, Steps
            <3> HIDE DEF r
            <3> QED
                BY <3>1, <3>2
        <2>2. CASE Choose(s)
            <3>1. PICK ids \in SUBSET Cands : Select(s, ids)
                BY <2>2 DEF Choose
            <3> DEFINE p == [session[s] EXCEPT !.selected = ids]
                       r == [p EXCEPT !.step = STEP_SELECTED]
            <3>2. p \in WizardSession /\ p.selected = ids
                    /\ p.action = session[s].action /\ p.expired = session[s].expired
                BY <1>1 DEF WizardSession
            <3>3. session' = [[session EXCEPT ![s] = p] EXCEPT ![s] = r]
                BY <1>1, <3>1 DEF Select
            <3>4. /\ r \in WizardSession /\ r.step = STEP_SELECTED
                  /\ r.action = p.action /\ r.selected = p.selected /\ r.expired = p.expired
                <4> HIDE DEF p
                <4> QED
                    BY <3>2 DEF WizardSession, Steps
            <3>5. ids # {} /\ session[s].step \in {STEP_ASSESSMENT_VIEWED, STEP_SELECTED}
                BY <3>1 DEF Select
            <3> HIDE DEF p, r
            <3>6. session' = [session EXCEPT ![s] = r]
                BY <1>1, <3>3
            <3> QED
                BY <3>2, <3>4, <3>5, <3>6
        <2>3. CASE Lapse(s)
            <3> DEFINE r == [session[s] EXCEPT !.expired = TRUE]
            <3>1. session' = [session EXCEPT ![s] = r]
                BY <1>1, <2>3 DEF Lapse, Expire
            <3>2. /\ r \in WizardSession /\ r.step = session[s].step
                  /\ r.action = session[s].action /\ r.selected = session[s].selected
                  /\ r.expired = TRUE
                BY <1>1 DEF WizardSession
            <3> HIDE DEF r
            <3> QED
                BY <3>1, <3>2
        <2> QED
            BY <2>1, <2>2, <2>3
    <1>5. /\ session'[s] = row
          /\ \A t \in Sessions \ {s} : session'[t] = session[t]
          /\ \A t \in Sessions : session'[t].action = session[t].action
          /\ session' \in [Sessions -> WizardSession]
        BY <1>1, <1>3
    <1>6. TypeOK'
        BY <1>2, <1>5 DEF IInv, TypeOK, SessionsTypeOK, RecordsTypeOK
    <1>7. LinkOK(s)'
        BY <1>1, <1>2, <1>3, <1>5
           DEF LinkOK, STEP_ASSESSMENT_VIEWED, STEP_SELECTED, STEP_AUTHORIZED, STEP_COMPLETED,
               STEP_AUTHORIZE_FAILED
    <1>8. ASSUME s \notin overtaken' PROVE StepOK(s)'
        <2>0. PICK b : b = session[s].action /\ b = session'[s].action
            BY <1>3, <1>5
        <2>1. CASE b = NoAction
            BY <2>0, <2>1 DEF StepOK
        <2>2. CASE b # NoAction
            <3>1. session[s].step \notin {"absent", STEP_ASSESSMENT_VIEWED}
                BY <1>1, <2>0, <2>2 DEF LinkOK
            <3>2. row.step = session[s].step
                BY <1>3, <3>1
            <3>3. Loaded(s)' => Loaded(s)
                BY <1>3, <1>5, <3>2 DEF Loaded
            <3>4. /\ Acting(b)' <=> Acting(b)
                  /\ AllReported(b)' <=> AllReported(b)
                  /\ Final(b)' <=> Final(b)
                  /\ Unrun(b)' <=> Unrun(b)
                  /\ UnderWay(b, s)' <=> UnderWay(b, s)
                BY <1>2 DEF Acting, AllReported, Final, Unrun, UnderWay, Waiting, NoResults
            <3> QED
                BY <1>1, <1>2, <1>5, <1>8, <2>0, <3>2, <3>3, <3>4 DEF StepOK
        <2> QED
            BY <2>1, <2>2
    <1> QED
        BY <1>2, <1>5, <1>6, <1>7, <1>8, PageStep

LEMMA WatchKeeps ==
    ASSUME IInv, NEW v \in Viewers, NEW s \in Sessions, Watch(v, s)
    PROVE  IInv'
    <1>1. session[s].action \in Actions \cup {NoAction}
        BY DEF IInv, TypeOK, SessionsTypeOK, WizardSession
    <1>2. /\ UNCHANGED <<session, record, task, work, result, mirror, stream, queue, merging, prs,
                         faults, overtaken>>
          /\ viewer' = [viewer EXCEPT ![v] = session[s].action]
        BY DEF Watch, rows, taskVars
    <1>3. TypeOK'
        BY <1>1, <1>2 DEF IInv, TypeOK, SessionsTypeOK, RecordsTypeOK
    <1> QED
        BY <1>2, <1>3, PageStep

\* The stream is closed, and with it the task if it still runs.
LEMMA CloseKeeps ==
    ASSUME IInv, NEW v \in Viewers, ReadEvent(v) \/ Leave(v)
    PROVE  IInv'
    <1>1. TypeOK
        BY DEF IInv
    <1>a. PICK a \in Actions : viewer[v] = a
        BY <1>1 DEF TypeOK, ReadEvent, Leave
    <1>2. PICK rest \in Seq(Events) :
            /\ Close(v, rest)
            /\ MayLeave \/ queue[a] # <<>>
        <2>1. queue[a] \in Seq(Events)
            BY <1>1 DEF TypeOK
        <2>2. queue[a] # <<>> => Tail(queue[a]) \in Seq(Events)
            BY <2>1
        <2> QED
            BY <1>a, <2>1, <2>2 DEF ReadEvent, Leave
    <1>3. ActionOK(a)
        BY <1>1 DEF IInv
    <1>4. UNCHANGED <<session, record, work, result, mirror, merging, prs, faults, overtaken>>
        BY <1>2 DEF Close, rows
    <1>5. /\ \/ task' = task
             \/ Live(a) /\ task' = [task EXCEPT ![a] = "ended"]
          /\ \E q \in Seq(Events) :
                queue' = [queue EXCEPT ![a] = q] /\ (task' = task => q = rest)
          /\ stream' = [stream EXCEPT ![a] = "gone"]
          /\ viewer' = [viewer EXCEPT ![v] = NoAction]
        <2>1. Append(rest, "sentinel") \in Seq(Events)
            BY DEF Events
        <2>2. CASE stream[a] = "open" /\ Live(a)
            <3>1. task' # task
                BY <1>1, <1>a, <1>2, <2>2
                   DEF Close, Unregister, TypeOK, Live, LivePhases, ActingPhases
            <3> QED
                BY <1>a, <1>2, <2>1, <2>2, <3>1 DEF Close, Unregister
        <2>3. CASE ~(stream[a] = "open" /\ Live(a))
            BY <1>a, <1>2, <2>3 DEF Close, Unregister
        <2> QED
            BY <2>2, <2>3
    <1>6. TypeOK'
        <2>1. task' \in [Actions -> {"none", "ended"} \cup LivePhases]
            BY <1>1, <1>5 DEF TypeOK
        <2>2. queue' \in [Actions -> Seq(Events)]
            BY <1>1, <1>5 DEF TypeOK
        <2>3. /\ stream' \in [Actions -> {"none", "open", "gone"}]
              /\ viewer' \in [Viewers -> Actions \cup {NoAction}]
            BY <1>1, <1>5 DEF TypeOK
        <2> QED
            BY <1>1, <1>4, <2>1, <2>2, <2>3 DEF TypeOK, SessionsTypeOK, RecordsTypeOK
    <1>7. /\ \A b \in Actions \ {a} : Same(b)
          /\ task'[a] = task[a] \/ (Live(a) /\ task'[a] = "ended")
          /\ ~MayLeave => queue[a] # <<>>
        <2>1. task \in [Actions -> {"none", "ended"} \cup LivePhases] /\ queue \in [Actions -> Seq(Events)]
            BY <1>1 DEF TypeOK
        <2>2. task'[a] = task[a] \/ (Live(a) /\ task'[a] = "ended")
            BY <1>5, <2>1
        <2>3. \A b \in Actions \ {a} : task'[b] = task[b] /\ queue'[b] = queue[b]
            BY <1>5, <2>1
        <2>4. \A b \in Actions \ {a} : Same(b)
            BY <1>4, <2>3 DEF Same
        <2> QED
            BY <1>2, <2>2, <2>4
    <1>8. FaultsOK' /\ FoundOK(a)'
        BY <1>1, <1>4 DEF IInv, FaultsOK, FoundOK
    <1>9. /\ AllReported(a) <=> AllReported(a)'
          /\ Unrun(a) => Unrun(a)'
          /\ Failed(a) => Failed(a)'
        <2>1. AllReported(a) <=> AllReported(a)'
            BY <1>4 DEF AllReported
        <2>2. Unrun(a) => Unrun(a)'
            BY <1>4, <1>7 DEF Unrun, Waiting, NoResults
        <2> QED
            BY <1>4, <2>1, <2>2 DEF Failed
    <1>10. ActionOK(a)'
        <2> USE <1>3, <1>4, <1>7, <1>9 DEF ActionOK
        <2>1. NotBegun(a)'
            BY DEF NotBegun, Waiting, NoResults, Live, LivePhases, ActingPhases
        <2>2. WorkOK(a)'
            BY DEF WorkOK
        <2>3. TaskOK(a)'
            BY DEF TaskOK, Final
        <2>4. MirrorOK(a)'
            <3>1. WritesOutcomes(a) => WritesOutcomes(a)'
                BY DEF WritesOutcomes
            <3>2. WritesFinal(a) => WritesFinal(a)'
                BY DEF WritesFinal
            <3> QED
                BY <3>1, <3>2 DEF MirrorOK
        <2>5. RecordOK(a)'
            BY DEF RecordOK, Recorded, Tracked, Live, Final
        <2>6. StayingOK(a)'
            BY DEF StayingOK
        <2> QED
            BY <2>1, <2>2, <2>3, <2>4, <2>5, <2>6
    <1>11. LeavesSession(a)
        BY <1>4, <1>7, <1>9 DEF LeavesSession, Acting, ActingPhases, Final, UnderWay
    <1> QED
        BY <1>1, <1>4, <1>6, <1>7, <1>8, <1>10, <1>11, LocalStep

\* A new record is of an action nobody has heard of.
LEMMA Created ==
    ASSUME IInv, NEW s \in Sessions, NEW a \in Actions, Loaded(s), AccessGranted(s),
           CreateRecord(a, session[s].selected)
    PROVE  /\ record' \in [Actions -> ActionRecord]
           /\ \A b \in Actions \ {a} : record'[b] = record[b]
           /\ record'[a].status = "pending"
           /\ record'[a].selected = session[s].selected
           /\ record'[a].selected # {}
           /\ record'[a].outcome = record[a].outcome
           /\ record[a].status = "absent" /\ task[a] = "none" /\ a \notin merging
           /\ Waiting(a) /\ mirror[a] = Idle /\ NoResults(a)
           /\ \A t \in Sessions : session[t].action # a
    <1>1. /\ record \in [Actions -> ActionRecord] /\ record[a] \in ActionRecord
          /\ session[s] \in WizardSession
          /\ ActionOK(a) /\ LinkOK(s)
        BY DEF IInv, TypeOK, RecordsTypeOK, SessionsTypeOK
    <1> DEFINE ids == session[s].selected
    <1>2. record[a].status = "absent" /\ ids \in SUBSET Cands /\ ids # {}
        BY <1>1 DEF CreateRecord, AccessGranted, LinkOK, WizardSession
    <1>3. /\ record' \in [Actions -> ActionRecord]
          /\ \A b \in Actions \ {a} : record'[b] = record[b]
          /\ record'[a].status = "pending"
          /\ record'[a].selected = ids
          /\ record'[a].outcome = record[a].outcome
        <2> DEFINE p == [record[a] EXCEPT !.status = "pending"]
                   r == [p EXCEPT !.selected = ids]
        <2>1. p \in ActionRecord /\ p.status = "pending" /\ p.outcome = record[a].outcome
            BY <1>1 DEF ActionRecord
        <2>2. /\ r \in ActionRecord /\ r.status = p.status /\ r.outcome = p.outcome
              /\ r.selected = ids
            <3> HIDE DEF p
            <3> QED
                BY <1>2, <2>1 DEF ActionRecord
        <2>3. record' = [[record EXCEPT ![a] = p] EXCEPT ![a] = r]
            BY <1>1 DEF CreateRecord
        <2> HIDE DEF p, r
        <2> QED
            BY <1>1, <2>1, <2>2, <2>3
    <1>4. /\ task[a] = "none" /\ a \notin merging
          /\ Waiting(a) /\ mirror[a] = Idle /\ NoResults(a)
        BY <1>1, <1>2 DEF ActionOK, NotBegun
    <1>5. \A t \in Sessions : session[t].action # a
        BY <1>2, NoneAssumption DEF IInv, LinkOK
    <1> QED
        BY <1>2, <1>3, <1>4, <1>5

LEMMA AuthorizeKeeps ==
    ASSUME IInv, NEW s \in Sessions, NEW a \in Actions, Authorize(s, a)
    PROVE  IInv'
    <1>1. /\ TypeOK /\ ActionOK(a) /\ LinkOK(s)
          /\ Loaded(s) /\ AccessGranted(s) /\ Overtake(s)
        BY DEF IInv, Authorize
    <1>2. /\ record' \in [Actions -> ActionRecord]
          /\ \A b \in Actions \ {a} : record'[b] = record[b]
          /\ record'[a].status = "pending"
          /\ record'[a].selected # {}
          /\ record'[a].outcome = record[a].outcome
          /\ record[a].status = "absent" /\ task[a] = "none" /\ a \notin merging
          /\ Waiting(a) /\ mirror[a] = Idle /\ NoResults(a)
          /\ \A t \in Sessions : session[t].action # a
        BY Created DEF Authorize
    <1>3. /\ UNCHANGED <<work, result, mirror, queue, viewer, merging, prs, faults>>
          /\ overtaken \subseteq overtaken' /\ overtaken' \subseteq overtaken \cup {s}
          /\ \A b \in Actions :
                mirror[b].todo = "update" /\ mirror[b].found = s => s \in overtaken'
          /\ task' = [task EXCEPT ![a] = "analysing"]
          /\ stream' = [stream EXCEPT ![a] = "open"]
        BY DEF Authorize, Overtake
    <1>4. /\ session' \in [Sessions -> WizardSession]
          /\ \A t \in Sessions \ {s} : session'[t] = session[t]
          /\ session'[s].action = a /\ session'[s].step = STEP_AUTHORIZED
          /\ session'[s].selected = session[s].selected
        <2> DEFINE p == [session[s] EXCEPT !.action = a]
                   r == [p EXCEPT !.step = STEP_AUTHORIZED]
        <2>1. session \in [Sessions -> WizardSession] /\ session[s] \in WizardSession
            BY <1>1 DEF TypeOK, SessionsTypeOK
        <2>2. p \in WizardSession /\ p.action = a /\ p.selected = session[s].selected
            BY <2>1 DEF WizardSession
        <2>3. /\ r \in WizardSession /\ r.action = p.action /\ r.selected = p.selected
              /\ r.step = STEP_AUTHORIZED
            <3> HIDE DEF p
            <3> QED
                BY <2>2 DEF WizardSession, Steps
        <2>4. session' = [[session EXCEPT ![s] = p] EXCEPT ![s] = r]
            BY <2>1 DEF Authorize
        <2> HIDE DEF p, r
        <2> QED
            BY <2>1, <2>2, <2>3, <2>4
    <1>5. /\ task'[a] = "analysing"
          /\ \A b \in Actions \ {a} : task'[b] = task[b]
          /\ task' \in [Actions -> {"none", "ended"} \cup LivePhases]
          /\ stream' \in [Actions -> {"none", "open", "gone"}]
        BY <1>1, <1>3 DEF TypeOK, LivePhases, ActingPhases
    <1>6. TypeOK' /\ FaultsOK'
        BY <1>1, <1>2, <1>3, <1>4, <1>5
           DEF IInv, FaultsOK, TypeOK, SessionsTypeOK, RecordsTypeOK
    <1>7. \A b \in Actions \ {a} : Same(b)
        BY <1>2, <1>3, <1>5 DEF Same
    <1>8. ActionOK(a)'
        <2> USE <1>1, <1>2, <1>3, <1>5, IdleIs DEF ActionOK, Ending
        <2>1. NotBegun(a)'
            BY DEF NotBegun, Waiting, NoResults
        <2>2. WorkOK(a)'
            BY DEF WorkOK, Waiting
        <2>3. TaskOK(a)'
            BY DEF TaskOK
        <2>4. MirrorOK(a)'
            BY DEF MirrorOK
        <2>5. RecordOK(a)'
            BY DEF RecordOK, Recorded, Waiting
        <2>6. StayingOK(a)'
            BY DEF StayingOK
        <2> QED
            BY <2>1, <2>2, <2>3, <2>4, <2>5, <2>6
    <1>9. \A b \in Actions : ActionOK(b)' /\ FoundOK(b)'
        <2>1. \A b \in Actions : ActionOK(b)'
            BY <1>3, <1>7, <1>8, SameKeeps DEF IInv
        <2>2. FoundOK(a)'
            BY <1>2, <1>3, IdleIs DEF FoundOK
        <2>3. ASSUME NEW b \in Actions \ {a} PROVE FoundOK(b)'
            <3>1. CASE mirror[b].todo = "update"
                <4> PICK f \in Sessions : f = mirror[b].found
                    BY <3>1 DEF IInv, FoundOK
                <4>1. session[f].action # NoAction /\ (f \notin overtaken => session[f].action = b)
                    BY <3>1 DEF IInv, FoundOK
                <4>2. CASE f = s
                    <5>1. s \in overtaken'
                        BY <1>3, <3>1, <4>2
                    <5> QED
                        BY <1>3, <1>4, <4>2, <5>1, NoneAssumption DEF FoundOK
                <4>3. CASE f # s
                    BY <1>3, <1>4, <4>1, <4>3 DEF FoundOK
                <4> QED
                    BY <4>2, <4>3
            <3>2. CASE mirror[b].todo # "update"
                BY <1>3, <3>2 DEF FoundOK
            <3> QED
                BY <3>1, <3>2
        <2> QED
            BY <2>1, <2>2, <2>3
    <1>10. ASSUME NEW t \in Sessions PROVE LinkOK(t)'
        <2>1. CASE t = s
            <3>1. session[s].selected # {}
                BY <1>1 DEF LinkOK, AccessGranted
            <3> QED
                BY <1>2, <1>4, <2>1, <3>1, NoneAssumption
                   DEF LinkOK, STEP_ASSESSMENT_VIEWED, STEP_SELECTED, STEP_AUTHORIZED,
                       STEP_COMPLETED, STEP_AUTHORIZE_FAILED
        <2>2. CASE t # s
            <3>1. /\ session'[t] = session[t]
                  /\ session[t].action \in Actions \cup {NoAction}
                  /\ session[t].action # a /\ session'[s].action = a
                BY <1>1, <1>2, <1>4, <2>2 DEF TypeOK, SessionsTypeOK, WizardSession
            <3>2. LinkOK(t)
                BY DEF IInv
            <3> QED
                BY <1>2, <1>4, <3>1, <3>2 DEF LinkOK
        <2> QED
            BY <2>1, <2>2
    <1>11. ASSUME NEW t \in Sessions, t \notin overtaken' PROVE StepOK(t)'
        <2>1. CASE t = s
            BY <1>2, <1>4, <2>1
               DEF StepOK, UnderWay, STEP_SELECTED, STEP_AUTHORIZED,
                   STEP_COMPLETED, STEP_AUTHORIZE_FAILED
        <2>2. CASE t # s
            <3>1. /\ session'[t] = session[t]
                  /\ session[t].action \in Actions \cup {NoAction}
                  /\ session[t].action # a
                BY <1>1, <1>2, <1>4, <2>2 DEF TypeOK, SessionsTypeOK, WizardSession
            <3> QED
                BY <1>3, <1>7, <1>11, <3>1, SessionKeeps DEF IInv
        <2> QED
            BY <2>1, <2>2
    <1> QED
        BY <1>6, <1>9, <1>10, <1>11 DEF IInv

-----------------------------------------------------------------------------
(* Crashes *)

\* What is left of an action when the process stops.
LEMMA StoppedAction ==
    ASSUME IInv, StopProcess, MayCrash, NEW b \in Actions,
           record'[b].selected # {} \/ record'[b] = record[b],
           record'[b].outcome = record[b].outcome,
           \/ record'[b] = record[b]
           \/ /\ record[b].status = "absent" /\ record'[b].status = "pending"
    PROVE  /\ ActionOK(b)' /\ mirror'[b] = Idle /\ ~Acting(b)'
           /\ AllReported(b) /\ Final(b) => AllReported(b)' /\ Final(b)'
    <1>1. /\ TypeOK /\ ActionOK(b)
          /\ work \in [Actions -> [Cands -> WorkStages]]
        BY DEF IInv, TypeOK
    <1>2. /\ task'[b] = IF Live(b) THEN "ended" ELSE task[b]
          /\ task'[b] \in {"none", "ended"}
          /\ task'[b] = "none" <=> task[b] = "none"
          /\ \A c \in Cands : work'[b][c] = IF work[b][c] = "working" THEN "waiting" ELSE work[b][c]
          /\ mirror'[b] = Idle /\ queue'[b] = <<>>
          /\ UNCHANGED <<result, merging, prs>>
          /\ faults' = faults \cup {"crash"}
        BY <1>1 DEF StopProcess, TypeOK, Live, LivePhases, ActingPhases
    <1>3. /\ ~Live(b)' /\ ~Acting(b)'
          /\ Waiting(b) => Waiting(b)'
          /\ NoResults(b) => NoResults(b)'
        BY <1>2 DEF Live, Acting, LivePhases, ActingPhases, Waiting, NoResults
    <1>4. record[b].status = "absent" => Waiting(b) /\ NoResults(b) /\ task[b] = "none" /\ b \notin merging
        BY <1>1 DEF ActionOK, NotBegun
    <1>5. record'[b] = record[b] /\ AllReported(b) => AllReported(b)'
        BY <1>1, <1>2 DEF AllReported, TypeOK, RecordsTypeOK, ActionRecord
    <1>6. NotBegun(b)'
        BY <1>1, <1>2, <1>3, <1>4 DEF ActionOK, NotBegun
    <1>7. WorkOK(b)'
        BY <1>1, <1>2, <1>4 DEF ActionOK, WorkOK, Waiting
    <1>8. TaskOK(b)' /\ MirrorOK(b)' /\ StayingOK(b)'
        BY <1>2, IdleIs DEF TaskOK, MirrorOK, StayingOK, Ending
    <1>9. RecordOK(b)'
        <2>1. CASE record'[b] = record[b]
            <3>1. RecordOK(b) /\ ("lost" \in faults <=> "lost" \in faults')
                BY <1>1, <1>2 DEF ActionOK
            <3>2. "lost" \notin faults' /\ Tracked(b)' => Recorded(b)'
                <4> SUFFICES ASSUME "lost" \notin faults, Tracked(b)' PROVE Recorded(b)'
                    BY <3>1
                <4>1. record[b].status \in {"completed", "partial"}
                    BY <1>2, <1>3, <2>1 DEF Tracked
                <4>2. Recorded(b) /\ mirror[b].todo # "outcomes"
                    BY <1>1, <3>1, <4>1 DEF RecordOK, Tracked, ActionOK, MirrorOK, WritesOutcomes
                <4> QED
                    BY <1>2, <2>1, <4>2 DEF Recorded
            <3> QED
                BY <1>2, <1>5, <2>1, <3>1, <3>2 DEF RecordOK, Final
        <2>2. CASE record[b].status = "absent" /\ record'[b].status = "pending"
            BY <1>2, <1>3, <1>4, <2>2, IdleIs DEF RecordOK, Tracked, Recorded, Waiting
        <2> QED
            BY <2>1, <2>2
    <1>10. AllReported(b) /\ Final(b) => AllReported(b)' /\ Final(b)'
        BY <1>5 DEF Final, FinalStatuses
    <1> QED
        BY <1>2, <1>3, <1>6, <1>7, <1>8, <1>9, <1>10 DEF ActionOK

LEMMA StopTypes ==
    ASSUME TypeOK, StopProcess, session' \in [Sessions -> WizardSession],
           record' \in [Actions -> ActionRecord]
    PROVE  TypeOK'
    <1>1. task' \in [Actions -> {"none", "ended"} \cup LivePhases]
        BY DEF TypeOK, StopProcess
    <1>2. work' \in [Actions -> [Cands -> WorkStages]]
        BY DEF TypeOK, StopProcess, WorkStages
    <1>3. mirror' \in [Actions -> Mirroring]
        BY IdleIs DEF StopProcess
    <1>4. stream' \in [Actions -> {"none", "open", "gone"}]
        BY DEF TypeOK, StopProcess
    <1>5. queue' \in [Actions -> Seq(Events)] /\ viewer' \in [Viewers -> Actions \cup {NoAction}]
        BY DEF StopProcess
    <1>6. UNCHANGED <<result, merging, prs, overtaken>> /\ faults' \subseteq {"crash", "lost", "tail"}
        BY DEF TypeOK, StopProcess
    <1> QED
        BY <1>1, <1>2, <1>3, <1>4, <1>5, <1>6 DEF TypeOK, SessionsTypeOK, RecordsTypeOK

\* The step of a session nobody linked anew.
LEMMA StoppedSession ==
    ASSUME NEW s \in Sessions, StepOK(s), session'[s] = session[s], "crash" \in faults',
           LET b == session[s].action
           IN  b # NoAction => /\ ~Acting(b)'
                               /\ AllReported(b) /\ Final(b) => AllReported(b)' /\ Final(b)'
    PROVE  StepOK(s)'
    <1>0. PICK b : b = session[s].action /\ b = session'[s].action
        OBVIOUS
    <1> QED
        BY <1>0 DEF StepOK

LEMMA CrashKeeps ==
    ASSUME IInv, Crash
    PROVE  IInv'
    <1>1. MayCrash /\ StopProcess /\ UNCHANGED <<session, record>>
        BY DEF Crash, rows
    <1>2. \A b \in Actions :
            /\ ActionOK(b)' /\ mirror'[b] = Idle /\ ~Acting(b)'
            /\ AllReported(b) /\ Final(b) => AllReported(b)' /\ Final(b)'
        BY <1>1, StoppedAction
    <1>3. faults' = faults \cup {"crash"} /\ FaultsOK' /\ overtaken' = overtaken
        BY <1>1 DEF StopProcess, IInv, FaultsOK
    <1>4. TypeOK'
        BY <1>1, StopTypes DEF IInv, TypeOK, SessionsTypeOK, RecordsTypeOK
    <1>5. \A b \in Actions : FoundOK(b)'
        BY <1>2, IdleIs DEF FoundOK
    <1>6. ASSUME NEW s \in Sessions PROVE LinkOK(s)'
        BY <1>1 DEF IInv, LinkOK
    <1>7. ASSUME NEW s \in Sessions, s \notin overtaken' PROVE StepOK(s)'
        <2>1. session[s].action \in Actions \cup {NoAction}
            BY DEF IInv, TypeOK, SessionsTypeOK, WizardSession
        <2> QED
            BY <1>1, <1>2, <1>3, <1>7, <2>1, StoppedSession DEF IInv
    <1> QED
        BY <1>2, <1>3, <1>4, <1>5, <1>6, <1>7 DEF IInv

LEMMA CrashInAuthorizeKeeps ==
    ASSUME IInv, NEW s \in Sessions, NEW a \in Actions, CrashInAuthorize(s, a)
    PROVE  IInv'
    <1>1. /\ MayCrash /\ StopProcess /\ TypeOK
          /\ LinkOK(s) /\ Loaded(s) /\ AccessGranted(s)
        BY DEF IInv, CrashInAuthorize
    <1>2. /\ record' \in [Actions -> ActionRecord]
          /\ \A b \in Actions \ {a} : record'[b] = record[b]
          /\ record'[a].status = "pending"
          /\ record'[a].selected # {}
          /\ record'[a].outcome = record[a].outcome
          /\ record[a].status = "absent" /\ task[a] = "none"
          /\ \A t \in Sessions : session[t].action # a
        BY Created DEF CrashInAuthorize
    <1>3. PICK linked \in {session[s].action, a} :
            session' = [session EXCEPT ![s].action = linked]
        BY DEF CrashInAuthorize
    <1>4. /\ session' \in [Sessions -> WizardSession]
          /\ \A t \in Sessions \ {s} : session'[t] = session[t]
          /\ session'[s].action = linked /\ session'[s].step = session[s].step
          /\ session'[s].selected = session[s].selected
          /\ linked = session[s].action => session'[s] = session[s]
        <2> DEFINE r == [session[s] EXCEPT !.action = linked]
        <2>1. session \in [Sessions -> WizardSession] /\ session[s] \in WizardSession
            BY <1>1 DEF TypeOK, SessionsTypeOK
        <2>2. /\ r \in WizardSession /\ r.action = linked /\ r.step = session[s].step
              /\ r.selected = session[s].selected
              /\ linked = session[s].action => r = session[s]
            BY <2>1, <1>3 DEF WizardSession
        <2>3. session' = [session EXCEPT ![s] = r]
            BY <1>3, <2>1
        <2> HIDE DEF r
        <2> QED
            BY <2>1, <2>2, <2>3
    <1>5. \A b \in Actions :
            /\ ActionOK(b)' /\ mirror'[b] = Idle /\ ~Acting(b)'
            /\ AllReported(b) /\ Final(b) => AllReported(b)' /\ Final(b)'
        <2> SUFFICES ASSUME NEW b \in Actions
                     PROVE  /\ ActionOK(b)' /\ mirror'[b] = Idle /\ ~Acting(b)'
                            /\ AllReported(b) /\ Final(b) => AllReported(b)' /\ Final(b)'
            OBVIOUS
        <2> QED
            BY <1>1, <1>2, StoppedAction
    <1>6. faults' = faults \cup {"crash"} /\ FaultsOK' /\ overtaken' = overtaken
        BY <1>1 DEF StopProcess, IInv, FaultsOK
    <1>7. TypeOK'
        BY <1>1, <1>2, <1>4, StopTypes
    <1>8. \A b \in Actions : FoundOK(b)'
        BY <1>5, IdleIs DEF FoundOK
    <1>9. ASSUME NEW t \in Sessions PROVE LinkOK(t)'
        <2>1. /\ session[t].action \in Actions \cup {NoAction} /\ session[t].action # a
              /\ LinkOK(t)
            BY <1>1, <1>2 DEF IInv, TypeOK, SessionsTypeOK, WizardSession
        <2>2. CASE session'[t] = session[t]
            <3>1. \A u \in Sessions : session'[u].action \in {session[u].action, a}
                BY <1>3, <1>4
            <3>2. session[t].action # NoAction =>
                      record'[session[t].action] = record[session[t].action]
                BY <1>2, <2>1
            <3> QED
                BY <2>1, <2>2, <3>1, <3>2 DEF LinkOK
        <2>3. CASE session'[t] # session[t]
            <3>1. t = s /\ linked = a
                BY <1>3, <1>4, <2>3
            <3> QED
                BY <1>1, <1>2, <1>4, <2>1, <3>1, NoneAssumption
                   DEF LinkOK, AccessGranted, STEP_ASSESSMENT_VIEWED, STEP_SELECTED,
                       STEP_AUTHORIZED, STEP_COMPLETED, STEP_AUTHORIZE_FAILED
        <2> QED
            BY <2>2, <2>3
    <1>10. ASSUME NEW t \in Sessions, t \notin overtaken' PROVE StepOK(t)'
        <2>1. session[t].action \in Actions \cup {NoAction}
            BY <1>1 DEF TypeOK, SessionsTypeOK, WizardSession
        <2>2. CASE session'[t] = session[t]
            BY <1>5, <1>6, <1>10, <2>1, <2>2, StoppedSession DEF IInv
        <2>3. CASE session'[t] # session[t]
            <3>1. t = s /\ linked = a
                BY <1>3, <1>4, <2>3
            <3>2. ~Acting(a)' /\ ~(faults' \subseteq {"lost"}) /\ faults' # {}
                BY <1>5, <1>6
            <3> QED
                BY <1>1, <1>4, <3>1, <3>2
                   DEF StepOK, AccessGranted, STEP_SELECTED, STEP_AUTHORIZED,
                       STEP_COMPLETED, STEP_AUTHORIZE_FAILED
        <2> QED
            BY <2>2, <2>3
    <1> QED
        BY <1>5, <1>6, <1>7, <1>8, <1>9, <1>10 DEF IInv

-----------------------------------------------------------------------------
(* Invariance *)

LEMMA InitKeeps == Init => IInv
    <1> SUFFICES ASSUME Init PROVE IInv
        OBVIOUS
    <1> USE IdleIs DEF Init, SessionsInit, RecordsInit
    <1>1. TypeOK
        <2>1. SessionsTypeOK
            BY DEF SessionsTypeOK, WizardSession
        <2>2. RecordsTypeOK
            BY DEF RecordsTypeOK, ActionRecord, Outcomes
        <2>3. queue \in [Actions -> Seq(Events)]
            OBVIOUS
        <2> QED
            BY <2>1, <2>2, <2>3 DEF TypeOK, WorkStages
    <1>2. ASSUME NEW a \in Actions PROVE ActionOK(a) /\ FoundOK(a)
        <2>1. NotBegun(a)
            BY DEF NotBegun, Waiting, NoResults, ResultStatus, Mergeable, Unopened
        <2>2. WorkOK(a)
            BY DEF WorkOK, ResultStatus, Mergeable, Unopened
        <2>3. TaskOK(a) /\ MirrorOK(a) /\ StayingOK(a) /\ FoundOK(a)
            BY DEF TaskOK, MirrorOK, StayingOK, FoundOK, Ending
        <2>4. RecordOK(a)
            BY DEF RecordOK, Recorded
        <2> QED
            BY <2>1, <2>2, <2>3, <2>4 DEF ActionOK
    <1>3. ASSUME NEW s \in Sessions PROVE LinkOK(s) /\ StepOK(s)
        BY DEF LinkOK, StepOK, STEP_SELECTED, STEP_AUTHORIZED, STEP_COMPLETED,
               STEP_AUTHORIZE_FAILED
    <1>4. FaultsOK
        BY DEF FaultsOK
    <1> QED
        BY <1>1, <1>2, <1>3, <1>4 DEF IInv

LEMMA StutterKeeps == IInv /\ UNCHANGED vars => IInv'
    <1> SUFFICES ASSUME IInv, UNCHANGED vars PROVE IInv'
        OBVIOUS
    <1>1. TypeOK'
        BY DEF vars, IInv, TypeOK, SessionsTypeOK, RecordsTypeOK
    <1> QED
        BY <1>1, PageStep DEF vars

LEMMA StepKeeps == IInv /\ [Next]_vars => IInv'
    <1> SUFFICES ASSUME IInv, [Next]_vars PROVE IInv'
        OBVIOUS
    <1>1. ASSUME NEW s \in Sessions, Plan(s) \/ Choose(s) \/ Lapse(s) PROVE IInv'
        BY <1>1, WizardKeeps
    <1>2. ASSUME NEW s \in Sessions, NEW a \in Actions, Authorize(s, a) PROVE IInv'
        BY <1>2, AuthorizeKeeps
    <1>3. ASSUME NEW s \in Sessions, NEW a \in Actions, CrashInAuthorize(s, a) PROVE IInv'
        BY <1>3, CrashInAuthorizeKeeps
    <1>4. ASSUME NEW s \in Sessions, NEW v \in Viewers, Watch(v, s) PROVE IInv'
        BY <1>4, WatchKeeps
    <1>5. ASSUME NEW a \in Actions, TaskStep(a) PROVE IInv'
        <2>1. ASSUME NEW c \in Cands, StartAction(a, c) \/ LaunchThread(a, c) \/ CompleteAction(a, c)
              PROVE  IInv'
            BY <2>1, CandidateKeeps, ThreadKeeps
        <2> QED
            BY <1>5, <2>1, AnalysisSucceedsKeeps, FailuresKeep, ScanCompleteKeeps, LastStepsKeep
               DEF TaskStep
    <1>6. ASSUME NEW a \in Actions, MirrorStep(a) PROVE IInv'
        BY <1>6, MirrorOutcomeKeeps, MirrorFinalizeKeeps, MirrorLookupKeeps, MirrorUpdateKeeps
           DEF MirrorStep
    <1>7. ASSUME NEW a \in Actions, NEW c \in Cands, OpenFixPr(a, c) PROVE IInv'
        BY <1>7, ThreadKeeps
    <1>8. ASSUME NEW v \in Viewers, ReadEvent(v) \/ Leave(v) PROVE IInv'
        BY <1>8, CloseKeeps
    <1>9. CASE Crash
        BY <1>9, CrashKeeps
    <1>10. CASE UNCHANGED vars
        BY <1>10, StutterKeeps
    <1> QED
        BY <1>1, <1>2, <1>3, <1>4, <1>5, <1>6, <1>7, <1>8, <1>9, <1>10 DEF Next

\* The inductive invariant, through every fault and every order of requests.
THEOREM Invariance == Spec => []IInv
    BY InitKeeps, StepKeeps, PTL DEF Spec

-----------------------------------------------------------------------------
(* The properties *)

\* Type correctness: whatever the browser, the database and the process do, the
\* wizard session, the action record, the task, its threads and the stream of an
\* action hold only values the code writes to them.
THEOREM TypeCorrect == Spec => []TypeOK
    <1>1. IInv => TypeOK
        BY DEF IInv
    <1> QED
        BY <1>1, Invariance, PTL

\* What steps may do to the link and the step of a session.
LEMMA SessionMoves ==
    ASSUME IInv, [Next]_vars, NEW s \in Sessions, s \notin overtaken
    PROVE  \/ session'[s].action = session[s].action /\ session'[s].step = session[s].step
           \/ AccessGranted(s)
           \/ /\ session'[s].action = session[s].action
              /\ \/ session[s].step \in {"absent", STEP_ASSESSMENT_VIEWED, STEP_SELECTED}
                 \/ \E a \in Actions :
                       /\ mirror[a].todo = "update" /\ session[s].action = a
                       /\ session'[s].step = mirror[a].step
    <1>0. session \in [Sessions -> WizardSession]
        BY DEF IInv, TypeOK, SessionsTypeOK
    <1>1. ASSUME session' # session
          PROVE  \/ \E t \in Sessions :
                      \/ Plan(t) \/ Choose(t) \/ Lapse(t)
                      \/ \E a \in Actions : Authorize(t, a) \/ CrashInAuthorize(t, a)
                 \/ \E a \in Actions : MirrorUpdate(a)
        BY <1>1
           DEF Next, vars, TaskStep, MirrorStep, AnalysisSucceeds, AnalysisFails, StartAction,
               LaunchThread, CompleteAction, ScanComplete, StartMergeRun, TailFails, FailAgain,
               EndTask, MirrorOutcome, MirrorFinalize, MirrorFind, MirrorRaises, OpenFixPr,
               ReadEvent, Leave, Close, Crash, Watch, rows
    <1>2. CASE session' = session
        BY <1>2
    <1>3. ASSUME NEW t \in Sessions, Plan(t) \/ Choose(t) \/ Lapse(t)
          PROVE  /\ session'[s].action = session[s].action
                 /\ \/ session'[s].step = session[s].step
                    \/ session[s].step \in {"absent", STEP_ASSESSMENT_VIEWED, STEP_SELECTED}
        <2>1. CASE Plan(t)
            BY <1>0, <2>1 DEF Plan, CreateSession, UpdateStep, WizardSession
        <2>2. CASE Choose(t)
            BY <1>0, <2>2 DEF Choose, Select, WizardSession
        <2>3. CASE Lapse(t)
            BY <1>0, <2>3 DEF Lapse, Expire, WizardSession
        <2> QED
            BY <1>3, <2>1, <2>2, <2>3
    <1>4. ASSUME NEW t \in Sessions, NEW a \in Actions, Authorize(t, a) \/ CrashInAuthorize(t, a)
          PROVE  session'[s] = session[s] \/ AccessGranted(s)
        BY <1>0, <1>4 DEF Authorize, CrashInAuthorize
    <1>5. ASSUME NEW a \in Actions, MirrorUpdate(a)
          PROVE  \/ session'[s] = session[s]
                 \/ /\ session'[s].action = session[s].action /\ session[s].action = a
                    /\ mirror[a].todo = "update" /\ session'[s].step = mirror[a].step
        <2>1. FoundOK(a) /\ mirror[a].todo = "update"
            BY <1>5 DEF IInv, MirrorUpdate
        <2>2. /\ mirror[a].found \in Sessions
              /\ mirror[a].found = s => session[s].action = a
            BY <2>1 DEF FoundOK
        <2> QED
            BY <1>0, <1>5, <2>1, <2>2 DEF MirrorUpdate, UpdateStep, WizardSession
    <1> QED
        BY <1>1, <1>2, <1>3, <1>4, <1>5

\* POST /authorize: a session is never linked to a second action while the first
\* can still open a pull request or start a merge run, whatever fails and however
\* often the form is submitted, unless an earlier retry overtook a mirroring
\* thread that had found the session and not yet written its step.
THEOREM NoSecondAction == Spec => SecondActionOnlyWhenOvertaken
    <1>1. ASSUME IInv, [Next]_vars, NEW s \in Sessions \ overtaken,
                 session'[s].action # session[s].action, session[s].action # NoAction
          PROVE  ~Acting(session[s].action)
        <2>1. AccessGranted(s)
            BY <1>1, SessionMoves
        <2> QED
            BY <1>1, <2>1 DEF IInv, StepOK, AccessGranted
    <1>2. IInv /\ [Next]_vars =>
            [\A s \in Sessions \ overtaken :
                session'[s].action # session[s].action /\ session[s].action # NoAction
                    => ~Acting(session[s].action)]_vars
        BY <1>1
    <1> QED
        BY <1>2, Invariance, PTL DEF Spec, SecondActionOnlyWhenOvertaken

\* What steps may do to a status: write the first one, or the final one.
LEMMA StatusMoves ==
    ASSUME IInv, [Next]_vars, NEW a \in Actions, record'[a].status # record[a].status
    PROVE  \/ record[a].status = "absent"
           \/ mirror[a].todo = "finalize" /\ record'[a].status = mirror[a].value
    <1>0. record \in [Actions -> ActionRecord]
        BY DEF IInv, TypeOK, RecordsTypeOK
    <1>1. \/ \E s \in Sessions, b \in Actions : CreateRecord(b, session[s].selected)
          \/ \E b \in Actions : MirrorOutcome(b) \/ MirrorFinalize(b)
        BY DEF Next, vars, TaskStep, MirrorStep, AnalysisSucceeds, AnalysisFails, StartAction,
               LaunchThread, CompleteAction, ScanComplete, StartMergeRun, TailFails, FailAgain,
               EndTask, MirrorUpdate, MirrorFind, MirrorRaises, OpenFixPr, ReadEvent, Leave,
               Close, Crash, Watch, rows, Plan, Choose, Lapse, wizardOnly, Authorize,
               CrashInAuthorize
    <1>2. ASSUME NEW s \in Sessions, NEW b \in Actions, CreateRecord(b, session[s].selected)
          PROVE  record[a].status = "absent"
        BY <1>0, <1>2 DEF CreateRecord, ActionRecord
    <1>3. ASSUME NEW b \in Actions, MirrorOutcome(b) PROVE FALSE
        BY <1>0, <1>3 DEF MirrorOutcome, UpdateOutcomes, ActionRecord
    <1>4. ASSUME NEW b \in Actions, MirrorFinalize(b)
          PROVE  mirror[a].todo = "finalize" /\ record'[a].status = mirror[a].value
        BY <1>0, <1>4 DEF MirrorFinalize, FinalizeRecord, ActionRecord
    <1> QED
        BY <1>1, <1>2, <1>3, <1>4

\* The process and results pages: through crashes, lost writes and leaving tabs
\* the final status of an action is written once, and a completed session stays
\* completed unless a retry overtook a mirroring thread of it.  Only a failure
\* after scan_complete takes either back.
THEOREM FinalStaysFinal == Spec => FinalIsFinal
    <1>1. ASSUME IInv, [Next]_vars, faults' \subseteq {"crash", "lost"} PROVE "tail" \notin faults
        <2>1. faults \subseteq faults'
            BY <1>1
               DEF Next, vars, TaskStep, MirrorStep, AnalysisSucceeds, AnalysisFails, StartAction,
                   LaunchThread, CompleteAction, ScanComplete, StartMergeRun, TailFails, FailAgain,
                   EndTask, MirrorOutcome, MirrorFinalize, MirrorUpdate, MirrorFind, MirrorRaises,
                   OpenFixPr, ReadEvent, Leave, Close, Crash, Watch, Plan, Choose, Lapse,
                   wizardOnly, Authorize, CrashInAuthorize, StopProcess
        <2> QED
            BY <1>1, <2>1
    <1>2. ASSUME IInv, "tail" \notin faults, NEW a \in Actions, mirror[a].todo \in Ending,
                 mirror[a].step = STEP_AUTHORIZE_FAILED \/ (Final(a) /\ mirror[a].todo = "finalize")
          PROVE  mirror[a].value = "failed" /\ Unrun(a)
        BY <1>2
           DEF IInv, ActionOK, MirrorOK, WritesFinal, Failed, Final, FinalStatuses,
               STEP_COMPLETED, STEP_AUTHORIZE_FAILED
    <1>3. ASSUME IInv, [Next]_vars, faults' \subseteq {"crash", "lost"}, NEW a \in Actions, Final(a)
          PROVE  record'[a].status = record[a].status
        <2> SUFFICES ASSUME record'[a].status # record[a].status PROVE FALSE
            OBVIOUS
        <2>1. mirror[a].todo = "finalize" /\ record'[a].status = mirror[a].value
            BY <1>3, StatusMoves DEF Final, FinalStatuses
        <2>2. mirror[a].value = "failed" /\ Unrun(a)
            BY <1>1, <1>2, <1>3, <2>1 DEF Ending
        <2> QED
            BY <1>3, <2>1, <2>2 DEF Unrun, Final, FinalStatuses
    <1>4. ASSUME IInv, [Next]_vars, faults' \subseteq {"crash", "lost"},
                 NEW s \in Sessions \ overtaken, session[s].step = STEP_COMPLETED
          PROVE  session'[s].step = STEP_COMPLETED
        <2> SUFFICES ASSUME session'[s].step # STEP_COMPLETED PROVE FALSE
            OBVIOUS
        <2>1. PICK a \in Actions :
                /\ mirror[a].todo = "update" /\ session[s].action = a
                /\ session'[s].step = mirror[a].step
            BY <1>4, SessionMoves
               DEF AccessGranted, STEP_ASSESSMENT_VIEWED, STEP_SELECTED, STEP_COMPLETED,
                   STEP_AUTHORIZE_FAILED
        <2>2. ActionOK(a) /\ StepOK(s) /\ a # NoAction
            BY <1>4, NoneAssumption DEF IInv
        <2>3. mirror[a].step = STEP_AUTHORIZE_FAILED
            BY <2>1, <2>2 DEF ActionOK, MirrorOK, WritesFinal, Ending
        <2>4. Unrun(a)
            BY <1>1, <1>2, <1>4, <2>1, <2>3 DEF Ending
        <2>5. AllReported(a) /\ Final(a)
            BY <1>4, <2>1, <2>2 DEF StepOK
        <2>6. record[a].selected # {} /\ record[a].selected \subseteq Cands
            BY <1>4, <2>2, <2>5
               DEF ActionOK, NotBegun, Final, FinalStatuses, IInv, TypeOK, RecordsTypeOK,
                   ActionRecord
        <2> QED
            BY <2>4, <2>5, <2>6 DEF Unrun, Waiting, AllReported
    <1>5. IInv /\ [Next]_vars =>
            [faults' \subseteq {"crash", "lost"} =>
                /\ \A a \in Actions : Final(a) => record'[a].status = record[a].status
                /\ \A s \in Sessions \ overtaken :
                    session[s].step = STEP_COMPLETED => session'[s].step = STEP_COMPLETED]_vars
        BY <1>3, <1>4
    <1> QED
        BY <1>5, Invariance, PTL DEF Spec, FinalIsFinal

\* _authorize_access_redirect: without a fault, and however tabs leave, the step
\* of a session says how far its action got, through failures and retries, unless
\* a retry of it overtook a mirroring thread.
THEOREM StepsAreTrue == Spec => []StepIsTrue
    <1>1. ASSUME IInv, faults = {}, NEW s \in Sessions \ overtaken PROVE StepMatchesRecord(s)
        <2> SUFFICES LET a == session[s].action
                     IN  /\ session[s].step = STEP_AUTHORIZE_FAILED => NoResults(a)
                         /\ Loaded(s) =>
                            /\ session[s].step = STEP_AUTHORIZED =>
                                record[a].status = "pending" \/ mirror[a].todo \in {"find", "update"}
                            /\ session[s].step = STEP_AUTHORIZE_FAILED =>
                                record[a].status = "failed"
                            /\ session[s].step = STEP_COMPLETED =>
                                /\ Final(a)
                                /\ \A c \in record[a].selected :
                                    record[a].outcome[c] \in ResultStatus
            BY DEF StepMatchesRecord, FailureMeansNotRun, NoResults
        <2> DEFINE a == session[s].action
        <2>1. LinkOK(s) /\ StepOK(s) /\ a \in Actions \cup {NoAction}
            BY <1>1 DEF IInv, TypeOK, SessionsTypeOK, WizardSession
        <2>2. CASE session[s].step = STEP_AUTHORIZED
            BY <1>1, <2>1, <2>2
               DEF LinkOK, StepOK, UnderWay, STEP_AUTHORIZED, STEP_COMPLETED, STEP_AUTHORIZE_FAILED
        <2>3. CASE session[s].step = STEP_AUTHORIZE_FAILED
            BY <1>1, <2>1, <2>3
               DEF LinkOK, StepOK, Unrun, STEP_AUTHORIZED, STEP_COMPLETED, STEP_AUTHORIZE_FAILED
        <2>4. CASE session[s].step = STEP_COMPLETED
            <3>1. a \in Actions /\ AllReported(a) /\ Final(a)
                BY <2>1, <2>4 DEF LinkOK, StepOK
            <3>2. ActionOK(a) /\ Recorded(a)
                BY <1>1, <3>1 DEF IInv, ActionOK, RecordOK, Tracked
            <3>3. record[a].selected \subseteq Cands
                BY <1>1, <3>1 DEF IInv, TypeOK, RecordsTypeOK, ActionRecord
            <3>4. mirror[a].todo # "outcomes"
                BY <3>1, <3>2 DEF ActionOK, MirrorOK, WritesOutcomes, Final, FinalStatuses
            <3>5. \A c \in record[a].selected : record[a].outcome[c] \in ResultStatus
                BY <3>1, <3>2, <3>3, <3>4 DEF AllReported, Recorded, ActionOK, WorkOK
            <3> QED
                BY <2>4, <3>1, <3>5 DEF STEP_AUTHORIZED, STEP_COMPLETED, STEP_AUTHORIZE_FAILED
        <2> QED
            BY <2>2, <2>3, <2>4
    <1>2. IInv => StepIsTrue
        BY <1>1 DEF StepIsTrue
    <1> QED
        BY <1>2, Invariance, PTL

\* _finalize_status_from_scan_complete: as long as no mirrored write was lost, the
\* status computed from the counts agrees with the outcomes written one by one,
\* through crashes, leaving tabs and failures after scan_complete.
THEOREM StatusesMatch == Spec => []("lost" \notin faults => StatusMatchesOutcomes)
    <1>1. ASSUME IInv, "lost" \notin faults, NEW a \in Actions,
                 record[a].status \in {"completed", "partial"}
          PROVE  LET present == WithResult(record[a].outcome, record[a].selected, Mergeable)
                     missing == WithResult(record[a].outcome, record[a].selected, Unopened)
                 IN  /\ record[a].status = "completed" => present = record[a].selected
                     /\ record[a].status = "partial" =>
                            /\ present # {} /\ missing # {}
                            /\ present \cup missing = record[a].selected
        <2>1. /\ ActionOK(a) /\ AllReported(a) /\ Recorded(a)
              /\ record[a].status = FinalizeStatus(result[a], record[a].selected)
              /\ record[a].selected \subseteq Cands
            BY <1>1 DEF IInv, ActionOK, RecordOK, Tracked, TypeOK, RecordsTypeOK, ActionRecord
        <2>2. mirror[a].todo # "outcomes"
            BY <1>1, <2>1 DEF ActionOK, MirrorOK, WritesOutcomes
        <2>3. \A c \in record[a].selected :
                 record[a].outcome[c] = result[a][c] /\ result[a][c] \in Mergeable \cup Unopened
            BY <2>1, <2>2 DEF AllReported, Recorded, ActionOK, WorkOK, ResultStatus
        <2>4. WithResult(record[a].outcome, record[a].selected, Mergeable)
                  = WithResult(result[a], record[a].selected, Mergeable)
            BY <2>3 DEF WithResult
        <2>5. WithResult(record[a].outcome, record[a].selected, Unopened)
                  = record[a].selected \ WithResult(result[a], record[a].selected, Mergeable)
            BY <2>3 DEF WithResult, Mergeable, Unopened
        <2> QED
            BY <2>1, <2>4, <2>5 DEF FinalizeStatus, WithResult
    <1>2. IInv => ("lost" \notin faults => StatusMatchesOutcomes)
        BY <1>1 DEF StatusMatchesOutcomes
    <1> QED
        BY <1>2, Invariance, PTL

\* create_action_run and spawn_action_merge_task: as long as no mirrored write was
\* lost, a merge run starts only when its record is final and shows a pull
\* request to merge, and stays true of the record afterwards.
THEOREM MergesAfterCompletion == Spec => []("lost" \notin faults => MergeStartsAfterCompletion)
    <1>1. IInv => ("lost" \notin faults => MergeStartsAfterCompletion)
        BY DEF IInv, TypeOK, ActionOK, RecordOK, MergeStartsAfterCompletion
    <1> QED
        BY <1>1, Invariance, PTL

\* open_fix_pr to pr_outcomes: where tabs stay, the process does not stop and the
\* database takes every write, each result a thread returned is in the record as
\* it was returned once the task has ended, however the task ended.
THEOREM ResultsAreRecorded ==
    ASSUME ~MayLeave, ~MayCrash, ~DbMayFail
    PROVE  Spec => []EveryResultIsRecorded
    <1>1. ASSUME IInv, NEW a \in Actions, task[a] = "ended", mirror[a] = Idle,
                 NEW c \in Cands, result[a][c] \in ResultStatus
          PROVE  record[a].outcome[c] = result[a][c]
        <2>1. ActionOK(a) /\ "lost" \notin faults /\ "crash" \notin faults
            BY <1>1 DEF IInv, FaultsOK
        <2>2. work[a][c] = "reported"
            BY <1>1, <2>1 DEF ActionOK, WorkOK, StayingOK
        <2> QED
            BY <1>1, <2>1, <2>2, IdleIs DEF ActionOK, RecordOK, Recorded, Tracked
    <1>2. IInv => EveryResultIsRecorded
        BY <1>1 DEF EveryResultIsRecorded
    <1> QED
        BY <1>2, Invariance, PTL

=============================================================================
