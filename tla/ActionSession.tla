---------------------------- MODULE ActionSession -----------------------------
(***************************************************************************)
(* One authorized remediation action from the browser's click to the        *)
(* merge run: the wizard handlers (arguss/web/dashboard.py), the background *)
(* task, its event stream and the mirror that copies the events into the    *)
(* action record and the wizard session (arguss/web/mode_c_workflow.py),    *)
(* and the pull requests opened in worker threads                           *)
(* (arguss/web/github_action.py).                                           *)
(*                                                                          *)
(* Handlers and the task run on one event loop: what they do between two    *)
(* awaits that suspend is one step.  _streams_lock is never held across     *)
(* such an await, so taking it does not suspend.  Mirroring runs in a       *)
(* worker thread, one SQLite transaction at a time, and interleaves with    *)
(* everything.                                                              *)
(***************************************************************************)
EXTENDS WizardSessions, ActionRecords, Sequences

VARIABLES
    task,       \* task[a]: where run_scan_background of action a stands
    work,       \* work[a][c]: where run_one of candidate c stands
    result,     \* result[a][c]: the ActionResult of candidate c
    mirror,     \* mirror[a]: what the worker thread of mirror_action_event does
    stream,     \* stream[a]: the entry of _streams
    queue,      \* queue[a]: the events a process page reacts to
    viewer,     \* viewer[v]: the stream tab v is reading
    merging,    \* the actions whose merge run was created and spawned
    prs,        \* candidates with a pull request on GitHub
    faults,     \* history: the kinds of fault that happened
    overtaken   \* history: sessions whose retry overtook a mirroring thread

rows == <<session, record>>
taskVars == <<task, work, result, merging>>
streamVars == <<stream, queue, viewer>>
vars == <<session, record, task, work, result, mirror, stream, queue, viewer, merging, prs, faults,
          overtaken>>

-----------------------------------------------------------------------------

\* Acting: the task may still open pull requests or start the merge run.
ActingPhases == {"analysing", "opening", "finishing", "ready"}
LivePhases == ActingPhases \cup {"failing", "failedTwice"}
Acting(a) == task[a] \in ActingPhases
Live(a) == task[a] \in LivePhases

WorkStages == {"waiting", "starting", "working", "returned", "reported"}

\* What a mirroring thread still has to do: finalize_action_record, then
\* find_session_by_action_id, then update_step; or one update_pr_outcome.
Mirroring ==
    [todo : {"nothing", "outcomes", "finalize", "find", "update"}, cands : SUBSET Cands,
     value : Outcomes \cup FinalStatuses, step : Steps, found : Sessions \cup {NoSession}]

Idle ==
    [todo |-> "nothing", cands |-> {}, value |-> "absent", step |-> STEP_AUTHORIZED,
     found |-> NoSession]

MirrorOutcomes(ids, outcome) ==
    [Idle EXCEPT !.todo = "outcomes", !.cands = ids, !.value = outcome]

MirrorFinal(status, step) ==
    [Idle EXCEPT !.todo = "finalize", !.value = status, !.step = step]

\* The events a process page reacts to; the others only redraw it.
Events == {"scan_failed", "sentinel"}

TypeOK ==
    /\ SessionsTypeOK
    /\ RecordsTypeOK
    /\ task \in [Actions -> {"none", "ended"} \cup LivePhases]
    /\ work \in [Actions -> [Cands -> WorkStages]]
    /\ result \in [Actions -> [Cands -> {"none"} \cup ResultStatus]]
    /\ mirror \in [Actions -> Mirroring]
    /\ stream \in [Actions -> {"none", "open", "gone"}]
    /\ queue \in [Actions -> Seq(Events)]
    /\ viewer \in [Viewers -> Actions \cup {NoAction}]
    /\ merging \subseteq Actions
    /\ prs \subseteq Cands
    /\ faults \subseteq {"crash", "lost", "tail"}
    /\ overtaken \subseteq Sessions

Init ==
    /\ SessionsInit
    /\ RecordsInit
    /\ task = [a \in Actions |-> "none"]
    /\ work = [a \in Actions |-> [c \in Cands |-> "waiting"]]
    /\ result = [a \in Actions |-> [c \in Cands |-> "none"]]
    /\ mirror = [a \in Actions |-> Idle]
    /\ stream = [a \in Actions |-> "none"]
    /\ queue = [a \in Actions |-> <<>>]
    /\ viewer = [v \in Viewers |-> NoAction]
    /\ merging = {}
    /\ prs = {}
    /\ faults = {}
    /\ overtaken = {}

-----------------------------------------------------------------------------
(* The wizard's pages.  Every other answer of these handlers is a redirect  *)
(* or a page and leaves the state as it is.                                 *)

wizardOnly == <<record, task, work, result, mirror, stream, queue, viewer, merging, prs, faults,
                overtaken>>

Plan(s) == CreateSession(s) /\ UNCHANGED wizardOnly

Choose(s) == \E ids \in SUBSET Cands : Select(s, ids) /\ UNCHANGED wizardOnly

Lapse(s) == Expire(s) /\ UNCHANGED wizardOnly

\* Variant: an action in flight does not send the browser to /process.
AcceptsAuthorized(s) ==
    session[s].step \in {STEP_SELECTED, STEP_AUTHORIZED, STEP_AUTHORIZE_FAILED}

\* _authorize_access_redirect lets POST /authorize go on.
AccessGranted(s) == session[s].step \in {STEP_SELECTED, STEP_AUTHORIZE_FAILED}

\* Threads that have looked session s up and have not written its step yet: a
\* retry does not wait for them, they write the step of the action before it.
Overtake(s) ==
    overtaken' = IF \E a \in Actions : mirror[a].todo = "update" /\ mirror[a].found = s
                 THEN overtaken \cup {s} ELSE overtaken

\* Variant: set_action_id is left out, as if the row had been linked before.
AuthorizeUnlinked(s, a) ==
    /\ Loaded(s)
    /\ AccessGranted(s)
    /\ CreateRecord(a, session[s].selected)
    /\ session' = [session EXCEPT ![s].step = STEP_AUTHORIZED,
                                  ![s].action = IF @ = NoAction THEN a ELSE @]
    /\ stream' = [stream EXCEPT ![a] = "open"]
    /\ task' = [task EXCEPT ![a] = "analysing"]
    /\ Overtake(s)
    /\ UNCHANGED <<work, result, mirror, queue, viewer, merging, prs, faults>>

\* POST /authorize: the record, the link, the stream, the task and the step.
\* The new task runs once the handler has returned, and no tab knows its
\* stream before, so it always finds its queue.
Authorize(s, a) ==
    /\ Loaded(s)
    /\ AccessGranted(s)
    /\ CreateRecord(a, session[s].selected)
    /\ session' = [session EXCEPT ![s].action = a, ![s].step = STEP_AUTHORIZED]
    /\ stream' = [stream EXCEPT ![a] = "open"]
    /\ task' = [task EXCEPT ![a] = "analysing"]
    /\ Overtake(s)
    /\ UNCHANGED <<work, result, mirror, queue, viewer, merging, prs, faults>>

-----------------------------------------------------------------------------
(* The background task.  Emitting an event puts it on the queue, then takes *)
(* mirror_lock and waits for the mirroring thread: a coroutine goes on only *)
(* when its own event is mirrored, and emits only when nobody else's is.    *)

Emit(a, mirroring, events) ==
    /\ mirror[a] = Idle
    /\ mirror' = [mirror EXCEPT ![a] = mirroring]
    /\ queue' = [queue EXCEPT ![a] = @ \o events]

MoveTask(a, from, to) == task[a] \in from /\ task' = [task EXCEPT ![a] = to]

\* Clone, analysis and selection checks passed: actions_planned.
AnalysisSucceeds(a) ==
    /\ MoveTask(a, {"analysing"}, "opening")
    /\ Emit(a, MirrorOutcomes(record[a].selected, "pending"), <<>>)
    /\ UNCHANGED <<session, record, work, result, stream, viewer, merging, prs, faults, overtaken>>

\* Variant: the failure is announced and the pull requests are opened anyway.
AnalysisFailsOpen(a) ==
    /\ MoveTask(a, {"analysing"}, "opening")
    /\ Emit(a, MirrorFinal("failed", STEP_AUTHORIZE_FAILED), <<"scan_failed">>)
    /\ UNCHANGED <<session, record, work, result, stream, viewer, merging, prs, faults, overtaken>>

\* Variant: the task dies of the exception.
AnalysisFailsSilently(a) ==
    /\ MoveTask(a, {"analysing"}, "ended")
    /\ queue' = [queue EXCEPT ![a] = Append(@, "sentinel")]
    /\ UNCHANGED <<rows, work, result, mirror, stream, viewer, merging, prs, faults, overtaken>>

\* The clone or the analysis fails, or the fresh report no longer has a
\* selected candidate: scan_failed, and an HTTPException.
AnalysisFails(a) ==
    /\ MoveTask(a, {"analysing"}, "failing")
    /\ Emit(a, MirrorFinal("failed", STEP_AUTHORIZE_FAILED), <<"scan_failed">>)
    /\ UNCHANGED <<session, record, work, result, stream, viewer, merging, prs, faults, overtaken>>

\* The semaphore slot is taken from here to the mirrored action_completed.
Busy(a) == {c \in Cands : work[a][c] \in {"starting", "working", "returned"}}

MoveWork(a, c, from, to) ==
    work[a][c] = from /\ work' = [work EXCEPT ![a][c] = to]

\* run_one takes a slot: action_started.
StartAction(a, c) ==
    /\ task[a] = "opening"
    /\ c \in record[a].selected
    /\ Cardinality(Busy(a)) < Slots
    /\ MoveWork(a, c, "waiting", "starting")
    /\ Emit(a, MirrorOutcomes({c}, "pending"), <<>>)
    /\ UNCHANGED <<session, record, task, result, stream, viewer, merging, prs, faults, overtaken>>

\* action_started is mirrored: open_fix_pr starts in a worker thread.
LaunchThread(a, c) ==
    /\ task[a] = "opening"
    /\ c \notin mirror[a].cands
    /\ MoveWork(a, c, "starting", "working")
    /\ UNCHANGED <<session, record, task, result, mirror, streamVars, merging, prs, faults, overtaken>>

\* open_fix_pr returns, or raises and becomes a failed result, which it may do
\* after GitHub has opened the pull request (module OpenFixPr).  The thread
\* goes on when the task that started it is cancelled.
OpenFixPr(a, c) ==
    /\ MoveWork(a, c, "working", "returned")
    /\ \E status \in ResultStatus :
        /\ status = "opened" => c \notin prs
        /\ status = "already_exists" => c \in prs
        /\ result' = [result EXCEPT ![a][c] = status]
        /\ prs' \in CASE status = "opened" -> {prs \cup {c}}
                      [] status = "failed" -> {prs, prs \cup {c}}
                      [] OTHER -> {prs}
    /\ UNCHANGED <<session, record, task, mirror, streamVars, merging, faults, overtaken>>

\* action_completed
CompleteAction(a, c) ==
    /\ task[a] = "opening"
    /\ MoveWork(a, c, "returned", "reported")
    /\ Emit(a, MirrorOutcomes({c}, result[a][c]), <<>>)
    /\ UNCHANGED <<session, record, task, result, stream, viewer, merging, prs, faults, overtaken>>

\* Variant: the task does not wait for its threads.
ScanCompleteEarly(a) ==
    /\ MoveTask(a, {"opening"}, "finishing")
    /\ \A c \in record[a].selected : work[a][c] \in {"working", "returned", "reported"}
    /\ Emit(a, MirrorFinal(FinalizeStatus(result[a], record[a].selected), STEP_COMPLETED), <<>>)
    /\ UNCHANGED <<session, record, work, result, stream, viewer, merging, prs, faults, overtaken>>

\* Every run_one has returned: scan_complete.
ScanComplete(a) ==
    /\ MoveTask(a, {"opening"}, "finishing")
    /\ \A c \in record[a].selected : work[a][c] = "reported"
    /\ Emit(a, MirrorFinal(FinalizeStatus(result[a], record[a].selected), STEP_COMPLETED), <<>>)
    /\ UNCHANGED <<session, record, work, result, stream, viewer, merging, prs, faults, overtaken>>

\* Variant: the merge run is started while scan_complete is being mirrored.
StartMergeRunEarly(a) ==
    /\ MoveTask(a, {"finishing"}, "ready")
    /\ merging' = IF WithResult(result[a], record[a].selected, Mergeable) # {}
                  THEN merging \cup {a} ELSE merging
    /\ UNCHANGED <<rows, work, result, mirror, streamVars, prs, faults, overtaken>>

\* Variant: a merge run only when every pull request is there.
StartMergeRunIfAll(a) ==
    /\ mirror[a] = Idle
    /\ MoveTask(a, {"finishing"}, "ready")
    /\ merging' = IF WithResult(result[a], record[a].selected, Unopened) = {}
                  THEN merging \cup {a} ELSE merging
    /\ UNCHANGED <<rows, work, result, mirror, streamVars, prs, faults, overtaken>>

\* create_action_run, populate_action_run_candidates and
\* spawn_action_merge_task, then results_ready, which mirrors nothing.
StartMergeRun(a) ==
    /\ mirror[a] = Idle
    /\ MoveTask(a, {"finishing"}, "ready")
    /\ merging' = IF WithResult(result[a], record[a].selected, Mergeable) # {}
                  THEN merging \cup {a} ELSE merging
    /\ UNCHANGED <<rows, work, result, mirror, streamVars, prs, faults, overtaken>>

\* A step after scan_complete raises: scan_failed, and an HTTPException.
TailFails(a) ==
    /\ TailMayFail
    /\ MoveTask(a, {"finishing", "ready"}, "failing")
    /\ Emit(a, MirrorFinal("failed", STEP_AUTHORIZE_FAILED), <<"scan_failed">>)
    /\ faults' = faults \cup {"tail"}
    /\ UNCHANGED <<session, record, work, result, stream, viewer, merging, prs, overtaken>>

\* run_scan_background catches the HTTPException and emits scan_failed again.
FailAgain(a) ==
    /\ MoveTask(a, {"failing"}, "failedTwice")
    /\ Emit(a, MirrorFinal("failed", STEP_AUTHORIZE_FAILED), <<"scan_failed">>)
    /\ UNCHANGED <<session, record, work, result, stream, viewer, merging, prs, faults, overtaken>>

\* Variant: the sentinel is put after a failure only.
EndTaskSilently(a) ==
    /\ mirror[a] = Idle
    /\ MoveTask(a, {"ready", "failedTwice"}, "ended")
    /\ queue' = [queue EXCEPT ![a] = IF task[a] = "failedTwice" THEN Append(@, "sentinel") ELSE @]
    /\ UNCHANGED <<rows, work, result, mirror, stream, viewer, merging, prs, faults, overtaken>>

\* update_action_record_scan_hash on the normal way out; the sentinel on both.
EndTask(a) ==
    /\ mirror[a] = Idle
    /\ MoveTask(a, {"ready", "failedTwice"}, "ended")
    /\ queue' = [queue EXCEPT ![a] = Append(@, "sentinel")]
    /\ UNCHANGED <<rows, work, result, mirror, stream, viewer, merging, prs, faults, overtaken>>

-----------------------------------------------------------------------------
(* The mirroring thread. *)

MirrorOutcome(a) ==
    /\ mirror[a].todo = "outcomes"
    /\ UpdateOutcomes(a, mirror[a].cands, mirror[a].value)
    /\ mirror' = [mirror EXCEPT ![a] = Idle]
    /\ UNCHANGED <<session, taskVars, streamVars, prs, faults, overtaken>>

\* Variant: the session is not told.
MirrorFinalizeOnly(a) ==
    /\ mirror[a].todo = "finalize"
    /\ FinalizeRecord(a, mirror[a].value)
    /\ mirror' = [mirror EXCEPT ![a] = Idle]
    /\ UNCHANGED <<session, taskVars, streamVars, prs, faults, overtaken>>

MirrorFinalize(a) ==
    /\ mirror[a].todo = "finalize"
    /\ FinalizeRecord(a, mirror[a].value)
    /\ mirror' = [mirror EXCEPT ![a].todo = "find"]
    /\ UNCHANGED <<session, taskVars, streamVars, prs, faults, overtaken>>

MirrorFind(a) ==
    /\ mirror[a].todo = "find"
    /\ mirror' = [mirror EXCEPT ![a] =
            IF SessionOfAction(a) = NoSession THEN Idle
            ELSE [@ EXCEPT !.todo = "update", !.found = SessionOfAction(a)]]
    /\ UNCHANGED <<rows, taskVars, streamVars, prs, faults, overtaken>>

MirrorUpdate(a) ==
    /\ mirror[a].todo = "update"
    /\ UpdateStep(mirror[a].found, mirror[a].step)
    /\ mirror' = [mirror EXCEPT ![a] = Idle]
    /\ UNCHANGED <<record, taskVars, streamVars, prs, faults, overtaken>>

\* mirror_action_event raises; the exception is logged and dropped.
MirrorRaises(a) ==
    /\ DbMayFail
    /\ mirror[a] # Idle
    /\ mirror' = [mirror EXCEPT ![a] = Idle]
    /\ faults' = faults \cup {"lost"}
    /\ UNCHANGED <<rows, taskVars, streamVars, prs, overtaken>>

-----------------------------------------------------------------------------
(* Streams and tabs. *)

\* GET /process with the scan_id of the redirect, then its event stream.
Watch(v, s) ==
    LET a == session[s].action
    IN  /\ Loaded(s)
        /\ session[s].step \in {STEP_AUTHORIZED, STEP_COMPLETED}
        /\ viewer[v] = NoAction
        /\ record[a].status = "pending"
        /\ stream[a] = "open"
        /\ viewer' = [viewer EXCEPT ![v] = a]
        /\ UNCHANGED <<rows, taskVars, mirror, stream, queue, prs, faults, overtaken>>

\* unregister_scan_stream: the first reader to go pops the entry and cancels
\* a task that is not done.  Cancelled, the task puts its sentinel and emits
\* nothing more; threads it waited for go on.
Unregister(a, rest) ==
    /\ stream' = [stream EXCEPT ![a] = "gone"]
    /\ IF stream[a] = "open" /\ Live(a)
       THEN /\ task' = [task EXCEPT ![a] = "ended"]
            /\ queue' = [queue EXCEPT ![a] = Append(rest, "sentinel")]
       ELSE /\ task' = task
            /\ queue' = [queue EXCEPT ![a] = rest]

Close(v, rest) ==
    /\ Unregister(viewer[v], rest)
    /\ viewer' = [viewer EXCEPT ![v] = NoAction]
    /\ UNCHANGED <<rows, work, result, mirror, merging, prs, faults, overtaken>>

\* iter_sse_events ends on the sentinel; the page closes it on scan_failed.
ReadEvent(v) ==
    /\ viewer[v] # NoAction
    /\ queue[viewer[v]] # <<>>
    /\ Close(v, Tail(queue[viewer[v]]))

\* The tab is closed or reloaded, or the connection breaks.
Leave(v) ==
    /\ MayLeave
    /\ viewer[v] # NoAction
    /\ Close(v, queue[viewer[v]])

-----------------------------------------------------------------------------
(* The process stops: tasks, threads and streams are gone, the tables stay. *)

StopProcess ==
    /\ task' = [a \in Actions |-> IF Live(a) THEN "ended" ELSE task[a]]
    /\ work' = [a \in Actions |-> [c \in Cands |->
                    IF work[a][c] = "working" THEN "waiting" ELSE work[a][c]]]
    /\ mirror' = [a \in Actions |-> Idle]
    /\ stream' = [a \in Actions |-> IF stream[a] = "open" THEN "gone" ELSE stream[a]]
    /\ queue' = [a \in Actions |-> <<>>]
    /\ viewer' = [v \in Viewers |-> NoAction]
    /\ faults' = faults \cup {"crash"}
    /\ UNCHANGED <<result, merging, prs, overtaken>>

Crash ==
    /\ MayCrash
    /\ \E a \in Actions : Live(a)
    /\ StopProcess
    /\ UNCHANGED rows

\* The process stops in POST /authorize, before or after set_action_id.
CrashInAuthorize(s, a) ==
    /\ MayCrash
    /\ Loaded(s)
    /\ AccessGranted(s)
    /\ CreateRecord(a, session[s].selected)
    /\ \E linked \in {session[s].action, a} : session' = [session EXCEPT ![s].action = linked]
    /\ StopProcess

-----------------------------------------------------------------------------

TaskStep(a) ==
    \/ AnalysisSucceeds(a)
    \/ AnalysisFails(a)
    \/ \E c \in Cands : StartAction(a, c) \/ LaunchThread(a, c) \/ CompleteAction(a, c)
    \/ ScanComplete(a)
    \/ StartMergeRun(a)
    \/ TailFails(a)
    \/ FailAgain(a)
    \/ EndTask(a)

MirrorStep(a) ==
    MirrorOutcome(a) \/ MirrorFinalize(a) \/ MirrorFind(a) \/ MirrorUpdate(a) \/ MirrorRaises(a)

Next ==
    \/ \E s \in Sessions :
        \/ Plan(s) \/ Choose(s) \/ Lapse(s)
        \/ \E a \in Actions : Authorize(s, a) \/ CrashInAuthorize(s, a)
        \/ \E v \in Viewers : Watch(v, s)
    \/ \E a \in Actions : TaskStep(a) \/ MirrorStep(a) \/ \E c \in Cands : OpenFixPr(a, c)
    \/ \E v \in Viewers : ReadEvent(v) \/ Leave(v)
    \/ Crash

Spec == Init /\ [][Next]_vars

\* The event loop runs every coroutine that can go on, worker threads return
\* (GitHub requests and SQLite have timeouts), and an open tab reads.
Fairness ==
    /\ \A a \in Actions :
        /\ WF_vars(TaskStep(a))
        /\ WF_vars(MirrorStep(a))
        /\ \A c \in Cands : WF_vars(OpenFixPr(a, c))
    /\ \A v \in Viewers : WF_vars(ReadEvent(v))

FairSpec == Spec /\ Fairness

-----------------------------------------------------------------------------
(* Safety. *)

\* A finished action's status, computed from the counts of scan_complete, says
\* of the selected candidates what the outcomes mirrored one by one say: all of
\* a completed action's pull requests are there, some of a partial one's.
StatusMatchesOutcomes ==
    \A a \in Actions :
        LET present == WithResult(record[a].outcome, record[a].selected, Mergeable)
            missing == WithResult(record[a].outcome, record[a].selected, Unopened)
        IN  /\ record[a].status = "completed" => present = record[a].selected
            /\ record[a].status = "partial" =>
                    /\ present # {} /\ missing # {}
                    /\ present \cup missing = record[a].selected

\* Once an action's task has ended and nothing of it is under way, every pull
\* request its threads opened or found is in the action record, as what the
\* thread returned: no result is lost between open_fix_pr and the results page.
EveryResultIsRecorded ==
    \A a \in Actions :
        task[a] = "ended" /\ mirror[a] = Idle =>
            \A c \in Cands :
                result[a][c] \in ResultStatus => record[a].outcome[c] = result[a][c]

\* authorize_failed is reserved for an action that failed to run: none of its
\* candidates has got as far as a result.
FailureMeansNotRun(s) ==
    session[s].step = STEP_AUTHORIZE_FAILED =>
        \A c \in Cands : record[session[s].action].outcome[c] \notin ResultStatus

\* A session's step tells the truth about the action it is linked to: while it
\* is authorized the action is pending or being finalized, when it may be
\* retried the action failed, and when it is completed every selected candidate
\* has its outcome.  This is what _authorize_access_redirect relies on.
StepMatchesRecord(s) ==
    LET a == session[s].action
    IN  /\ FailureMeansNotRun(s)
        /\ Loaded(s) =>
            /\ session[s].step = STEP_AUTHORIZED =>
                    record[a].status = "pending" \/ mirror[a].todo \in {"find", "update"}
            /\ session[s].step = STEP_AUTHORIZE_FAILED => record[a].status = "failed"
            /\ session[s].step = STEP_COMPLETED =>
                    /\ Final(a)
                    /\ \A c \in record[a].selected : record[a].outcome[c] \in ResultStatus

\* Without a fault, and however tabs leave, the step of a session tells the
\* truth about the action it is linked to, through failures and retries: but
\* for a session whose retry overtook a thread that had its row already.
StepIsTrue == faults = {} => \A s \in Sessions \ overtaken : StepMatchesRecord(s)

\* The merge run of an action starts only when its record is final and shows
\* the pull requests the run is to merge: the process page's gate, which reads
\* the record and the run, never waits for a run of an unfinished action.
MergeStartsAfterCompletion ==
    \A a \in merging :
        /\ Final(a)
        /\ \E c \in record[a].selected : record[a].outcome[c] \in Mergeable

\* The linked action of a session changes only when the former one can no
\* longer open a pull request or start a merge run: POST /authorize rejects a
\* second action while one is in flight.  A thread that was overtaken by a
\* retry breaks this: it gives the new action's session the old one's step.
InFlightIsRejected ==
    [][\A s \in Sessions :
        session'[s].action # session[s].action /\ session[s].action # NoAction
            => ~Acting(session[s].action)]_vars

\* And nothing else does: a double submit, a crash in the handler, a lost write,
\* an expired session or a failure after scan_complete never lets a session go
\* on to a second action while the first one acts.
SecondActionOnlyWhenOvertaken ==
    [][\A s \in Sessions \ overtaken :
        session'[s].action # session[s].action /\ session[s].action # NoAction
            => ~Acting(session[s].action)]_vars

\* Only a failure after scan_complete changes what the results page has shown
\* as final: through crashes and lost writes the status of a record is written
\* once, also when a retry overtook its thread, and a completed session stays
\* completed unless a thread it overtook writes late.
FinalIsFinal ==
    [][faults' \subseteq {"crash", "lost"} =>
        /\ \A a \in Actions : Final(a) => record'[a].status = record[a].status
        /\ \A s \in Sessions \ overtaken :
            session[s].step = STEP_COMPLETED => session'[s].step = STEP_COMPLETED]_vars

-----------------------------------------------------------------------------
(* Liveness. *)

\* Every action whose record is pending gets a final status, whatever fails:
\* the process page, which polls until then, does not poll for ever.
PendingActionSettles ==
    \A a \in Actions : record[a].status = "pending" ~> Final(a)

\* A session does not stay authorized: it completes, may be retried, or
\* expires, so its owner is never sent back to /process for ever.
AuthorizedSessionMovesOn ==
    \A s \in Sessions : session[s].step = STEP_AUTHORIZED ~>
        session[s].step # STEP_AUTHORIZED \/ session[s].expired

\* Pull requests of a finished action are handed to a merge run, unless the
\* action is failed after all: nobody sees a completed action whose pull
\* requests nothing follows.
FinishedActionIsMerged ==
    \A a \in Actions : record[a].status \in {"completed", "partial"} ~>
        a \in merging \/ record[a].status = "failed"

\* The event stream of a tab that reads alone comes to an end, on the failure
\* paths too: no tab waits on a queue nobody writes to any more.
SoleViewerIsReleased ==
    \A v \in Viewers : viewer[v] # NoAction ~> viewer[v] = NoAction
==============================================================================
