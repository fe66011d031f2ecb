----------------------------- MODULE ActionMerge -----------------------------
(***************************************************************************)
(* The wait-and-merge task of Mode C (arguss/web/action_merge.py) together *)
(* with the code that starts it (execute_scan_with_action in               *)
(* mode_c_workflow.py), the registry it writes and the pages that read it. *)
(*                                                                         *)
(* One asyncio loop runs everything: between two awaits nothing else of    *)
(* the process runs, so each action below is the code from one await to    *)
(* the next.  Only a crash of the process can fall inside such a segment,  *)
(* and it matters in one place, while the rows of a run are being added.   *)
(* HTTP calls run in worker threads: a call that only reads is one step,   *)
(* the merge is two, GitHub acting and the task learning of it.            *)
(***************************************************************************)
EXTENDS ActionRuns, GitHubPulls

CONSTANTS
    MaxClock   \* bound: the clock stops here

ASSUME ActionMergeAssumption == MaxClock \in Nat

VARIABLES
    pc,        \* pc[r]: where run r's task is suspended
    todo,      \* candidates of the current pass still to be processed
    snap,      \* candidate objects held by the task, read at the top of the pass
    cur,       \* the candidate being processed
    since,     \* first_no_checks_at, NotSeen when absent
    reply,     \* status of the merge call, once GitHub has answered
    verified,  \* history: the commit whose check runs the run saw green, while it
               \* processes the candidate, NoSha before
    overrun    \* history: the runs finalised as stale while their task was alive

task == <<pc, todo, snap, cur, since, reply, verified>>
vars ==
    <<run, rows, now, gh, pc, todo, snap, cur, since, reply, verified, overrun>>

NoPr == "no pull request"
NotSeen == -1
NoReply == "none"
NoRows == [p \in Prs |-> NoRow]

InCall == {"resolving", "checking", "merging", "replying"}
Live == {"populating", "top", "next", "appending"} \cup InCall
TaskPc == {"idle", "done", "dead"} \cup Live

TypeOK ==
    /\ RegistryTypeOK
    /\ GhTypeOK
    /\ pc \in [Runs -> TaskPc]
    /\ todo \in [Runs -> SUBSET Prs]
    /\ snap \in [Runs -> [Prs -> Candidate]]
    /\ cur \in [Runs -> Prs \cup {NoPr}]
    /\ \A r \in Runs : pc[r] \in InCall \cup {"appending"} => cur[r] \in Prs
    /\ since \in [Runs -> [Prs -> Nat \cup {NotSeen}]]
    /\ reply \in [Runs -> MergeReplies \cup {NoReply}]
    /\ verified \in [Runs -> Shas \cup {NoSha}]
    /\ overrun \in SUBSET Runs

Init ==
    /\ RegistryInit
    /\ GhInit
    /\ pc = [r \in Runs |-> "idle"]
    /\ todo = [r \in Runs |-> {}]
    /\ snap = [r \in Runs |-> NoRows]
    /\ cur = [r \in Runs |-> NoPr]
    /\ since = [r \in Runs |-> [p \in Prs |-> NotSeen]]
    /\ reply = [r \in Runs |-> NoReply]
    /\ verified = [r \in Runs |-> NoSha]
    /\ overrun = {}

-----------------------------------------------------------------------------
(* Starting a run: create_action_run, populate, spawn, without an await. *)

\* The run is created when at least one pull request was opened or found.
StartRun(r) ==
    /\ pc[r] = "idle"
    /\ now + WaitCap + StaleSlack < MaxClock
    /\ CreateActionRun(r)
    /\ \E opened \in SUBSET Prs \ {{}} : todo' = [todo EXCEPT ![r] = opened]
    /\ pc' = [pc EXCEPT ![r] = "populating"]
    /\ UNCHANGED <<now, gh, overrun, snap, cur, since, reply, verified>>

\* The head recorded is the one GitHub gave earlier in the same request, so
\* it may be behind the branch by now, or missing.  Nothing reads the head of
\* a pr_only row.  Every pull request of GitHub has its number.
KnownHeads(p) == {NoSha} \cup {s \in Shas : s <= gh[p].head}

NewCandidates(p) ==
    [state : {"pr_opened"}, authorized : {TRUE}, head : KnownHeads(p), appended : {FALSE}]
    \cup
    [state : {"pr_only"}, authorized : {FALSE}, head : {NoSha}, appended : {FALSE}]

AddCandidate(r, p) ==
    /\ pc[r] = "populating"
    /\ p \in todo[r]
    /\ \E candidate \in NewCandidates(p) : AddActionRunCandidate(r, p, candidate)
    /\ todo' = [todo EXCEPT ![r] = @ \ {p}]
    /\ UNCHANGED <<now, gh, overrun, pc, snap, cur, since, reply, verified>>

Spawn(r) ==
    /\ pc[r] = "populating"
    /\ todo[r] = {}
    /\ pc' = [pc EXCEPT ![r] = "top"]
    /\ UNCHANGED <<registry, now, gh, overrun, todo, snap, cur, since, reply, verified>>

-----------------------------------------------------------------------------
(* The top of run_action_merge_task's loop. *)

\* The task's locals are gone with it.
Forget(r) ==
    /\ todo' = [todo EXCEPT ![r] = {}]
    /\ snap' = [snap EXCEPT ![r] = NoRows]
    /\ cur' = [cur EXCEPT ![r] = NoPr]
    /\ since' = [since EXCEPT ![r] = [p \in Prs |-> NotSeen]]
    /\ reply' = [reply EXCEPT ![r] = NoReply]
    /\ verified' = [verified EXCEPT ![r] = NoSha]

\* The task returns, having stored table as the rows of its run.
Finish(r, table) ==
    /\ rows' = [rows EXCEPT ![r] = table]
    /\ run' = [run EXCEPT ![r].state = FinalState(r, table)]
    /\ pc' = [pc EXCEPT ![r] = "done"]
    /\ Forget(r)
    /\ UNCHANGED <<now, gh, overrun>>

\* The kill switch is read at the top of each pass, and only there; the
\* operator may have set or cleared it since, so it may be found either way.
TopKilled(r) ==
    /\ pc[r] = "top"
    /\ Finish(r, EscalateActive(LoadedRows(r), "killed"))

TopNothingActive(r) ==
    /\ pc[r] = "top"
    /\ ActiveIn(LoadedRows(r)) = {}
    /\ Finish(r, LoadedRows(r))

\* started_at and the row's created_at are one reading of the clock: nothing
\* else runs between the two.
CapReached(r) == now - run[r].created >= WaitCap

TopTimedOut(r) ==
    /\ pc[r] = "top"
    /\ ActiveIn(LoadedRows(r)) # {}
    /\ CapReached(r)
    /\ Finish(r, EscalateActive(LoadedRows(r), "timed_out"))

\* A pass starts over the candidates active now; the task keeps the objects
\* it just read until it has processed them all.
TopPoll(r) ==
    /\ pc[r] = "top"
    /\ ActiveIn(LoadedRows(r)) # {}
    /\ ~CapReached(r)
    /\ rows' = [rows EXCEPT ![r] = LoadedRows(r)]
    /\ run' = [run EXCEPT ![r].state = LoadedState(r)]
    /\ snap' = [snap EXCEPT ![r] = LoadedRows(r)]
    /\ todo' = [todo EXCEPT ![r] = ActiveIn(LoadedRows(r))]
    /\ pc' = [pc EXCEPT ![r] = "next"]
    /\ UNCHANGED <<now, gh, overrun, cur, since, reply, verified>>

-----------------------------------------------------------------------------
(* _process_candidate. *)

NeedsAuthorizationLine(c) == c.authorized /\ ~c.appended
\* Variant: a head that is not known is not looked up.
ReadChecks(c) == "checking"

ReadHeadOrChecks(c) == IF c.head = NoSha THEN "resolving" ELSE "checking"

\* Rows are read ORDER BY updated_at; the order is left open here.
Begin(r, p) ==
    /\ pc[r] = "next"
    /\ p \in todo[r]
    /\ todo' = [todo EXCEPT ![r] = @ \ {p}]
    /\ cur' = [cur EXCEPT ![r] = p]
    /\ pc' = [pc EXCEPT ![r] = IF NeedsAuthorizationLine(snap[r][p])
                               THEN "appending" ELSE ReadHeadOrChecks(snap[r][p])]
    /\ UNCHANGED <<registry, now, gh, overrun, snap, since, reply, verified>>

\* The candidate is given up or left for the next pass, and its object, which
\* is not read again, is forgotten.  After the last one the pass is over: the
\* task sleeps for poll_interval and is at the top of the loop again.
NextCandidate(r) ==
    /\ pc' = [pc EXCEPT ![r] = IF todo[r] = {} THEN "top" ELSE "next"]
    /\ snap' = [snap EXCEPT ![r][cur[r]] = NoRow]
    /\ cur' = [cur EXCEPT ![r] = NoPr]
    /\ verified' = [verified EXCEPT ![r] = NoSha]

\* The authorization line is appended to the pull request once, whether or
\* not the PATCH succeeds; the candidate is re-read, and skipped when its
\* row was closed meanwhile.
AppendAuthorizationLine(r) ==
    /\ pc[r] = "appending"
    /\ rows' = [rows EXCEPT ![r][cur[r]].appended = TRUE]
    /\ IF rows[r][cur[r]].state \in TERMINAL_CANDIDATE_STATES
       THEN NextCandidate(r)
       ELSE /\ pc' = [pc EXCEPT ![r] = ReadHeadOrChecks(rows[r][cur[r]])]
            /\ snap' = [snap EXCEPT ![r][cur[r]] = rows'[r][cur[r]]]
            /\ UNCHANGED <<cur, verified>>
    /\ UNCHANGED <<run, now, gh, overrun, todo, since, reply>>

\* GitHub does not tell the head.
HeadUnresolved(r) ==
    /\ pc[r] = "resolving"
    /\ SetCandidateState(r, cur[r], "head_sha_unresolved")
    /\ NextCandidate(r)
    /\ UNCHANGED <<now, gh, overrun, todo, since, reply>>

\* The run, when loading it now finalises it while its task is alive.
LoadedWhileStale(r) == IF pc[r] \in Live /\ Stale(r) THEN {r} ELSE {}

\* The head is stored and the run loaded again, which may find it stale; the
\* state of the candidate so re-read is not looked at.
HeadResolved(r) ==
    LET p == cur[r]
        stored == [rows[r] EXCEPT ![p].head = gh[p].head]
        loaded == IF Stale(r) THEN EscalateActive(stored, "timed_out") ELSE stored
    IN  /\ pc[r] = "resolving"
        /\ rows' = [rows EXCEPT ![r] = loaded]
        /\ run' = [run EXCEPT ![r].state = LoadedState(r)]
        /\ snap' = [snap EXCEPT ![r][p] = loaded[p]]
        /\ overrun' = overrun \cup LoadedWhileStale(r)
        /\ pc' = [pc EXCEPT ![r] = "checking"]
        /\ UNCHANGED <<now, gh, todo, cur, since, reply, verified>>

-----------------------------------------------------------------------------
(* Reading the check runs of the evaluated head. *)

\* Variant: the head of the branch when it is used, not when it was evaluated.
HeadOfBranch(r) == gh[cur[r]].head

EvaluatedHead(r) == snap[r][cur[r]].head

\* A candidate still waiting is shown as ci_running after its first poll; the
\* test is on the object read at the top of the pass.
MarkCiRunning(r) ==
    IF snap[r][cur[r]].state = "pr_opened"
    THEN SetCandidateState(r, cur[r], "ci_running")
    ELSE UNCHANGED registry

NoChecksSince(r) == IF since[r][cur[r]] = NotSeen THEN now ELSE since[r][cur[r]]

NoCheckRuns(r) ==
    /\ pc[r] = "checking"
    /\ since' = [since EXCEPT ![r][cur[r]] = NoChecksSince(r)]
    /\ IF now - NoChecksSince(r) >= Grace
       THEN SetCandidateState(r, cur[r], "no_checks")
       ELSE MarkCiRunning(r)
    /\ NextCandidate(r)
    /\ UNCHANGED <<now, gh, overrun, todo, reply>>

ChecksPending(r) ==
    /\ pc[r] = "checking"
    /\ since' = [since EXCEPT ![r][cur[r]] = NotSeen]
    /\ MarkCiRunning(r)
    /\ NextCandidate(r)
    /\ UNCHANGED <<now, gh, overrun, todo, reply>>

ChecksFailed(r) ==
    /\ pc[r] = "checking"
    /\ since' = [since EXCEPT ![r][cur[r]] = NotSeen]
    /\ SetCandidateState(r, cur[r], "ci_failed")
    /\ NextCandidate(r)
    /\ UNCHANGED <<now, gh, overrun, todo, reply>>

ChecksGreen(r) ==
    /\ pc[r] = "checking"
    /\ since' = [since EXCEPT ![r][cur[r]] = NotSeen]
    /\ verified' = [verified EXCEPT ![r] = EvaluatedHead(r)]
    /\ pc' = [pc EXCEPT ![r] = "merging"]
    /\ UNCHANGED <<registry, now, gh, overrun, todo, snap, cur, reply>>

-----------------------------------------------------------------------------
(* Merging. *)

\* GitHub acts on the PUT; the task has not heard yet.
GitHubMerges(r) ==
    /\ pc[r] = "merging"
    /\ \E answer \in MergeReplies :
          /\ MergeCall(r, cur[r], EvaluatedHead(r), answer)
          /\ reply' = [reply EXCEPT ![r] = answer]
    /\ pc' = [pc EXCEPT ![r] = "replying"]
    /\ UNCHANGED <<registry, now, overrun, todo, snap, cur, since, verified>>

\* Variant: 405, already merged, read as success.
MergeAnsweredNot409(r) ==
    /\ pc[r] = "replying"
    /\ SetCandidateState(r, cur[r], IF reply[r] = "409" THEN "sha_conflict" ELSE "merged")
    /\ reply' = [reply EXCEPT ![r] = NoReply]
    /\ NextCandidate(r)
    /\ UNCHANGED <<now, gh, overrun, todo, since>>

\* Variant: a merge is recorded like any other answer, as a conflict.
MergeAnsweredConflict(r) ==
    /\ pc[r] = "replying"
    /\ IF reply[r] = "other" THEN UNCHANGED registry
       ELSE SetCandidateState(r, cur[r], "sha_conflict")
    /\ reply' = [reply EXCEPT ![r] = NoReply]
    /\ NextCandidate(r)
    /\ UNCHANGED <<now, gh, overrun, todo, since>>

\* A status that is neither 200 nor 409 leaves the row for the next pass.
MergeAnswered(r) ==
    /\ pc[r] = "replying"
    /\ CASE reply[r] = "200" -> SetCandidateState(r, cur[r], "merged")
         [] reply[r] = "409" -> SetCandidateState(r, cur[r], "sha_conflict")
         [] OTHER -> UNCHANGED registry
    /\ reply' = [reply EXCEPT ![r] = NoReply]
    /\ NextCandidate(r)
    /\ UNCHANGED <<now, gh, overrun, todo, since>>

-----------------------------------------------------------------------------
(* What goes wrong around the task. *)

\* A token cannot be minted, or the request or its answer is lost: nothing
\* catches the exception and the task ends where it is.
CallRaises(r) ==
    /\ pc[r] \in InCall
    /\ pc' = [pc EXCEPT ![r] = "dead"]
    /\ Forget(r)
    /\ UNCHANGED <<registry, now, gh, overrun>>

\* The process dies or is redeployed.  Rows survive; no task is restarted.
Crash ==
    /\ \E r \in Runs : pc[r] \in Live
    /\ pc' = [r \in Runs |-> IF pc[r] \in Live THEN "dead" ELSE pc[r]]
    /\ todo' = [r \in Runs |-> {}]
    /\ snap' = [r \in Runs |-> NoRows]
    /\ cur' = [r \in Runs |-> NoPr]
    /\ since' = [r \in Runs |-> [p \in Prs |-> NotSeen]]
    /\ reply' = [r \in Runs |-> NoReply]
    /\ verified' = [r \in Runs |-> NoSha]
    /\ UNCHANGED <<registry, now, gh, overrun>>

\* A page shows the run, and finalises it when it is stale.  Nothing tells
\* whether its task still runs: a pass has a call of up to 30 s, or several,
\* for each candidate, so it may outlast the slack.
PageLoads(r) ==
    /\ LoadActionRun(r)
    /\ overrun' = overrun \cup LoadedWhileStale(r)
    /\ UNCHANGED <<now, gh, task>>

GitHubChanges ==
    /\ GhEnvironment
    /\ UNCHANGED <<registry, now, overrun, task>>

\* Rows are added without an await, in no time.
Tick ==
    /\ now < MaxClock
    /\ \A r \in Runs : pc[r] # "populating"
    /\ now' = now + 1
    /\ UNCHANGED <<registry, gh, overrun, task>>

-----------------------------------------------------------------------------

TaskStep(r) ==
    \/ \E p \in Prs : AddCandidate(r, p)
    \/ Spawn(r)
    \/ TopKilled(r) \/ TopNothingActive(r) \/ TopTimedOut(r) \/ TopPoll(r)
    \/ \E p \in Prs : Begin(r, p)
    \/ AppendAuthorizationLine(r)
    \/ HeadUnresolved(r) \/ HeadResolved(r)
    \/ NoCheckRuns(r) \/ ChecksPending(r) \/ ChecksFailed(r) \/ ChecksGreen(r)
    \/ GitHubMerges(r) \/ MergeAnswered(r)

Next ==
    \/ \E r \in Runs :
          StartRun(r) \/ TaskStep(r) \/ CallRaises(r) \/ PageLoads(r)
    \/ Crash
    \/ GitHubChanges
    \/ Tick

Spec == Init /\ [][Next]_vars

\* The event loop resumes a task whose call has returned (every call has a
\* 30 s timeout), and time passes.
FairSpec == Spec /\ WF_vars(Tick) /\ \A r \in Runs : WF_vars(TaskStep(r))

\* Somebody keeps opening the page of each run.
Watched == \A r \in Runs : WF_vars(PageLoads(r))

-----------------------------------------------------------------------------
(* Properties. *)

\* Arguss merges nothing but the commit whose check runs the same run saw
\* green in the same pass, and only for a candidate that carries a merge
\* authorization: the sha sent with the PUT guards against a push in between.
MergedWasVerified ==
    [][\A r \in Runs, p \in Prs :
          gh'[p].by = r /\ gh[p].by # r =>
              cur[r] = p /\ gh[p].head = verified[r] /\ rows[r][p].authorized]_vars

\* A row that says merged tells the truth: this run's call merged it.  Two
\* runs over one pull request never both claim the merge.
MergedRowIsTrue ==
    \A r \in Runs, p \in Prs : rows[r][p].state = "merged" => gh[p].by = r

\* A candidate reported as given up (every escalation but timed_out) was not
\* merged by the run that gave it up.
EscalatedWasNotMerged ==
    \A r \in Runs, p \in Prs :
        rows[r][p].state \in Escalations \ {"timed_out"} => gh[p].by # r

\* What a row says of the merge is what happened to the pull request, in both
\* directions: neither a merge nor a failure to merge is reported by mistake.
RowsTellTheTruth == MergedRowIsTrue /\ EscalatedWasNotMerged

\* "Finalize runs left running after process death or deploy": a run is
\* completed only when each of its candidates is settled, but for a run
\* finalised under its live task, until that task returns.
CompletedRunIsSettled ==
    \A r \in Runs : run[r].state = "completed" =>
        ActiveIn(rows[r]) = {} \/ (r \in overrun /\ pc[r] # "done")

\* What the results page showed of a settled candidate is final, with one
\* exception: a run finalised as stale under its live task may take back a
\* "timed out", since the task goes on with the rows of its snapshot.  What
\* was merged, or escalated for another reason, is never taken back.
SettledIsFinal ==
    [][\A r \in Runs, p \in Prs :
          rows[r][p].state \in TERMINAL_CANDIDATE_STATES =>
              \/ rows'[r][p].state = rows[r][p].state
              \/ rows[r][p].state = "timed_out" /\ r \in overrun]_vars

\* Whatever CI, GitHub, the operator, the pages and other runs do, a task that
\* is not cut down by a crash or an exception returns, with its run completed
\* and each candidate settled: what it took back of a run finalised under it
\* is settled again.
TaskCompletesRun ==
    \A r \in Runs :
        run[r].state = "running" ~>
            \/ pc[r] = "dead"
            \/ pc[r] = "done" /\ run[r].state = "completed" /\ ActiveIn(rows[r]) = {}

\* A run whose page is watched is completed even when its task died.
WatchedRunCompletes == Watched =>
    \A r \in Runs : run[r].state = "running" ~> run[r].state = "completed"

-----------------------------------------------------------------------------
(* The inductive invariant the properties above follow from. *)

Busy == InCall \cup {"appending"}

\* What the task may still find of a candidate it took up in this pass: open,
\* or timed out by a page that finalised the run under the task.
OpenStates(r) == ActiveStates \cup (IF r \in overrun THEN {"timed_out"} ELSE {})

\* The candidates of a pass that are not decided yet.
Undecided(r) == todo[r] \cup (IF pc[r] \in Busy THEN {cur[r]} ELSE {})

\* Before its task starts, a run has merged nothing and the rows still to be
\* added are absent.
NotStarted(r) ==
    pc[r] \in {"idle", "populating"} =>
        /\ \A p \in Prs : gh[p].by # r
        /\ pc[r] = "idle" => rows[r] = NoRows /\ run[r].state = "absent"
        /\ \A p \in todo[r] : rows[r][p] = NoRow

\* Only candidates with an authorization are ever taken up, and until it is
\* decided a candidate's row is open.
UndecidedIsOpen(r) ==
    /\ \A p \in ActiveIn(rows[r]) : rows[r][p].authorized
    /\ pc[r] # "populating" =>
          \A p \in Undecided(r) : rows[r][p].authorized /\ rows[r][p].state \in OpenStates(r)
    /\ pc[r] \in Busy => cur[r] \notin todo[r]
    /\ pc[r] \in {"idle", "top", "done", "dead"} => todo[r] = {}

\* The commit the task is about to merge is one it saw green.
MergingIsVerified(r) ==
    /\ pc[r] \in {"checking", "merging"} => EvaluatedHead(r) # NoSha
    /\ pc[r] = "merging" => verified[r] = EvaluatedHead(r)

\* A merge was authorized, and the news of it is in the row, on
\* its way to the task, or lost with the task.
MergeIsAccountedFor(r) ==
    \A p \in Prs : gh[p].by = r =>
        /\ gh[p].status = "settled"
        /\ rows[r][p].authorized
        /\ \/ pc[r] = "replying" /\ cur[r] = p /\ reply[r] = "200"
           \/ p \notin Undecided(r) /\ rows[r][p].state \in {"merged", "timed_out"}
           \/ pc[r] = "dead" /\ rows[r][p].state \in ActiveStates

\* The news of a merge, on its way or in a row, is true.
NewsIsTrue(r) ==
    /\ pc[r] = "replying" /\ reply[r] = "200" => gh[cur[r]].by = r
    /\ \A p \in Prs : rows[r][p].state = "merged" => gh[p].by = r

Ownership(r) ==
    /\ NotStarted(r)
    /\ UndecidedIsOpen(r)
    /\ MergingIsVerified(r)
    /\ MergeIsAccountedFor(r)
    /\ NewsIsTrue(r)

\* Only a run on the list of overruns is completed under a live task, and
\* whatever a task that returned leaves is settled.
InTime(r) ==
    /\ pc[r] = "populating" => run[r].created = now
    /\ pc[r] \in {"idle", "populating"} => r \notin overrun
    /\ pc[r] \in Live /\ r \notin overrun => run[r].state = "running"
    /\ pc[r] = "done" => ActiveIn(rows[r]) = {}
    /\ run[r].state = "completed" /\ r \notin overrun => ActiveIn(rows[r]) = {}

MergeInvariant ==
    /\ TypeOK
    /\ \A r \in Runs : Ownership(r) /\ InTime(r)

=============================================================================
