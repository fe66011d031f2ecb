-------------------------- MODULE ActionMergeProofs --------------------------
(***************************************************************************)
(* Proofs about ActionMerge, and that it implements MergePromise, for      *)
(* every set of runs and pull requests and every value of the delays.      *)
(***************************************************************************)
EXTENDS MergeRefinement, TLAPS

-----------------------------------------------------------------------------
(* The helpers on the rows of one run. *)

RowTable == [Prs -> Candidate]

\* Closing the active rows of a table leaves a table with no active row, in
\* which every other column, and every row that was not active, is as before.
LEMMA EscalateActiveLemma ==
    ASSUME NEW table \in RowTable, NEW e \in Escalations
    PROVE  LET closed == EscalateActive(table, e)
           IN  /\ closed \in RowTable
               /\ ActiveIn(closed) = {}
               /\ \A p \in Prs :
                     /\ closed[p].state = (IF p \in ActiveIn(table) THEN e
                                           ELSE table[p].state)
                     /\ closed[p].authorized = table[p].authorized
                     /\ closed[p].head = table[p].head
BY DEF RowTable, Candidate, CandidateState, Escalations, EscalateActive, ActiveIn,
       ActiveStates, TERMINAL_CANDIDATE_STATES

\* What load_action_run returns is the stored table, or the table with its
\* active rows timed out.
LEMMA LoadedRowsLemma ==
    ASSUME TypeOK, NEW r \in Runs
    PROVE  /\ LoadedRows(r) \in RowTable
           /\ \A p \in Prs :
                 /\ LoadedRows(r)[p].state =
                       (IF Stale(r) /\ p \in ActiveIn(rows[r]) THEN "timed_out"
                        ELSE rows[r][p].state)
                 /\ LoadedRows(r)[p].authorized = rows[r][p].authorized
           /\ Stale(r) => ActiveIn(LoadedRows(r)) = {}
           /\ LoadedState(r) \in {"absent", "running", "completed"}
<1>1. rows[r] \in RowTable /\ run[r] \in ActionRun
  BY DEF TypeOK, RegistryTypeOK, RowTable
<1>2. "timed_out" \in Escalations
  BY DEF Escalations
<1>3. LoadedState(r) \in {"absent", "running", "completed"}
  BY <1>1 DEF LoadedState, ActionRun
<1>5. CASE Stale(r)
  BY <1>1, <1>2, <1>3, <1>5, EscalateActiveLemma DEF LoadedRows
<1>6. CASE ~Stale(r)
  BY <1>1, <1>3, <1>6 DEF LoadedRows
<1> QED
  BY <1>5, <1>6

\* What finalize_action_run_if_terminal stores is a state of a run.
LEMMA FinalStateLemma ==
    ASSUME TypeOK, NEW r \in Runs, NEW table
    PROVE  FinalState(r, table) \in {"absent", "running", "completed"}
BY DEF TypeOK, RegistryTypeOK, ActionRun, FinalState

\* Assigning one column of a candidate.
LEMMA CandidateColumns ==
    ASSUME NEW c \in Candidate
    PROVE  /\ \A x \in CandidateState : [c EXCEPT !.state = x] \in Candidate
           /\ \A x \in Shas : [c EXCEPT !.head = x] \in Candidate
           /\ [c EXCEPT !.appended = TRUE] \in Candidate
<1>1. c = [state |-> c.state, authorized |-> c.authorized, head |-> c.head,
           appended |-> c.appended]
  BY DEF Candidate
<1>2. /\ c.state \in CandidateState /\ c.authorized \in BOOLEAN
      /\ c.head \in Shas \cup {NoSha} /\ c.appended \in BOOLEAN
  BY DEF Candidate
<1>3. ASSUME NEW x \in CandidateState PROVE [c EXCEPT !.state = x] \in Candidate
  BY <1>1, <1>2 DEF Candidate
<1>4. ASSUME NEW x \in Shas PROVE [c EXCEPT !.head = x] \in Candidate
  BY <1>1, <1>2 DEF Candidate
<1>5. [c EXCEPT !.appended = TRUE] \in Candidate
  BY <1>1, <1>2 DEF Candidate
<1> QED
  BY <1>3, <1>4, <1>5

\* Assigning the columns of a pull request GitHub changes.
LEMMA PullRequestColumns ==
    ASSUME NEW q \in PullRequest
    PROVE  /\ \A x \in Shas : [q EXCEPT !.head = x] \in PullRequest
           /\ [q EXCEPT !.status = "settled"] \in PullRequest
           /\ \A x \in Runs :
                 [q EXCEPT !.status = "settled", !.by = x] \in PullRequest
<1>1. q = [status |-> q.status, head |-> q.head, by |-> q.by]
  BY DEF PullRequest
<1>2. /\ q.status \in {"open", "settled"} /\ q.head \in Shas
      /\ q.by \in Runs \cup {Nobody}
  BY DEF PullRequest
<1>3. ASSUME NEW x \in Shas PROVE [q EXCEPT !.head = x] \in PullRequest
  BY <1>1, <1>2 DEF PullRequest
<1>4. [q EXCEPT !.status = "settled"] \in PullRequest
  BY <1>1, <1>2 DEF PullRequest
<1>5. ASSUME NEW x \in Runs
      PROVE  [q EXCEPT !.status = "settled", !.by = x] \in PullRequest
  BY <1>1, <1>2 DEF PullRequest
<1> QED
  BY <1>3, <1>4, <1>5

LEMMA NoRowLemma == NoRow \in Candidate
BY DEF NoRow, Candidate, CandidateState, Shas, NoSha

-----------------------------------------------------------------------------
(* Type correctness. *)

LEMMA InitTypeOK == Init => TypeOK
<1> SUFFICES ASSUME Init PROVE TypeOK
  OBVIOUS
<1>1. RegistryTypeOK
  BY NoRowLemma DEF Init, RegistryInit, RegistryTypeOK, ActionRun
<1>2. gh \in [Prs -> PullRequest]
  <2>1. 1 \in Shas
    BY MergeParametersAssumption DEF Shas
  <2> QED
    BY <2>1 DEF Init, GhInit, PullRequest
<1> QED
  BY <1>1, <1>2, NoRowLemma DEF Init, TypeOK, GhTypeOK, NoRows, TaskPc, InCall

\* Overwriting the state of one row keeps the registry well typed.
LEMMA SetCandidateStateTypeOK ==
    ASSUME TypeOK, NEW r \in Runs, NEW p \in Prs, NEW state \in CandidateState,
           SetCandidateState(r, p, state), now' = now
    PROVE  RegistryTypeOK'
<1>1. [rows[r][p] EXCEPT !.state = state] \in Candidate
  <2>1. rows[r][p] \in Candidate
    BY DEF TypeOK, RegistryTypeOK
  <2> QED
    BY <2>1, CandidateColumns
<1>2. rows' = [rows EXCEPT ![r] = [rows[r] EXCEPT ![p] = [rows[r][p] EXCEPT !.state = state]]]
  BY DEF SetCandidateState, TypeOK, RegistryTypeOK
<1> QED
  BY <1>1, <1>2 DEF TypeOK, RegistryTypeOK, SetCandidateState

\* Returning from the task stores a well-typed table.
LEMMA FinishTypeOK ==
    ASSUME TypeOK, NEW r \in Runs, NEW table \in RowTable, Finish(r, table)
    PROVE  TypeOK'
<1>1. FinalState(r, table) \in {"absent", "running", "completed"}
  BY FinalStateLemma
<1>2. RegistryTypeOK'
  BY <1>1 DEF TypeOK, RegistryTypeOK, ActionRun, RowTable, Finish
<1>3. GhTypeOK'
  BY DEF TypeOK, GhTypeOK, Finish
<1> QED
  BY <1>2, <1>3, NoRowLemma
     DEF TypeOK, Finish, Forget, NoRows, TaskPc, Live, InCall

\* Leaving a candidate keeps the task well typed, if the rest is.
LEMMA NextCandidateTypeOK ==
    ASSUME TypeOK, NEW r \in Runs, cur[r] \in Prs, NextCandidate(r),
           RegistryTypeOK', UNCHANGED <<gh, overrun, todo>>,
           since' \in [Runs -> [Prs -> Nat \cup {NotSeen}]],
           reply' \in [Runs -> MergeReplies \cup {NoReply}]
    PROVE  TypeOK'
<1>1. snap' \in [Runs -> [Prs -> Candidate]]
  <2>1. snap' = [snap EXCEPT ![r] = [snap[r] EXCEPT ![cur[r]] = NoRow]]
    BY DEF NextCandidate
  <2> QED
    BY <2>1, NoRowLemma DEF TypeOK
<1>2. /\ pc' \in [Runs -> TaskPc] /\ cur' \in [Runs -> Prs \cup {NoPr}]
      /\ verified' \in [Runs -> Shas \cup {NoSha}]
      /\ \A q \in Runs : pc'[q] \in InCall \cup {"appending"} => cur'[q] \in Prs
  BY DEF NextCandidate, TypeOK, TaskPc, Live, InCall
<1> QED
  BY <1>1, <1>2 DEF TypeOK, GhTypeOK

LEMMA NextTypeOK == TypeOK /\ [Next]_vars => TypeOK'
<1> SUFFICES ASSUME TypeOK, [Next]_vars PROVE TypeOK'
  OBVIOUS
<1> USE DEF TypeOK, RegistryTypeOK, GhTypeOK
<1>0. /\ "ci_running" \in CandidateState
      /\ TERMINAL_CANDIDATE_STATES \subseteq CandidateState
      /\ {"merged", "sha_conflict", "head_sha_unresolved", "no_checks", "ci_failed"}
            \subseteq TERMINAL_CANDIDATE_STATES
  BY DEF CandidateState, ActiveStates, TERMINAL_CANDIDATE_STATES, Escalations
<1>1. ASSUME NEW r \in Runs, StartRun(r) PROVE TypeOK'
  BY <1>1 DEF StartRun, CreateActionRun, ActionRun, TaskPc, Live, InCall
<1>2. ASSUME NEW r \in Runs, NEW p \in Prs, AddCandidate(r, p) PROVE TypeOK'
  <2>1. NewCandidates(p) \subseteq Candidate
    BY DEF NewCandidates, KnownHeads, Candidate, CandidateState, ActiveStates,
           TERMINAL_CANDIDATE_STATES, Escalations
  <2> QED
    BY <1>2, <2>1 DEF AddCandidate, AddActionRunCandidate
<1>3. ASSUME NEW r \in Runs, Spawn(r) PROVE TypeOK'
  BY <1>3 DEF Spawn, registry, TaskPc, Live, InCall
<1>4. ASSUME NEW r \in Runs, TopKilled(r) \/ TopNothingActive(r) \/ TopTimedOut(r)
      PROVE  TypeOK'
  <2>1. LoadedRows(r) \in RowTable
    BY LoadedRowsLemma
  <2>2. \A e \in {"killed", "timed_out"} : EscalateActive(LoadedRows(r), e) \in RowTable
    BY <2>1, EscalateActiveLemma DEF Escalations
  <2> QED
    BY <1>4, <2>1, <2>2, FinishTypeOK DEF TopKilled, TopNothingActive, TopTimedOut
<1>5. ASSUME NEW r \in Runs, TopPoll(r) PROVE TypeOK'
  <2>1. LoadedRows(r) \in RowTable /\ LoadedState(r) \in {"absent", "running", "completed"}
    BY LoadedRowsLemma
  <2> QED
    BY <1>5, <2>1 DEF TopPoll, RowTable, ActiveIn, ActionRun, TaskPc, Live, InCall
<1>7. ASSUME NEW r \in Runs, NEW p \in Prs, Begin(r, p) PROVE TypeOK'
  BY <1>7 DEF Begin, ReadHeadOrChecks, registry, TaskPc, Live, InCall
<1>8. ASSUME NEW r \in Runs, AppendAuthorizationLine(r) PROVE TypeOK'
  <2> DEFINE p == cur[r]
             reread == [rows[r][p] EXCEPT !.appended = TRUE]
  <2>1. p \in Prs /\ reread \in Candidate
    BY <1>8, CandidateColumns DEF AppendAuthorizationLine
  <2>2. rows' = [rows EXCEPT ![r] = [rows[r] EXCEPT ![p] = reread]]
    BY <1>8 DEF AppendAuthorizationLine
  <2>3. RegistryTypeOK' /\ UNCHANGED <<gh, overrun, todo, since, reply>>
    BY <1>8, <2>1, <2>2 DEF AppendAuthorizationLine
  <2>4. CASE NextCandidate(r)
    BY <2>1, <2>3, <2>4, NextCandidateTypeOK DEF InCall
  <2>5. CASE ~NextCandidate(r)
    <3>1. /\ UNCHANGED <<cur, verified>>
          /\ \E x \in {"resolving", "checking"} : pc' = [pc EXCEPT ![r] = x]
          /\ snap' = [snap EXCEPT ![r] = [snap[r] EXCEPT ![p] = reread]]
      BY <1>8, <2>1, <2>2, <2>5 DEF AppendAuthorizationLine, ReadHeadOrChecks
    <3> QED
      BY <2>1, <2>3, <3>1 DEF TaskPc, Live, InCall
  <2> QED
    BY <2>4, <2>5
<1>9. ASSUME NEW r \in Runs, HeadUnresolved(r) PROVE TypeOK'
  <2>1. RegistryTypeOK' /\ cur[r] \in Prs
    BY <1>0, <1>9, SetCandidateStateTypeOK DEF HeadUnresolved, InCall
  <2> QED
    BY <1>9, <2>1, NextCandidateTypeOK DEF HeadUnresolved
<1>10. ASSUME NEW r \in Runs, HeadResolved(r) PROVE TypeOK'
  <2> DEFINE p == cur[r]
             stored == [rows[r] EXCEPT ![p].head = gh[p].head]
             loaded == IF Stale(r) THEN EscalateActive(stored, "timed_out") ELSE stored
  <2>1. p \in Prs /\ stored \in RowTable
    <3>1. p \in Prs
      BY <1>10 DEF HeadResolved, InCall
    <3>2. [rows[r][p] EXCEPT !.head = gh[p].head] \in Candidate
      <4>1. rows[r][p] \in Candidate /\ gh[p].head \in Shas
        BY <3>1 DEF PullRequest
      <4> QED
        BY <4>1, CandidateColumns
    <3> QED
      BY <3>1, <3>2 DEF RowTable
  <2>2. loaded \in RowTable
    BY <2>1, EscalateActiveLemma DEF Escalations
  <2>3. LoadedState(r) \in {"absent", "running", "completed"}
    BY LoadedRowsLemma
  <2>4. rows' = [rows EXCEPT ![r] = loaded] /\ snap' = [snap EXCEPT ![r][p] = loaded[p]]
    BY <1>10 DEF HeadResolved
  <2>5. rows' \in [Runs -> RowTable] /\ snap' \in [Runs -> RowTable]
    BY <2>1, <2>2, <2>4 DEF RowTable
  <2>6. /\ pc' \in [Runs -> TaskPc] /\ run' \in [Runs -> ActionRun]
        /\ overrun' \in SUBSET Runs
    BY <1>10, <2>3 DEF HeadResolved, LoadedWhileStale, ActionRun, TaskPc, Live, InCall
  <2> HIDE DEF p, stored, loaded
  <2> QED
    BY <1>10, <2>5, <2>6 DEF HeadResolved, RowTable, InCall
<1>11. ASSUME NEW r \in Runs,
              NoCheckRuns(r) \/ ChecksPending(r) \/ ChecksFailed(r) \/ ChecksGreen(r)
       PROVE  TypeOK'
  <2>1. cur[r] \in Prs
    BY <1>11 DEF NoCheckRuns, ChecksPending, ChecksFailed, ChecksGreen, InCall
  <2>2. MarkCiRunning(r) /\ now' = now => RegistryTypeOK'
    BY <1>0, <2>1, SetCandidateStateTypeOK DEF MarkCiRunning, registry
  <2>3. RegistryTypeOK'
    BY <1>0, <1>11, <2>1, <2>2, SetCandidateStateTypeOK
       DEF NoCheckRuns, ChecksPending, ChecksFailed, ChecksGreen, registry
  <2>4. since' \in [Runs -> [Prs -> Nat \cup {NotSeen}]]
    <3>1. PICK x \in Nat \cup {NotSeen} :
              since' = [since EXCEPT ![r] = [since[r] EXCEPT ![cur[r]] = x]]
      <4>1. NoChecksSince(r) \in Nat \cup {NotSeen}
        BY <2>1 DEF NoChecksSince
      <4> QED
        BY <1>11, <4>1 DEF NoCheckRuns, ChecksPending, ChecksFailed, ChecksGreen
    <3>2. [since[r] EXCEPT ![cur[r]] = x] \in [Prs -> Nat \cup {NotSeen}]
      BY <2>1
    <3> QED
      BY <3>1, <3>2
  <2>5. UNCHANGED <<gh, overrun, todo, reply>>
    BY <1>11 DEF NoCheckRuns, ChecksPending, ChecksFailed, ChecksGreen
  <2>6. CASE ChecksGreen(r)
    <3>1. EvaluatedHead(r) \in Shas \cup {NoSha}
      BY <2>1, CandidateColumns DEF EvaluatedHead, Candidate
    <3> QED
      BY <2>1, <2>3, <2>4, <2>5, <2>6, <3>1 DEF ChecksGreen, TaskPc, Live, InCall
  <2>7. CASE ~ChecksGreen(r)
    <3>1. NextCandidate(r)
      BY <1>11, <2>7 DEF NoCheckRuns, ChecksPending, ChecksFailed
    <3> QED
      BY <2>1, <2>3, <2>4, <2>5, <3>1, NextCandidateTypeOK
  <2> QED
    BY <2>6, <2>7
<1>12. ASSUME NEW r \in Runs, GitHubMerges(r) PROVE TypeOK'
  <2>1. cur[r] \in Prs
    BY <1>12 DEF GitHubMerges, InCall
  <2>2. gh' \in [Prs -> PullRequest]
    <3>1. gh[cur[r]] \in PullRequest
      BY <2>1
    <3>2. [gh[cur[r]] EXCEPT !.status = "settled", !.by = r] \in PullRequest
      BY <3>1, PullRequestColumns
    <3>3. \/ gh' = gh
          \/ gh' = [gh EXCEPT ![cur[r]] = [gh[cur[r]] EXCEPT !.status = "settled", !.by = r]]
      BY <1>12, <2>1 DEF GitHubMerges, MergeCall
    <3> QED
      BY <2>1, <3>2, <3>3
  <2>3. reply' \in [Runs -> MergeReplies \cup {NoReply}]
    BY <1>12 DEF GitHubMerges, MergeCall
  <2> QED
    BY <1>12, <2>1, <2>2, <2>3 DEF GitHubMerges, registry, TaskPc, Live, InCall
<1>13. ASSUME NEW r \in Runs, MergeAnswered(r) PROVE TypeOK'
  <2>1. RegistryTypeOK' /\ cur[r] \in Prs
    BY <1>0, <1>13, SetCandidateStateTypeOK DEF MergeAnswered, registry, InCall
  <2>2. reply' \in [Runs -> MergeReplies \cup {NoReply}] /\ since' = since
    BY <1>13 DEF MergeAnswered
  <2> QED
    BY <1>13, <2>1, <2>2, NextCandidateTypeOK DEF MergeAnswered
<1>14. ASSUME NEW r \in Runs, CallRaises(r) PROVE TypeOK'
  BY <1>14, NoRowLemma DEF CallRaises, Forget, registry, NoRows, TaskPc, Live, InCall
<1>15. CASE Crash
  BY <1>15, NoRowLemma DEF Crash, registry, NoRows, TaskPc, Live, InCall
<1>17. ASSUME NEW r \in Runs, PageLoads(r) PROVE TypeOK'
  <2>1. LoadedRows(r) \in RowTable
    BY LoadedRowsLemma
  <2> QED
    BY <1>17, <2>1 DEF PageLoads, LoadActionRun, LoadedWhileStale, RowTable, ActionRun, task
<1>18. CASE GitHubChanges
  <2>1. PICK p \in Prs : Push(p) \/ SettledByHand(p)
    BY <1>18 DEF GitHubChanges, GhEnvironment
  <2>2. gh' \in [Prs -> PullRequest]
    <3>1. gh[p] \in PullRequest
      OBVIOUS
    <3>2. CASE Push(p)
      <4>1. gh[p].head + 1 \in Shas
        BY <3>1, <3>2, MergeParametersAssumption DEF Push, PullRequest, Shas
      <4>2. [gh[p] EXCEPT !.head = gh[p].head + 1] \in PullRequest
        BY <3>1, <4>1, PullRequestColumns
      <4>3. gh' = [gh EXCEPT ![p] = [gh[p] EXCEPT !.head = gh[p].head + 1]]
        BY <3>2 DEF Push
      <4> QED
        BY <4>2, <4>3
    <3>3. CASE SettledByHand(p)
      <4>1. gh' = [gh EXCEPT ![p] = [gh[p] EXCEPT !.status = "settled"]]
        BY <3>3 DEF SettledByHand
      <4>2. [gh[p] EXCEPT !.status = "settled"] \in PullRequest
        BY <3>1, PullRequestColumns
      <4> QED
        BY <4>1, <4>2
    <3> QED
      BY <2>1, <3>2, <3>3
  <2> QED
    BY <1>18, <2>2 DEF GitHubChanges, registry, task
<1>19. CASE Tick
  BY <1>19 DEF Tick, registry, task
<1>20. CASE UNCHANGED vars
  BY <1>20 DEF vars
<1> QED
  BY <1>1, <1>2, <1>3, <1>4, <1>5, <1>7, <1>8, <1>9, <1>10, <1>11, <1>12, <1>13,
     <1>14, <1>15, <1>17, <1>18, <1>19, <1>20 DEF Next, TaskStep

\* Type correctness of the merge task and the registry it writes.
THEOREM TypeCorrect == Spec => []TypeOK
<1> QED
  BY InitTypeOK, NextTypeOK, PTL DEF Spec
-----------------------------------------------------------------------------
(* The inductive invariant, one lemma for each kind of step. *)

LEMMA OpenStatesLemma ==
    ASSUME NEW r \in Runs
    PROVE  /\ ActiveStates \subseteq OpenStates(r)
           /\ OpenStates(r) \subseteq ActiveStates \cup {"timed_out"}
           /\ r \notin overrun => OpenStates(r) = ActiveStates
           /\ r \in overrun => "timed_out" \in OpenStates(r)
BY DEF OpenStates

LEMMA InitOwnership == ASSUME Init, NEW r \in Runs PROVE Ownership(r)
<1>1. \A p \in Prs : gh[p].by # r
  BY NobodyAssumption DEF Init, GhInit
<1> QED
  BY <1>1
     DEF Init, RegistryInit, Ownership, NotStarted, UndecidedIsOpen, MergingIsVerified,
         MergeIsAccountedFor, NewsIsTrue, ActiveIn, ActiveStates, NoRow, NoRows,
         Undecided, Busy, InCall

\* Nothing of run q, of its rows, its task or the pull requests it merged changes.
Untouched(q) ==
    /\ rows'[q] = rows[q] /\ run'[q].state = run[q].state
    /\ pc'[q] = pc[q] /\ todo'[q] = todo[q] /\ snap'[q] = snap[q] /\ cur'[q] = cur[q]
    /\ reply'[q] = reply[q] /\ verified'[q] = verified[q]
    /\ q \in overrun' <=> q \in overrun
    /\ \A p \in Prs : gh[p].by = q \/ gh'[p].by = q => gh'[p] = gh[p]

\* A step that does not touch a run keeps its part of the invariant.
LEMMA UntouchedOwnership ==
    ASSUME TypeOK, NEW q \in Runs, Ownership(q), Untouched(q)
    PROVE  Ownership(q)'
<1> USE DEF Ownership, Untouched
<1>1. NotStarted(q)'
  BY DEF NotStarted
<1>2. UndecidedIsOpen(q)'
  BY DEF UndecidedIsOpen, ActiveIn, Undecided, OpenStates
<1>3. MergingIsVerified(q)'
  BY DEF MergingIsVerified, EvaluatedHead
<1>4. MergeIsAccountedFor(q)'
  BY DEF MergeIsAccountedFor, Undecided
<1>5. NewsIsTrue(q)'
  <2>1. CASE pc[q] = "replying"
    BY <2>1 DEF NewsIsTrue, TypeOK, InCall
  <2> QED
    BY <2>1 DEF NewsIsTrue
<1> QED
  BY <1>1, <1>2, <1>3, <1>4, <1>5

\* Overwriting the state of one row leaves everything else of the rows alone.
LEMMA SetCandidateStateLemma ==
    ASSUME TypeOK, NEW r \in Runs, NEW p \in Prs, NEW state, SetCandidateState(r, p, state)
    PROVE  /\ \A q \in Runs \ {r} : rows'[q] = rows[q]
           /\ \A x \in Prs \ {p} : rows'[r][x] = rows[r][x]
           /\ rows'[r][p].state = state
           /\ rows'[r][p].authorized = rows[r][p].authorized
           /\ run' = run
<1>1. rows[r][p] \in Candidate
  BY DEF TypeOK, RegistryTypeOK
<1>2. rows' = [rows EXCEPT ![r] = [rows[r] EXCEPT ![p] = [rows[r][p] EXCEPT !.state = state]]]
  BY DEF SetCandidateState
<1>3. /\ [rows[r][p] EXCEPT !.state = state].state = state
      /\ [rows[r][p] EXCEPT !.state = state].authorized = rows[r][p].authorized
  BY <1>1 DEF Candidate
<1> QED
  BY <1>2, <1>3 DEF TypeOK, RegistryTypeOK, SetCandidateState

LEMMA StartRunOwnership ==
    ASSUME TypeOK, NEW r \in Runs, StartRun(r), \A q \in Runs : Ownership(q)
    PROVE  \A q \in Runs : Ownership(q)'
<1>1. ASSUME NEW q \in Runs \ {r} PROVE Ownership(q)'
  BY <1>1, UntouchedOwnership
     DEF StartRun, CreateActionRun, Untouched, TypeOK, RegistryTypeOK
<1>2. Ownership(r)'
  <2>1. /\ pc[r] = "idle" /\ pc'[r] = "populating" /\ todo'[r] \subseteq Prs
        /\ rows'[r] = NoRows /\ gh' = gh /\ snap'[r] = snap[r]
        /\ \A p \in Prs : gh[p].by # r
    BY DEF StartRun, CreateActionRun, TypeOK, Ownership, NotStarted
  <2>2. \A p \in Prs : rows'[r][p] = NoRow
    BY <2>1 DEF NoRows
  <2>3. NotStarted(r)' /\ MergingIsVerified(r)' /\ MergeIsAccountedFor(r)'
    BY <2>1, <2>2 DEF NotStarted, MergingIsVerified, MergeIsAccountedFor
  <2>4. UndecidedIsOpen(r)' /\ NewsIsTrue(r)'
    BY <2>1, <2>2 DEF UndecidedIsOpen, NewsIsTrue, ActiveIn, ActiveStates, NoRow, Busy, InCall
  <2> QED
    BY <2>3, <2>4 DEF Ownership
<1> QED
  BY <1>1, <1>2

LEMMA AddCandidateOwnership ==
    ASSUME TypeOK, NEW r \in Runs, NEW p \in Prs, AddCandidate(r, p),
           \A q \in Runs : Ownership(q)
    PROVE  \A q \in Runs : Ownership(q)'
<1>1. ASSUME NEW q \in Runs \ {r} PROVE Ownership(q)'
  BY <1>1, UntouchedOwnership
     DEF AddCandidate, AddActionRunCandidate, Untouched, TypeOK, RegistryTypeOK
<1>2. Ownership(r)'
  <2>1. /\ pc[r] = "populating" /\ pc'[r] = "populating" /\ todo'[r] = todo[r] \ {p}
        /\ gh' = gh /\ \A x \in Prs : gh[x].by # r
    BY DEF AddCandidate, TypeOK, Ownership, NotStarted
  <2>2. PICK c \in NewCandidates(p) : rows' = [rows EXCEPT ![r] = [rows[r] EXCEPT ![p] = c]]
    BY DEF AddCandidate, AddActionRunCandidate
  <2>3. rows'[r][p] = c /\ \A x \in Prs \ {p} : rows'[r][x] = rows[r][x]
    BY <2>2 DEF TypeOK, RegistryTypeOK
  <2>4. c.state # "merged" /\ (c.state \in ActiveStates => c.authorized)
    BY DEF NewCandidates, ActiveStates
  <2>5. \A x \in todo'[r] : x \in Prs \ {p} /\ x \in todo[r]
    BY <2>1 DEF TypeOK
  <2>6. NotStarted(r)'
    <3>1. \A x \in todo[r] : rows[r][x] = NoRow
      BY <2>1 DEF Ownership, NotStarted
    <3>2. \A x \in todo'[r] : rows'[r][x] = NoRow
      BY <2>3, <2>5, <3>1
    <3> QED
      BY <2>1, <3>2 DEF NotStarted
  <2>9. MergingIsVerified(r)' /\ MergeIsAccountedFor(r)'
    BY <2>1 DEF MergingIsVerified, MergeIsAccountedFor
  <2>7. UndecidedIsOpen(r)'
    BY <2>1, <2>3, <2>4 DEF Ownership, UndecidedIsOpen, ActiveIn, Busy, InCall
  <2>8. NewsIsTrue(r)'
    BY <2>1, <2>3, <2>4 DEF Ownership, NewsIsTrue
  <2> QED
    BY <2>6, <2>7, <2>8, <2>9 DEF Ownership
<1> QED
  BY <1>1, <1>2

\* Steps of the task that move it along and change no row.
LEMMA TaskMovesOwnership ==
    ASSUME TypeOK, NEW r \in Runs, \A q \in Runs : Ownership(q),
           Spawn(r) \/ \E p \in Prs : Begin(r, p)
    PROVE  \A q \in Runs : Ownership(q)'
<1>1. ASSUME NEW q \in Runs \ {r} PROVE Ownership(q)'
  BY <1>1, UntouchedOwnership DEF Spawn, Begin, registry, Untouched, TypeOK
<1>2. UNCHANGED <<rows, run, gh, overrun, verified, reply>>
  BY DEF Spawn, Begin, registry
<1>3. CASE Spawn(r)
  <2>1. pc'[r] = "top" /\ todo'[r] = {} /\ pc[r] = "populating" /\ todo[r] = {}
    BY <1>3 DEF Spawn, TypeOK
  <2>2. ActiveIn(rows[r])' = ActiveIn(rows[r]) /\ Undecided(r)' = {}
    BY <1>2, <2>1 DEF ActiveIn, Undecided, Busy, InCall
  <2>3. NotStarted(r)' /\ UndecidedIsOpen(r)' /\ MergingIsVerified(r)'
    BY <1>2, <2>1, <2>2
       DEF Ownership, NotStarted, UndecidedIsOpen, MergingIsVerified, Busy, InCall
  <2>4. MergeIsAccountedFor(r)' /\ NewsIsTrue(r)'
    BY <1>2, <2>1, <2>2 DEF Ownership, MergeIsAccountedFor, NewsIsTrue, NotStarted
  <2> QED
    BY <1>1, <2>3, <2>4 DEF Ownership
<1>4. ASSUME NEW p \in Prs, Begin(r, p) PROVE Ownership(r)'
  <2>1. /\ pc[r] = "next" /\ pc'[r] \in {"appending", "resolving", "checking"}
        /\ p \in todo[r] /\ todo'[r] = todo[r] \ {p} /\ cur'[r] = p /\ snap' = snap
    BY <1>4 DEF Begin, ReadHeadOrChecks, TypeOK
  <2>2. pc'[r] = "checking" => snap[r][p].head # NoSha
    BY <1>4 DEF Begin, ReadHeadOrChecks, TypeOK
  <2>3. Undecided(r)' = Undecided(r)
    BY <2>1 DEF Undecided, Busy, InCall
  <2>4. ActiveIn(rows[r])' = ActiveIn(rows[r])
    BY <1>2 DEF ActiveIn
  <2>5. NotStarted(r)' /\ UndecidedIsOpen(r)'
    BY <1>2, <2>1, <2>3, <2>4
       DEF Ownership, NotStarted, UndecidedIsOpen, OpenStates, Busy, InCall
  <2>6. MergingIsVerified(r)'
    BY <2>1, <2>2 DEF MergingIsVerified, EvaluatedHead
  <2>7. MergeIsAccountedFor(r)' /\ NewsIsTrue(r)'
    BY <1>2, <2>1, <2>3 DEF Ownership, MergeIsAccountedFor, NewsIsTrue
  <2> QED
    BY <2>5, <2>6, <2>7 DEF Ownership
<1> QED
  BY <1>1, <1>3, <1>4

\* A run's rows are closed: active ones are escalated, the others stay.
Closing(r, table) ==
    /\ table \in RowTable
    /\ \A p \in Prs :
          /\ table[p].authorized = rows[r][p].authorized
          /\ \/ table[p].state = rows[r][p].state
             \/ p \in ActiveIn(rows[r]) /\ table[p].state \in Escalations

\* The task returns, having stored its rows with the active ones closed.
LEMMA FinishOwnership ==
    ASSUME TypeOK, NEW r \in Runs, NEW table, Closing(r, table), Finish(r, table),
           pc[r] = "top", \A q \in Runs : Ownership(q)
    PROVE  \A q \in Runs : Ownership(q)'
<1>1. ASSUME NEW q \in Runs \ {r} PROVE Ownership(q)'
  BY <1>1, UntouchedOwnership DEF Finish, Forget, Untouched, TypeOK, RegistryTypeOK
<1>2. /\ rows'[r] = table /\ pc'[r] = "done" /\ todo'[r] = {} /\ todo[r] = {}
      /\ gh' = gh
  BY DEF Finish, Forget, TypeOK, RegistryTypeOK, Ownership, UndecidedIsOpen
<1>3. \A p \in Prs :
          /\ table[p].authorized = rows[r][p].authorized
          /\ table[p].state \in ActiveStates \cup {"merged", "timed_out"} =>
                table[p].state = rows[r][p].state \/ rows[r][p].state \in ActiveStates
          /\ table[p].state \in ActiveStates \cup {"merged"} =>
                table[p].state = rows[r][p].state
          /\ rows[r][p].state \in {"merged", "timed_out"} => table[p].state = rows[r][p].state
  BY DEF Closing, ActiveIn, Escalations, ActiveStates
<1>4. NotStarted(r)' /\ MergingIsVerified(r)'
  BY <1>2 DEF NotStarted, MergingIsVerified
<1>5. UndecidedIsOpen(r)'
  BY <1>2, <1>3 DEF Ownership, UndecidedIsOpen, ActiveIn, Undecided, Busy, InCall
<1>6. MergeIsAccountedFor(r)'
  BY <1>2, <1>3 DEF Ownership, MergeIsAccountedFor, Undecided, Busy, InCall
<1>7. NewsIsTrue(r)'
  BY <1>2, <1>3 DEF Ownership, NewsIsTrue
<1> QED
  BY <1>1, <1>4, <1>5, <1>6, <1>7 DEF Ownership

\* What load_action_run stores closes the rows of the run.
LEMMA LoadedRowsClosing ==
    ASSUME TypeOK, NEW r \in Runs
    PROVE  /\ Closing(r, LoadedRows(r))
           /\ \A e \in Escalations : Closing(r, EscalateActive(LoadedRows(r), e))
           /\ \A e \in Escalations : ActiveIn(EscalateActive(LoadedRows(r), e)) = {}
<1>1. /\ LoadedRows(r) \in RowTable /\ "timed_out" \in Escalations
      /\ \A p \in Prs :
            /\ LoadedRows(r)[p].state =
                  (IF Stale(r) /\ p \in ActiveIn(rows[r]) THEN "timed_out"
                   ELSE rows[r][p].state)
            /\ LoadedRows(r)[p].authorized = rows[r][p].authorized
  BY LoadedRowsLemma DEF Escalations
<1>2. Closing(r, LoadedRows(r))
  BY <1>1 DEF Closing
<1>3. ASSUME NEW e \in Escalations
      PROVE  /\ Closing(r, EscalateActive(LoadedRows(r), e))
             /\ ActiveIn(EscalateActive(LoadedRows(r), e)) = {}
  <2> DEFINE closed == EscalateActive(LoadedRows(r), e)
  <2>1. /\ closed \in RowTable /\ ActiveIn(closed) = {}
        /\ \A p \in Prs :
              /\ closed[p].state = (IF p \in ActiveIn(LoadedRows(r)) THEN e
                                    ELSE LoadedRows(r)[p].state)
              /\ closed[p].authorized = LoadedRows(r)[p].authorized
    BY <1>1, EscalateActiveLemma
  <2>2. "timed_out" \notin ActiveStates
    BY DEF ActiveStates
  <2>3. \A p \in ActiveIn(LoadedRows(r)) : p \in ActiveIn(rows[r])
    BY <1>1, <2>2 DEF ActiveIn
  <2> HIDE DEF closed
  <2> QED
    BY <1>1, <2>1, <2>3 DEF Closing, closed
<1> QED
  BY <1>2, <1>3

LEMMA ReturnOwnership ==
    ASSUME TypeOK, NEW r \in Runs, \A q \in Runs : Ownership(q),
           TopKilled(r) \/ TopNothingActive(r) \/ TopTimedOut(r)
    PROVE  \A q \in Runs : Ownership(q)'
<1>1. {"killed", "timed_out"} \subseteq Escalations
  BY DEF Escalations
<1> QED
  BY <1>1, LoadedRowsClosing, FinishOwnership DEF TopKilled, TopNothingActive, TopTimedOut

LEMMA TopPollOwnership ==
    ASSUME TypeOK, NEW r \in Runs, TopPoll(r), \A q \in Runs : Ownership(q)
    PROVE  \A q \in Runs : Ownership(q)'
<1>1. ASSUME NEW q \in Runs \ {r} PROVE Ownership(q)'
  BY <1>1, UntouchedOwnership DEF TopPoll, Untouched, TypeOK, RegistryTypeOK
<1>2. /\ pc[r] = "top" /\ pc'[r] = "next" /\ todo[r] = {} /\ gh' = gh
      /\ rows'[r] = LoadedRows(r) /\ todo'[r] = ActiveIn(LoadedRows(r))
  BY DEF TopPoll, TypeOK, RegistryTypeOK, Ownership, UndecidedIsOpen
<1>3. \A p \in Prs :
          /\ rows'[r][p].authorized = rows[r][p].authorized
          /\ rows'[r][p].state \in ActiveStates => rows[r][p].state \in ActiveStates
          /\ rows'[r][p].state = "merged" => rows[r][p].state = "merged"
          /\ rows[r][p].state \in {"merged", "timed_out"} =>
                rows'[r][p].state = rows[r][p].state
  BY <1>2, LoadedRowsClosing DEF Closing, ActiveIn, ActiveStates, Escalations
<1>4. NotStarted(r)' /\ MergingIsVerified(r)'
  BY <1>2 DEF NotStarted, MergingIsVerified
<1>5. UndecidedIsOpen(r)'
  BY <1>2, <1>3 DEF Ownership, UndecidedIsOpen, ActiveIn, OpenStates, Undecided, Busy, InCall
<1>6. MergeIsAccountedFor(r)'
  <2>1. \A p \in Prs : gh[p].by = r => rows[r][p].state \in {"merged", "timed_out"}
    BY <1>2 DEF Ownership, MergeIsAccountedFor
  <2>2. \A p \in todo'[r] : rows'[r][p].state \notin {"merged", "timed_out"}
    BY <1>2 DEF ActiveIn, ActiveStates
  <2>3. Undecided(r)' = todo'[r]
    BY <1>2 DEF Undecided, Busy, InCall
  <2> QED
    BY <1>2, <1>3, <2>1, <2>2, <2>3 DEF Ownership, MergeIsAccountedFor
<1>7. NewsIsTrue(r)'
  BY <1>2, <1>3 DEF Ownership, NewsIsTrue
<1> QED
  BY <1>1, <1>4, <1>5, <1>6, <1>7 DEF Ownership

\* The candidate being processed has not been merged by the run, unless the
\* answer saying so is on its way.
LEMMA CurrentIsNotMerged ==
    ASSUME TypeOK, NEW r \in Runs, Ownership(r), pc[r] \in Busy,
           ~(pc[r] = "replying" /\ reply[r] = "200")
    PROVE  /\ cur[r] \in Prs /\ cur[r] \notin todo[r] /\ gh[cur[r]].by # r
           /\ rows[r][cur[r]].authorized /\ rows[r][cur[r]].state \in OpenStates(r)
<1>1. cur[r] \in Prs /\ cur[r] \in Undecided(r) /\ pc[r] \notin {"dead", "populating"}
  BY DEF TypeOK, Undecided, Busy, InCall
<1> QED
  BY <1>1 DEF Ownership, MergeIsAccountedFor, UndecidedIsOpen

\* The task leaves the candidate, with its row closed, still active, or as it was.
LEMMA CandidateLeftOwnership ==
    ASSUME TypeOK, NEW r \in Runs, Ownership(r), pc[r] \in InCall,
           ~(pc[r] = "replying" /\ reply[r] = "200"),
           NextCandidate(r), todo' = todo, gh' = gh, overrun' = overrun,
           \/ \E state \in Escalations \cup ActiveStates : SetCandidateState(r, cur[r], state)
           \/ UNCHANGED registry
    PROVE  Ownership(r)'
<1>1. /\ cur[r] \in Prs /\ cur[r] \notin todo[r] /\ gh[cur[r]].by # r
      /\ rows[r][cur[r]].authorized /\ rows[r][cur[r]].state \in OpenStates(r)
  BY CurrentIsNotMerged DEF Busy
<1>8. pc'[r] \in {"top", "next"} /\ (pc'[r] = "top" => todo[r] = {})
  BY DEF NextCandidate, TypeOK
<1>2. /\ \A x \in Prs \ {cur[r]} : rows'[r][x] = rows[r][x]
      /\ rows'[r][cur[r]].authorized
      /\ rows'[r][cur[r]].state # "merged"
  <2>1. ASSUME NEW state \in Escalations \cup ActiveStates, SetCandidateState(r, cur[r], state)
        PROVE  <1>2!:
    BY <1>1, <2>1, SetCandidateStateLemma DEF Escalations, ActiveStates
  <2>2. CASE UNCHANGED registry
    BY <1>1, <2>2, OpenStatesLemma DEF registry, ActiveStates
  <2> QED
    BY <2>1, <2>2
<1>3. Undecided(r)' = todo[r] /\ todo[r] \subseteq Undecided(r) /\ todo[r] \subseteq Prs
  BY <1>8 DEF Undecided, Busy, InCall, TypeOK
<1>4. NotStarted(r)' /\ MergingIsVerified(r)'
  BY <1>8 DEF NotStarted, MergingIsVerified
<1>5. UndecidedIsOpen(r)'
  <2>1. \A x \in ActiveIn(rows[r])' : rows'[r][x].authorized
    BY <1>2 DEF Ownership, UndecidedIsOpen, ActiveIn
  <2>2. \A x \in todo[r] : rows'[r][x] = rows[r][x]
    BY <1>1, <1>2, <1>3
  <2>3. pc[r] # "populating"
    BY DEF InCall
  <2> QED
    BY <1>3, <1>8, <2>1, <2>2, <2>3 DEF Ownership, UndecidedIsOpen, OpenStates, Busy, InCall
<1>6. MergeIsAccountedFor(r)'
  BY <1>1, <1>2, <1>3, <1>8 DEF Ownership, MergeIsAccountedFor, InCall
<1>7. NewsIsTrue(r)'
  BY <1>2, <1>8 DEF Ownership, NewsIsTrue
<1> QED
  BY <1>4, <1>5, <1>6, <1>7 DEF Ownership

\* Leaving a candidate touches no other run's task.
LEMMA NextCandidateLocal ==
    ASSUME TypeOK, NEW r \in Runs, NextCandidate(r), NEW q \in Runs \ {r}
    PROVE  /\ pc'[q] = pc[q] /\ snap'[q] = snap[q] /\ cur'[q] = cur[q]
           /\ verified'[q] = verified[q]
BY DEF NextCandidate, TypeOK

LEMMA HeadUnresolvedOwnership ==
    ASSUME TypeOK, NEW r \in Runs, HeadUnresolved(r), \A q \in Runs : Ownership(q)
    PROVE  \A q \in Runs : Ownership(q)'
<1>1. cur[r] \in Prs /\ pc[r] = "resolving"
  BY DEF HeadUnresolved, TypeOK, InCall
<1>2. ASSUME NEW q \in Runs \ {r} PROVE Ownership(q)'
  <2>1. rows'[q] = rows[q] /\ run' = run
    BY <1>1, SetCandidateStateLemma DEF HeadUnresolved
  <2> QED
    BY <2>1, NextCandidateLocal, UntouchedOwnership DEF HeadUnresolved, Untouched
<1>3. Ownership(r)'
  BY <1>1, CandidateLeftOwnership DEF HeadUnresolved, Escalations, InCall
<1> QED
  BY <1>2, <1>3

LEMMA ChecksReadOwnership ==
    ASSUME TypeOK, NEW r \in Runs, \A q \in Runs : Ownership(q),
           NoCheckRuns(r) \/ ChecksPending(r) \/ ChecksFailed(r) \/ ChecksGreen(r)
    PROVE  \A q \in Runs : Ownership(q)'
<1>1. cur[r] \in Prs /\ pc[r] = "checking" /\ UNCHANGED <<gh, overrun, todo, reply>>
  BY DEF NoCheckRuns, ChecksPending, ChecksFailed, ChecksGreen, TypeOK, InCall
<1>2. \/ UNCHANGED registry
      \/ \E state \in Escalations \cup ActiveStates : SetCandidateState(r, cur[r], state)
  BY DEF NoCheckRuns, ChecksPending, ChecksFailed, ChecksGreen, MarkCiRunning,
         Escalations, ActiveStates
<1>3. ASSUME NEW q \in Runs \ {r} PROVE Ownership(q)'
  <2>1. rows'[q] = rows[q] /\ run' = run
    BY <1>1, <1>2, SetCandidateStateLemma DEF registry
  <2>2. /\ pc'[q] = pc[q] /\ snap'[q] = snap[q] /\ cur'[q] = cur[q]
        /\ verified'[q] = verified[q]
    BY NextCandidateLocal DEF NoCheckRuns, ChecksPending, ChecksFailed, ChecksGreen, TypeOK
  <2> QED
    BY <1>1, <2>1, <2>2, UntouchedOwnership DEF Untouched
<1>4. CASE ~ChecksGreen(r)
  <2>1. NextCandidate(r)
    BY <1>4 DEF NoCheckRuns, ChecksPending, ChecksFailed
  <2>2. Ownership(r)'
    BY <1>1, <1>2, <2>1, CandidateLeftOwnership DEF InCall
  <2> QED
    BY <1>3, <2>2
<1>5. CASE ChecksGreen(r)
  <2>1. /\ pc'[r] = "merging" /\ UNCHANGED <<rows, run, snap, cur>>
        /\ verified'[r] = EvaluatedHead(r)
    BY <1>5 DEF ChecksGreen, registry, TypeOK
  <2>2. Undecided(r)' = Undecided(r) /\ EvaluatedHead(r)' = EvaluatedHead(r)
    BY <1>1, <2>1 DEF Undecided, EvaluatedHead, Busy, InCall
  <2>3. NotStarted(r)' /\ MergingIsVerified(r)'
    BY <1>1, <2>1, <2>2 DEF Ownership, NotStarted, MergingIsVerified
  <2>4. UndecidedIsOpen(r)'
    BY <1>1, <2>1, <2>2 DEF Ownership, UndecidedIsOpen, ActiveIn, OpenStates, Busy, InCall
  <2>5. MergeIsAccountedFor(r)' /\ NewsIsTrue(r)'
    BY <1>1, <2>1, <2>2 DEF Ownership, MergeIsAccountedFor, NewsIsTrue
  <2> QED
    BY <1>3, <2>3, <2>4, <2>5 DEF Ownership
<1> QED
  BY <1>4, <1>5

LEMMA GitHubMergesOwnership ==
    ASSUME TypeOK, NEW r \in Runs, GitHubMerges(r), \A q \in Runs : Ownership(q)
    PROVE  \A q \in Runs : Ownership(q)'
<1> DEFINE p == cur[r]
<1>1. /\ p \in Prs /\ pc[r] = "merging" /\ pc'[r] = "replying"
      /\ UNCHANGED <<rows, run, overrun, todo, snap, cur, verified>>
  BY DEF GitHubMerges, registry, TypeOK, InCall
<1>2. /\ gh[p].by # r
      /\ p \notin todo[r] /\ rows[r][p].authorized /\ rows[r][p].state \in OpenStates(r)
  BY <1>1, CurrentIsNotMerged DEF Busy, InCall
<1>3. gh[p] \in PullRequest
  BY <1>1 DEF TypeOK, GhTypeOK
<1>4. /\ \A x \in Prs \ {p} : gh'[x] = gh[x]
      /\ \/ reply'[r] # "200" /\ gh'[p] = gh[p]
         \/ /\ reply'[r] = "200" /\ gh[p].status = "open" /\ gh[p].head = EvaluatedHead(r)
            /\ gh'[p].status = "settled" /\ gh'[p].by = r /\ gh'[p].head = gh[p].head
  <2>1. CASE reply'[r] = "200"
    <3>1. /\ gh[p].status = "open" /\ gh[p].head = EvaluatedHead(r)
          /\ gh' = [gh EXCEPT ![p] = [gh[p] EXCEPT !.status = "settled", !.by = r]]
      BY <2>1 DEF GitHubMerges, MergeCall, TypeOK, MergeReplies
    <3>2. LET merged == [gh[p] EXCEPT !.status = "settled", !.by = r]
          IN  merged.status = "settled" /\ merged.by = r /\ merged.head = gh[p].head
      BY <1>3 DEF PullRequest
    <3> QED
      BY <1>1, <2>1, <3>1, <3>2 DEF TypeOK, GhTypeOK
  <2>2. CASE reply'[r] # "200"
    BY <2>2 DEF GitHubMerges, MergeCall, TypeOK, MergeReplies
  <2> QED
    BY <2>1, <2>2
<1>5. ASSUME NEW q \in Runs \ {r} PROVE Ownership(q)'
  <2>1. gh[p].by = q => gh[p].status = "settled"
    BY <1>1 DEF Ownership, MergeIsAccountedFor
  <2>2. pc'[q] = pc[q] /\ reply'[q] = reply[q]
    BY DEF GitHubMerges, TypeOK
  <2> QED
    BY <1>1, <1>4, <2>1, <2>2, UntouchedOwnership DEF Untouched
<1>6. Ownership(r)'
  <2>1. Undecided(r)' = Undecided(r) /\ p \in Undecided(r)
    BY <1>1 DEF Undecided, Busy, InCall
  <2>2. NotStarted(r)' /\ MergingIsVerified(r)'
    BY <1>1 DEF NotStarted, MergingIsVerified
  <2>3. UndecidedIsOpen(r)'
    BY <1>1, <2>1 DEF Ownership, UndecidedIsOpen, ActiveIn, OpenStates, Busy, InCall
  <2>4. \A x \in Prs \ {p} : gh'[x].by = r =>
            /\ gh'[x].status = "settled" /\ rows'[r][x].authorized
            /\ x \notin Undecided(r)' /\ rows'[r][x].state \in {"merged", "timed_out"}
    BY <1>1, <1>4, <2>1 DEF Ownership, MergeIsAccountedFor
  <2>6. MergeIsAccountedFor(r)'
    BY <1>1, <1>2, <1>4, <2>4 DEF MergeIsAccountedFor
  <2>7. NewsIsTrue(r)'
    BY <1>1, <1>2, <1>4 DEF Ownership, NewsIsTrue
  <2> QED
    BY <2>2, <2>3, <2>6, <2>7 DEF Ownership
<1> QED
  BY <1>5, <1>6

LEMMA MergeAnsweredOwnership ==
    ASSUME TypeOK, NEW r \in Runs, MergeAnswered(r), \A q \in Runs : Ownership(q)
    PROVE  \A q \in Runs : Ownership(q)'
<1> DEFINE p == cur[r]
<1>1. /\ p \in Prs /\ pc[r] = "replying" /\ pc'[r] \in {"top", "next"}
      /\ pc'[r] = "top" => todo[r] = {}
      /\ UNCHANGED <<gh, overrun, todo>> /\ NextCandidate(r)
  BY DEF MergeAnswered, NextCandidate, TypeOK, InCall
<1>2. \/ UNCHANGED registry
      \/ \E state : SetCandidateState(r, p, state)
  BY DEF MergeAnswered
<1>3. ASSUME NEW q \in Runs \ {r} PROVE Ownership(q)'
  <2>1. rows'[q] = rows[q] /\ run' = run
    BY <1>1, <1>2, SetCandidateStateLemma DEF registry
  <2>2. reply'[q] = reply[q]
    BY DEF MergeAnswered, TypeOK
  <2> QED
    BY <1>1, <2>1, <2>2, NextCandidateLocal, UntouchedOwnership DEF Untouched
<1>4. CASE reply[r] # "200"
  <2>1. \/ UNCHANGED registry
        \/ \E state \in Escalations \cup ActiveStates : SetCandidateState(r, p, state)
    BY <1>4 DEF MergeAnswered, Escalations
  <2> QED
    BY <1>1, <1>3, <1>4, <2>1, CandidateLeftOwnership DEF InCall
<1>5. CASE reply[r] = "200"
  <2>1. SetCandidateState(r, p, "merged")
    BY <1>5 DEF MergeAnswered
  <2>2. /\ \A x \in Prs \ {p} : rows'[r][x] = rows[r][x]
        /\ rows'[r][p].state = "merged" /\ rows'[r][p].authorized = rows[r][p].authorized
    BY <1>1, <2>1, SetCandidateStateLemma
  <2>3. gh[p].by = r
    BY <1>1, <1>5 DEF Ownership, NewsIsTrue
  <2>4. /\ Undecided(r)' = todo[r] /\ todo[r] \subseteq Undecided(r) /\ todo[r] \subseteq Prs
        /\ p \notin todo[r]
    BY <1>1 DEF Undecided, Busy, InCall, TypeOK, Ownership, UndecidedIsOpen
  <2>5. NotStarted(r)' /\ MergingIsVerified(r)'
    BY <1>1 DEF NotStarted, MergingIsVerified
  <2>6. UndecidedIsOpen(r)'
    <3>1. \A x \in ActiveIn(rows[r])' : rows'[r][x].authorized
      BY <2>2 DEF Ownership, UndecidedIsOpen, ActiveIn, ActiveStates
    <3>2. \A x \in todo[r] : rows'[r][x] = rows[r][x]
      BY <2>2, <2>4
    <3> QED
      BY <1>1, <2>4, <3>1, <3>2 DEF Ownership, UndecidedIsOpen, OpenStates, Busy, InCall
  <2>7. MergeIsAccountedFor(r)'
    BY <1>1, <2>2, <2>4 DEF Ownership, MergeIsAccountedFor
  <2>8. NewsIsTrue(r)'
    BY <1>1, <2>2, <2>3 DEF Ownership, NewsIsTrue
  <2> QED
    BY <1>3, <2>5, <2>6, <2>7, <2>8 DEF Ownership
<1> QED
  BY <1>4, <1>5

\* Steps that leave the task's run, rows and pull requests alone but end the
\* task, or change nothing that Ownership reads.
LEMMA TaskEndsOwnership ==
    ASSUME TypeOK, NEW r \in Runs, Ownership(r), pc[r] \in Live, pc'[r] = "dead",
           todo'[r] = {}, UNCHANGED <<rows, gh>>
    PROVE  Ownership(r)'
<1>1. NotStarted(r)' /\ MergingIsVerified(r)'
  BY DEF NotStarted, MergingIsVerified
<1>2. UndecidedIsOpen(r)'
  BY DEF Ownership, UndecidedIsOpen, ActiveIn, Undecided, Busy, InCall
<1>3. MergeIsAccountedFor(r)'
  <2>1. ASSUME NEW p \in Prs, gh[p].by = r
        PROVE  rows[r][p].state \in ActiveStates \cup {"merged", "timed_out"}
    <3>1. CASE pc[r] = "replying" /\ cur[r] = p
      BY <3>1, OpenStatesLemma DEF Ownership, UndecidedIsOpen, Undecided, Busy, InCall
    <3> QED
      BY <2>1, <3>1 DEF Ownership, MergeIsAccountedFor
  <2> QED
    BY <2>1 DEF Ownership, MergeIsAccountedFor, Undecided, Busy, InCall
<1>4. NewsIsTrue(r)'
  BY DEF Ownership, NewsIsTrue
<1> QED
  BY <1>1, <1>2, <1>3, <1>4 DEF Ownership

LEMMA CallRaisesOwnership ==
    ASSUME TypeOK, NEW r \in Runs, CallRaises(r), \A q \in Runs : Ownership(q)
    PROVE  \A q \in Runs : Ownership(q)'
<1>1. ASSUME NEW q \in Runs \ {r} PROVE Ownership(q)'
  BY <1>1, UntouchedOwnership DEF CallRaises, Forget, registry, Untouched, TypeOK
<1>2. Ownership(r)'
  BY TaskEndsOwnership DEF CallRaises, Forget, registry, TypeOK, Live
<1> QED
  BY <1>1, <1>2

LEMMA CrashOwnership ==
    ASSUME TypeOK, Crash, \A q \in Runs : Ownership(q)
    PROVE  \A q \in Runs : Ownership(q)'
<1> SUFFICES ASSUME NEW q \in Runs PROVE Ownership(q)'
  OBVIOUS
<1>1. CASE pc[q] \in Live
  BY <1>1, TaskEndsOwnership DEF Crash, registry
<1>2. CASE pc[q] \notin Live
  <2>1. /\ UNCHANGED <<rows, run, gh, overrun>> /\ pc'[q] = pc[q]
        /\ pc[q] \in {"idle", "done", "dead"} /\ todo'[q] = {} /\ todo[q] = {}
    BY <1>2 DEF Crash, registry, TypeOK, TaskPc, Ownership, UndecidedIsOpen
  <2>2. Undecided(q)' = {} /\ Undecided(q) = {}
    BY <2>1 DEF Undecided, Busy, InCall
  <2>3. NotStarted(q)' /\ UndecidedIsOpen(q)' /\ MergingIsVerified(q)'
    BY <2>1, <2>2 DEF Ownership, NotStarted, UndecidedIsOpen, MergingIsVerified, ActiveIn,
                      Busy, InCall
  <2>4. MergeIsAccountedFor(q)' /\ NewsIsTrue(q)'
    BY <2>1, <2>2 DEF Ownership, MergeIsAccountedFor, NewsIsTrue
  <2> QED
    BY <2>3, <2>4 DEF Ownership
<1> QED
  BY <1>1, <1>2

LEMMA AppendOwnership ==
    ASSUME TypeOK, NEW r \in Runs, AppendAuthorizationLine(r), \A q \in Runs : Ownership(q)
    PROVE  \A q \in Runs : Ownership(q)'
<1> DEFINE p == cur[r]
           reread == [rows[r][p] EXCEPT !.appended = TRUE]
<1>1. p \in Prs /\ pc[r] = "appending" /\ UNCHANGED <<run, gh, overrun, todo, reply>>
  BY DEF AppendAuthorizationLine, TypeOK
<1>2. /\ gh[p].by # r /\ p \notin todo[r]
      /\ rows[r][p].authorized /\ rows[r][p].state \in OpenStates(r)
  BY <1>1, CurrentIsNotMerged DEF Busy
<1>3. /\ \A x \in Prs : /\ rows'[r][x].state = rows[r][x].state
                        /\ rows'[r][x].authorized = rows[r][x].authorized
      /\ rows'[r][p].head = rows[r][p].head
      /\ \A q \in Runs \ {r} : rows'[q] = rows[q]
  <2>1. /\ reread.state = rows[r][p].state /\ reread.authorized = rows[r][p].authorized
        /\ reread.head = rows[r][p].head
    <3>1. rows[r][p] \in Candidate
      BY <1>1 DEF TypeOK, RegistryTypeOK
    <3> QED
      BY <3>1 DEF Candidate
  <2>2. rows' = [rows EXCEPT ![r] = [rows[r] EXCEPT ![p] = reread]]
    BY DEF AppendAuthorizationLine
  <2> HIDE DEF reread
  <2> QED
    BY <1>1, <2>1, <2>2 DEF TypeOK, RegistryTypeOK
<1>4. \/ NextCandidate(r)
      \/ /\ pc' = [pc EXCEPT ![r] = ReadHeadOrChecks(rows[r][p])]
         /\ snap' = [snap EXCEPT ![r] = [snap[r] EXCEPT ![p] = rows'[r][p]]]
         /\ UNCHANGED <<cur, verified>>
  BY DEF AppendAuthorizationLine
<1>5. ASSUME NEW q \in Runs \ {r} PROVE Ownership(q)'
  <2>1. pc'[q] = pc[q] /\ snap'[q] = snap[q] /\ cur'[q] = cur[q] /\ verified'[q] = verified[q]
    BY <1>4, NextCandidateLocal DEF TypeOK
  <2> QED
    BY <1>1, <1>3, <2>1, UntouchedOwnership DEF Untouched
<1>6. Ownership(r)'
  <2>1. /\ pc'[r] \in {"top", "next", "resolving", "checking"}
        /\ pc'[r] = "top" => todo[r] = {}
        /\ pc'[r] \in Busy => cur'[r] = p
        /\ pc'[r] = "checking" => rows[r][p].head # NoSha /\ snap'[r][p] = rows'[r][p]
    BY <1>1, <1>4 DEF NextCandidate, ReadHeadOrChecks, TypeOK, Busy, InCall
  <2>2. Undecided(r)' \subseteq Undecided(r) /\ Undecided(r) \subseteq Prs
    BY <1>1, <2>1 DEF Undecided, Busy, InCall, TypeOK
  <2>3. NotStarted(r)' /\ MergingIsVerified(r)'
    BY <1>3, <2>1 DEF NotStarted, MergingIsVerified, EvaluatedHead, Busy, InCall
  <2>4. UndecidedIsOpen(r)'
    BY <1>1, <1>2, <1>3, <2>1, <2>2
       DEF Ownership, UndecidedIsOpen, ActiveIn, OpenStates, Busy, InCall
  <2>5. MergeIsAccountedFor(r)'
    BY <1>1, <1>3, <2>1, <2>2 DEF Ownership, MergeIsAccountedFor
  <2>6. NewsIsTrue(r)'
    BY <1>1, <1>3, <2>1 DEF Ownership, NewsIsTrue
  <2> QED
    BY <2>3, <2>4, <2>5, <2>6 DEF Ownership
<1> QED
  BY <1>5, <1>6

LEMMA HeadResolvedOwnership ==
    ASSUME TypeOK, NEW r \in Runs, HeadResolved(r), \A q \in Runs : Ownership(q)
    PROVE  \A q \in Runs : Ownership(q)'
<1> DEFINE p == cur[r]
           stored == [rows[r] EXCEPT ![p].head = gh[p].head]
           loaded == IF Stale(r) THEN EscalateActive(stored, "timed_out") ELSE stored
<1>1. /\ p \in Prs /\ pc[r] = "resolving" /\ pc'[r] = "checking"
      /\ UNCHANGED <<gh, todo, cur, reply, verified>>
  BY DEF HeadResolved, TypeOK, InCall
<1>2. stored \in RowTable /\ \A x \in Prs : stored[x].state = rows[r][x].state
                                            /\ stored[x].authorized = rows[r][x].authorized
  <2> DEFINE c == [rows[r][p] EXCEPT !.head = gh[p].head]
  <2>1. rows[r][p] \in Candidate /\ gh[p].head \in Shas /\ rows[r] \in RowTable
    BY <1>1 DEF TypeOK, RegistryTypeOK, GhTypeOK, PullRequest, RowTable
  <2>2. c \in Candidate
    BY <2>1, CandidateColumns
  <2>3. c.state = rows[r][p].state /\ c.authorized = rows[r][p].authorized
    BY <2>1 DEF Candidate
  <2>4. stored = [rows[r] EXCEPT ![p] = c]
    OBVIOUS
  <2> HIDE DEF c, stored
  <2> QED
    BY <1>1, <2>1, <2>2, <2>3, <2>4 DEF RowTable
<1>3. stored[p].head # NoSha
  <2>1. gh[p].head \in Shas /\ rows[r][p] \in Candidate /\ rows[r] \in RowTable
    BY <1>1 DEF TypeOK, RegistryTypeOK, GhTypeOK, PullRequest, RowTable
  <2>2. [rows[r][p] EXCEPT !.head = gh[p].head].head = gh[p].head
    BY <2>1 DEF Candidate
  <2> QED
    BY <1>1, <2>1, <2>2 DEF RowTable, Shas, NoSha
<1>4. /\ loaded[p].head # NoSha
      /\ \A x \in Prs :
            /\ loaded[x].authorized = rows[r][x].authorized
            /\ \/ loaded[x].state = rows[r][x].state
               \/ /\ Stale(r) /\ rows[r][x].state \in ActiveStates
                  /\ loaded[x].state = "timed_out"
  <2> HIDE DEF stored
  <2>1. ActiveIn(stored) = ActiveIn(rows[r])
    BY <1>2 DEF ActiveIn
  <2>2. CASE Stale(r)
    BY <1>1, <1>2, <1>3, <2>1, <2>2, EscalateActiveLemma DEF Escalations, ActiveIn
  <2> QED
    BY <1>2, <1>3, <2>2
<1>5. /\ rows'[r] = loaded /\ snap'[r][p] = loaded[p]
      /\ \A q \in Runs \ {r} : /\ rows'[q] = rows[q] /\ snap'[q] = snap[q] /\ pc'[q] = pc[q]
                               /\ run'[q] = run[q] /\ (q \in overrun' <=> q \in overrun)
      /\ overrun \subseteq overrun' /\ (Stale(r) => r \in overrun')
  <2>1. rows' = [rows EXCEPT ![r] = loaded] /\ snap' = [snap EXCEPT ![r] = [snap[r] EXCEPT ![p] = loaded[p]]]
    BY DEF HeadResolved
  <2>2. run' = [run EXCEPT ![r].state = LoadedState(r)] /\ pc' = [pc EXCEPT ![r] = "checking"]
    BY DEF HeadResolved
  <2>3. overrun' = overrun \cup (IF Stale(r) THEN {r} ELSE {})
    BY <1>1 DEF HeadResolved, LoadedWhileStale, Live, InCall
  <2> HIDE DEF loaded
  <2> QED
    BY <1>1, <2>1, <2>2, <2>3 DEF TypeOK, RegistryTypeOK
<1> HIDE DEF stored, loaded
<1>6. ASSUME NEW q \in Runs \ {r} PROVE Ownership(q)'
  BY <1>1, <1>5, UntouchedOwnership DEF Untouched
<1>7. Ownership(r)'
  <2>1. /\ gh[p].by # r /\ p \notin todo[r]
    BY <1>1, CurrentIsNotMerged DEF Busy, InCall
  <2>2. Undecided(r)' = Undecided(r) /\ Undecided(r) \subseteq Prs
    BY <1>1 DEF Undecided, Busy, InCall, TypeOK
  <2>3. NotStarted(r)' /\ MergingIsVerified(r)'
    BY <1>1, <1>4, <1>5 DEF NotStarted, MergingIsVerified, EvaluatedHead
  <2>4. \A x \in Prs : /\ rows'[r][x].state \in ActiveStates => rows[r][x].state \in ActiveStates
                       /\ rows[r][x].state \in OpenStates(r) => rows'[r][x].state \in OpenStates(r)'
                       /\ rows'[r][x].authorized = rows[r][x].authorized
    BY <1>4, <1>5 DEF OpenStates, ActiveStates
  <2>5. UndecidedIsOpen(r)'
    BY <1>1, <2>2, <2>4 DEF Ownership, UndecidedIsOpen, ActiveIn, Busy, InCall
  <2>6. MergeIsAccountedFor(r)'
    BY <1>1, <1>4, <1>5, <2>2, <2>4 DEF Ownership, MergeIsAccountedFor, ActiveStates
  <2>7. NewsIsTrue(r)'
    BY <1>1, <1>4, <1>5 DEF Ownership, NewsIsTrue
  <2> QED
    BY <2>3, <2>5, <2>6, <2>7 DEF Ownership
<1> QED
  BY <1>6, <1>7

LEMMA PageLoadsOwnership ==
    ASSUME TypeOK, NEW r \in Runs, PageLoads(r), \A q \in Runs : Ownership(q)
    PROVE  \A q \in Runs : Ownership(q)'
<1>1. /\ rows'[r] = LoadedRows(r)
      /\ \A q \in Runs \ {r} : rows'[q] = rows[q] /\ run'[q] = run[q]
      /\ run[r].state = "running"
      /\ UNCHANGED <<gh, pc, todo, snap, cur, reply, verified>>
      /\ overrun' = overrun \cup (IF pc[r] \in Live THEN {r} ELSE {})
  BY DEF PageLoads, LoadActionRun, LoadedWhileStale, Stale, task, TypeOK, RegistryTypeOK
<1>2. \A p \in Prs :
          /\ rows'[r][p].authorized = rows[r][p].authorized
          /\ \/ rows'[r][p].state = rows[r][p].state
             \/ rows[r][p].state \in ActiveStates /\ rows'[r][p].state = "timed_out"
  BY <1>1, LoadedRowsLemma DEF ActiveIn
<1>3. Undecided(r)' = Undecided(r) /\ Undecided(r) \subseteq Prs
  BY <1>1 DEF Undecided, TypeOK, Busy
<1>4. ASSUME NEW q \in Runs \ {r} PROVE Ownership(q)'
  BY <1>1, UntouchedOwnership DEF Untouched
<1>5. NotStarted(r)' /\ MergingIsVerified(r)'
  <2>1. \A p \in Prs : rows[r][p] = NoRow => rows'[r][p] = NoRow
    BY <1>1, LoadedRowsLemma DEF LoadedRows, EscalateActive, ActiveIn, ActiveStates, NoRow
  <2>2. NotStarted(r)'
    BY <1>1, <2>1 DEF Ownership, NotStarted, TypeOK
  <2> QED
    BY <1>1, <2>2 DEF Ownership, MergingIsVerified, EvaluatedHead
<1>6. UndecidedIsOpen(r)'
  <2>1. \A p \in ActiveIn(rows[r])' : rows'[r][p].authorized
    BY <1>2 DEF Ownership, UndecidedIsOpen, ActiveIn, ActiveStates
  <2>2. ASSUME NEW p \in Undecided(r), pc[r] # "populating"
        PROVE  rows'[r][p].authorized /\ rows'[r][p].state \in OpenStates(r)'
    <3>1. CASE pc[r] \in Live
      BY <1>1, <1>2, <1>3, <2>2, <3>1 DEF Ownership, UndecidedIsOpen, OpenStates
    <3>2. CASE pc[r] \notin Live
      <4>1. pc[r] \in {"idle", "done", "dead"}
        BY <3>2 DEF TypeOK, TaskPc
      <4> QED
        BY <2>2, <4>1 DEF Ownership, UndecidedIsOpen, Undecided, Busy, InCall
    <3> QED
      BY <3>1, <3>2
  <2> QED
    BY <1>1, <1>3, <2>1, <2>2 DEF Ownership, UndecidedIsOpen
<1>7. MergeIsAccountedFor(r)'
  <2>1. pc[r] = "dead" => Undecided(r) = {}
    BY DEF Ownership, UndecidedIsOpen, Undecided, Busy, InCall
  <2> QED
    BY <1>1, <1>2, <1>3, <2>1 DEF Ownership, MergeIsAccountedFor, ActiveStates
<1>8. NewsIsTrue(r)'
  BY <1>1, <1>2 DEF Ownership, NewsIsTrue
<1> QED
  BY <1>4, <1>5, <1>6, <1>7, <1>8 DEF Ownership

\* People and CI neither merge on behalf of a run nor touch what is merged.
LEMMA GitHubChangesOwnership ==
    ASSUME TypeOK, GitHubChanges, \A q \in Runs : Ownership(q)
    PROVE  \A q \in Runs : Ownership(q)'
<1> SUFFICES ASSUME NEW q \in Runs PROVE Ownership(q)'
  OBVIOUS
<1>1. PICK p \in Prs : Push(p) \/ SettledByHand(p)
  BY DEF GitHubChanges, GhEnvironment
<1>2. gh[p] \in PullRequest
  BY DEF TypeOK, GhTypeOK
<1>3. /\ \A x \in Prs \ {p} : gh'[x] = gh[x]
      /\ gh[p].status = "settled" => gh'[p] = gh[p]
      /\ gh'[p].by = gh[p].by
  <2>1. CASE Push(p)
    <3>1. [gh[p] EXCEPT !.head = gh[p].head + 1].by = gh[p].by
      BY <1>2 DEF PullRequest
    <3>2. gh[p].status = "open" /\ gh' = [gh EXCEPT ![p] = [gh[p] EXCEPT !.head = gh[p].head + 1]]
      BY <2>1 DEF Push
    <3> QED
      BY <3>1, <3>2 DEF TypeOK, GhTypeOK
  <2>2. CASE SettledByHand(p)
    <3>1. gh' = [gh EXCEPT ![p] = [gh[p] EXCEPT !.status = "settled"]]
      BY <2>2 DEF SettledByHand
    <3>2. [gh[p] EXCEPT !.status = "settled"].by = gh[p].by /\ gh[p].status = "open"
      BY <1>2, <2>2 DEF PullRequest, SettledByHand
    <3> QED
      BY <3>1, <3>2 DEF TypeOK, GhTypeOK
  <2> QED
    BY <1>1, <2>1, <2>2
<1>4. gh[p].by = q => gh[p].status = "settled"
  BY DEF Ownership, MergeIsAccountedFor
<1> QED
  BY <1>3, <1>4, UntouchedOwnership DEF GitHubChanges, registry, task, Untouched

LEMMA NextOwnership ==
    ASSUME MergeInvariant, [Next]_vars
    PROVE  \A q \in Runs : Ownership(q)'
<1>1. TypeOK /\ \A q \in Runs : Ownership(q)
  BY DEF MergeInvariant
<1>2. ASSUME NEW r \in Runs, TaskStep(r) PROVE \A q \in Runs : Ownership(q)'
  BY <1>1, <1>2, AddCandidateOwnership, TaskMovesOwnership, ReturnOwnership,
     TopPollOwnership, AppendOwnership, HeadUnresolvedOwnership, HeadResolvedOwnership,
     ChecksReadOwnership, GitHubMergesOwnership, MergeAnsweredOwnership DEF TaskStep
<1>3. CASE Tick \/ UNCHANGED vars
  BY <1>1, <1>3, UntouchedOwnership DEF Tick, vars, registry, task, Untouched
<1> QED
  BY <1>1, <1>2, <1>3, StartRunOwnership, PageLoadsOwnership, CallRaisesOwnership,
     CrashOwnership, GitHubChangesOwnership DEF Next

-----------------------------------------------------------------------------
(* Runs finalised under their tasks, and runs completed in time. *)

\* A step of one task leaves the other runs, and the clock, alone.
LEMMA TaskStepLocal ==
    ASSUME TypeOK, NEW r \in Runs, TaskStep(r), NEW q \in Runs \ {r}
    PROVE  /\ now' = now /\ run'[q] = run[q] /\ rows'[q] = rows[q] /\ pc'[q] = pc[q]
           /\ q \in overrun' <=> q \in overrun
<1>1. CASE TopKilled(r) \/ TopNothingActive(r) \/ TopTimedOut(r) \/ TopPoll(r)
  BY <1>1 DEF TopKilled, TopNothingActive, TopTimedOut, Finish, TopPoll, TypeOK, RegistryTypeOK
<1>2. CASE HeadResolved(r)
  BY <1>2 DEF HeadResolved, LoadedWhileStale, TypeOK, RegistryTypeOK
<1>3. CASE AppendAuthorizationLine(r)
  BY <1>3, NextCandidateLocal DEF AppendAuthorizationLine, TypeOK, RegistryTypeOK
<1>4. CASE \E p \in Prs : AddCandidate(r, p)
  BY <1>4 DEF AddCandidate, AddActionRunCandidate, TypeOK, RegistryTypeOK
<1>5. CASE Spawn(r) \/ GitHubMerges(r) \/ \E p \in Prs : Begin(r, p)
  BY <1>5 DEF Spawn, GitHubMerges, Begin, registry, TypeOK
<1>6. CASE \/ HeadUnresolved(r) \/ NoCheckRuns(r) \/ ChecksPending(r) \/ ChecksFailed(r)
           \/ ChecksGreen(r) \/ MergeAnswered(r)
  <2>1. cur[r] \in Prs
    BY <1>6 DEF HeadUnresolved, NoCheckRuns, ChecksPending, ChecksFailed, ChecksGreen,
                MergeAnswered, TypeOK, InCall
  <2>2. UNCHANGED registry \/ \E state : SetCandidateState(r, cur[r], state)
    BY <1>6 DEF HeadUnresolved, NoCheckRuns, ChecksPending, ChecksFailed, ChecksGreen,
                MergeAnswered, MarkCiRunning
  <2>3. now' = now /\ overrun' = overrun /\ pc'[q] = pc[q]
    BY <1>6, NextCandidateLocal
       DEF HeadUnresolved, NoCheckRuns, ChecksPending, ChecksFailed, ChecksGreen,
           MergeAnswered, TypeOK
  <2> QED
    BY <2>1, <2>2, <2>3, SetCandidateStateLemma DEF registry
<1> QED
  BY <1>1, <1>2, <1>3, <1>4, <1>5, <1>6 DEF TaskStep

\* A step after which the task goes on leaves the state of its run as it is,
\* unless the run is finalised under it.
LEMMA TaskGoesOn ==
    ASSUME TypeOK, NEW r \in Runs, TaskStep(r),
           ~(TopKilled(r) \/ TopNothingActive(r) \/ TopTimedOut(r))
    PROVE  /\ pc[r] \in Live /\ pc'[r] \in Live
           /\ pc'[r] = "populating" => pc[r] = "populating"
           /\ run'[r].created = run[r].created
           /\ overrun \subseteq overrun'
           /\ r \notin overrun' => run'[r].state = run[r].state
           /\ pc[r] = "populating" => overrun' = overrun
<1>1. CASE TopPoll(r)
  <2>1. ~Stale(r)
    BY <1>1, LoadedRowsLemma DEF TopPoll
  <2> QED
    BY <1>1, <2>1 DEF TopPoll, LoadedState, TypeOK, RegistryTypeOK, ActionRun, Live
<1>2. CASE HeadResolved(r)
  <2>1. /\ pc[r] = "resolving" /\ pc'[r] = "checking"
        /\ run' = [run EXCEPT ![r].state = LoadedState(r)]
        /\ overrun' = overrun \cup (IF Stale(r) THEN {r} ELSE {})
    BY <1>2 DEF HeadResolved, LoadedWhileStale, TypeOK, Live, InCall
  <2> QED
    BY <2>1 DEF LoadedState, TypeOK, RegistryTypeOK, ActionRun, Live, InCall
<1>3. CASE AppendAuthorizationLine(r)
  BY <1>3 DEF AppendAuthorizationLine, NextCandidate, ReadHeadOrChecks, TypeOK, Live, InCall
<1>4. CASE \E p \in Prs : AddCandidate(r, p)
  BY <1>4 DEF AddCandidate, AddActionRunCandidate, Live
<1>5. CASE Spawn(r) \/ GitHubMerges(r) \/ \E p \in Prs : Begin(r, p)
  BY <1>5 DEF Spawn, GitHubMerges, Begin, ReadHeadOrChecks, registry, TypeOK, Live, InCall
<1>6. CASE \/ HeadUnresolved(r) \/ NoCheckRuns(r) \/ ChecksPending(r) \/ ChecksFailed(r)
           \/ ChecksGreen(r) \/ MergeAnswered(r)
  <2>1. run' = run /\ overrun' = overrun
    BY <1>6 DEF HeadUnresolved, NoCheckRuns, ChecksPending, ChecksFailed, ChecksGreen,
                MergeAnswered, MarkCiRunning, SetCandidateState, registry
  <2>2. pc[r] \in {"resolving", "checking", "replying"} /\ pc'[r] \in {"top", "next", "merging"}
    BY <1>6 DEF HeadUnresolved, NoCheckRuns, ChecksPending, ChecksFailed, ChecksGreen,
                MergeAnswered, NextCandidate, TypeOK
  <2> QED
    BY <2>1, <2>2 DEF Live, InCall
<1> QED
  BY <1>1, <1>2, <1>3, <1>4, <1>5, <1>6 DEF TaskStep

\* A task that returns leaves no row of its run active.
LEMMA ReturnSettles ==
    ASSUME TypeOK, NEW r \in Runs, TopKilled(r) \/ TopNothingActive(r) \/ TopTimedOut(r)
    PROVE  /\ ActiveIn(rows'[r]) = {} /\ pc'[r] = "done" /\ overrun' = overrun
<1>1. PICK table : Finish(r, table) /\ ActiveIn(table) = {}
  <2>1. \A e \in {"killed", "timed_out"} : ActiveIn(EscalateActive(LoadedRows(r), e)) = {}
    BY LoadedRowsClosing DEF Escalations
  <2> QED
    BY <2>1 DEF TopKilled, TopNothingActive, TopTimedOut
<1> QED
  BY <1>1 DEF Finish, TypeOK, RegistryTypeOK

\* The registry, the overruns and the task's place are all InTime reads of a run.
LEMMA SteadyInTime ==
    ASSUME TypeOK, NEW q \in Runs, InTime(q), now' = now, run'[q] = run[q],
           rows'[q] = rows[q], q \in overrun' <=> q \in overrun,
           pc'[q] = pc[q] \/ pc'[q] = "dead"
    PROVE  InTime(q)'
BY DEF InTime, ActiveIn, Live, InCall

LEMMA NextInTime ==
    ASSUME MergeInvariant, [Next]_vars
    PROVE  \A q \in Runs : InTime(q)'
<1>1. TypeOK /\ \A q \in Runs : Ownership(q) /\ InTime(q)
  BY DEF MergeInvariant
<1>2. ASSUME NEW r \in Runs, StartRun(r) PROVE \A q \in Runs : InTime(q)'
  <2>1. /\ run'[r] = [state |-> "running", created |-> now] /\ now' = now
        /\ pc[r] = "idle" /\ pc'[r] = "populating" /\ overrun' = overrun
        /\ \A q \in Runs \ {r} : run'[q] = run[q] /\ rows'[q] = rows[q] /\ pc'[q] = pc[q]
    BY <1>1, <1>2 DEF StartRun, CreateActionRun, TypeOK, RegistryTypeOK
  <2>2. InTime(r)'
    BY <1>1, <2>1 DEF InTime
  <2> QED
    BY <1>1, <2>1, <2>2, SteadyInTime
<1>3. ASSUME NEW r \in Runs, TaskStep(r) PROVE \A q \in Runs : InTime(q)'
  <2>1. ASSUME NEW q \in Runs \ {r} PROVE InTime(q)'
    BY <1>1, <1>3, <2>1, TaskStepLocal, SteadyInTime
  <2>2. InTime(r)'
    <3>1. CASE TopKilled(r) \/ TopNothingActive(r) \/ TopTimedOut(r)
      BY <1>1, <3>1, ReturnSettles DEF InTime, ActiveIn, Live, InCall
    <3>2. CASE ~(TopKilled(r) \/ TopNothingActive(r) \/ TopTimedOut(r))
      <4>1. /\ pc[r] \in Live /\ pc'[r] \in Live
            /\ pc'[r] = "populating" => pc[r] = "populating"
            /\ run'[r].created = run[r].created /\ overrun \subseteq overrun'
            /\ r \notin overrun' => run'[r].state = run[r].state
            /\ pc[r] = "populating" => overrun' = overrun
        BY <1>1, <1>3, <3>2, TaskGoesOn
      <4>2. now' = now
        BY <1>3 DEF TaskStep, AddCandidate, Spawn, TopKilled, TopNothingActive, TopTimedOut,
                    Finish, TopPoll, Begin, AppendAuthorizationLine, HeadUnresolved,
                    HeadResolved, NoCheckRuns, ChecksPending, ChecksFailed, ChecksGreen,
                    GitHubMerges, MergeAnswered
      <4> QED
        BY <1>1, <4>1, <4>2 DEF InTime, Live, InCall
    <3> QED
      BY <3>1, <3>2
  <2> QED
    BY <2>1, <2>2
<1>4. ASSUME NEW r \in Runs, PageLoads(r) PROVE \A q \in Runs : InTime(q)'
  <2>1. /\ rows'[r] = LoadedRows(r) /\ Stale(r) /\ now' = now /\ pc' = pc
        /\ run'[r].created = run[r].created /\ run'[r].state = "completed"
        /\ overrun' = overrun \cup (IF pc[r] \in Live THEN {r} ELSE {})
        /\ \A q \in Runs \ {r} : run'[q] = run[q] /\ rows'[q] = rows[q]
    BY <1>1, <1>4 DEF PageLoads, LoadActionRun, LoadedWhileStale, task, TypeOK,
                      RegistryTypeOK, ActionRun
  <2>2. ActiveIn(rows'[r]) = {}
    BY <1>1, <2>1, LoadedRowsLemma
  <2>3. pc[r] \notin {"idle", "populating"}
    BY <1>1, <2>1, MergeParametersAssumption
       DEF InTime, Ownership, NotStarted, Stale, TypeOK, RegistryTypeOK, ActionRun
  <2>4. InTime(r)'
    BY <2>1, <2>2, <2>3 DEF InTime, ActiveIn
  <2> QED
    BY <1>1, <2>1, <2>4, SteadyInTime
<1>5. CASE Tick
  <2>1. /\ UNCHANGED <<run, rows, pc, overrun>>
        /\ \A r \in Runs : pc[r] # "populating"
    BY <1>5 DEF Tick, registry, task
  <2> QED
    BY <1>1, <2>1 DEF InTime, ActiveIn
<1>6. CASE UNCHANGED vars \/ Crash \/ GitHubChanges \/ \E r \in Runs : CallRaises(r)
  <2>1. /\ UNCHANGED <<run, rows, now, overrun>>
        /\ \A q \in Runs : pc'[q] = pc[q] \/ pc'[q] = "dead"
    BY <1>1, <1>6 DEF vars, Crash, GitHubChanges, CallRaises, registry, task, TypeOK
  <2> QED
    BY <1>1, <2>1, SteadyInTime
<1> QED
  BY <1>2, <1>3, <1>4, <1>5, <1>6 DEF Next

-----------------------------------------------------------------------------
(* The theorems. *)

\* MergeInvariant is an inductive invariant of the merge task.
THEOREM MergeInvariantHolds == Spec => []MergeInvariant
<1>1. Init => MergeInvariant
  <2> SUFFICES ASSUME Init PROVE MergeInvariant
    OBVIOUS
  <2>1. \A r \in Runs : InTime(r)
    BY DEF Init, RegistryInit, InTime, Live, InCall
  <2> QED
    BY <2>1, InitTypeOK, InitOwnership DEF MergeInvariant
<1>2. MergeInvariant /\ [Next]_vars => MergeInvariant'
  <2> SUFFICES ASSUME MergeInvariant, [Next]_vars PROVE MergeInvariant'
    OBVIOUS
  <2>1. TypeOK'
    BY NextTypeOK DEF MergeInvariant
  <2>2. \A r \in Runs : Ownership(r)'
    BY NextOwnership
  <2>3. \A r \in Runs : InTime(r)'
    BY NextInTime
  <2> QED
    BY <2>1, <2>2, <2>3 DEF MergeInvariant
<1> QED
  BY <1>1, <1>2, PTL DEF Spec

LEMMA InvariantImpliesSafety ==
    MergeInvariant => MergedRowIsTrue /\ EscalatedWasNotMerged /\ CompletedRunIsSettled
<1> SUFFICES ASSUME MergeInvariant
             PROVE  MergedRowIsTrue /\ EscalatedWasNotMerged /\ CompletedRunIsSettled
  OBVIOUS
<1>1. \A r \in Runs : Ownership(r)
  BY DEF MergeInvariant
<1>2. MergedRowIsTrue
  BY <1>1 DEF Ownership, NewsIsTrue, MergedRowIsTrue
<1>3. ASSUME NEW r \in Runs, NEW p \in Prs, gh[p].by = r
      PROVE  rows[r][p].state \notin Escalations \ {"timed_out"}
  <2>1. rows[r][p].state \in ActiveStates \cup {"merged", "timed_out"}
    <3>1. CASE pc[r] = "replying" /\ cur[r] = p
      BY <1>1, <3>1, OpenStatesLemma DEF Ownership, UndecidedIsOpen, Undecided, Busy, InCall
    <3> QED
      BY <1>1, <1>3, <3>1 DEF Ownership, MergeIsAccountedFor
  <2> QED
    BY <2>1 DEF ActiveStates, Escalations
<1>4. CompletedRunIsSettled
  BY DEF MergeInvariant, InTime, CompletedRunIsSettled
<1> QED
  BY <1>2, <1>3, <1>4 DEF EscalatedWasNotMerged

\* A row that says merged tells the truth, for any number of runs over the
\* same pull requests.
THEOREM MergedRowsAreTrue == Spec => []MergedRowIsTrue
BY MergeInvariantHolds, InvariantImpliesSafety, PTL

\* A row closed with an escalation other than timed_out belongs to a pull
\* request the run did not merge.
THEOREM EscalatedRowsAreTrue == Spec => []EscalatedWasNotMerged
BY MergeInvariantHolds, InvariantImpliesSafety, PTL

\* What a row says of its merge is true in both directions.
THEOREM RowsAreTrue == Spec => []RowsTellTheTruth
<1>1. MergeInvariant => RowsTellTheTruth
  BY InvariantImpliesSafety DEF RowsTellTheTruth
<1> QED
  BY MergeInvariantHolds, <1>1, PTL

\* A completed run has no active candidate, but while the task of a run that
\* was finalised under it has not returned.
THEOREM CompletedRunsAreSettled == Spec => []CompletedRunIsSettled
<1>1. MergeInvariant => CompletedRunIsSettled
  BY InvariantImpliesSafety
<1> QED
  BY <1>1, MergeInvariantHolds, PTL

\* A step that merges a pull request is the PUT of the run that saw its head
\* green, for a candidate that is authorized.
LEMMA MergeStepIsVerified ==
    ASSUME MergeInvariant, [Next]_vars, NEW r \in Runs, NEW p \in Prs,
           gh'[p].by = r, gh[p].by # r
    PROVE  cur[r] = p /\ gh[p].head = verified[r] /\ rows[r][p].authorized
<1>1. gh \in [Prs -> PullRequest] /\ gh[p].by # gh'[p].by
  BY DEF MergeInvariant, TypeOK, GhTypeOK
<1>2. PICK q \in Runs : GitHubMerges(q)
  <2>1. CASE GitHubChanges
    <3>1. PICK x \in Prs : Push(x) \/ SettledByHand(x)
      BY <2>1 DEF GitHubChanges, GhEnvironment
    <3>2. gh'[p].by = gh[p].by
      BY <1>1, <3>1 DEF Push, SettledByHand, PullRequest
    <3> QED
      BY <1>1, <3>2
  <2>2. ASSUME NEW q \in Runs, TaskStep(q), ~GitHubMerges(q) PROVE gh' = gh
    BY <2>2 DEF TaskStep, AddCandidate, Spawn, TopKilled, TopNothingActive, TopTimedOut,
                Finish, TopPoll, Begin, AppendAuthorizationLine, HeadUnresolved,
                HeadResolved, NoCheckRuns, ChecksPending, ChecksFailed, ChecksGreen,
                MergeAnswered
  <2>3. ASSUME \/ (\E q \in Runs : StartRun(q) \/ CallRaises(q) \/ PageLoads(q))
               \/ Crash \/ Tick \/ UNCHANGED vars
        PROVE  gh' = gh
    BY <2>3 DEF StartRun, CallRaises, PageLoads, Crash, Tick, vars
  <2> QED
    BY <1>1, <2>1, <2>2, <2>3 DEF Next
<1>3. /\ pc[q] = "merging" /\ cur[q] \in Prs
      /\ \/ gh' = gh
         \/ /\ gh[cur[q]].head = EvaluatedHead(q)
            /\ gh' = [gh EXCEPT ![cur[q]] =
                         [gh[cur[q]] EXCEPT !.status = "settled", !.by = q]]
  <2>1. TypeOK /\ pc[q] = "merging"
    BY <1>2 DEF GitHubMerges, MergeInvariant
  <2>2. cur[q] \in Prs
    BY <2>1 DEF TypeOK, InCall
  <2> QED
    BY <1>2, <2>1, <2>2 DEF GitHubMerges, MergeCall
<1>4. cur[q] = p /\ q = r /\ gh[p].head = EvaluatedHead(q)
  <2>1. cur[q] = p
    BY <1>1, <1>3
  <2>2. [gh[p] EXCEPT !.status = "settled", !.by = q].by = q
    BY <1>1 DEF PullRequest
  <2> QED
    BY <1>1, <1>3, <2>1, <2>2
<1>5. verified[q] = EvaluatedHead(q) /\ rows[q][cur[q]].authorized
  BY <1>3 DEF MergeInvariant, Ownership, MergingIsVerified, UndecidedIsOpen, Undecided,
              Busy, InCall
<1> QED
  BY <1>4, <1>5

\* Whatever is merged was authorized and seen green by the run that merged it.
THEOREM MergesAreVerified == Spec => MergedWasVerified
<1>1. MergeInvariant /\ [Next]_vars =>
          [\A r \in Runs, p \in Prs :
              gh'[p].by = r /\ gh[p].by # r =>
                  cur[r] = p /\ gh[p].head = verified[r] /\ rows[r][p].authorized]_vars
  BY MergeStepIsVerified
<1> QED
  BY <1>1, MergeInvariantHolds, PTL DEF Spec, MergedWasVerified

-----------------------------------------------------------------------------
(* Settled rows are final. *)

\* One step changes the state of a settled row only when the row is timed out
\* and its run was finalised under its task.
LEMMA SettledStays ==
    ASSUME MergeInvariant, [Next]_vars, NEW r \in Runs, NEW p \in Prs,
           rows[r][p].state \in TERMINAL_CANDIDATE_STATES
    PROVE  \/ rows'[r][p].state = rows[r][p].state
           \/ rows[r][p].state = "timed_out" /\ r \in overrun
<1>1. TypeOK /\ Ownership(r)
  BY DEF MergeInvariant
<1>2. rows[r][p].state # "absent" /\ rows[r][p].state \notin ActiveStates
  BY DEF TERMINAL_CANDIDATE_STATES, Escalations, ActiveStates
<1>3. ASSUME NEW q \in Runs, StartRun(q) PROVE rows' = rows
  BY <1>3 DEF StartRun, CreateActionRun
<1>4. ASSUME TaskStep(r)
      PROVE  \/ rows'[r][p].state = rows[r][p].state
             \/ rows[r][p].state = "timed_out" /\ r \in overrun
  <2>1. CASE TopKilled(r) \/ TopNothingActive(r) \/ TopTimedOut(r) \/ TopPoll(r)
    <3>1. PICK table : Closing(r, table) /\ rows' = [rows EXCEPT ![r] = table]
      <4>1. {"killed", "timed_out"} \subseteq Escalations
        BY DEF Escalations
      <4> QED
        BY <1>1, <2>1, <4>1, LoadedRowsClosing
           DEF TopKilled, TopNothingActive, TopTimedOut, TopPoll, Finish
    <3>2. rows'[r] = table
      BY <1>1, <3>1 DEF TypeOK, RegistryTypeOK
    <3> QED
      BY <1>2, <3>1, <3>2 DEF Closing, ActiveIn
  <2>2. CASE Spawn(r) \/ GitHubMerges(r) \/ \E x \in Prs : Begin(r, x)
    BY <2>2 DEF Spawn, GitHubMerges, Begin, registry
  <2>3. ASSUME NEW x \in Prs, AddCandidate(r, x) PROVE rows'[r][p] = rows[r][p]
    <3>1. rows[r][x] = NoRow
      BY <1>1, <2>3 DEF AddCandidate, Ownership, NotStarted
    <3>2. p # x
      BY <1>2, <3>1 DEF NoRow
    <3> QED
      BY <1>1, <2>3, <3>2 DEF AddCandidate, AddActionRunCandidate, TypeOK, RegistryTypeOK
  <2>4. CASE AppendAuthorizationLine(r)
    BY <1>1, <2>4 DEF AppendAuthorizationLine, TypeOK, RegistryTypeOK, Candidate
  <2>5. CASE HeadResolved(r)
    <3> DEFINE stored == [rows[r] EXCEPT ![cur[r]].head = gh[cur[r]].head]
    <3>1. /\ rows' = [rows EXCEPT ![r] = IF Stale(r) THEN EscalateActive(stored, "timed_out")
                                         ELSE stored]
          /\ rows[r] \in RowTable /\ rows \in [Runs -> RowTable]
      BY <1>1, <2>5 DEF HeadResolved, TypeOK, RegistryTypeOK, RowTable
    <3>2. stored[p].state = rows[r][p].state
      BY <3>1 DEF RowTable, Candidate
    <3>3. EscalateActive(stored, "timed_out")[p] = stored[p]
      BY <1>2, <3>2 DEF EscalateActive, ActiveIn
    <3> HIDE DEF stored
    <3> QED
      BY <3>1, <3>2, <3>3
  <2>6. CASE \/ HeadUnresolved(r) \/ NoCheckRuns(r) \/ ChecksPending(r) \/ ChecksFailed(r)
             \/ ChecksGreen(r) \/ MergeAnswered(r)
    <3>1. pc[r] \in Busy
      BY <2>6 DEF HeadUnresolved, NoCheckRuns, ChecksPending, ChecksFailed, ChecksGreen,
                  MergeAnswered, Busy, InCall
    <3>2. cur[r] \in Prs /\ rows[r][cur[r]].state \in OpenStates(r)
      BY <1>1, <3>1 DEF Ownership, UndecidedIsOpen, Undecided, TypeOK, Busy, InCall
    <3>3. p = cur[r] => rows[r][p].state = "timed_out" /\ r \in overrun
      BY <1>2, <3>2 DEF OpenStates
    <3>4. UNCHANGED registry \/ \E state : SetCandidateState(r, cur[r], state)
      BY <2>6 DEF HeadUnresolved, NoCheckRuns, ChecksPending, ChecksFailed, ChecksGreen,
                  MergeAnswered, MarkCiRunning
    <3> QED
      BY <1>1, <3>2, <3>3, <3>4, SetCandidateStateLemma DEF registry
  <2> QED
    BY <1>4, <2>1, <2>2, <2>3, <2>4, <2>5, <2>6 DEF TaskStep
<1>5. ASSUME NEW q \in Runs \ {r}, TaskStep(q) PROVE rows'[r] = rows[r]
  BY <1>1, <1>5, TaskStepLocal
<1>6. ASSUME NEW q \in Runs, PageLoads(q) PROVE rows'[r][p].state = rows[r][p].state
  <2>1. rows' = [rows EXCEPT ![q] = LoadedRows(q)]
    BY <1>6 DEF PageLoads, LoadActionRun
  <2>2. CASE q # r
    BY <1>1, <2>1, <2>2 DEF TypeOK, RegistryTypeOK
  <2>3. CASE q = r
    <3>1. rows'[r] = LoadedRows(r)
      BY <1>1, <2>1, <2>3 DEF TypeOK, RegistryTypeOK
    <3> QED
      BY <1>1, <1>2, <3>1, LoadedRowsLemma DEF ActiveIn
  <2> QED
    BY <2>2, <2>3
<1>7. CASE UNCHANGED vars \/ Crash \/ GitHubChanges \/ Tick \/ \E q \in Runs : CallRaises(q)
  BY <1>7 DEF vars, Crash, GitHubChanges, Tick, CallRaises, registry
<1> QED
  BY <1>3, <1>4, <1>5, <1>6, <1>7 DEF Next

\* What the results page showed of a settled candidate is final, but for the
\* timeouts of a run that was finalised under its live task.
THEOREM SettledRowsAreFinal == Spec => SettledIsFinal
<1>1. MergeInvariant /\ [Next]_vars =>
          [\A r \in Runs, p \in Prs :
              rows[r][p].state \in TERMINAL_CANDIDATE_STATES =>
                  \/ rows'[r][p].state = rows[r][p].state
                  \/ rows[r][p].state = "timed_out" /\ r \in overrun]_vars
  BY SettledStays
<1> QED
  BY <1>1, MergeInvariantHolds, PTL DEF Spec, SettledIsFinal

-----------------------------------------------------------------------------
(* The promise seen through the rows *)

StateOf == [r \in Runs |-> run[r].state]
OutcomeOf == [r \in Runs |-> [p \in Prs |-> Says(rows[r][p])]]
MergerOf == [p \in Prs |-> gh[p].by]

LEMMA SaysLemma ==
    ASSUME NEW row
    PROVE  /\ Says(row) = "waiting" <=> row.state \in ActiveStates \cup {"waiting"}
           /\ row.state \in ActiveStates => Says(row) = "waiting"
           /\ row.state \in Escalations \ {"timed_out"} => Says(row) = "left"
           /\ row.state = "timed_out" => Says(row) = "timed out"
           /\ row.state \in {"absent", "merged"} => Says(row) = row.state
    BY DEF Says, ActiveStates, Escalations

\* Of the rows, their states alone are told.
LEMMA SaysTheState ==
    ASSUME NEW a, NEW b, a.state = b.state
    PROVE  Says(a) = Says(b)
    BY DEF Says

\* Exactly the active rows say waiting.
LEMMA WaitingIsActive ==
    ASSUME TypeOK, NEW r \in Runs
    PROVE  Promise!Waiting(r) = ActiveIn(rows[r])
    <1>1. \A p \in Prs : rows[r][p].state # "waiting"
        <2>1. \A p \in Prs : rows[r][p] \in Candidate
            BY DEF TypeOK, RegistryTypeOK
        <2>2. "waiting" \notin CandidateState
            BY DEF CandidateState, ActiveStates, TERMINAL_CANDIDATE_STATES, Escalations
        <2> QED
            BY <2>1, <2>2 DEF Candidate
    <1> QED
        BY <1>1, SaysLemma DEF Promise!Waiting, ActiveIn

\* What the task may still decide, the promise has not decided.
LEMMA OpenIsUndecided ==
    ASSUME TypeOK, NEW r \in Runs, NEW p \in Prs, rows[r][p].state \in OpenStates(r)
    PROVE  p \in Promise!Undecided(r)
    <1>1. CASE rows[r][p].state \in ActiveStates
        BY <1>1, WaitingIsActive DEF Promise!Undecided, ActiveIn
    <1>2. CASE rows[r][p].state \notin ActiveStates
        <2>1. rows[r][p].state = "timed_out" /\ r \in overrun
            BY <1>2 DEF OpenStates
        <2>2. Says(rows[r][p]) = "timed out"
            BY <2>1, SaysLemma
        <2> QED
            BY <2>1, <2>2 DEF Promise!Undecided
    <1> QED
        BY <1>1, <1>2

LEMMA Stutters ==
    ASSUME overrun' = overrun, \A r \in Runs : run'[r].state = run[r].state,
           \A r \in Runs, p \in Prs : Says(rows'[r][p]) = Says(rows[r][p]),
           \A p \in Prs : gh'[p].by = gh[p].by
    PROVE  UNCHANGED Promise!vars
    BY DEF Promise!vars

\* What becomes of one row.
LEMMA OneRow ==
    ASSUME TypeOK, NEW r \in Runs, NEW p \in Prs, NEW state,
           SetCandidateState(r, p, state), gh' = gh
    PROVE  /\ StateOf' = StateOf /\ MergerOf' = MergerOf
           /\ \A row : row.state = state =>
                 OutcomeOf' = [OutcomeOf EXCEPT ![r] = [@ EXCEPT ![p] = Says(row)]]
    <1>1. /\ \A q \in Runs \ {r} : rows'[q] = rows[q]
          /\ \A x \in Prs \ {p} : rows'[r][x] = rows[r][x]
          /\ rows'[r][p].state = state /\ run' = run
        BY SetCandidateStateLemma
    <1>2. StateOf' = StateOf /\ MergerOf' = MergerOf
        BY <1>1 DEF StateOf, MergerOf
    <1>3. ASSUME NEW row, row.state = state
          PROVE  OutcomeOf' = [OutcomeOf EXCEPT ![r] = [@ EXCEPT ![p] = Says(row)]]
        <2>1. Says(rows'[r][p]) = Says(row)
            BY <1>1, <1>3, SaysTheState
        <2> QED
            BY <1>1, <2>1 DEF OutcomeOf
    <1> QED
        BY <1>2, <1>3

\* An open row may stay or become active, and may be given up when the run did
\* not merge its pull request.
LEMMA RowIsLeft ==
    ASSUME TypeOK, NEW r \in Runs, NEW p \in Prs, rows[r][p].state \in OpenStates(r),
           gh[p].by # r, gh' = gh, overrun' = overrun,
           \/ UNCHANGED registry
           \/ \E state \in ActiveStates \cup (Escalations \ {"timed_out"}) :
                 SetCandidateState(r, p, state)
    PROVE  [Promise!Next]_(Promise!vars)
    <1>1. CASE UNCHANGED registry
        BY <1>1, Stutters DEF registry
    <1>2. ASSUME NEW state \in ActiveStates \cup (Escalations \ {"timed_out"}),
                 SetCandidateState(r, p, state)
          PROVE  Promise!Resume(r, p) \/ Promise!GiveUp(r, p)
        <2> DEFINE row == [state |-> state]
        <2>1. /\ StateOf' = StateOf /\ MergerOf' = MergerOf
              /\ OutcomeOf' = [OutcomeOf EXCEPT ![r] = [@ EXCEPT ![p] = Says(row)]]
            BY <1>2, OneRow
        <2>2. Says(row) \in {"waiting", "left"}
            <3>1. row.state = state
                OBVIOUS
            <3> HIDE DEF row
            <3> QED
                BY <1>2, <3>1, SaysLemma
        <2>3. p \in Promise!Undecided(r) /\ MergerOf[p] # r
            BY OpenIsUndecided DEF MergerOf
        <2> HIDE DEF row
        <2>4. CASE Says(row) = "waiting"
            BY <2>1, <2>3, <2>4 DEF Promise!Resume, StateOf, OutcomeOf, MergerOf
        <2>5. CASE Says(row) = "left"
            BY <2>1, <2>3, <2>5 DEF Promise!GiveUp, StateOf, OutcomeOf, MergerOf
        <2> QED
            BY <2>2, <2>4, <2>5
    <1> QED
        BY <1>1, <1>2 DEF Promise!Next

\* A run is completed and its open rows are closed alike.
Closed(e) == IF e = "killed" THEN "left" ELSE "timed out"

LEMMA RunIsClosed ==
    ASSUME TypeOK, NEW r \in Runs, NEW table, NEW e \in {"killed", "timed_out"},
           rows' = [rows EXCEPT ![r] = table],
           run' = [run EXCEPT ![r].state = "completed"], gh' = gh,
           \A p \in Prs : table[p].state =
               IF p \in ActiveIn(rows[r]) THEN e ELSE rows[r][p].state
    PROVE  /\ OutcomeOf' = [OutcomeOf EXCEPT ![r] =
                 [p \in Prs |-> IF p \in Promise!Waiting(r) THEN Closed(e) ELSE @[p]]]
           /\ StateOf' = [StateOf EXCEPT ![r] = "completed"]
           /\ MergerOf' = MergerOf
    <1>1. \A p \in Prs :
            Says(table[p]) = IF p \in ActiveIn(rows[r]) THEN Closed(e) ELSE Says(rows[r][p])
        <2> TAKE p \in Prs
        <2>1. CASE p \in ActiveIn(rows[r])
            <3>1. table[p].state = e
                BY <2>1
            <3> QED
                BY <2>1, <3>1, SaysLemma DEF Escalations, Closed
        <2>2. CASE p \notin ActiveIn(rows[r])
            BY <2>2, SaysTheState
        <2> QED
            BY <2>1, <2>2
    <1>2. Promise!Waiting(r) = ActiveIn(rows[r])
        BY WaitingIsActive
    <1>3. rows'[r] = table /\ \A q \in Runs \ {r} : rows'[q] = rows[q]
        BY DEF TypeOK, RegistryTypeOK
    <1>4. ASSUME NEW q \in Runs \ {r} PROVE OutcomeOf'[q] = OutcomeOf[q]
        BY <1>3, <1>4 DEF OutcomeOf
    <1>5. OutcomeOf'[r] =
            [p \in Prs |-> IF p \in Promise!Waiting(r) THEN Closed(e) ELSE OutcomeOf[r][p]]
        <2>1. OutcomeOf'[r] = [p \in Prs |-> Says(table[p])]
            BY <1>3 DEF OutcomeOf
        <2>2. OutcomeOf[r] = [p \in Prs |-> Says(rows[r][p])]
            BY DEF OutcomeOf
        <2> QED
            BY <1>1, <1>2, <2>1, <2>2
    <1>6. StateOf' = [StateOf EXCEPT ![r] = "completed"] /\ MergerOf' = MergerOf
        BY DEF StateOf, MergerOf, TypeOK, RegistryTypeOK, ActionRun
    <1> QED
        BY <1>4, <1>5, <1>6 DEF OutcomeOf

\* The run completes by itself; what it leaves unmerged it did not merge.
LEMMA RunEnds ==
    ASSUME TypeOK, NEW r \in Runs, NEW table, NEW e \in {"killed", "timed_out"},
           run[r].state = "running" \/ r \in overrun, overrun' = overrun,
           rows' = [rows EXCEPT ![r] = table],
           run' = [run EXCEPT ![r].state = "completed"], gh' = gh,
           \A p \in Prs : table[p].state =
               IF p \in ActiveIn(rows[r]) THEN e ELSE rows[r][p].state,
           e = "killed" => \A p \in ActiveIn(rows[r]) : gh[p].by # r
    PROVE  Promise!Complete(r)
    <1>1. /\ OutcomeOf' = [OutcomeOf EXCEPT ![r] =
                 [p \in Prs |-> IF p \in Promise!Waiting(r) THEN Closed(e) ELSE @[p]]]
          /\ StateOf' = [StateOf EXCEPT ![r] = "completed"]
          /\ MergerOf' = MergerOf
        BY RunIsClosed
    <1>2. Closed(e) = "left" => \A p \in Promise!Waiting(r) : MergerOf[p] # r
        BY WaitingIsActive DEF MergerOf, ActiveIn, Closed
    <1>3. Closed(e) \in {"left", "timed out"}
        BY DEF Closed
    <1>4. StateOf[r] = "running" \/ r \in overrun
        BY DEF StateOf
    <1>5. Promise!Close(r)
        BY <1>1, <1>2, <1>3 DEF Promise!Close, OutcomeOf, MergerOf
    <1> QED
        BY <1>1, <1>4, <1>5 DEF Promise!Complete, StateOf, MergerOf

\* The run is completed under its task, its open rows timed out.
LEMMA RunIsOverdue ==
    ASSUME TypeOK, NEW r \in Runs, NEW table,
           run[r].state = "running", overrun' = overrun \cup {r},
           rows' = [rows EXCEPT ![r] = table],
           run' = [run EXCEPT ![r].state = "completed"], gh' = gh,
           \A p \in Prs : table[p].state =
               IF p \in ActiveIn(rows[r]) THEN "timed_out" ELSE rows[r][p].state
    PROVE  Promise!Overdue(r)
    <1>1. /\ OutcomeOf' = [OutcomeOf EXCEPT ![r] =
                 [p \in Prs |-> IF p \in Promise!Waiting(r) THEN Closed("timed_out") ELSE @[p]]]
          /\ StateOf' = [StateOf EXCEPT ![r] = "completed"]
          /\ MergerOf' = MergerOf
        BY RunIsClosed
    <1>2. Closed("timed_out") = "timed out" /\ StateOf[r] = "running"
        BY DEF Closed, StateOf
    <1> QED
        BY <1>1, <1>2 DEF Promise!Overdue, StateOf, OutcomeOf, MergerOf

-----------------------------------------------------------------------------
(* The steps *)

\* A candidate in hand is open in the table.
LEMMA CurrentIsOpen ==
    ASSUME MergeInvariant, NEW r \in Runs, pc[r] \in Busy
    PROVE  cur[r] \in Prs /\ rows[r][cur[r]].state \in OpenStates(r)
    BY DEF MergeInvariant, Ownership, UndecidedIsOpen, Undecided, TypeOK, Busy, InCall

\* The table a returning task stores: what was active is killed or timed out.
LEMMA FinishCloses ==
    ASSUME TypeOK, NEW r \in Runs,
           TopKilled(r) \/ TopNothingActive(r) \/ TopTimedOut(r)
    PROVE  \E table \in RowTable, e \in {"killed", "timed_out"} :
               /\ Finish(r, table)
               /\ \A p \in Prs : table[p].state =
                      IF p \in ActiveIn(rows[r]) THEN e ELSE rows[r][p].state
    <1>1. /\ LoadedRows(r) \in RowTable /\ rows[r] \in RowTable
          /\ \A p \in Prs : LoadedRows(r)[p].state =
                 IF Stale(r) /\ p \in ActiveIn(rows[r]) THEN "timed_out" ELSE rows[r][p].state
          /\ Stale(r) => ActiveIn(LoadedRows(r)) = {}
        BY LoadedRowsLemma DEF TypeOK, RegistryTypeOK, RowTable
    <1>2. ASSUME NEW e \in {"killed", "timed_out"}
          PROVE  /\ EscalateActive(LoadedRows(r), e) \in RowTable
                 /\ \A p \in Prs : EscalateActive(LoadedRows(r), e)[p].state =
                        IF p \in ActiveIn(LoadedRows(r)) THEN e ELSE LoadedRows(r)[p].state
        BY <1>1, <1>2, EscalateActiveLemma DEF Escalations
    <1>3. CASE Stale(r)
        <2>1. PICK table \in RowTable :
                 Finish(r, table) /\ \A p \in Prs : table[p].state = LoadedRows(r)[p].state
            BY <1>1, <1>2, <1>3 DEF TopKilled, TopNothingActive, TopTimedOut
        <2> QED
            BY <1>1, <1>3, <2>1
    <1>4. CASE ~Stale(r)
        <2>1. ActiveIn(LoadedRows(r)) = ActiveIn(rows[r])
            BY <1>4 DEF LoadedRows
        <2>2. CASE TopKilled(r)
            BY <1>1, <1>2, <1>4, <2>1, <2>2 DEF TopKilled
        <2>3. CASE TopTimedOut(r)
            BY <1>1, <1>2, <1>4, <2>1, <2>3 DEF TopTimedOut
        <2>4. CASE TopNothingActive(r)
            BY <1>1, <1>4, <2>1, <2>4 DEF TopNothingActive
        <2> QED
            BY <2>2, <2>3, <2>4
    <1> QED
        BY <1>3, <1>4

LEMMA FinishIsComplete ==
    ASSUME MergeInvariant, NEW r \in Runs,
           TopKilled(r) \/ TopNothingActive(r) \/ TopTimedOut(r)
    PROVE  [Promise!Next]_(Promise!vars)
    <1>1. TypeOK /\ Ownership(r) /\ pc[r] = "top"
        BY DEF MergeInvariant, TopKilled, TopNothingActive, TopTimedOut
    <1>2. run[r].state = "running" \/ r \in overrun
        BY <1>1 DEF MergeInvariant, InTime, Live
    <1>3. PICK table \in RowTable, e \in {"killed", "timed_out"} :
            /\ Finish(r, table)
            /\ \A p \in Prs : table[p].state =
                   IF p \in ActiveIn(rows[r]) THEN e ELSE rows[r][p].state
        BY <1>1, FinishCloses
    <1>4. /\ rows' = [rows EXCEPT ![r] = table] /\ gh' = gh /\ overrun' = overrun
          /\ run' = [run EXCEPT ![r].state = FinalState(r, table)]
        BY <1>3 DEF Finish
    <1>5. \A p \in ActiveIn(rows[r]) : gh[p].by # r
        BY <1>1 DEF Ownership, MergeIsAccountedFor, ActiveIn, ActiveStates
    <1>6. CASE FinalState(r, table) = "completed"
        <2>1. run' = [run EXCEPT ![r].state = "completed"]
            BY <1>4, <1>6
        <2>2. /\ TypeOK /\ rows' = [rows EXCEPT ![r] = table]
              /\ gh' = gh /\ overrun' = overrun
            BY <1>1, <1>4
        <2>3. \A p \in Prs : table[p].state =
                IF p \in ActiveIn(rows[r]) THEN e ELSE rows[r][p].state
            BY <1>3
        <2>4. Promise!Complete(r)
            BY <1>2, <1>5, <2>1, <2>2, <2>3, RunEnds
        <2> QED
            BY <2>4 DEF Promise!Next
    <1>7. CASE FinalState(r, table) # "completed"
        <2>1. FinalState(r, table) = run[r].state /\ ~AllTerminal(table)
            BY <1>7 DEF FinalState
        <2>2. \A p \in Prs : table[p].state \notin ActiveStates
            BY <1>3 DEF ActiveIn, ActiveStates
        <2>3. \A p \in Prs : table[p].state = "absent"
            BY <2>1, <2>2 DEF AllTerminal, ActiveIn, PresentIn
        <2>4. \A p \in Prs : table[p].state = rows[r][p].state
            BY <1>3, <2>3
        <2>5. \A q \in Runs, p \in Prs : rows'[q][p].state = rows[q][p].state
            BY <1>1, <1>4, <2>4 DEF TypeOK, RegistryTypeOK
        <2>6. \A q \in Runs : run'[q].state = run[q].state
            BY <1>1, <1>4, <2>1 DEF TypeOK, RegistryTypeOK, ActionRun
        <2> QED
            BY <1>4, <2>5, <2>6, SaysTheState, Stutters
    <1> QED
        BY <1>6, <1>7

\* What the run reads of a candidate's checks, of its head or of a refused
\* merge closes the candidate or leaves it open.
LEMMA CandidateIsLeft ==
    ASSUME MergeInvariant, NEW r \in Runs,
           \/ HeadUnresolved(r) \/ NoCheckRuns(r) \/ ChecksPending(r) \/ ChecksFailed(r)
           \/ ChecksGreen(r)
           \/ MergeAnswered(r) /\ reply[r] # "200"
    PROVE  [Promise!Next]_(Promise!vars)
    <1>1. /\ pc[r] \in Busy /\ ~(pc[r] = "replying" /\ reply[r] = "200")
          /\ gh' = gh /\ overrun' = overrun
        BY DEF HeadUnresolved, NoCheckRuns, ChecksPending, ChecksFailed, ChecksGreen,
               MergeAnswered, Busy, InCall
    <1>2. \/ UNCHANGED registry
          \/ \E state \in ActiveStates \cup (Escalations \ {"timed_out"}) :
                SetCandidateState(r, cur[r], state)
        <2>1. /\ "head_sha_unresolved" \in Escalations \ {"timed_out"}
              /\ "no_checks" \in Escalations \ {"timed_out"}
              /\ "ci_failed" \in Escalations \ {"timed_out"}
              /\ "sha_conflict" \in Escalations \ {"timed_out"}
              /\ "ci_running" \in ActiveStates
            BY DEF Escalations, ActiveStates
        <2> QED
            BY <2>1 DEF HeadUnresolved, NoCheckRuns, ChecksPending, ChecksFailed, ChecksGreen,
                   MergeAnswered, MarkCiRunning
    <1>3. gh[cur[r]].by # r
        BY <1>1, CurrentIsNotMerged DEF MergeInvariant
    <1>4. cur[r] \in Prs /\ rows[r][cur[r]].state \in OpenStates(r)
        BY <1>1, CurrentIsOpen
    <1> QED
        BY <1>1, <1>2, <1>3, <1>4, RowIsLeft DEF MergeInvariant

LEMMA MergeIsReported ==
    ASSUME MergeInvariant, NEW r \in Runs, MergeAnswered(r), reply[r] = "200"
    PROVE  [Promise!Next]_(Promise!vars)
    <1>1. TypeOK /\ pc[r] \in Busy /\ gh' = gh /\ overrun' = overrun
        BY DEF MergeAnswered, Busy, InCall, MergeInvariant
    <1>2. PICK p \in Prs : p = cur[r] /\ rows[r][p].state \in OpenStates(r)
        BY <1>1, CurrentIsOpen
    <1>3. SetCandidateState(r, p, "merged") /\ gh[p].by = r
        BY <1>2 DEF MergeInvariant, Ownership, NewsIsTrue, MergeAnswered, SetCandidateState
    <1>4. PICK row : row.state = "merged"
        <2>1. [state |-> "merged"].state = "merged"
            OBVIOUS
        <2> QED
            BY <2>1
    <1>5. /\ StateOf' = StateOf /\ MergerOf' = MergerOf
          /\ OutcomeOf' = [OutcomeOf EXCEPT ![r] = [@ EXCEPT ![p] = Says(row)]]
        BY <1>1, <1>3, <1>4, OneRow
    <1>6. Says(row) = "merged" /\ p \in Promise!Undecided(r) /\ MergerOf[p] = r
        BY <1>1, <1>2, <1>3, <1>4, SaysLemma, OpenIsUndecided DEF MergerOf
    <1>7. Promise!ReportMerged(r, p)
        BY <1>1, <1>5, <1>6 DEF Promise!ReportMerged, StateOf, OutcomeOf, MergerOf
    <1> QED
        BY <1>2, <1>7 DEF Promise!Next

LEMMA GitHubMergesOnce ==
    ASSUME MergeInvariant, NEW r \in Runs, GitHubMerges(r)
    PROVE  [Promise!Next]_(Promise!vars)
    <1>1. TypeOK /\ pc[r] \in Busy /\ run' = run /\ rows' = rows /\ overrun' = overrun
        BY DEF GitHubMerges, Busy, InCall, MergeInvariant, registry
    <1>2. PICK p \in Prs : p = cur[r] /\ rows[r][p].state \in OpenStates(r)
        BY <1>1, CurrentIsOpen
    <1>3. \/ gh' = gh
          \/ gh[p].status = "open" /\ gh' = [gh EXCEPT ![p].status = "settled", ![p].by = r]
        BY <1>2 DEF GitHubMerges, MergeCall
    <1>4. CASE gh' = gh
        BY <1>1, <1>4, Stutters
    <1>5. CASE /\ gh[p].status = "open"
               /\ gh' = [gh EXCEPT ![p].status = "settled", ![p].by = r]
        <2>1. gh \in [Prs -> PullRequest]
            BY <1>1 DEF TypeOK, GhTypeOK
        <2>2. gh[p].by = Nobody
            <3>1. gh[p].by \in Runs \cup {Nobody}
                BY <1>2, <2>1 DEF PullRequest
            <3>2. \A q \in Runs : gh[p].by # q
                BY <1>2, <1>5 DEF MergeInvariant, Ownership, MergeIsAccountedFor
            <3> QED
                BY <3>1, <3>2
        <2>3. \A x \in Prs : gh'[x].by = IF x = p THEN r ELSE gh[x].by
            BY <1>2, <1>5, <2>1 DEF PullRequest
        <2>4. MergerOf' = [MergerOf EXCEPT ![p] = r] /\ MergerOf[p] = Nobody
            BY <1>2, <2>2, <2>3 DEF MergerOf
        <2>5. StateOf' = StateOf /\ OutcomeOf' = OutcomeOf
            BY <1>1 DEF StateOf, OutcomeOf
        <2>6. p \in Promise!Undecided(r)
            BY <1>1, <1>2, OpenIsUndecided
        <2>7. Promise!Merge(r, p)
            BY <1>1, <2>4, <2>5, <2>6 DEF Promise!Merge, StateOf, OutcomeOf, MergerOf
        <2> QED
            BY <2>7 DEF Promise!Next
    <1> QED
        BY <1>3, <1>4, <1>5

LEMMA CandidateIsIncluded ==
    ASSUME MergeInvariant, NEW r \in Runs, NEW p \in Prs, AddCandidate(r, p)
    PROVE  [Promise!Next]_(Promise!vars)
    <1>1. TypeOK /\ run[r].state = "running" /\ rows[r][p] = NoRow
        BY DEF MergeInvariant, AddCandidate, InTime, Ownership, NotStarted, Live
    <1>2. PICK c \in NewCandidates(p) : rows' = [rows EXCEPT ![r][p] = c]
        BY DEF AddCandidate, AddActionRunCandidate
    <1>3. run' = run /\ gh' = gh /\ overrun' = overrun
        BY DEF AddCandidate, AddActionRunCandidate
    <1>4. c.state \in {"pr_opened", "pr_only"}
        BY <1>2 DEF NewCandidates
    <1>5. Says(c) \in {"waiting", "left"} /\ Says(rows[r][p]) = "absent"
        <2>1. c.state \in ActiveStates \/ c.state \in Escalations \ {"timed_out"}
            BY <1>4 DEF ActiveStates, Escalations
        <2>2. rows[r][p].state = "absent"
            BY <1>1 DEF NoRow
        <2> QED
            BY <2>1, <2>2, SaysLemma
    <1>6. OutcomeOf' = [OutcomeOf EXCEPT ![r][p] = Says(c)]
        BY <1>1, <1>2 DEF OutcomeOf, TypeOK, RegistryTypeOK
    <1>7. StateOf' = StateOf /\ MergerOf' = MergerOf /\ StateOf[r] = "running"
          /\ OutcomeOf[r][p] = "absent"
        BY <1>1, <1>3, <1>5 DEF StateOf, MergerOf, OutcomeOf
    <1>8. Promise!Include(r, p)
        BY <1>3, <1>5, <1>6, <1>7 DEF Promise!Include, StateOf, OutcomeOf, MergerOf
    <1> QED
        BY <1>8 DEF Promise!Next

LEMMA RunIsStarted ==
    ASSUME MergeInvariant, NEW r \in Runs, StartRun(r)
    PROVE  [Promise!Next]_(Promise!vars)
    <1>1. /\ TypeOK /\ run[r].state = "absent" /\ rows' = rows /\ gh' = gh
          /\ overrun' = overrun
          /\ run' = [run EXCEPT ![r] = [state |-> "running", created |-> now]]
        BY DEF MergeInvariant, StartRun, CreateActionRun
    <1>2. StateOf' = [StateOf EXCEPT ![r] = "running"] /\ StateOf[r] = "absent"
        BY <1>1 DEF StateOf, TypeOK, RegistryTypeOK
    <1>3. OutcomeOf' = OutcomeOf /\ MergerOf' = MergerOf
        BY <1>1 DEF OutcomeOf, MergerOf
    <1>4. Promise!Start(r)
        BY <1>1, <1>2, <1>3 DEF Promise!Start, StateOf, OutcomeOf, MergerOf
    <1> QED
        BY <1>4 DEF Promise!Next

LEMMA StaleRunIsTimedOut ==
    ASSUME MergeInvariant, NEW r \in Runs, PageLoads(r)
    PROVE  [Promise!Next]_(Promise!vars)
    <1>1. /\ TypeOK /\ Stale(r) /\ run[r].state = "running" /\ gh' = gh
          /\ rows' = [rows EXCEPT ![r] = LoadedRows(r)]
          /\ run' = [run EXCEPT ![r].state = "completed"]
          /\ overrun' = overrun \cup (IF pc[r] \in Live THEN {r} ELSE {})
        BY DEF MergeInvariant, PageLoads, LoadActionRun, LoadedWhileStale, Stale
    <1>2. \A p \in Prs : LoadedRows(r)[p].state =
            IF p \in ActiveIn(rows[r]) THEN "timed_out" ELSE rows[r][p].state
        BY <1>1, LoadedRowsLemma
    <1>3. Promise!Complete(r) \/ Promise!Overdue(r)
        <2>1. CASE pc[r] \in Live
            BY <1>1, <1>2, <2>1, RunIsOverdue
        <2>2. CASE pc[r] \notin Live
            BY <1>1, <1>2, <2>2, RunEnds
        <2> QED
            BY <2>1, <2>2
    <1> QED
        BY <1>3 DEF Promise!Next

\* Storing the head tells nothing, but loading the run to do so may time it out.
LEMMA HeadIsResolved ==
    ASSUME MergeInvariant, NEW r \in Runs, HeadResolved(r)
    PROVE  [Promise!Next]_(Promise!vars)
    <1> DEFINE stored == [rows[r] EXCEPT ![cur[r]].head = gh[cur[r]].head]
               loaded == IF Stale(r) THEN EscalateActive(stored, "timed_out") ELSE stored
    <1>1. /\ TypeOK /\ gh' = gh /\ pc[r] \in Live
          /\ rows' = [rows EXCEPT ![r] = loaded]
          /\ run' = [run EXCEPT ![r].state = LoadedState(r)]
          /\ overrun' = overrun \cup (IF Stale(r) THEN {r} ELSE {})
        BY DEF MergeInvariant, HeadResolved, LoadedWhileStale, Live, InCall
    <1>2. /\ rows \in [Runs -> RowTable] /\ stored \in RowTable
          /\ \A p \in Prs : stored[p].state = rows[r][p].state
        <2>1. cur[r] \in Prs
            BY DEF HeadResolved, MergeInvariant, TypeOK, InCall
        <2>2. rows[r] \in RowTable /\ rows[r][cur[r]] \in Candidate /\ gh[cur[r]].head \in Shas
            BY <1>1, <2>1 DEF TypeOK, RegistryTypeOK, GhTypeOK, PullRequest, RowTable
        <2> DEFINE c == [rows[r][cur[r]] EXCEPT !.head = gh[cur[r]].head]
        <2>3. c \in Candidate /\ c.state = rows[r][cur[r]].state
            BY <2>2, CandidateColumns DEF Candidate
        <2>4. stored = [rows[r] EXCEPT ![cur[r]] = c]
            OBVIOUS
        <2> HIDE DEF c, stored
        <2> QED
            BY <1>1, <2>1, <2>2, <2>3, <2>4 DEF TypeOK, RegistryTypeOK, RowTable
    <1> HIDE DEF stored
    <1>3. CASE Stale(r)
        <2>1. \A p \in Prs : loaded[p].state =
                IF p \in ActiveIn(rows[r]) THEN "timed_out" ELSE rows[r][p].state
            BY <1>2, <1>3, EscalateActiveLemma DEF ActiveIn, Escalations
        <2>2. LoadedState(r) = "completed" /\ run[r].state = "running"
            BY <1>3 DEF LoadedState, Stale
        <2> HIDE DEF loaded
        <2>3. Promise!Overdue(r)
            BY <1>1, <1>3, <2>1, <2>2, RunIsOverdue
        <2> QED
            BY <2>3 DEF Promise!Next
    <1>4. CASE ~Stale(r)
        <2>1. \A q \in Runs, p \in Prs : rows'[q][p].state = rows[q][p].state
            BY <1>1, <1>2, <1>4
        <2>2. \A q \in Runs : run'[q].state = run[q].state
            BY <1>1, <1>4 DEF LoadedState, TypeOK, RegistryTypeOK, ActionRun
        <2> QED
            BY <1>1, <1>4, <2>1, <2>2, SaysTheState, Stutters
    <1> QED
        BY <1>3, <1>4

\* The rest of what the task does is its own business.
LEMMA TaskStutters ==
    ASSUME MergeInvariant, NEW r \in Runs,
           \/ Spawn(r) \/ TopPoll(r) \/ (\E p \in Prs : Begin(r, p))
           \/ AppendAuthorizationLine(r)
    PROVE  UNCHANGED Promise!vars
    <1>1. TypeOK /\ gh' = gh /\ overrun' = overrun
        BY DEF MergeInvariant, Spawn, TopPoll, Begin, AppendAuthorizationLine
    <1>2. CASE TopPoll(r)
        <2>1. ~Stale(r)
            BY <1>1, <1>2, LoadedRowsLemma DEF TopPoll
        <2>2. rows' = rows /\ \A q \in Runs : run'[q].state = run[q].state
            BY <1>1, <1>2, <2>1 DEF TopPoll, LoadedRows, LoadedState, TypeOK, RegistryTypeOK,
                                    ActionRun
        <2> QED
            BY <1>1, <2>2, Stutters
    <1>3. CASE Spawn(r) \/ \E p \in Prs : Begin(r, p)
        BY <1>1, <1>3, Stutters DEF Spawn, Begin, registry
    <1>4. CASE AppendAuthorizationLine(r)
        <2>1. run' = run /\ rows' = [rows EXCEPT ![r][cur[r]].appended = TRUE]
            BY <1>4 DEF AppendAuthorizationLine
        <2>2. \A q \in Runs, p \in Prs : rows'[q][p].state = rows[q][p].state
            BY <1>1, <2>1 DEF TypeOK, RegistryTypeOK, Candidate
        <2> QED
            BY <1>1, <2>1, <2>2, SaysTheState, Stutters
    <1> QED
        BY <1>2, <1>3, <1>4

LEMMA WorldStutters ==
    ASSUME MergeInvariant,
           \/ (\E r \in Runs : CallRaises(r)) \/ Crash
           \/ GitHubChanges \/ Tick \/ UNCHANGED vars
    PROVE  UNCHANGED Promise!vars
    <1>1. run' = run /\ rows' = rows /\ overrun' = overrun
        BY DEF CallRaises, Crash, GitHubChanges, Tick, vars, registry
    <1>2. \A p \in Prs : gh'[p].by = gh[p].by
        <2>1. CASE gh' = gh
            BY <2>1
        <2>2. CASE GitHubChanges
            <3>1. PICK p \in Prs : Push(p) \/ SettledByHand(p)
                BY <2>2 DEF GitHubChanges, GhEnvironment
            <3>2. gh \in [Prs -> PullRequest]
                BY DEF MergeInvariant, TypeOK, GhTypeOK
            <3> QED
                BY <3>1, <3>2 DEF Push, SettledByHand, PullRequest
        <2> QED
            BY <2>1, <2>2 DEF CallRaises, Crash, Tick, vars
    <1> QED
        BY <1>1, <1>2, Stutters

-----------------------------------------------------------------------------
(* The theorem *)

LEMMA InitIsPromised == Init => Promise!Init
    <1> SUFFICES ASSUME Init PROVE Promise!Init
        OBVIOUS
    <1>1. StateOf = [r \in Runs |-> "absent"]
        BY DEF Init, RegistryInit, StateOf
    <1>2. Says(NoRow) = "absent"
        <2>1. NoRow.state = "absent"
            BY DEF NoRow
        <2> QED
            BY <2>1, SaysLemma
    <1>3. OutcomeOf = [r \in Runs |-> [p \in Prs |-> "absent"]]
        BY <1>2 DEF Init, RegistryInit, OutcomeOf
    <1>4. MergerOf = [p \in Prs |-> Nobody]
        BY DEF Init, GhInit, MergerOf
    <1> QED
        BY <1>1, <1>3, <1>4 DEF Init, Promise!Init, StateOf, OutcomeOf, MergerOf

LEMMA StepIsPromised ==
    MergeInvariant /\ [Next]_vars => [Promise!Next]_(Promise!vars)
    <1> SUFFICES ASSUME MergeInvariant, [Next]_vars PROVE [Promise!Next]_(Promise!vars)
        OBVIOUS
    <1>1. ASSUME NEW r \in Runs, StartRun(r) PROVE [Promise!Next]_(Promise!vars)
        BY <1>1, RunIsStarted
    <1>2. ASSUME NEW r \in Runs, NEW p \in Prs, AddCandidate(r, p)
          PROVE  [Promise!Next]_(Promise!vars)
        BY <1>2, CandidateIsIncluded
    <1>3. ASSUME NEW r \in Runs, TopKilled(r) \/ TopNothingActive(r) \/ TopTimedOut(r)
          PROVE  [Promise!Next]_(Promise!vars)
        BY <1>3, FinishIsComplete
    <1>4. ASSUME NEW r \in Runs,
                 \/ HeadUnresolved(r) \/ NoCheckRuns(r) \/ ChecksPending(r) \/ ChecksFailed(r)
                 \/ ChecksGreen(r)
          PROVE  [Promise!Next]_(Promise!vars)
        BY <1>4, CandidateIsLeft
    <1>5. ASSUME NEW r \in Runs, GitHubMerges(r) PROVE [Promise!Next]_(Promise!vars)
        BY <1>5, GitHubMergesOnce
    <1>6. ASSUME NEW r \in Runs, MergeAnswered(r) PROVE [Promise!Next]_(Promise!vars)
        BY <1>6, CandidateIsLeft, MergeIsReported
    <1>7. ASSUME NEW r \in Runs, PageLoads(r) PROVE [Promise!Next]_(Promise!vars)
        BY <1>7, StaleRunIsTimedOut
    <1>8. ASSUME NEW r \in Runs,
                 \/ Spawn(r) \/ TopPoll(r) \/ (\E p \in Prs : Begin(r, p))
                 \/ AppendAuthorizationLine(r) \/ HeadResolved(r)
          PROVE  [Promise!Next]_(Promise!vars)
        BY <1>8, TaskStutters, HeadIsResolved
    <1>9. CASE \/ (\E r \in Runs : CallRaises(r)) \/ Crash
               \/ GitHubChanges \/ Tick \/ UNCHANGED vars
        BY <1>9, WorldStutters
    <1> QED
        BY <1>1, <1>2, <1>3, <1>4, <1>5, <1>6, <1>7, <1>8, <1>9 DEF Next, TaskStep

\* The wait-and-merge task, its crashes and the pages included, implements the
\* promise of a run.
THEOREM PromiseIsKept == Spec => KeepsPromise
    <1>1. Init => Promise!Init
        BY InitIsPromised
    <1>2. MergeInvariant /\ [Next]_vars => [Promise!Next]_(Promise!vars)
        BY StepIsPromised
    <1> QED
        BY <1>1, <1>2, MergeInvariantHolds, PTL DEF Spec, KeepsPromise, Promise!Spec
=============================================================================
