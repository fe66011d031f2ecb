----------------------------- MODULE ActionRuns ------------------------------
(***************************************************************************)
(* The action-run registry of Mode C (arguss/web/action_runs.py): one row  *)
(* per run, one row per pull request a run opened or found, kept in SQLite *)
(* and therefore surviving the process.                                    *)
(*                                                                         *)
(* A candidate of a run is named by its pull request, since the branch,    *)
(* and so the pull request, is derived from the candidate.  Texts shown to *)
(* people (labels, details, commit messages) are left out.                 *)
(***************************************************************************)
EXTENDS MergeParameters

VARIABLES
    run,        \* run[r]: the action_run row
    rows,       \* rows[r][p]: the action_run_candidate row, NoRow when absent
    now         \* the clock, in the unit of WaitCap

registry == <<run, rows>>

-----------------------------------------------------------------------------

ActiveStates == {"pr_opened", "ci_running"}

\* The seven ways a candidate leaves the merge path unmerged.
Escalations ==
    {"pr_only", "ci_failed", "no_checks", "sha_conflict", "timed_out", "killed",
     "head_sha_unresolved"}

TERMINAL_CANDIDATE_STATES == {"merged"} \cup Escalations

\* Row state "absent" stands for "no such row".
CandidateState == {"absent"} \cup ActiveStates \cup TERMINAL_CANDIDATE_STATES

\* merge_authorization is NULL or names who allowed the merge; only the texts
\* tell engine and human_override apart.
Candidate ==
    [state : CandidateState, authorized : BOOLEAN,
     head : Shas \cup {NoSha}, appended : BOOLEAN]

NoRow ==
    [state |-> "absent", authorized |-> FALSE, head |-> NoSha, appended |-> FALSE]

ActionRun == [state : {"absent", "running", "completed"}, created : Nat]

RegistryTypeOK ==
    /\ run \in [Runs -> ActionRun]
    /\ rows \in [Runs -> [Prs -> Candidate]]
    /\ now \in Nat

RegistryInit ==
    /\ run = [r \in Runs |-> [state |-> "absent", created |-> 0]]
    /\ rows = [r \in Runs |-> [p \in Prs |-> NoRow]]
    /\ now = 0

-----------------------------------------------------------------------------
(* Readings of the candidate rows of one run, a function of Prs. *)

\* Variant: pull requests opened without auto-merge are waited for too.
ActiveOrPrOnlyIn(table) == {p \in Prs : table[p].state \in ActiveStates \cup {"pr_only"}}

ActiveIn(table) == {p \in Prs : table[p].state \in ActiveStates}
PresentIn(table) == {p \in Prs : table[p].state # "absent"}

\* Variant: only a run whose candidates all merged counts as terminal.
AllMerged(table) == \A p \in PresentIn(table) : table[p].state = "merged"

\* is_action_run_terminal of a run that is not completed yet.
AllTerminal(table) ==
    /\ PresentIn(table) # {}
    /\ ActiveIn(table) = {}

\* Variant: every row is closed, the settled ones too.
EscalateAll(table, state) ==
    [p \in Prs |-> IF p \in PresentIn(table) THEN [table[p] EXCEPT !.state = state] ELSE table[p]]

\* Every active row of a run is closed with the same escalation.
EscalateActive(table, state) ==
    [p \in Prs |->
        IF p \in ActiveIn(table) THEN [table[p] EXCEPT !.state = state] ELSE table[p]]

\* Variant: runs without rows overlooked.
StaleWithRows(r) ==
    /\ run[r].state = "running"
    /\ now - run[r].created > WaitCap + StaleSlack
    /\ PresentIn(rows[r]) # {}

\* _reconcile_stale_running_run: running, and older than the cap by more
\* than the slack.
Stale(r) ==
    /\ run[r].state = "running"
    /\ now - run[r].created > WaitCap + StaleSlack

\* Variant: a stale run is completed and its rows forgotten.
LoadedRowsAsStored(r) == rows[r]

\* What load_action_run returns, having stored it when the run was stale.
LoadedRows(r) ==
    IF Stale(r) THEN EscalateActive(rows[r], "timed_out") ELSE rows[r]
LoadedState(r) == IF Stale(r) THEN "completed" ELSE run[r].state

\* finalize_action_run_if_terminal over the rows it just loaded.
FinalState(r, table) ==
    IF LoadedState(r) = "completed" \/ AllTerminal(table)
    THEN "completed" ELSE run[r].state

-----------------------------------------------------------------------------
(* Updates. *)

\* create_action_run
CreateActionRun(r) ==
    /\ run[r].state = "absent"
    /\ run' = [run EXCEPT ![r] = [state |-> "running", created |-> now]]
    /\ UNCHANGED rows

\* One step of populate_action_run_candidates.
AddActionRunCandidate(r, p, candidate) ==
    /\ rows' = [rows EXCEPT ![r][p] = candidate]
    /\ UNCHANGED run

\* update_action_run_candidate: the state column is overwritten whatever it was.
SetCandidateState(r, p, state) ==
    /\ rows' = [rows EXCEPT ![r][p].state = state]
    /\ UNCHANGED run

\* load_action_run called by a page, outside the merge task.
LoadActionRun(r) ==
    /\ Stale(r)
    /\ rows' = [rows EXCEPT ![r] = LoadedRows(r)]
    /\ run' = [run EXCEPT ![r].state = "completed"]

=============================================================================
