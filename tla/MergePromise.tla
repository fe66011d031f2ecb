---------------------------- MODULE MergePromise -----------------------------
(***************************************************************************)
(* What an action run promises about its pull requests, with no word of    *)
(* polling, check runs, clocks or tasks.                                   *)
(***************************************************************************)
CONSTANTS Runs, Prs, Nobody

VARIABLES
    state,     \* state[r]: "absent", "running" or "completed"
    outcome,   \* outcome[r][p]: what the run says of the pull request
    merger,    \* merger[p]: the run whose call merged p
    overdue    \* the runs completed, by others, before they were through

vars == <<state, outcome, merger, overdue>>

Init ==
    /\ state = [r \in Runs |-> "absent"]
    /\ outcome = [r \in Runs |-> [p \in Prs |-> "absent"]]
    /\ merger = [p \in Prs |-> Nobody]
    /\ overdue = {}

Waiting(r) == {p \in Prs : outcome[r][p] = "waiting"}

\* A run decides each pull request once.  Only a timeout declared on behalf of
\* an overdue run does not bind it.
Undecided(r) ==
    Waiting(r) \cup {p \in Prs : r \in overdue /\ outcome[r][p] = "timed out"}

Start(r) ==
    /\ state[r] = "absent"
    /\ state' = [state EXCEPT ![r] = "running"]
    /\ UNCHANGED <<outcome, merger, overdue>>

\* A pull request joins the run, to be waited for or left to people at once.
Include(r, p) ==
    /\ state[r] = "running"
    /\ outcome[r][p] = "absent"
    /\ \E o \in {"waiting", "left"} : outcome' = [outcome EXCEPT ![r][p] = o]
    /\ UNCHANGED <<state, merger, overdue>>

\* A pull request is merged once, by a run that has not decided on it.
Merge(r, p) ==
    /\ p \in Undecided(r)
    /\ merger[p] = Nobody
    /\ merger' = [merger EXCEPT ![p] = r]
    /\ UNCHANGED <<state, outcome, overdue>>

ReportMerged(r, p) ==
    /\ p \in Undecided(r)
    /\ merger[p] = r
    /\ outcome' = [outcome EXCEPT ![r][p] = "merged"]
    /\ UNCHANGED <<state, merger, overdue>>

GiveUp(r, p) ==
    /\ p \in Undecided(r)
    /\ merger[p] # r
    /\ outcome' = [outcome EXCEPT ![r][p] = "left"]
    /\ UNCHANGED <<state, merger, overdue>>

\* An overdue run takes back a timeout and waits on.
Resume(r, p) ==
    /\ p \in Undecided(r)
    /\ outcome' = [outcome EXCEPT ![r][p] = "waiting"]
    /\ UNCHANGED <<state, merger, overdue>>

\* What the run still waits for is left to people, or timed out.  Only of a
\* timed-out pull request the run may not know that it merged it.
Close(r) ==
    \E o \in {"left", "timed out"} :
        /\ o = "left" => \A p \in Waiting(r) : merger[p] # r
        /\ outcome' = [outcome EXCEPT ![r] =
                          [p \in Prs |-> IF p \in Waiting(r) THEN o ELSE @[p]]]

\* The run completes, and an overdue one does so again once it is through.
Complete(r) ==
    /\ state[r] = "running" \/ r \in overdue
    /\ Close(r)
    /\ state' = [state EXCEPT ![r] = "completed"]
    /\ UNCHANGED <<merger, overdue>>

\* A running run is completed by others: what it waits for times out.
Overdue(r) ==
    /\ state[r] = "running"
    /\ outcome' = [outcome EXCEPT ![r] =
                      [p \in Prs |-> IF p \in Waiting(r) THEN "timed out" ELSE @[p]]]
    /\ state' = [state EXCEPT ![r] = "completed"]
    /\ overdue' = overdue \cup {r}
    /\ UNCHANGED merger

Next ==
    \E r \in Runs :
        \/ Start(r) \/ Complete(r) \/ Overdue(r)
        \/ \E p \in Prs :
              Include(r, p) \/ Merge(r, p) \/ ReportMerged(r, p) \/ GiveUp(r, p) \/ Resume(r, p)

Spec == Init /\ [][Next]_vars

=============================================================================
