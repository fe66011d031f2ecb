---------------------------- MODULE ActionRecords ----------------------------
(***************************************************************************)
(* The action_records table (arguss/web/action_records.py): what the        *)
(* results page and a reopened process page know about a remediation        *)
(* action.  Version texts, links and failure reasons are left out.          *)
(***************************************************************************)
EXTENDS WizardParameters

VARIABLE record     \* record[a]: the row with action_id a

Mergeable == {"opened", "already_exists"}
Unopened == {"failed", "skipped"}
ResultStatus == Mergeable \cup Unopened
FinalStatuses == {"completed", "partial", "failed"}

\* Outcome "absent": no entry in pr_outcomes.  Status "absent": no such row.
Outcomes == {"absent", "pending"} \cup ResultStatus

ActionRecord ==
    [status : {"absent", "pending"} \cup FinalStatuses,
     selected : SUBSET Cands, outcome : [Cands -> Outcomes]]

RecordsTypeOK == record \in [Actions -> ActionRecord]

RecordsInit ==
    record = [a \in Actions |->
        [status |-> "absent", selected |-> {}, outcome |-> [c \in Cands |-> "absent"]]]

Final(a) == record[a].status \in FinalStatuses

\* The candidates of ids whose result is one of kinds.
WithResult(result, ids, kinds) == {c \in ids : result[c] \in kinds}

\* Variant: one opened pull request is enough for "completed".
AnyIsCompleted(result, ids) ==
    IF WithResult(result, ids, Mergeable) = {} THEN "failed" ELSE "completed"

\* _finalize_status_from_scan_complete: the counts of the event, not the
\* outcomes mirrored before it, decide the status.
FinalizeStatus(result, ids) ==
    IF WithResult(result, ids, Mergeable) = ids THEN "completed"
    ELSE IF WithResult(result, ids, Mergeable) = {} THEN "failed"
    ELSE "partial"

CreateRecord(a, ids) ==
    /\ record[a].status = "absent"
    /\ record' = [record EXCEPT ![a].status = "pending", ![a].selected = ids]

\* update_pr_outcome, for each of ids.
UpdateOutcomes(a, ids, outcome) ==
    record' = [record EXCEPT
        ![a].outcome = [c \in Cands |-> IF c \in ids THEN outcome ELSE @[c]]]

\* finalize_action_record overwrites the status, a final one included.
FinalizeRecord(a, status) == record' = [record EXCEPT ![a].status = status]
==============================================================================
