--------------------------- MODULE MergeRefinement ---------------------------
(***************************************************************************)
(* The merge task keeps the promise of an action run; a run finalised as   *)
(* stale under its live task is one the promise calls overdue.             *)
(***************************************************************************)
EXTENDS ActionMerge

\* What a row says, to the person who reads it.
Says(row) ==
    CASE row.state \in ActiveStates -> "waiting"
      [] row.state \in Escalations \ {"timed_out"} -> "left"
      [] row.state = "timed_out" -> "timed out"
      [] OTHER -> row.state

Promise == INSTANCE MergePromise WITH
    state <- [r \in Runs |-> run[r].state],
    outcome <- [r \in Runs |-> [p \in Prs |-> Says(rows[r][p])]],
    merger <- [p \in Prs |-> gh[p].by],
    overdue <- overrun

\* Every behaviour of the merge task, its crashes and the pages included, is
\* one the promise allows: each candidate is merged at most once, never reported
\* merged or left when the opposite is true, and settled once and for all; only
\* the timeouts of a run finalised under its task may be taken back.
KeepsPromise == Promise!Spec

=============================================================================
