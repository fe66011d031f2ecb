--------------------------- MODULE MergeParameters ---------------------------
(***************************************************************************)
(* The parameters shared by the registry, the pull requests and the merge  *)
(* task.  Durations are in ticks of one clock.                             *)
(***************************************************************************)
EXTENDS Integers

CONSTANTS
    Runs,        \* action runs
    Prs,         \* pull requests of the repository
    MaxSha,      \* bound: commits of one branch are numbered 1..MaxSha
    WaitCap,     \* mode_c_merge_wait_cap_seconds
    StaleSlack,  \* the 300 s beyond it after which a running row is stale
    Grace        \* mode_c_ci_grace_period_seconds

ASSUME MergeParametersAssumption ==
    /\ MaxSha \in Nat \ {0}
    /\ WaitCap \in Nat
    /\ StaleSlack \in Nat
    /\ Grace \in Nat

Shas == 1 .. MaxSha
NoSha == 0

=============================================================================
