----------------------------- MODULE FixSelection -----------------------------
(***************************************************************************)
(* From an assessment to the rows the merge task works from: the report is *)
(* cached and shown, the user selects upgrades and ticks the ones to merge *)
(* (arguss/web/wizard.py, dashboard.py), the authorized action clones and  *)
(* analyses the repository again and acts on the fresh report              *)
(* (arguss/web/mode_c_workflow.py, action_runs.py).  POST /scan/with-action *)
(* (arguss/web/routes.py) goes straight to the action.                     *)
(***************************************************************************)
EXTENDS Assessment

VARIABLES
    phase,      \* where the user stands
    cached,     \* the entries of the assessment's report
    selected,   \* selected_candidate_ids
    ticked,     \* auto_merge_candidate_ids
    prs,        \* candidates with a pull request
    rows,       \* the rows of populate_action_run_candidates
    allowDecline,   \* settings.allow_decline_override
    wasOff      \* history: the kill switch was off at some point of the scan

choice == <<phase, cached, selected, ticked>>
vars == <<world, scan, choice, prs, rows, allowDecline, wasOff>>

Phases == {"start", "assessing", "plan", "selected", "acting", "done"}

Authorizations == {"engine", "human_override", "none"}

Ids(entries) == {e.candidate : e \in entries}

TypeOK ==
    /\ AssessmentTypeOK
    /\ phase \in Phases
    /\ selected # NoIds => \A c \in selected : c.findings # {}
    /\ ticked # NoIds => \A c \in ticked : c.findings # {}
    /\ allowDecline \in BOOLEAN
    /\ prs \subseteq Ids(report.entries)
    /\ \A r \in rows : r.candidate \in prs /\ r.authorization \in Authorizations
    /\ wasOff \in BOOLEAN

Init ==
    /\ AssessmentInit
    /\ phase = "start" /\ cached = {} /\ selected = {} /\ ticked = {}
    /\ prs = {} /\ rows = {} /\ wasOff = FALSE
    /\ allowDecline \in Overrides

-----------------------------------------------------------------------------

StartScan ==
    /\ step' = "fetching"
    /\ wasOff' = ~killed
    /\ UNCHANGED <<world, allowDecline, tree, pending, report, prs, rows>>

\* A scan of a url from the landing page.
Assess ==
    /\ phase = "start"
    /\ phase' = "assessing"
    /\ StartScan
    /\ UNCHANGED <<cached, selected, ticked>>

\* The payload is cached under its hash and the wizard session created on it.
ShowPlan ==
    /\ phase = "assessing" /\ Reported
    /\ phase' = "plan"
    /\ cached' = report.entries
    /\ UNCHANGED <<world, allowDecline, scan, selected, ticked, prs, rows, wasOff>>

DeclineAllowed(tier) == tier # "DECLINE" \/ allowDecline

\* validate_selection_against_cached, validate_selection_against_fresh_report:
\* every id is in the report, and none is declined unless that is allowed.
ValidIn(entries, ids) ==
    /\ ids # {}
    /\ \A id \in ids : \E e \in entries : e.candidate = id /\ DeclineAllowed(e.tier)

\* A request that does not validate changes nothing.
SelectPost ==
    /\ phase \in {"plan", "selected"}
    /\ \E ids \in SUBSET Ids(cached) :
          /\ ValidIn(cached, ids)
          /\ selected' = ids
          /\ ticked' \in SUBSET ids
    /\ phase' = "selected"
    /\ UNCHANGED <<world, allowDecline, scan, cached, prs, rows, wasOff>>

AuthorizePost ==
    /\ phase = "selected"
    /\ ValidIn(cached, selected)
    /\ phase' = "acting"
    /\ StartScan
    /\ UNCHANGED <<cached, selected, ticked>>

\* The body of POST /scan/with-action is not checked against any report.  Its
\* ids come from an earlier scan of the same repository: here those that the
\* advisories of the day would give.
ScanWithAction ==
    /\ phase = "start"
    /\ phase' = "acting"
    /\ \E ids \in {Consolidate(Discovered(FindingsIn(repo.lock, osv)))} :
          /\ selected' \in {NoIds} \cup SUBSET ids
          /\ ticked' \in {NoIds} \cup SUBSET ids
    /\ StartScan
    /\ UNCHANGED cached

-----------------------------------------------------------------------------

\* filter_entries_for_action
ActionEntries ==
    IF selected = NoIds THEN {e \in report.entries : e.tier = "AUTO_MERGE"}
    ELSE {e \in report.entries : e.candidate \in selected}

\* Variant: the boxes ticked on the page are not consulted.
EffectiveUnticked(opened) ==
    {e.candidate : e \in {d \in ActionEntries : d.tier = "AUTO_MERGE"}} \cap opened

\* _effective_auto_merge_candidate_ids
EffectiveMergeIds(opened) ==
    IF ticked = NoIds
    THEN {e.candidate : e \in {d \in ActionEntries : d.tier = "AUTO_MERGE"}} \cap opened
    ELSE {e.candidate : e \in {d \in ActionEntries :
             /\ d.candidate \in ticked \cap opened
             /\ d.tier \in {"AUTO_MERGE", "REVIEW_REQUIRED"}}}

\* _merge_authorization_for_tier
AuthorizationFor(tier) == IF tier = "AUTO_MERGE" THEN "engine" ELSE "human_override"

\* populate_action_run_candidates: a row for every pull request, with the
\* authority it may be merged on.
RowsFor(opened) ==
    {[candidate |-> e.candidate, tier |-> e.tier,
      authorization |-> IF e.candidate \in EffectiveMergeIds(opened)
                        THEN AuthorizationFor(e.tier) ELSE "none"] :
        e \in {d \in ActionEntries : d.candidate \in opened}}

\* The fresh report does not hold the selection: scan_failed.
RejectSelection ==
    /\ phase = "acting" /\ Reported
    /\ selected # NoIds /\ ~ValidIn(report.entries, selected)
    /\ phase' = "done"
    /\ UNCHANGED <<world, allowDecline, scan, cached, selected, ticked, prs, rows, wasOff>>

\* run_mode_c_actions opens what it can (OpenFixPr, ActionSession); the run is
\* created and populated if anything was opened.
Act ==
    /\ phase = "acting" /\ Reported
    /\ selected # NoIds => ValidIn(report.entries, selected)
    /\ \E opened \in SUBSET Ids(ActionEntries) :
          prs' = opened /\ rows' = RowsFor(opened)
    /\ phase' = "done"
    /\ UNCHANGED <<world, allowDecline, scan, cached, selected, ticked, wasOff>>

ScanFailed ==
    /\ phase \in {"assessing", "acting"} /\ step = "failed"
    /\ phase' = "done"
    /\ UNCHANGED <<world, allowDecline, scan, cached, selected, ticked, prs, rows, wasOff>>

\* Once the flow is over nothing reads the world any more.
World ==
    /\ phase # "done"
    /\ WorldMoves
    /\ wasOff' = (wasOff \/ ~killed')
    /\ UNCHANGED <<choice, prs, rows, allowDecline>>

Analysis ==
    /\ ScanMoves(phase = "acting")
    /\ UNCHANGED <<choice, prs, rows, allowDecline, wasOff>>

Next ==
    \/ World \/ Analysis
    \/ Assess \/ ShowPlan \/ SelectPost \/ AuthorizePost \/ ScanWithAction
    \/ RejectSelection \/ Act \/ ScanFailed

Spec == Init /\ [][Next]_vars

-----------------------------------------------------------------------------
(* Properties *)

Upgrades == pending \cup Ids(report.entries)

\* Once discovery ran, every finding of the report is either skipped with a
\* reason or fixed by exactly one upgrade: grouping neither loses a finding nor
\* counts it twice (engine/propose.py, engine/consolidate.py).
EveryFindingAccounted ==
    step = "judging" =>
        \A f \in report.findings :
            LET fixes == {c \in Upgrades : f \in c.findings}
                skips == {s \in report.skipped : s.finding = f}
            IN  Cardinality(fixes) + Cardinality(skips) = 1

\* A package at one installed version gets one upgrade: the fallback to
\* per-finding candidates, which would open competing pull requests, is never
\* taken, whatever the spelling of the fixed versions (engine/consolidate.py).
OneUpgradePerVersion ==
    \A c, d \in Upgrades : c.package = d.package /\ c.from = d.from => c = d

\* An upgrade goes up, and not below the first fix of any of its findings
\* (engine/consolidate.py, _max_target and _max_target_satisfies_all).
TargetMeetsEveryFix ==
    \A c \in Upgrades :
        /\ Below(c.from, c.to)
        /\ \A f \in c.findings : ~Below(c.to, Target(f))

\* What a wizard action merges was on the page and ticked: the same package,
\* versions and findings, although two analyses lie between (the content of
\* the id, filter_entries_for_action, _effective_auto_merge_candidate_ids).
MergedAsShown ==
    \A r \in rows :
        r.authorization # "none" /\ cached # {} =>
            r.candidate \in ticked /\ r.candidate \in Ids(cached)

\* A row the merge task may merge on the engine's word is no major upgrade, in
\* a tree whose CI runs tests, judged while the kill switch was off; and with
\* the switch on from before the action's analysis to its end nothing is handed
\* to the merge task, and unless declined fixes may be selected no pull request
\* is opened (engine/fix_confidence.py, engine/kill_switch.py,
\* populate_action_run_candidates).
EngineMergeIsEarned ==
    /\ \A r \in rows :
        r.authorization = "engine" =>
            r.candidate.kind # "major" /\ tree.tested /\ wasOff
    /\ phase = "done" /\ ~wasOff =>
        /\ \A r \in rows : r.authorization = "none"
        /\ ~allowDecline => prs = {}

\* What was shown and ticked as AUTO_MERGE is merged only if the fresh analysis
\* still rates it AUTO_MERGE, as the docstring of RescanSelectionChanged has it
\* (web/wizard.py).
MergesWhatWasRated ==
    \A r \in rows :
        r.authorization # "none" /\ [candidate |-> r.candidate, tier |-> "AUTO_MERGE"] \in cached
            => r.tier = "AUTO_MERGE"
==============================================================================
