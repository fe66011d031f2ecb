---------------------------- MODULE ScanStoreProofs ----------------------------
(***************************************************************************)
(* What holds of the report cache, the permalinks and the limit of scans   *)
(* for any number of targets, reports and concurrent scans, and however    *)
(* often the process dies.                                                 *)
(***************************************************************************)
EXTENDS ScanStore, TLAPS

-----------------------------------------------------------------------------
(* The invariant *)

\* Only scans of a repository give out a link, and their inputs can be kept.
LinkedScansAreRepeatable ==
    \A s \in Slots :
        scans[s] # None /\ scans[s].kind \in {"url", "action", "direct"}
            => scans[s].mode \in {"A", "C"}

\* Inputs are written before a hash is given out and are never removed.
LinksHaveInputs == \A h \in issued : inputs[h] # None

WithinCount == begun <= charged

IInv ==
    /\ TypeOK
    /\ LinkedScansAreRepeatable
    /\ LinksHaveInputs
    /\ ActsOnSelectedRepo
    /\ WithinCount

-----------------------------------------------------------------------------
(* Lemmas about the scans in flight *)

\* Of a scan, its report alone changes while it runs.
LEMMA AnalysedIsScan ==
    ASSUME NEW scan \in Scans, NEW r \in Reports
    PROVE  /\ [scan EXCEPT !.report = r] \in Scans
           /\ [scan EXCEPT !.report = r].kind = scan.kind
           /\ [scan EXCEPT !.report = r].target = scan.target
           /\ [scan EXCEPT !.report = r].mode = scan.mode
           /\ [scan EXCEPT !.report = r].selected = scan.selected
    BY DEF Scans

\* A scan begun by any handler keeps the invariant if that handler began it
\* with a mode that can be repeated, or gives out no link, and, where it acts
\* for a wizard, on the repository that was selected.
LEMMA BeginKeeps ==
    ASSUME IInv, NEW s \in Slots,
           NEW kind \in {"url", "upload", "api", "direct", "action", "recover"},
           NEW target \in Targets \cup {Uploaded}, NEW mode \in Modes,
           NEW page \in Reports \cup {None}, NEW selected \in Repos \cup {None},
           kind \in {"url", "action", "direct"} => mode \in {"A", "C"},
           kind = "action" => target.repo = selected,
           Begin(s, Scan(kind, target, mode, page, selected)),
           UNCHANGED <<world, store, issued>>,
           session' \in [hash : Reports, selected : Repos \cup {None}] \cup {None}
    PROVE  IInv'
    <1> DEFINE scan == Scan(kind, target, mode, page, selected)
    <1>1. /\ scan \in Scans /\ scan.kind = kind /\ scan.target = target
          /\ scan.mode = mode /\ scan.selected = selected
        BY DEF Scan, Scans
    <1>2. /\ scans' = [scans EXCEPT ![s] = scan]
          /\ charged < Limit /\ charged' = charged + 1
          /\ begun' = begun + 1 /\ total < MaxScans /\ total' = total + 1
        BY DEF Begin, Charge
    <1>3. /\ found' = found /\ changes' = changes /\ rows' = rows
          /\ inputs' = inputs /\ issued' = issued
        BY DEF world, store
    <1> HIDE DEF scan
    <1>4. scans \in [Slots -> Scans \cup {None}] /\ scans' \in [Slots -> Scans \cup {None}]
        BY <1>1, <1>2 DEF IInv, TypeOK
    <1>5. TypeOK'
        BY <1>2, <1>3, <1>4, BoundsAssumption DEF IInv, TypeOK
    <1>6. ASSUME NEW u \in Slots
          PROVE  IF u = s THEN scans'[u] = scan ELSE scans'[u] = scans[u]
        BY <1>2, <1>4
    <1>7. LinkedScansAreRepeatable'
        BY <1>1, <1>6 DEF IInv, LinkedScansAreRepeatable
    <1>8. ActsOnSelectedRepo'
        BY <1>1, <1>6 DEF IInv, ActsOnSelectedRepo
    <1>9. LinksHaveInputs'
        BY <1>3 DEF IInv, LinksHaveInputs
    <1>10. WithinCount'
        BY <1>2, BoundsAssumption DEF IInv, TypeOK, WithinCount
    <1> QED
        BY <1>5, <1>7, <1>8, <1>9, <1>10 DEF IInv

\* Scans that end, one or all of them, disturb nothing that is said of scans.
LEMMA EndedScansKeep ==
    ASSUME IInv, NEW ended \in SUBSET Slots,
           scans' = [u \in Slots |-> IF u \in ended THEN None ELSE scans[u]]
    PROVE  /\ scans' \in [Slots -> Scans \cup {None}]
           /\ LinkedScansAreRepeatable'
           /\ ActsOnSelectedRepo'
    <1>1. ASSUME NEW u \in Slots
          PROVE  scans'[u] = None \/ scans'[u] = scans[u]
        OBVIOUS
    <1>2. scans' \in [Slots -> Scans \cup {None}]
        BY DEF IInv, TypeOK
    <1>3. LinkedScansAreRepeatable'
        BY <1>1 DEF IInv, LinkedScansAreRepeatable
    <1>4. ActsOnSelectedRepo'
        BY <1>1 DEF IInv, ActsOnSelectedRepo
    <1> QED
        BY <1>2, <1>3, <1>4

\* The row of a scan that was stored, if its summary came or not.
LEMMA EnrichedIsRow ==
    ASSUME IInv, NEW scan \in Scans, NEW claude \in BOOLEAN
    PROVE  Enriched(scan, claude) \in Rows
    BY DEF Enriched, Response, Rows, Scans

-----------------------------------------------------------------------------
(* Every step keeps the invariant *)

LEMMA InitKeeps == Init => IInv
    <1> SUFFICES ASSUME Init PROVE IInv
        OBVIOUS
    <1>1. TypeOK
        BY BoundsAssumption DEF Init, TypeOK
    <1>2. /\ LinkedScansAreRepeatable /\ LinksHaveInputs
          /\ ActsOnSelectedRepo /\ WithinCount
        BY DEF Init, LinkedScansAreRepeatable, LinksHaveInputs, ActsOnSelectedRepo, WithinCount
    <1> QED
        BY <1>1, <1>2 DEF IInv

\* Time, other people's pushes and expiry.
LEMMA WorldKeeps ==
    ASSUME IInv,
           \/ \E t \in Targets : FindingsChange(t)
           \/ \E h \in Reports : Expire(h)
           \/ LeaveWindow
           \/ Chat \/ AuthorizeNameless
    PROVE  IInv'
    <1>1. /\ scans' = scans /\ inputs' = inputs /\ issued' = issued
          /\ session' = session /\ total' = total
        BY DEF FindingsChange, Expire, LeaveWindow, Chat, AuthorizeNameless, world, store, limits
    <1>2. LinkedScansAreRepeatable' /\ ActsOnSelectedRepo' /\ LinksHaveInputs'
        BY <1>1 DEF IInv, LinkedScansAreRepeatable, ActsOnSelectedRepo, LinksHaveInputs
    <1>3. ASSUME NEW t \in Targets, FindingsChange(t) PROVE TypeOK' /\ WithinCount'
        BY <1>1, <1>3, BoundsAssumption
           DEF IInv, TypeOK, WithinCount, FindingsChange, Change, store, limits
    <1>4. ASSUME NEW h \in Reports, Expire(h) PROVE TypeOK' /\ WithinCount'
        BY <1>1, <1>4, BoundsAssumption DEF IInv, TypeOK, WithinCount, Expire, Change, limits
    <1>5. ASSUME LeaveWindow PROVE TypeOK' /\ WithinCount'
        BY <1>1, <1>5, BoundsAssumption
           DEF IInv, TypeOK, WithinCount, LeaveWindow, world, store
    <1>6. ASSUME Chat \/ AuthorizeNameless PROVE TypeOK' /\ WithinCount'
        BY <1>1, <1>6, BoundsAssumption
           DEF IInv, TypeOK, WithinCount, Chat, AuthorizeNameless, Charge, world, store
    <1> QED
        BY <1>2, <1>3, <1>4, <1>5, <1>6 DEF IInv

\* Every handler that begins a scan.
LEMMA BeginsKeep ==
    ASSUME IInv, NEW s \in Slots,
           \/ Upload(s) \/ ApiUpload(s) \/ Authorize(s)
           \/ \E t \in Targets : ScanUrl(s, t) \/ ApiScanUrl(s, t)
                                 \/ ApiAction(s, t) \/ FormAction(s, t)
           \/ \E h \in Reports : Recover(s, h)
    PROVE  IInv'
    <1> USE DEF Modes, Repos
    <1>0. session \in [hash : Reports, selected : Repos \cup {None}] \cup {None}
        BY DEF IInv, TypeOK
    <1>1. CASE Upload(s)
        BY <1>0, <1>1, BeginKeeps DEF Upload
    <1>2. CASE ApiUpload(s)
        BY <1>0, <1>2, BeginKeeps DEF ApiUpload
    <1>3. ASSUME NEW t \in Targets, ScanUrl(s, t) PROVE IInv'
        BY <1>0, <1>3, BeginKeeps DEF ScanUrl
    <1>4. ASSUME NEW t \in Targets, ApiScanUrl(s, t) PROVE IInv'
        BY <1>0, <1>4, BeginKeeps DEF ApiScanUrl
    <1>5. ASSUME NEW t \in Targets, ApiAction(s, t) \/ FormAction(s, t) PROVE IInv'
        BY <1>0, <1>5, BeginKeeps DEF ApiAction, FormAction
    <1>6. ASSUME NEW h \in Reports, Recover(s, h) PROVE IInv'
        <2>1. inputs[h].target \in Targets \cup {Uploaded} /\ inputs[h].mode \in {"A", "C"}
            BY <1>6 DEF IInv, TypeOK, Inputs, Recover
        <2> QED
            BY <2>1, <1>0, <1>6, BeginKeeps DEF Recover
    <1>7. CASE Authorize(s)
        <2>1. session.hash \in Reports /\ session.selected \in Repos
            BY <1>0, <1>7 DEF Authorize
        <2>2. rows[session.hash].target \in Targets \cup {Uploaded}
            BY <2>1, <1>7 DEF Authorize, Hit, IInv, TypeOK, Rows, Summary
        <2>3. rows[session.hash].target.repo = session.selected
            BY <1>7 DEF Authorize, StillOffered
        <2> QED
            BY <2>1, <2>2, <2>3, <1>7, BeginKeeps DEF Authorize
    <1> QED
        BY <1>1, <1>2, <1>3, <1>4, <1>5, <1>6, <1>7

\* The analysis in a worker thread.
LEMMA AnalyseKeeps ==
    ASSUME IInv, NEW s \in Slots, Analyse(s)
    PROVE  IInv'
    <1>1. PICK r \in Reports : scans' = [scans EXCEPT ![s] = [scans[s] EXCEPT !.report = r]]
        BY DEF Analyse, IInv, TypeOK, Scans
    <1>2. scans[s] \in Scans
        BY DEF Analyse, IInv, TypeOK
    <1>3. UNCHANGED <<found, changes, rows, inputs, issued, session, charged, begun, total>>
        BY DEF Analyse, world, store, limits
    <1>4. scans' \in [Slots -> Scans \cup {None}]
        BY <1>1, <1>2, AnalysedIsScan DEF IInv, TypeOK
    <1>5. ASSUME NEW u \in Slots, scans'[u] # None
          PROVE  /\ scans[u] # None
                 /\ scans'[u].kind = scans[u].kind
                 /\ scans'[u].target = scans[u].target
                 /\ scans'[u].mode = scans[u].mode
                 /\ scans'[u].selected = scans[u].selected
        BY <1>1, <1>2, <1>5, AnalysedIsScan DEF IInv, TypeOK, Analyse
    <1>6. TypeOK' /\ LinksHaveInputs' /\ WithinCount'
        BY <1>3, <1>4 DEF IInv, TypeOK, LinksHaveInputs, WithinCount
    <1>7. LinkedScansAreRepeatable'
        BY <1>5 DEF IInv, LinkedScansAreRepeatable
    <1>8. ActsOnSelectedRepo'
        BY <1>5 DEF IInv, ActsOnSelectedRepo
    <1> QED
        BY <1>6, <1>7, <1>8 DEF IInv

\* A scan that fails, or dies with the process.
LEMMA ScanLostKeeps ==
    ASSUME IInv, Crash \/ \E s \in Slots : ScanFails(s)
    PROVE  IInv'
    <1>1. PICK ended \in SUBSET Slots :
            scans' = [u \in Slots |-> IF u \in ended THEN None ELSE scans[u]]
        <2>1. CASE Crash
            BY <2>1 DEF Crash
        <2>2. ASSUME NEW s \in Slots, ScanFails(s)
              PROVE  scans' = [u \in Slots |-> IF u \in {s} THEN None ELSE scans[u]]
            BY <2>2 DEF ScanFails, IInv, TypeOK
        <2>3. ASSUME NEW s \in Slots PROVE {s} \in SUBSET Slots
            OBVIOUS
        <2> QED
            BY <2>1, <2>2, <2>3
    <1>2. UNCHANGED <<found, changes, rows, inputs, issued, session, total>>
        BY DEF Crash, ScanFails, world, store, limits
    <1>3. charged' \in 0..Limit /\ begun' \in Nat /\ begun' <= charged'
        BY BoundsAssumption DEF Crash, ScanFails, limits, IInv, TypeOK, WithinCount
    <1>4. TypeOK'
        BY <1>1, <1>2, <1>3, EndedScansKeep DEF IInv, TypeOK
    <1>5. LinksHaveInputs' /\ WithinCount'
        BY <1>2, <1>3 DEF IInv, LinksHaveInputs, WithinCount
    <1> QED
        BY <1>1, <1>4, <1>5, EndedScansKeep DEF IInv

\* The end of a scan keeps the inputs of every link, old and new.
LEMMA FinishKeepsLinks ==
    ASSUME IInv, NEW s \in Slots, Finish(s)
    PROVE  /\ inputs' \in [Reports -> Inputs \cup {None}]
           /\ issued' \subseteq Reports
           /\ LinksHaveInputs'
    <1> DEFINE scan == scans[s]
               kept == [target |-> scan.target, mode |-> scan.mode]
    <1>1. scan \in Scans /\ scan.report \in Reports
        BY DEF Finish, IInv, TypeOK, Scans
    <1>2. scan.target \in Targets \cup {Uploaded}
        BY <1>1 DEF Scans
    <1>3. CASE KeepsInputs(scan)
        <2>1. kept \in Inputs /\ kept # None
            BY <1>2, <1>3, NoneAssumption DEF KeepsInputs, Inputs
        <2>2. inputs' = [inputs EXCEPT ![scan.report] = kept]
            BY <1>3 DEF Finish
        <2>3. issued' \subseteq issued \cup {scan.report}
            BY DEF Finish
        <2> HIDE DEF kept
        <2> QED
            BY <1>1, <2>1, <2>2, <2>3 DEF IInv, TypeOK, LinksHaveInputs
    <1>4. CASE ~KeepsInputs(scan)
        <2>1. scan.kind \notin {"url", "action", "direct"}
            BY <1>4 DEF Finish, KeepsInputs, IInv, LinkedScansAreRepeatable
        <2>2. inputs' = inputs /\ issued' = issued
            BY <1>4, <2>1 DEF Finish
        <2> QED
            BY <2>2 DEF IInv, TypeOK, LinksHaveInputs
    <1> QED
        BY <1>3, <1>4

\* A scan that was stored, wholly or in part.
LEMMA StoredKeeps ==
    ASSUME IInv, NEW s \in Slots,
           Store(s) \/ StoreFails(s) \/ RunFails(s) \/ CrashInStore(s)
    PROVE  IInv'
    <1>1. scans[s] \in Scans /\ scans[s].report \in Reports
        BY DEF Store, StoreFails, RunFails, CrashInStore, Finish, IInv, TypeOK, Scans
    <1>2. Summary \in Rows
        BY DEF Rows
    <1>3. PICK row \in Rows \cup {None} : rows' = [rows EXCEPT ![scans[s].report] = row]
        <2>1. CASE Store(s) \/ RunFails(s)
            BY <1>1, <2>1, EnrichedIsRow DEF Store, RunFails, ClaudeAnswers
        <2>2. CASE StoreFails(s)
            BY <1>1, <1>2, <2>2 DEF StoreFails, IInv, TypeOK
        <2>3. CASE CrashInStore(s)
            <3>1. Response(scans[s].target, scans[s].mode, TRUE) \in Rows
                BY <1>1 DEF Response, Rows, Scans
            <3> QED
                BY <1>2, <2>3, <3>1 DEF CrashInStore
        <2> QED
            BY <2>1, <2>2, <2>3
    <1>4. rows' \in [Reports -> Rows \cup {None}]
        BY <1>1, <1>3 DEF IInv, TypeOK
    <1>5. PICK ended \in SUBSET Slots :
            scans' = [u \in Slots |-> IF u \in ended THEN None ELSE scans[u]]
        <2>1. CASE Store(s) \/ StoreFails(s) \/ RunFails(s)
            <3>1. scans' = [u \in Slots |-> IF u \in {s} THEN None ELSE scans[u]]
                BY <2>1 DEF Store, StoreFails, RunFails, Finish, IInv, TypeOK
            <3> QED
                BY <3>1
        <2>2. CASE CrashInStore(s)
            BY <2>2 DEF CrashInStore
        <2> QED
            BY <2>1, <2>2
    <1>6. /\ inputs' \in [Reports -> Inputs \cup {None}]
          /\ issued' \subseteq Reports
          /\ LinksHaveInputs'
        <2>1. CASE Store(s) \/ StoreFails(s)
            BY <2>1, FinishKeepsLinks DEF Store, StoreFails
        <2>2. CASE RunFails(s) \/ CrashInStore(s)
            BY <2>2 DEF RunFails, CrashInStore, IInv, TypeOK, LinksHaveInputs
        <2> QED
            BY <2>1, <2>2
    <1>7. UNCHANGED <<found, changes, session, total>>
        BY DEF Store, StoreFails, RunFails, CrashInStore, Finish, world, limits
    <1>8. charged' \in 0..Limit /\ begun' \in Nat /\ begun' <= charged'
        <2>1. \/ charged' = charged /\ begun' = begun
              \/ charged' = 0 /\ begun' = 0
            BY DEF Store, StoreFails, RunFails, CrashInStore, Finish, limits
        <2> QED
            BY <2>1, BoundsAssumption DEF IInv, TypeOK, WithinCount
    <1>9. TypeOK'
        BY <1>4, <1>5, <1>6, <1>7, <1>8, EndedScansKeep DEF IInv, TypeOK
    <1> QED
        BY <1>5, <1>6, <1>8, <1>9, EndedScansKeep DEF IInv, WithinCount

\* The wizard on a cached report.
LEMMA WizardKeeps ==
    ASSUME IInv, Select \/ \E h \in Reports : Plan(h)
    PROVE  IInv'
    <1>1. UNCHANGED <<found, changes, rows, inputs, scans, issued, charged, begun, total>>
        BY DEF Select, Plan, world, store, limits
    <1>2. session' \in [hash : Reports, selected : Repos \cup {None}] \cup {None}
        <2>1. ASSUME NEW h \in Reports, Plan(h)
              PROVE  session' \in [hash : Reports, selected : Repos \cup {None}]
            BY <2>1 DEF Plan
        <2>2. CASE Select
            <3>1. session \in [hash : Reports, selected : Repos \cup {None}]
                BY <2>2 DEF Select, IInv, TypeOK
            <3>2. rows[session.hash].target \in Targets \cup {Uploaded}
                BY <3>1, <2>2 DEF Select, Hit, IInv, TypeOK, Rows, Summary
            <3>3. rows[session.hash].target.repo \in Repos
                BY <3>2 DEF Repos
            <3> QED
                BY <3>1, <3>3, <2>2 DEF Select
        <2> QED
            BY <2>1, <2>2
    <1>3. TypeOK'
        BY <1>1, <1>2 DEF IInv, TypeOK
    <1>4. LinkedScansAreRepeatable' /\ LinksHaveInputs' /\ ActsOnSelectedRepo' /\ WithinCount'
        BY <1>1 DEF IInv, LinkedScansAreRepeatable, LinksHaveInputs, ActsOnSelectedRepo, WithinCount
    <1> QED
        BY <1>3, <1>4 DEF IInv

LEMMA StepKeeps == IInv /\ [Next]_vars => IInv'
    <1> SUFFICES ASSUME IInv, [Next]_vars PROVE IInv'
        OBVIOUS
    <1>1. CASE UNCHANGED vars
        BY <1>1 DEF vars, IInv, TypeOK, LinkedScansAreRepeatable, LinksHaveInputs,
                    ActsOnSelectedRepo, WithinCount
    <1>2. CASE Next
        BY <1>2, WorldKeeps, BeginsKeep, AnalyseKeeps, ScanLostKeeps, StoredKeeps, WizardKeeps
           DEF Next
    <1> QED
        BY <1>1, <1>2

THEOREM Invariance == Spec => []IInv
    BY InitKeeps, StepKeeps, PTL DEF Spec

-----------------------------------------------------------------------------
(* What follows *)

\* The variables keep their types.
THEOREM TypeCorrect == Spec => []TypeOK
    BY Invariance, PTL DEF IInv

\* A link that dashboard.py gave out to the report of a repository can always
\* be shown, from the cache or by another scan.
THEOREM LinksStayGood == Spec => []ReportStaysReachable
    <1>1. IInv => ReportStaysReachable
        BY DEF IInv, LinksHaveInputs, ReportStaysReachable
    <1> QED
        BY <1>1, Invariance, PTL

\* POST /authorize acts on the repository whose upgrades were selected.
THEOREM ActsOnSelection == Spec => []ActsOnSelectedRepo
    BY Invariance, PTL DEF IInv

\* check_and_count admits no more scans within an hour than its limit.
THEOREM LimitHolds == Spec => []ScansStayWithinLimit
    <1>1. IInv => ScansStayWithinLimit
        BY BoundsAssumption DEF IInv, TypeOK, WithinCount, ScansStayWithinLimit
    <1> QED
        BY <1>1, Invariance, PTL
=============================================================================
