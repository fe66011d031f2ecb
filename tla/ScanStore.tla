------------------------------ MODULE ScanStore -------------------------------
(***************************************************************************)
(* What becomes of a finished scan: the report cache (api_cache), the      *)
(* inputs kept for its permalink (scan_inputs), the page that recovers an  *)
(* expired report, and the wizard that acts on a cached one.               *)
(*                                                                         *)
(* The hash of a scan is that of its counts and headlines, so a report     *)
(* stands for its hash here and two targets may well share one.  Handlers  *)
(* run on one event loop and the code between two awaits is one action.    *)
(***************************************************************************)
EXTENDS Naturals, FiniteSets

CONSTANTS
    Targets,        \* [repo, ref]: what a url and a ref name
    Uploaded,       \* the target of an uploaded lockfile
    Reports,        \* what a scan may find
    Slots,          \* scans that may run at a time
    Limit,          \* rate_limit_scans_per_ip_per_hour
    MaxScans,       \* bound: scans begun in a behaviour
    MaxChanges,     \* bound: how often the world changes or a row expires
    None

ASSUME TargetsAssumption ==
    \A t, u \in Targets \cup {Uploaded} : t.repo = u.repo /\ t.ref = u.ref => t = u

ASSUME UploadedAssumption == \A t \in Targets : t.repo # Uploaded.repo

ASSUME NoneAssumption ==
    /\ None \notin Reports
    /\ \A t \in Targets \cup {Uploaded} :
          /\ t.repo # None
          /\ \A m \in {"A", "C"} : [target |-> t, mode |-> m] # None

ASSUME BoundsAssumption == Limit \in Nat /\ MaxScans \in Nat /\ MaxChanges \in Nat

VARIABLES
    found,      \* found[t]: what a scan of t would find now
    rows,       \* api_cache: the one row under a hash, of whatever source
    inputs,     \* scan_inputs
    scans,      \* the scans that run
    issued,     \* hashes of scanned urls that were given out
    session,    \* the wizard session: its hash and the repository whose
                \* candidates were selected
    charged,    \* scans counted against the address in the last hour
    begun,      \* of these scans, those that began
    total,      \* scans begun in this behaviour
    changes

vars == <<found, rows, inputs, scans, issued, session, charged, begun, total, changes>>

world == <<found, changes>>
store == <<rows, inputs>>
limits == <<charged, begun, total>>

\* mode is that of scan_meta, None where a report is cached without one.
Response(target, mode, summary) ==
    [source |-> "scan_response", target |-> target, mode |-> mode, summary |-> summary]

Summary == [source |-> "exec_summary"]

\* get_cached_scan_response
Hit(h) == rows[h] # None /\ rows[h].source = "scan_response"

Scan(kind, target, mode, page, selected) ==
    [kind |-> kind, target |-> target, mode |-> mode, report |-> None,
     page |-> page, selected |-> selected]

Repos == {t.repo : t \in Targets \cup {Uploaded}}

Modes == {"A", "B", "C", None}

Rows == {Summary} \cup
    [source : {"scan_response"}, target : Targets \cup {Uploaded}, mode : Modes, summary : BOOLEAN]

Inputs == [target : Targets \cup {Uploaded}, mode : {"A", "C"}]

Scans == [kind : {"url", "upload", "api", "direct", "action", "recover"},
          target : Targets \cup {Uploaded}, mode : Modes, report : Reports \cup {None},
          page : Reports \cup {None}, selected : Repos \cup {None}]

TypeOK ==
    /\ found \in [Targets -> Reports]
    /\ rows \in [Reports -> Rows \cup {None}]
    /\ inputs \in [Reports -> Inputs \cup {None}]
    /\ scans \in [Slots -> Scans \cup {None}]
    /\ issued \subseteq Reports
    /\ session \in [hash : Reports, selected : Repos \cup {None}] \cup {None}
    /\ charged \in 0..Limit /\ begun \in Nat
    /\ total \in 0..MaxScans /\ changes \in 0..MaxChanges

Init ==
    /\ found \in [Targets -> Reports]
    /\ rows = [h \in Reports |-> None]
    /\ inputs = [h \in Reports |-> None]
    /\ scans = [s \in Slots |-> None]
    /\ issued = {}
    /\ session = None
    /\ charged = 0 /\ begun = 0 /\ total = 0
    /\ changes = 0

-----------------------------------------------------------------------------
(* Time and the world *)

Change == changes < MaxChanges /\ changes' = changes + 1

\* A push, an advisory published, a trust snapshot that moved.
FindingsChange(t) ==
    /\ Change
    /\ \E r \in Reports \ {found[t]} : found' = [found EXCEPT ![t] = r]
    /\ UNCHANGED <<store, scans, issued, session, limits>>

\* 24 hours, or a row written under another schema version.
Expire(h) ==
    /\ Change
    /\ rows[h] # None
    /\ rows' = [rows EXCEPT ![h] = None]
    /\ UNCHANGED <<found, inputs, scans, issued, session, limits>>

\* The oldest of the scans counted leaves the window of an hour; where more
\* were counted than began, it may be one that did not begin.
LeaveWindow ==
    /\ charged > 0
    /\ charged' = charged - 1
    /\ begun' \in {begun, begun - 1} \cap 0..charged'
    /\ UNCHANGED <<world, store, scans, issued, session, total>>

\* The process ends: what ran is lost, what is in SQLite stays, the counters
\* of the limit start anew.
Crash ==
    /\ \E s \in Slots : scans[s] # None
    /\ scans' = [s \in Slots |-> None]
    /\ charged' = 0 /\ begun' = 0
    /\ UNCHANGED <<world, store, issued, session, total>>

-----------------------------------------------------------------------------
(* Scans *)

\* Variant: a scan that nobody asked for is not counted.
ChargesAsked(kind) ==
    IF kind = "recover" THEN charged' = charged ELSE charged < Limit /\ charged' = charged + 1

\* check_and_count: a scan that is refused is not counted.
Charge(kind) == charged < Limit /\ charged' = charged + 1

Begin(s, scan) ==
    /\ Charge(scan.kind)
    /\ scans[s] = None
    /\ total < MaxScans
    /\ scans' = [scans EXCEPT ![s] = scan]
    /\ begun' = begun + 1 /\ total' = total + 1

\* POST /dashboard/scan
ScanUrl(s, t) ==
    /\ Begin(s, Scan("url", t, "A", None, None))
    /\ UNCHANGED <<world, store, issued, session>>

\* POST /dashboard/upload
Upload(s) ==
    /\ Begin(s, Scan("upload", Uploaded, "B", None, None))
    /\ UNCHANGED <<world, store, issued, session>>

\* POST /scan/url and POST /scan/upload of the API cache their report too, but
\* without scan_meta, and give out no link.
ApiScanUrl(s, t) ==
    /\ Begin(s, Scan("api", t, None, None, None))
    /\ UNCHANGED <<world, store, issued, session>>

ApiUpload(s) ==
    /\ Begin(s, Scan("api", Uploaded, None, None, None))
    /\ UNCHANGED <<world, store, issued, session>>

\* Mode C without the wizard, for candidates named in the request: POST
\* /scan/with-action[/start] of the API and of the dashboard.
ApiAction(s, t) ==
    /\ Begin(s, Scan("direct", t, "C", None, None))
    /\ UNCHANGED <<world, store, issued, session>>

FormAction(s, t) == ApiAction(s, t)

\* POST /dashboard/chat counts as a scan and begins none.
Chat ==
    /\ Charge("chat")
    /\ UNCHANGED <<world, store, scans, issued, session, begun, total>>

\* propose_fixes in a worker thread, over the download or the clone.
Analyse(s) ==
    /\ scans[s] # None
    /\ scans[s].report = None
    /\ \E r \in IF scans[s].target = Uploaded THEN Reports ELSE {found[scans[s].target]} :
          scans' = [scans EXCEPT ![s].report = r]
    /\ UNCHANGED <<world, store, issued, session, limits>>

\* A download, a clone, the parser or zizmor fails; OSV does, where that is
\* asked for.
ScanFails(s) ==
    /\ scans[s] # None
    /\ scans[s].report = None
    /\ scans' = [scans EXCEPT ![s] = None]
    /\ UNCHANGED <<world, store, issued, session, limits>>

\* call_claude: a text, or nothing where there is no key, the calls of the day
\* are used up, or the call fails.
ClaudeAnswers == BOOLEAN

\* attach_executive_summary: a summary under the hash is used again, or one
\* is asked for and may not come.  It is stored under the same key as the
\* report, which then replaces it.
Enriched(scan, claude) ==
    Response(scan.target, scan.mode, rows[scan.report] = Summary \/ claude)

\* Variant: the inputs of an assessment alone are kept.
KeepsInputsOfA(scan) == scan.mode = "A"

\* _hx_redirect_response, run_scan_from_url and execute_scan_with_action.
KeepsInputs(scan) == scan.mode \in {"A", "C"}

Finish(s) ==
    LET scan == scans[s]
    IN  /\ scan # None
        /\ scan.report # None
        /\ inputs' = IF KeepsInputs(scan)
                     THEN [inputs EXCEPT ![scan.report] =
                              [target |-> scan.target, mode |-> scan.mode]]
                     ELSE inputs
        /\ issued' = IF scan.kind \in {"url", "action", "direct"} THEN issued \cup {scan.report} ELSE issued
        /\ scans' = [scans EXCEPT ![s] = None]
        /\ UNCHANGED <<world, session, limits>>

\* The report is cached, its inputs are kept and its hash is given out; a
\* recovery shows it under the hash it was asked for.
Store(s) ==
    /\ Finish(s)
    /\ \E claude \in ClaudeAnswers :
          rows' = [rows EXCEPT ![scans[s].report] = Enriched(scans[s], claude)]

\* cache_scan_response swallows a write that fails.  What stays is the row as
\* it was, or the summary that was written over it.
StoreFails(s) ==
    /\ Finish(s)
    /\ \E row \in {rows[scans[s].report], Summary} :
          rows' = [rows EXCEPT ![scans[s].report] = row]

\* Mode C caches its report before it writes the run, and fails there: neither
\* are the inputs kept nor is the hash given out.
RunFails(s) ==
    LET scan == scans[s]
    IN  /\ scan # None
        /\ scan.report # None
        /\ scan.mode = "C" /\ scan.kind # "recover"
        /\ \E claude \in ClaudeAnswers : rows' = [rows EXCEPT ![scan.report] = Enriched(scan, claude)]
        /\ scans' = [scans EXCEPT ![s] = None]
        /\ UNCHANGED <<world, inputs, issued, session, limits>>

\* The process ends between the two writes, or before the inputs are kept.
CrashInStore(s) ==
    LET scan == scans[s]
    IN  /\ scan # None
        /\ scan.report # None
        /\ \E row \in {Summary, Response(scan.target, scan.mode, TRUE)} :
              rows' = [rows EXCEPT ![scan.report] = row]
        /\ scans' = [u \in Slots |-> None]
        /\ charged' = 0 /\ begun' = 0
        /\ UNCHANGED <<world, inputs, issued, session, total>>

-----------------------------------------------------------------------------
(* Pages *)

\* GET /assessment/{h} for a report that is not cached: its inputs are
\* scanned again.  A hit only reads; without inputs the page says so.
Recover(s, h) ==
    /\ ~Hit(h)
    /\ inputs[h] # None
    /\ Begin(s, Scan("recover", inputs[h].target, inputs[h].mode, h, None))
    /\ UNCHANGED <<world, store, issued, session>>

\* POST /assessment/{h}/plan
Plan(h) ==
    /\ h \in issued
    /\ Hit(h)
    /\ rows[h].mode = "A"
    /\ session' = [hash |-> h, selected |-> None]
    /\ UNCHANGED <<world, store, scans, issued, limits>>

\* POST /select: the ids hash the repository they are about, not the ref.
Select ==
    /\ session # None
    /\ Hit(session.hash)
    /\ session' = [session EXCEPT !.selected = rows[session.hash].target.repo]
    /\ UNCHANGED <<world, store, scans, issued, limits>>

\* Variant: the ids are not looked up in the report once more.
TrustsSelection(row) == TRUE

\* validate_selection_against_cached
StillOffered(row) == row.target.repo = session.selected

\* repo_url_from_scan_meta: an upload names no repository, nor does a report
\* that is cached without scan_meta.
NamesRepo(row) == row.target # Uploaded /\ row.mode # None

\* POST /authorize: url and ref are those of the cached report.
Authorize(s) ==
    /\ session # None
    /\ session.selected # None
    /\ Hit(session.hash)
    /\ NamesRepo(rows[session.hash])
    /\ StillOffered(rows[session.hash])
    /\ Begin(s, Scan("action", rows[session.hash].target, "C", None, session.selected))
    /\ session' = None
    /\ UNCHANGED <<world, store, issued>>

\* The row was replaced by one that names no repository to clone: the handler
\* has counted the scan and fails.
AuthorizeNameless ==
    /\ session # None
    /\ session.selected # None
    /\ Hit(session.hash)
    /\ ~NamesRepo(rows[session.hash])
    /\ StillOffered(rows[session.hash])
    /\ Charge("action")
    /\ UNCHANGED <<world, store, scans, issued, session, begun, total>>

Next ==
    \/ \E t \in Targets : FindingsChange(t)
    \/ \E h \in Reports : Expire(h) \/ Plan(h)
    \/ LeaveWindow \/ Crash \/ Select \/ AuthorizeNameless \/ Chat
    \/ \E s \in Slots :
          \/ Upload(s) \/ ApiUpload(s) \/ Analyse(s) \/ ScanFails(s)
          \/ Store(s) \/ StoreFails(s) \/ RunFails(s) \/ CrashInStore(s) \/ Authorize(s)
          \/ \E t \in Targets :
                ScanUrl(s, t) \/ ApiScanUrl(s, t) \/ ApiAction(s, t) \/ FormAction(s, t)
          \/ \E h \in Reports : Recover(s, h)

Spec == Init /\ [][Next]_vars

-----------------------------------------------------------------------------
(* Properties *)

\* A link to the report of a url never turns into "Scan not found": whatever
\* expires, fails to be written, is replaced or is cut off by a crash, the
\* report is cached or can be made again.
ReportStaysReachable == \A h \in issued : Hit(h) \/ inputs[h] # None

\* The pull requests go to the repository whose upgrades were selected, though
\* the cached report they are read from may since have been replaced by that
\* of another repository with the same hash.
ActsOnSelectedRepo ==
    \A s \in Slots :
        scans[s] # None /\ scans[s].kind = "action" => scans[s].target.repo = scans[s].selected

\* However scans come about, by a form, by an expired page or by the wizard,
\* no more of them begin within an hour than the limit allows.
ScansStayWithinLimit == begun <= Limit

==============================================================================
