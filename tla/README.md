# Arguss in TLA+

Arguss assesses the npm dependencies of a repository, proposes version bumps,
and (Mode C, the wizard) opens one pull request per accepted bump through a
GitHub App, waits for its CI and merges it. This directory models the parts of
`src/arguss` whose correctness depends on order, failure and timing, or that
work out one thing twice, checks them with TLC on small instances and proves
the central ones with TLAPS.

1. Inventory · 2. What is hard · 3. Modules and code · 4. Runs · 5. Fairness ·
6. Proofs · 7. Disagreements found · 8. Abstractions · 9. Not modelled · 10. Plan

## 1. Inventory

| Part | State it keeps | Operations |
|---|---|---|
| Action-run registry (`web/action_runs.py`) | SQLite: one run, one row per pull request | create, add, update, finalise, load (which also repairs stale runs) |
| Wait-and-merge task (`web/action_merge.py`) | in memory: start time, first-no-checks times, the objects read at the top of a pass | poll, append a line to the PR, resolve the head, read checks, merge |
| Opening fix PRs (`web/github_action.py`, `web/lockfile_fix.py`) | GitHub: branches, commits, pull requests | find or create the branch, put files, open the PR |
| Mode C workflow and stream (`web/mode_c_workflow.py`) | a queue and a background task per action | analyse, open, mirror events, stream them, hand over to the merge task |
| Wizard sessions and selection (`web/wizard_session.py`, `web/wizard.py`, `web/dashboard.py`) | one row per session with a step and an expiry | plan, select, authorize, complete, fail |
| Action records (`web/action_records.py`) | one row per authorised action with an outcome per PR | mirror events, finalise |
| Engine and lenses (`engine/*`, `lenses/*`) | none | findings, fix of a finding, consolidation, verdict |
| Parser (`core/parser.py`) | none | a lockfile to installs with parents and a route |
| Counts (`engine/scan_counts.py`) | none | count a report, balance the sums |
| Results page and graphs (`web/results_context.py`, `web/graph_data.py`) | none | cards, rows, tiers, clean packages, the two graphs |
| Report cache, scan inputs, summaries (`core/cache.py`, `explanations/*`, `web/scan_inputs.py`) | SQLite rows keyed by a content hash, with a TTL and a schema version | put, get, expire, re-scan on a miss |
| Limit of scans (`web/scan_rate_limit.py`) | timestamps of the last hour per address | admit |
| App installation and tokens (`web/github_install.py`, `web/github_app_auth.py`) | OAuth state in the cookie of the browser; a token per installation and its lock | begin, callback, check, mint, drop |
| Schema migrations (`core/cache.py:init_db`) | `schema_version` and the schema itself | apply what is pending, from every connection |
| Limiter per address, daily budget (`web/ip_rate_limit.py`, `explanations/_budget.py`) | a window of timestamps; a counter per UTC day | admit |
| Intake (`web/url_scan.py`, `web/git_clone.py`, `web/github_fetch.py`, `web/zip_safe.py`) | a temporary directory | fetch, clone, unzip |
| Scores (`scoring/unified.py`, `engine/project_scores.py`) | none | score |
| Sweep (`jobs/top_1000_sweep.py`) | one table, written in one transaction | sweep a list of packages |
| Other pages, CLI, SBOM, settings, logging | none | render, configure |

How they interact. A scan fetches or clones, parses the lockfile, asks the
lenses, lets the engine judge, counts, and caches the payload under the hash of
its counts and headlines; the page and the wizard read it from there, and a
page whose report expired scans again from the kept inputs. An authorised
wizard action runs `execute_scan_with_action` in a background task of the
single event loop. It clones and analyses in worker threads, filters the fresh
report by the stored selection, opens pull requests in worker threads, mirrors
each event into the action record and the session from another worker thread,
and at the end creates a run, adds its rows and spawns the merge task, all in
one segment of the loop. From there the merge task and the pages that show the
run share only SQLite. Openers and merge tasks ask for installation tokens in
threads of their own. GitHub, npm, OSV, the operator's kill switch and people
with access to the repository act at any time.

## 2. What is hard, and what makes each part correct

| Part | Hard behaviour | Correct when |
|---|---|---|
| Registry | rows outlive the task that writes them; loading a run writes (stale repair); updates overwrite any state | a completed run has nothing waiting; a settled row stays, but for a timeout that stale repair declared under a live task |
| Merge task | every call is an await: pages, pushes, CI, other runs, the kill switch and a crash come between; answers get lost; nothing restarts a task | only authorised commits seen green are merged; a row never says merged or given up when the opposite is true; every run ends |
| Opening PRs | only GitHub remembers how far a call got; retries and concurrent calls resume from what they find | no second pull request, no mixed or half-written one; a call acts as if at once |
| Workflow, stream, session, record | the browser leaves, mirroring fails, the tail of an action fails after its pull requests exist, the session is retried | step, record and outcomes agree; one action in flight, but for a retry that overtakes a mirroring thread; everything settles |
| Selection | the report the user saw, the selection and the world have diverged by the time of the action | what is merged was shown, ticked and earned |
| Engine | ties, prereleases, unparseable versions, several findings per package | no finding lost or doubled, one upgrade per version, high enough |
| Parser, counts, page, graphs | names are looked up where installs are meant; tiers, clean packages and findings without a fix are worked out twice | the sums balance, the page accounts for each finding once and agrees with the counts, a shown route lies in its graph |
| Report cache | the key is a hash of the content, not of the repository; report, summary and inputs are three commits | a link given out stays good; an action goes to the repository that was selected |
| Limit of scans | scans start from forms, the API, expired pages and the wizard | none of them escapes the limit |
| App installation | tabs share one cookie that each answer replaces | only the user's installations are bound; a tab returns to its own page |
| Tokens | threads race for one token whose answer takes time | minted once, and good for the skew when given |
| Migrations | statements commit one by one, the version row last | a crash or a second caller leaves a database that still opens |

`PROJECT.json` lists each hazard at the line where it bites.

## 3. Modules and code

Shared constants are in `MergeParameters`, `WizardParameters` and
`AssessmentParameters`, with their assumptions. `PROJECT.json` maps every
definition to its lines; definitions keep the names of the code where they can.

| Module | Models | State and actions |
|---|---|---|
| `ActionRuns` | `action_runs.py` | `run`, `rows`; each operator is one registry function, `LoadedRows`/`LoadedState` the stale repair inside `load_action_run` |
| `GitHubPulls` | external: pull requests as `action_merge.py` uses them | `gh`; pushes, people, the merge call; what check runs say is asked for, not kept |
| `ActionMerge` | `action_merge.py` with its start in `execute_scan_with_action` | extends both; one action per segment between awaits, `pc[r]` the await, `snap[r]` the objects the pass holds; `CallRaises`, `Crash`, `PageLoads`, `Tick`; the history variable `overrun` names the runs finalised as stale while their task was alive |
| `MergePromise`, `MergeRefinement` | the abstract contract of a run, and `ActionMerge` as its implementation | `Says` maps row states to waiting, left, timed out, merged; `overdue` is `overrun`; the module of the run `ActionMerge` |
| `WizardSessions`, `ActionRecords` | `wizard_session.py`, `action_records.py` | `session`, `record`; each operator is one SQLite transaction |
| `ActionSession` | `dashboard.py`'s wizard handlers, `mode_c_workflow.py`, `run_mode_c_actions` | extends both; `task`, `work`, `result` (the background task and its threads), `mirror` (the mirroring thread), `stream`, `queue`, `viewer` (SSE), `merging`; the history variables `faults` (what went wrong so far) and `overtaken` (sessions retried while a mirroring thread was between finding them and writing their step) |
| `OpenFixPr` | `open_fix_pr` and its requests | `call[o]` one call; `branch`, `opened`, `pr` on GitHub; each action is one request, which may fail before or after GitHub acted |
| `PullPromise`, `PullRefinement` | the abstract contract of a call of `open_fix_pr`, and `OpenFixPr` as its implementation | `Answered` maps the stages of a call to not called, may open, may join, and its answer |
| `FixEngine` | `engine/*` | pure operators: versions, `Target`, `Consolidate`, `TrustFlags`, `Vetoes`, `Verdict` |
| `Assessment` | `propose_fixes` and the world under it | `repo`, `osv`, `npm`, `killed`; `step`, `tree`, `pending`, `report`; one action per source read |
| `FixSelection` | `wizard.py`, the selection handlers, `routes.py`, `populate_action_run_candidates` | extends `Assessment`: assess, select, authorise, analyse again, hand over |
| `LockfileTree` | `parse_lockfile` | pure: entries that are installs, declarers, which install serves a name, parents, routes |
| `DependencyGraph` | `graph_data.py` | pure: rows merged by name, the subgraph of a finding and why there is none, the graph of the project |
| `ScanCounts` | `build_scan_counts` | pure: tiers and partitions of packages, findings per candidate, the checks of the sums |
| `ResultsPage` | `build_results_context` | pure: cards, rows, tiers, clean packages and findings without a fix, from one cached payload |
| `ScanReport` | a scan from the lockfile to its page | extends these four: `world`, `step`, `cached`, `page`; parse, lens, engine, counts, page, with the failures of each |
| `ScanStore` | `cache_scan_response`, `scan_inputs.py`, `executive_summary.py`, the recovery of a permalink, `scan_rate_limit.py`, the wizard on a cached report | `rows`, `inputs`, `scans`, `issued`, `session`, `charged`; an action per handler segment, `StoreFails`, `RunFails`, `CrashInStore`, `Crash`, `Expire` |
| `InstallTokens` | `get_installation_access_token` | `tokens`, `workers`; wait for the lock, reuse, mint, store |
| `AppInstallation` | `github_install.py` and the connection part of GET and POST /authorize | extends it: `cookie` of the browser, `tabs` each with the cookie its request carries, `live` installations, `runs` |
| `*Proofs` | theorems about the module they are named after | |
| `MC*` | constants and symmetry for TLC | |

How the pieces join: `FixSelection` produces the rows with their authorisation
that `ActionMerge` starts from (`NewCandidates`); `ActionSession` runs
`open_fix_pr` as one step per thread, whose requests `OpenFixPr` expands; its
`StartMergeRun` is `StartRun`, `AddCandidate` and `Spawn` of `ActionMerge`.
`ScanReport` takes the consolidation from `FixEngine` and leaves the tiers to
`FixSelection`; what it caches is a report of `ScanStore`, whose `Authorize`
starts the task of `ActionSession`. `AppInstallation!Begin` is the same
request, seen from the browser, and its threads are those of `OpenFixPr` and
`ActionMerge`.

## 4. Runs

| Run | Instance | What it shows |
|---|---|---|
| `ActionMerge` | 2 runs on 1 pull request, 2 commits, passes of any length | only a commit seen green is merged, rows tell the truth, only one run claims the merge, completed runs are settled, only a timeout shown too early is taken back, the inductive invariant, every run ends; the runs implement `MergePromise` |
| `ActionSessionFaults` | 1 session, 2 actions, 1 candidate; a retry at any moment, tabs that leave, crashes (also inside POST /authorize), lost mirror writes, late failures | one action in flight and a truthful step, unless the retry overtook a mirroring thread; a final status that only a late failure changes |
| `ActionSessionOvertaken` | 1 session, 3 actions, no fault | violation: a second action in flight (§7) |
| `ActionSessionLive` | 1 action, 3 candidates, 2 slots, tab open, late failures | every result recorded, totals and outcomes agree, the merge run starts after completion, everything settles, the stream ends |
| `ActionSessionLeft` | 1 action, a tab that leaves | violation: the record stays pending (§7) |
| `OpenFixPr` | 3 calls, 2 fixes (one with one file, one with two), default branch moves once | no duplicate, no mixed, no half-written pull request by its writer; the calls implement `PullPromise` |
| `OpenFixPrHalfWritten` | 2 calls, 1 fix | violation: a resumed branch lacks a file (§7) |
| `FixSelection` | 2 packages, 3 installs, 3 advisories, 6 versions, 2 lockfiles, 2 changes of the world | engine and selection together |
| `RescanStale` | the same | violation: a downgraded upgrade is merged as a human override (§7) |
| `ScanReport` | 3 packages, 4 installs, one nested, 5 advisories; all combinations of a few declarations per install without advisories, every set of advisories on 4 lockfiles | sums balance, the page accounts for each finding and agrees with the counts, a shown route lies in its graph, a depth is of a way there |
| `ScanStore` | 2 repositories and an upload, 2 reports, 2 scans at a time, 3 in all, a limit of 2, 2 changes or expiries | links stay good, the wizard acts where it selected, the limit holds |
| `AppInstallation` | 2 installations, one the user's, 2 threads, 2 tabs, 2 installs | what is bound is owned, tabs return to their page, tokens are minted once and last |

Bounds, and why they are enough to meet the interesting cases:

- `ActionMerge`: the clock counts the delays that are compared: cap and grace
  are 1, the slack is 0 and `MaxClock` is 2. So the cap and the grace can fall
  before, at and after every step, and a run is stale one tick after its cap,
  with its task still in the pass it began before. Two commits are one push between any two calls. A run
  never interferes with another but through a shared pull request, so two runs
  with one pull request cover the pairs; the proofs cover several candidates
  in one pass.
- `ActionSession`: two actions are one retry, which may
  overtake the thread of the first; a third is what then gets in beside the
  second; three candidates in two slots
  make one wait; one tab is what the code expects of an action. Two tabs on
  one stream are not in any run: `Leave` shows what the first to go does to the
  action, §7 what becomes of the other tab.
- `OpenFixPr`: three calls are two racing and one after; `MaxMain = 1` gives
  two clones with different content.
- `FixSelection`: `MaxMoves = 2` lets the world change during the assessment
  and again before or during the action. `FirstWorlds` are worlds with all
  kinds of advisories, tests and metadata; the versions hold a prerelease, two
  release lines and one text that does not parse, in string order unlike their
  numeric order. Two installs of package 1 give one group with several
  findings; its two advisories have different first fixes.
- `ScanReport`: the nested install gives a name with two rows, of one version
  or two; the name "root" sorts between the packages, since the code orders
  routes by name; declarations may be circular, point at installs that are
  skipped or at nothing. The advisories hold two lines of fixes, one, and none
  above the versions they affect, so a package may have an entry and a finding
  without a fix at once.
- `ScanStore`: two reports let two repositories share a hash and one change
  its own; three scans are one assessment, one that replaces its report and one
  action; a limit of two can be reached and left. `MaxChanges` counts changes
  of the world and expiries together.
- `AppInstallation`: the lifetime exceeds skew and delay by one, the least the
  assumption allows; two tabs whose answers cross, two threads on one lock.

`CHECK_DEADLOCK FALSE` stands where an instance really stops: sessions,
actions, scans and calls are used up, the flow ends, or the
clock does and every task has returned. Each component that changes state over time states its
types as `TypeOK`; it is proved (§6), so no run lists it by itself.

## 5. Fairness

- `ActionMerge!FairSpec`: weak fairness of the task's steps, because the event
  loop resumes a coroutine whose call has returned and each call has a 30 s
  timeout, and of the clock. `CallRaises` and `Crash` are not forced and not
  excluded: `TaskCompletesRun` allows the task to die, `WatchedRunCompletes`
  assumes instead that somebody opens the page of the run (`Watched`), which
  is what triggers the stale repair.
- `ActionSession!FairSpec`: the same for the background task and the mirroring
  thread, worker threads return (`OpenFixPr`), and an open tab reads
  (`ReadEvent`). No fairness is assumed of people: nothing forces a tab to be
  opened, left or a session to be retried.

## 6. Proofs

**The merge task.** `ActionMergeProofs` proves, for every set of runs and pull
requests and every delay, that `Spec` implies (theorems with the property each
states): `TypeCorrect` (`TypeOK`), `MergeInvariantHolds` (`MergeInvariant`),
`MergesAreVerified` (`MergedWasVerified`), `MergedRowsAreTrue`
(`MergedRowIsTrue`), `EscalatedRowsAreTrue` (`EscalatedWasNotMerged`), the two
together `RowsAreTrue` (`RowsTellTheTruth`), `CompletedRunsAreSettled`
(`CompletedRunIsSettled`) and `SettledRowsAreFinal` (`SettledIsFinal`).

Nothing in the code keeps a pass shorter than the slack of 300 s: it has a
call of up to 30 s, or several, for each candidate, and `load_action_run` looks
only at the age of the run. So a page, or the task itself when it re-reads a
candidate, may finalise a run whose task is in the middle of a pass. No
assumption excludes that; `overrun` records it, and the last two theorems say
how far its effects go. A row shown as settled changes afterwards only from
timed_out, and only in an overrun run; a completed run has an active row only
if it is overrun and its task has not returned. `TaskCompletesRun` adds, by
TLC, that such a task settles the row again unless it dies.

None of the safety properties is inductive: that a row marked merged tells the
truth depends on what the task has in hand. `MergeInvariant` therefore locates
the news of every merge. If run r merged p, then either the row says so, or r's
task is between GitHub's answer and the row (`replying` with 200), or the task
is gone and the row is still open or timed out. Besides it says which columns
of a row the task may rely on while it works on its snapshot: candidates it has
not decided in this pass are open in the table or, in an overrun run, timed out.
Its parts are per run (`Ownership`) and about time (`InTime`: only an overrun
run is completed under a live task, and a task that returned leaves nothing
active), so one lemma per action preserves each.
The lemmas about `EscalateActive`, `LoadedRows` and `SetCandidateState` say
once what those operators keep.

The same module proves `PromiseIsKept` (`KeepsPromise`): `ActionMerge`
implements `MergePromise`, its initial states included. Each kind of step maps
to one step of the promise: a row that is added to `Include`, GitHub's 200 to
`Merge` (nobody merged it before, since a pull request with a merger is not
open), the row after it to `ReportMerged`, a candidate given up to `GiveUp`
(`CurrentIsNotMerged`), the end of a task and the stale repair of an abandoned
run to `Complete`, the stale repair under a live task to `Overdue`, after which
a row set back to ci_running is a `Resume`; everything else, a crash too, is a
stutter. `MergeInvariant` is what tells a
row to be given up from one whose merge is not reported yet.

**Sessions and actions.** `ActionSessionProofs` proves, for any sessions,
actions, candidates, slots and viewers, crashes and lost writes included,
`TypeCorrect` (`TypeOK`) and, each with the conditions under which the code
keeps it: `NoSecondAction` (`SecondActionOnlyWhenOvertaken`), `FinalStaysFinal`
(`FinalIsFinal`) and `StepsAreTrue` (`StepIsTrue`) for retries at any moment;
`StatusesMatch` (`StatusMatchesOutcomes`) and `MergesAfterCompletion`
(`MergeStartsAfterCompletion`) as long as no mirrored write was lost, crashes
or not; `ResultsAreRecorded` (`EveryResultIsRecorded`) where tabs stay, the
process does not stop and the database takes every write. The conditions are
constants of the model or its history variables, so that each theorem says on
what it depends. The first three leave out the sessions in `overtaken`: POST
/authorize does not look at mirroring threads, and one of them may write the
step of the former action over that of the retry. For these sessions
`InFlightIsRejected` fails (§7); the theorems say that this is the only way.

The properties relate the session, the record and the results of the threads,
while what connects them is under way in a mirroring thread. The invariant has
one group of facts per action (`ActionOK`: what the task's stage says of the
results, and what the thread in the air is about to write: `WritesOutcomes`,
`WritesFinal`) and one per session (`LinkOK`: an action belongs to one session;
`StepOK`: a session to be retried has an action that can no longer act, an
authorized one has news under way). A step of one action leaves the others
alone (`SameKeeps`), and `LeavesSession` is what it owes its own session, so
that the proof has one lemma per action and not one per pair.

**The engine.** `FixEngineProofs` holds the lemmas about the pure part, which
the two modules below share. The versions that parse are ordered, those of one
triplet tied (`BelowOrder`); a finite set has a minimum of every strict order
(`FiniteMinimal`, from the well-foundedness of strict inclusion), so the
lowest version above the installed one (`PickIs`) and the greatest target of a
group (`MaxTargetIs`) exist; that target satisfies the group, so a group
becomes one candidate (`GroupIsConsolidated`), and the upgrades are one per
package and version that has a fix (`ConsolidateIs`, `UpgradesAre`,
`EveryFixIsProposed`).

**The selection.** `FixSelectionProofs` proves, for any repository, advisories,
registry and any number of changes under the analysis, `TypeCorrect`,
`EveryFindingIsAccounted` (`EveryFindingAccounted`), `OneUpgrade`
(`OneUpgradePerVersion`), `TargetsMeetEveryFix` (`TargetMeetsEveryFix`),
`MergesWereShown` (`MergedAsShown`) and `EngineMergesAreEarned`
(`EngineMergeIsEarned`). Of an analysis under way the invariant says that what
is pending and what is judged make up the upgrades of the findings (`ScanOK`),
and on what a verdict was given (`VerdictsOK`); of the user, that what is ticked
is selected and what is selected was shown (`ChoiceOK`), which survives a
second analysis because that one only filters by it.

**The report and its page.** `ScanReportProofs` proves, for any lockfile,
advisories and verdicts, `CountsBalance` (`BalanceHolds`), `PageAgrees`
(`PageAgreesWithCounts`) and `FindingsReachThePage`
(`PageAccountsForFindings`). What all three rest on is `Sound`: an upgrade per
package and version, made of the findings there. So the tiers of a package
agree whichever of them the code lets win (`TiersAgree`), and the sums are
sizes of disjoint parts (`ThreeParts`, `SumIs`).

`RoutesAreInGraphs` (`RouteIsInGraph`) is about what the parser works out twice,
by names for the routes and by installs for the graphs. The layers of a search
and the routes are recursive functions; that each has the values its
definition gives is not assumed but follows from a least number without one
(`SearchExists`, `RoutesExist`). A search in layers closes after as many layers
as there are nodes, because a layer that adds nothing ends it (`SearchCloses`),
and then holds just what a chain of steps reaches (`SearchSteps`). So a route
goes down one layer per name (`RoutesLead`): it follows declarations from the
project to the package and is the shortest that does (`RoutesAreShortest`). What
is shown of an install extends the route of one of its parents, and need be no
shortest one (§7). The depths drawn from it are then those of a way in the graph
(`DepthsAreOfWays` for `DepthIsOfAWay`): the search that improves them finds in
its d-th layer only what d declarations lead to (`ImprovedWays`).
The walk up `node_modules` finds just the install that npm's rule names
(`ResolveFollowsNpm`). In a well-formed lockfile the declarers of a name are then
shared out among its installs, each declaration of a route is an edge between
two installs, and the project reaches them all.

**Opening pull requests.** `OpenFixPrProofs` proves, for any number of calls
and fixes, `TypeCorrect`, `NoDuplicates` (`RerunOpensNothing`), `CompletePulls`
(`WrittenPrIsComplete`), `OneCloneEach` (`FilesFromOneClone`) and
`PullsAreCounted` (`OnePullPerFix`, which includes `RerunOpensNothing`). The invariant rests on `OneWriter`: POST
/git/refs lets one call through, so a branch has one writer, and `Progress`
says that the branch holds exactly what that writer has put so far. A pull
request of its own is then complete (`Wrote`); a call after a pull request
stays among the stages that only look (`Late`); a pull request that is not open
any more was settled by people (`SettledByPeople`). The counting part,
`EachCounts`, is about cardinalities and needs `Openers` to be finite.

`CallsActAtOnce` proves that `OpenFixPr` implements `PullPromise`: of the dozen
requests of a call one counts, and the call answers there. Opening a pull request
is the POST that GitHub accepted, joining one the GET that found it; all other
requests change nothing the promise speaks of. The step that needs the
invariant is the POST: `Late` says that a call whose fix had a pull request when it
began never comes that far. What the promise adds to the invariants is that an
answer is never taken back, that already_exists is said only when there is a
pull request, and that none is opened beside an open one.

**The report cache.** `ScanStoreProofs` proves, for any repositories, slots and
limit, `TypeCorrect`, `LinksStayGood` (`ReportStaysReachable`),
`ActsOnSelection` (`ActsOnSelectedRepo`) and `LimitHolds`
(`ScansStayWithinLimit`). A hash that was given out has its inputs
(`LinksHaveInputs`), because only scans of a repository give one out
(`LinkedScansAreRepeatable`) and inputs are never removed.

**Installations and tokens.** `AppInstallationProofs` proves, for any tabs,
threads and installations and a clock that never stops, `BindsOwned`
(`BoundIsOwned`), `LandsRight` (`LandsWhereItStarted`), `TokensLast`
(`TokenOutlivesItsUse`) and `FreshTokenStays` (`FreshTokenIsKept`). The
invariant of the browser is about every cookie under way, not only the one in
the browser: an unspent state comes with the path of just that install, since
`Starting` sets both. The invariant of the tokens says that the lock has one
holder and that no token becomes fresh while it is held; a minted token
outlives its use because the skew and the delay of an answer are less than its
lifetime (`TimesAssumption`: 300 s and the 30 s timeout of the client against an hour).

Assumptions: those named beside the constants, all of which the runs evaluate.
None of them bounds the length of a pass or the moment of a retry. Those the
engine's proofs need: lockfiles and the
names in them, answers of OSV and the events of an advisory are finite; a version has a place in string
order; neither the key of a package that is not there (`NoDep`) nor a request
without ids (`NoIds`) can be taken for a present one.

Only model-checked: liveness and everything that needs `ENABLED`. Every
invariant a passing run checks is also proved.

## 7. Disagreements found

Each has a run that ends in the violation, and an entry in `PROJECT.json`:

- `ActionSessionLeft`: leaving or reloading the process page cancels the
  action without a final status; the record stays pending, and the session is
  sent back to /process until it expires.
- `ActionSessionOvertaken`: a failed action announces scan_failed twice
  (`mode_c_workflow.py`, the second time from `run_scan_background`). The first
  lets the user retry; when the retry comes while the thread of the second is
  between `find_session_by_action_id` and `update_step`
  (`wizard_session.py:272`), the thread marks the retried session
  authorize_failed, and a third action is accepted while the second runs.
- `OpenFixPrHalfWritten`: a branch with only package.json written is taken for
  one that only lacks its pull request.
- `RescanStale`: the re-scan never raises `RescanSelectionChanged`; what was
  ticked as AUTO_MERGE is merged though the fresh report rates it
  REVIEW_REQUIRED.

Known behaviours that follow from the models or from reading and have no run
of their own:

- A task that dies after GitHub merged leaves a row that the stale repair marks
  timed_out, "left open for manual review". `MergePromise` allows it: only of a
  timed-out pull request the run may not know that it merged it.
- A failure after `scan_complete` (payload, run, inputs) leaves a completed
  record and a merge run that may not exist; the stream says scan_failed. That
  is the one way in which a final status changes (`FinalIsFinal`).
- When a mirror write is lost, the record's totals and outcomes may differ and
  its merge run may precede its completion; `StatusMatchesOutcomes` and
  `MergeStartsAfterCompletion` are stated for a database that accepts writes.
- The kill switch stops a merge task only at the top of a pass: candidates of
  the pass under way are still merged. With `allow_decline_override` (on by
  default) declined upgrades still get pull requests under the kill switch,
  without a merge authorisation.
- With slow passes a page times out a live run, whose task goes on with the
  rows of its snapshot: what the page showed as timed_out becomes ci_running
  again, or merged, or another escalation, and then stays. When the task dies
  in between, a completed run is left with an active row, which nothing closes
  any more, since stale repair looks at running runs only.
- The merged target of several findings may lie in an affected range of one of
  them (2.0.1 with fixes 1.2.5 and 2.0.3), while `consolidate.py:4` speaks of
  one candidate that resolves all findings.
- The path of an install goes through the parent that sorts first, though
  another is nearer, while `docs/qanda/parser.md:24` calls it the shortest: with
  z declared by the project, a and b by z, and a by b too, the path of a is
  root, z, b, a.
- Depths in the graph of the project start from those paths, and the search for
  shorter ones never passes a node that has its depth already, so what lies
  behind is shown too deep (a at 3), while `graph_data.py:182` speaks of the
  shortest distance. `DepthIsOfAWay` is what holds.
- `routes.py:258` says of POST /scan/with-action "The agent does NOT merge any
  PRs it opens", and the glossary of the results page (`results_context.py:132`)
  says of Mode C "it does not merge PRs on GitHub". Wizard and API both end in
  `spawn_action_merge_task` (`mode_c_workflow.py`), which merges every candidate
  with an authorization whose checks are green. A request of the API that names
  no ids to merge authorizes all that are AUTO_MERGE
  (`_effective_auto_merge_candidate_ids`), where the description promises no
  merge at all; in the wizard the user ticked them (`MergedAsShown`). The
  models follow the code.
- Two tabs on the stream of one action share one queue: each event reaches one
  of them. The sentinel releases one reader; the other waits on a queue nobody
  writes to any more, until its connection breaks. `SoleViewerIsReleased` is
  about a tab that reads alone.
- When OSV fails, the report is empty but for an entry that says so
  (`vulnerability.py:327`). The forms of the dashboard refuse such a report
  (`report_has_osv_unavailable`); the API, the recovery of a permalink and the
  wizard's action go on with it, and the first two cache it.
  `EveryFindingAccounted` then has nothing to account for. A wizard action is
  refused, because the selected ids are gone.
- The files of a pull request come from the clone, its branch from the default
  branch as it is when the branch is made: pushes in between are reverted for
  the two manifests.
- An expired link whose findings changed is scanned again on every visit, each
  time against the limit: the new report is cached under its own hash
  (`dashboard.py:1080`).
- A report cached by POST /scan/url of the API carries no `scan_meta`; when it
  replaces the report of a wizard session under the same hash, POST /authorize
  counts a scan and fails (`AuthorizeNameless`).
- The limit of scans is counted in memory: a restart, or a second worker
  process, begins a new count. `ScansStayWithinLimit` is about one process
  between two restarts.
- Dropping the cached token of an installation takes another lock than minting
  it: a mint under way stores its token after the drop. The token is of an
  installation that is gone, and GitHub refuses it.

## 8. Abstractions

- `ActionMerge`: rows of several escalations in one loop are one step, since no
  await lies between and a crash inside is covered by rows that close one by
  one on the next load. Reading rows in `updated_at` order is any order.
  Candidates have their number always: `open_fix_pr` takes it from GitHub's
  answer in each result that becomes a row. The answers about check runs, and
  the kill switch at the top of a pass, come out either way, so their state is
  not kept. Merged and closed pull requests are one, "settled", as the merge
  call answers both alike. A candidate's object is forgotten when the pass has
  processed it, and the sleep is part of the step that ends the pass
  (`NextCandidate`). `verified` and `overrun` are history variables.
- `ActionSession`: a handler is atomic, because `_streams_lock` is never held
  across a suspension; a crash inside POST /authorize is an action of its own.
  The queue holds only the events a page reacts to. The ids to merge are in
  `FixSelection`. `faults` and `overtaken` are history variables.
- `OpenFixPr`: reading the repository and the head of its default branch is
  one request; branches are not deleted; how a manifest is edited is reduced to
  which files change.
- `Assessment`: the assessment of a URL downloads manifests, workflows and an
  empty stub per `*.test.*` or `*.spec.*` file, while the action clones: tests
  known by their directory are seen only by the second. Each source is read in
  one step. EPSS, KEV, CVSS and scores decide nothing and are left out. The
  veto for a collapse of downloads never fires while both snapshots share the
  package's weekly count.
- `FixEngine`: identifiers are hashes of the fields of findings and candidates,
  so the records stand for them. A version is its parsed triplet and its place
  in string order.
- `FixSelection`: one repository, one user; pull requests open in one step
  (`ActionSession` and `OpenFixPr` have the rest). `wasOff` is a history
  variable.
- `LockfileTree`: a key is its chain of package names; integrity, resolved urls
  and licences are left out. The name of a package is a number whose order is
  that of the names.
- `ScanReport`: tiers are any tiers; severities, EPSS, texts, sort orders and
  styles are left out. `PrimaryFinding` breaks ties by advisory and install.
- `ScanStore`: a report stands for its hash, so two repositories share a hash
  where they share a report. Expiry and another schema version are one action.
  The limiter keeps a count for one address whose oldest scan may leave the
  window at any time; a restart empties it, as it does in the code. `begun`,
  `issued` and `total` are history or bounds.
- `AppInstallation`: a request carries the cookie the browser had when it was
  sent. A session that a request does not change may or may not be sent back.
  One user; the installations of others are in GitHub's redirect all the same.

## 9. Not modelled

- Schema migrations: a fixed list of files in order, once per version. What a
  crash between two statements leaves depends on the SQL of each file; the
  hazard is listed without a property.
- API clients of the lenses: sequential I/O whose answers and failures are
  inputs of `Assessment`; paging, retries and decoding have unit tests.
- The sweep: a batch over a fixed list, written in one transaction, that shares
  no state with the web process.
- Scores: float arithmetic no decision reads.
- The limiter per address is a middleware of the same shape as the limit of
  scans; the daily budget only chooses between the two answers of
  `call_claude`, both of which `ScanStore` allows.
- Intake beyond the order of its steps and its failures: unpacking, size limits
  and the spelling of urls.
- Other pages and exports, the command line, start-up, settings, logging, texts
  of pull requests, prompts and explanations: they hold no state that decisions
  read.

## 10. Plan

Done, in this order: the merge task (it acts on other people's repositories
without asking again), the session that authorises it, the pull requests, the
engine and the selection, the report from the lockfile to its page, its cache
and permalinks, the installation and its tokens; and proofs of the merge task,
its refinement, the session and its actions, the pull requests, the engine and
the selection, the report and its page, the cache and the installation.

What could follow:

1. Migrations, statement by statement, with crashes and concurrent callers.
2. Both limiters against an abstract sliding window.

Theorems live in a module per component (`<Component>Proofs`), the lemmas about
the engine in `FixEngineProofs`; no module they reach declares a `RECURSIVE`
operator.
