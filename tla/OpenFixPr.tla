------------------------------ MODULE OpenFixPr -------------------------------
(***************************************************************************)
(* Opening the pull request of a fix (open_fix_pr of                        *)
(* arguss/web/github_action.py): look for its branch and pull request, and  *)
(* otherwise create the branch, write the changed files one by one, and     *)
(* open the pull request.  Nothing but GitHub remembers how far a call got, *)
(* so a later call, or one running at the same time, resumes from what it   *)
(* finds.  Every request may fail, and may fail after GitHub acted on it.   *)
(***************************************************************************)
EXTENDS Naturals, FiniteSets

CONSTANTS
    Openers,        \* calls of open_fix_pr
    Fixes,          \* upgrades; each has one branch name
    DirectFixes,    \* those that change package.json too
    MaxMain,        \* bound: how often the default branch may move
    MayClose        \* people may close or merge pull requests

ASSUME OpenersAssumption == IsFiniteSet(Openers)

ASSUME FixesAssumption == DirectFixes \subseteq Fixes

ASSUME MaxMainAssumption == MaxMain \in Nat

VARIABLES
    call,       \* call[o]: one call of open_fix_pr
    branch,     \* branch[x]: the branch of fix x on GitHub
    opened,     \* opened[x]: how many pull requests were ever opened on it
    pr,         \* pr[x]: the state of the latest one
    partial,    \* fixes whose latest pull request was opened without all files
    settled,    \* history: fixes with a pull request people closed or merged
    main        \* the commit of the default branch

vars == <<call, branch, opened, pr, partial, settled, main>>
gitHub == <<branch, opened, pr, partial, settled, main>>

Files == {"package.json", "package-lock.json"}

\* files_modified
Modified(x) == IF x \in DirectFixes THEN Files ELSE {"package-lock.json"}

\* A file of a branch is as on its base or was written by a call that worked
\* on the clone of a commit.
Unwritten == [written |-> FALSE, clone |-> 0]
Written(commit) == [written |-> TRUE, clone |-> commit]

NoBranch == [exists |-> FALSE, file |-> [f \in Files |-> Unwritten]]

Stages ==
    {"idle", "check branch", "find pull", "prepare", "read base", "create branch",
     "check branch again", "find pull again", "fetch sha", "put file", "open", "resume", "done"}

Results == {"none", "opened", "already_exists", "skipped", "failed"}

Contents == [written : BOOLEAN, clone : 0..MaxMain]

TypeOK ==
    /\ call \in [Openers ->
            [at : Stages, fix : Fixes, clone : 0..MaxMain, todo : SUBSET Files,
             sha : Contents, result : Results, fresh : BOOLEAN, late : BOOLEAN]]
    /\ branch \in [Fixes -> [exists : BOOLEAN, file : [Files -> Contents]]]
    /\ opened \in [Fixes -> Nat]
    /\ pr \in [Fixes -> {"none", "open", "closed"}]
    /\ partial \subseteq Fixes
    /\ settled \subseteq Fixes
    /\ main \in 0..MaxMain

Init ==
    /\ call \in [Openers ->
            [at : {"idle"}, fix : Fixes, clone : {0}, todo : {{}},
             sha : {Unwritten}, result : {"none"}, fresh : {TRUE}, late : {FALSE}]]
    /\ branch = [x \in Fixes |-> NoBranch]
    /\ opened = [x \in Fixes |-> 0]
    /\ pr = [x \in Fixes |-> "none"]
    /\ partial = {}
    /\ settled = {}
    /\ main = 0

-----------------------------------------------------------------------------
(* Control of one call. *)

At(o, stage) == call[o].at = stage
Fix(o) == call[o].fix

Goto(o, stage) == call' = [call EXCEPT ![o].at = stage]

Return(o, result) == call' = [call EXCEPT ![o].at = "done", ![o].result = result]

\* The work tree is cloned, and the call starts some time after.
Clone(o) ==
    /\ At(o, "idle")
    /\ call' = [call EXCEPT ![o].at = "check branch", ![o].clone = main,
                            ![o].late = opened[Fix(o)] > 0]
    /\ UNCHANGED gitHub

\* A request is refused, times out or gets an answer nobody can read: a failed
\* result, or an exception run_one turns into one.
RequestFails(o) ==
    /\ ~At(o, "idle") /\ ~At(o, "prepare") /\ ~At(o, "done")
    /\ Return(o, "failed")
    /\ UNCHANGED gitHub

\* GET /branches/{branch}
CheckBranch(o) ==
    /\ At(o, "check branch")
    /\ Goto(o, IF branch[Fix(o)].exists THEN "find pull" ELSE "prepare")
    /\ UNCHANGED gitHub

\* Variant: only open pull requests are looked for.
FindOpenPull(o) ==
    /\ At(o, "find pull") \/ At(o, "find pull again")
    /\ IF pr[Fix(o)] = "open" THEN Return(o, "already_exists") ELSE Goto(o, "resume")
    /\ UNCHANGED gitHub

\* Variant: a branch is taken for its pull request.
TakeBranchForPull(o) ==
    /\ At(o, "find pull") \/ At(o, "find pull again")
    /\ Return(o, "already_exists")
    /\ UNCHANGED gitHub

\* GET /pulls with state=all: a closed or merged one counts.
FindPull(o) ==
    /\ At(o, "find pull") \/ At(o, "find pull again")
    /\ IF opened[Fix(o)] > 0 THEN Return(o, "already_exists") ELSE Goto(o, "resume")
    /\ UNCHANGED gitHub

\* The manifests are read from the work tree and the fix is applied to them.
Prepare(o) ==
    /\ At(o, "prepare")
    /\ \/ Return(o, "failed")
       \/ Return(o, "skipped")
       \/ call' = [call EXCEPT ![o].at = "read base", ![o].todo = Modified(Fix(o))]
    /\ UNCHANGED gitHub

\* GET the repository and the head of its default branch.
ReadBase(o) ==
    /\ At(o, "read base")
    /\ Goto(o, "create branch")
    /\ UNCHANGED gitHub

\* What POST /git/refs does.
BranchCreated(o) ==
    /\ branch' = [branch EXCEPT ![Fix(o)].exists = TRUE]
    /\ UNCHANGED <<opened, pr, partial, settled, main>>

\* Variant: 422 is taken for success.
CreateOrReuseBranch(o) ==
    /\ At(o, "create branch")
    /\ Goto(o, "fetch sha")
    /\ IF branch[Fix(o)].exists THEN UNCHANGED gitHub ELSE BranchCreated(o)

CreateBranch(o) ==
    /\ At(o, "create branch")
    /\ IF branch[Fix(o)].exists
       THEN Goto(o, "check branch again") /\ UNCHANGED gitHub
       ELSE (Goto(o, "fetch sha") \/ Return(o, "failed")) /\ BranchCreated(o)

\* The second _find_existing_pr, after 422; nobody deletes branches here, so
\* it finds the branch.
CheckBranchAgain(o) ==
    /\ At(o, "check branch again")
    /\ Goto(o, "find pull again")
    /\ UNCHANGED gitHub

\* package.json is written before package-lock.json.
NextFile(o) ==
    IF "package.json" \in call[o].todo THEN "package.json" ELSE "package-lock.json"

FetchSha(o) ==
    /\ At(o, "fetch sha")
    /\ call' = [call EXCEPT ![o].at = "put file", ![o].sha = branch[Fix(o)].file[NextFile(o)]]
    /\ UNCHANGED gitHub

FileWritten(o) ==
    /\ branch' = [branch EXCEPT ![Fix(o)].file[NextFile(o)] = Written(call[o].clone)]
    /\ UNCHANGED <<opened, pr, partial, settled, main>>

\* Variant: the pull request is opened after the first file.
PutFirstFile(o) ==
    /\ At(o, "put file")
    /\ branch[Fix(o)].file[NextFile(o)] = call[o].sha
    /\ FileWritten(o)
    /\ call' = [call EXCEPT ![o].todo = @ \ {NextFile(o)}, ![o].at = "open"]

\* PUT /contents/{path} with the sha of the blob to replace; 409 when the file
\* changed since.
PutFile(o) ==
    /\ At(o, "put file")
    /\ IF branch[Fix(o)].file[NextFile(o)] # call[o].sha
       THEN Return(o, "failed") /\ UNCHANGED gitHub
       ELSE /\ FileWritten(o)
            /\ \/ Return(o, "failed")
               \/ call' = [call EXCEPT ![o].todo = @ \ {NextFile(o)},
                    ![o].at = IF call[o].todo = {NextFile(o)} THEN "open" ELSE "fetch sha"]

Missing(x) == {f \in Modified(x) : ~branch[x].file[f].written}

\* POST /pulls: GitHub refuses a second open pull request for a branch, and
\* one without commits.
PostPull(o, stage) ==
    LET x == Fix(o)
    IN  /\ At(o, stage)
        /\ IF pr[x] = "open" \/ Missing(x) = Modified(x)
           THEN Return(o, "failed") /\ UNCHANGED gitHub
           ELSE /\ \E result \in {"opened", "failed"} :
                    call' = [call EXCEPT ![o].at = "done", ![o].result = result,
                                         ![o].fresh = (stage = "open")]
                /\ opened' = [opened EXCEPT ![x] = @ + 1]
                /\ pr' = [pr EXCEPT ![x] = "open"]
                /\ partial' = IF Missing(x) = {} THEN partial \ {x} ELSE partial \cup {x}
                /\ UNCHANGED <<branch, settled, main>>

\* Variant: 422 on a pull request that is already open is taken for success.
OpenAnyhow(o) ==
    IF pr[Fix(o)] = "open"
    THEN At(o, "open") /\ Return(o, "opened") /\ UNCHANGED gitHub
    ELSE PostPull(o, "open")

OpenPull(o) == PostPull(o, "open")

\* _resume_open_pr: the branch is taken as it is.
ResumePull(o) == PostPull(o, "resume")

-----------------------------------------------------------------------------
(* The world around. *)

PullSettled(x) ==
    /\ MayClose
    /\ pr[x] = "open"
    /\ pr' = [pr EXCEPT ![x] = "closed"]
    /\ settled' = settled \cup {x}
    /\ UNCHANGED <<call, branch, opened, partial, main>>

MainMoves ==
    /\ main < MaxMain
    /\ main' = main + 1
    /\ UNCHANGED <<call, branch, opened, pr, partial, settled>>

Next ==
    \/ \E o \in Openers :
        \/ Clone(o) \/ CheckBranch(o) \/ FindPull(o) \/ Prepare(o) \/ ReadBase(o)
        \/ CreateBranch(o) \/ CheckBranchAgain(o) \/ FetchSha(o) \/ PutFile(o)
        \/ OpenPull(o) \/ ResumePull(o) \/ RequestFails(o)
    \/ \E x \in Fixes : PullSettled(x)
    \/ MainMoves

Spec == Init /\ [][Next]_vars

-----------------------------------------------------------------------------

\* Re-running Mode C does not open duplicate pull requests: a call for a fix
\* that already had one, open, closed or merged, when its clone was made never
\* opens another.
RerunOpensNothing ==
    \A o \in Openers : call[o].late => call[o].result # "opened"

\* A call that wrote the branch itself opens its pull request only with every
\* file of the fix: no lockfile without its package.json or the other way.
WrittenPrIsComplete ==
    \A o \in Openers :
        call[o].result = "opened" /\ call[o].fresh => Fix(o) \notin partial

\* What a branch holds was written by one call, from one clone: calls racing
\* for the same fix never mix their files.
FilesFromOneClone ==
    \A x \in Fixes : \A f, g \in Files :
        branch[x].file[f].written /\ branch[x].file[g].written =>
            branch[x].file[f] = branch[x].file[g]

\* However many calls race for a fix, it gets one pull request unless people
\* settled one meanwhile; a call that says opened is one that opened it, and no
\* re-run is such a call.
OnePullPerFix ==
    /\ RerunOpensNothing
    /\ \A x \in Fixes :
        /\ opened[x] > 1 => x \in settled
        /\ Cardinality({o \in Openers : Fix(o) = x /\ call[o].result = "opened"}) <= opened[x]

\* The pull request of a direct dependency updates both manifests: what a call
\* resumes is the whole push of the call that died.
PullHoldsTheFix == partial = {}
==============================================================================
