---------------------------- MODULE OpenFixPrProofs ----------------------------
(***************************************************************************)
(* What holds of open_fix_pr for any number of calls, fixes and commits of *)
(* the default branch, and that the calls implement PullPromise.           *)
(***************************************************************************)
EXTENDS PullRefinement, FiniteSetTheorems, TLAPS

-----------------------------------------------------------------------------
(* The inductive invariant *)

WritingStages == {"fetch sha", "put file", "open"}

\* A branch nobody created is empty, and has no pull request.
OnlyBranchesHold ==
    \A x \in Fixes :
        /\ ~branch[x].exists => branch[x].file = NoBranch.file
        /\ opened[x] > 0 => branch[x].exists

\* POST /git/refs lets one call through, so a branch has one writer.
OneWriter ==
    \A o, p \in Openers :
        Fix(o) = Fix(p) /\ call[o].at \in WritingStages /\ call[p].at \in WritingStages
            => o = p

\* A call that is about to write has every file to do.
Prepared(o) ==
    call[o].at \in {"read base", "create branch"} => call[o].todo = Modified(Fix(o))

\* What a branch holds once all files but those to do are written.
Contains(x, todo, clone) ==
    [f \in Files |-> IF f \in Modified(x) \ todo THEN Written(clone) ELSE Unwritten]

\* The branch of a call that writes holds what the call has written so far.
Progress(o) ==
    call[o].at \in WritingStages =>
        /\ branch[Fix(o)].exists
        /\ call[o].todo \subseteq Modified(Fix(o))
        /\ call[o].at = "open" <=> call[o].todo = {}
        /\ branch[Fix(o)].file = Contains(Fix(o), call[o].todo, call[o].clone)

\* A call that opened the pull request of what it wrote had written it all.
Wrote(o) ==
    call[o].result = "opened" /\ call[o].fresh =>
        /\ \A f \in Modified(Fix(o)) : branch[Fix(o)].file[f].written
        /\ Fix(o) \notin partial

\* A call that comes after a pull request never gets beyond finding it.
Late(o) ==
    call[o].late =>
        /\ opened[Fix(o)] > 0
        /\ call[o].at \in {"check branch", "find pull", "done"}
        /\ call[o].result # "opened"

\* Only a call that is done has a result.
Resulted(o) ==
    call[o].at # "done" => call[o].result = "none"

\* A pull request that is not open any more was settled by people.
SettledByPeople ==
    \A x \in Fixes :
        /\ opened[x] > 0 /\ pr[x] # "open" => x \in settled
        /\ opened[x] > 1 => x \in settled
        /\ opened[x] = 0 => pr[x] # "open"

Opened(x) == {o \in Openers : Fix(o) = x /\ call[o].result = "opened"}

EachCounts == \A x \in Fixes : Cardinality(Opened(x)) <= opened[x]

CallsInv ==
    \A o \in Openers : Prepared(o) /\ Progress(o) /\ Wrote(o) /\ Late(o) /\ Resulted(o)

IInv ==
    /\ TypeOK
    /\ OnlyBranchesHold
    /\ OneWriter
    /\ CallsInv
    /\ FilesFromOneClone
    /\ SettledByPeople
    /\ EachCounts

CallType ==
    [at : Stages, fix : Fixes, clone : 0..MaxMain, todo : SUBSET Files,
     sha : Contents, result : Results, fresh : BOOLEAN, late : BOOLEAN]

-----------------------------------------------------------------------------
(* Counting the calls that say opened *)

LEMMA OpenedIsFinite == \A x : IsFiniteSet(Opened(x))
    BY OpenersAssumption, FS_Subset DEF Opened

\* A call that does not come to say opened leaves the count.
LEMMA CountStays ==
    ASSUME NEW o \in Openers, NEW c, call' = [call EXCEPT ![o] = c],
           TypeOK, c.fix = call[o].fix,
           c.result = "opened" => call[o].result = "opened",
           EachCounts, opened' = opened
    PROVE  EachCounts'
    <1> SUFFICES ASSUME NEW x \in Fixes PROVE Cardinality(Opened(x)') <= opened[x]
        BY DEF EachCounts
    <1>1. Opened(x)' \subseteq Opened(x)
        BY DEF Opened, Fix, TypeOK
    <1>2. /\ Cardinality(Opened(x)') <= Cardinality(Opened(x))
          /\ Cardinality(Opened(x)') \in Nat /\ Cardinality(Opened(x)) \in Nat
        BY <1>1, OpenedIsFinite, FS_Subset, FS_CardinalityType
    <1>3. Cardinality(Opened(x)) <= opened[x] /\ opened[x] \in Nat
        BY DEF EachCounts, TypeOK
    <1> QED
        BY <1>2, <1>3

\* A call that comes to say opened has opened one more.
LEMMA CountGrows ==
    ASSUME NEW o \in Openers, NEW c, call' = [call EXCEPT ![o] = c],
           TypeOK, c.fix = call[o].fix, EachCounts,
           opened' = [opened EXCEPT ![call[o].fix] = @ + 1]
    PROVE  EachCounts'
    <1> SUFFICES ASSUME NEW x \in Fixes PROVE Cardinality(Opened(x)') <= opened'[x]
        BY DEF EachCounts
    <1>1. CASE x = call[o].fix
        <2>1. Opened(x)' \subseteq Opened(x) \cup {o}
            BY DEF Opened, Fix, TypeOK
        <2>2. IsFiniteSet(Opened(x) \cup {o}) /\ Cardinality(Opened(x)) \in Nat
              /\ Cardinality(Opened(x) \cup {o}) <= Cardinality(Opened(x)) + 1
            <3>1. IsFiniteSet(Opened(x)) /\ Cardinality(Opened(x)) \in Nat
                BY OpenedIsFinite, FS_CardinalityType
            <3>2. /\ IsFiniteSet(Opened(x) \cup {o})
                  /\ Cardinality(Opened(x) \cup {o}) =
                        IF o \in Opened(x) THEN Cardinality(Opened(x))
                        ELSE Cardinality(Opened(x)) + 1
                BY <3>1, FS_AddElement
            <3> QED
                BY <3>1, <3>2
        <2>3. Cardinality(Opened(x)') <= Cardinality(Opened(x) \cup {o})
              /\ Cardinality(Opened(x)') \in Nat /\ Cardinality(Opened(x) \cup {o}) \in Nat
            BY <2>1, <2>2, FS_Subset, FS_CardinalityType
        <2>4. opened \in [Fixes -> Nat]
            BY DEF TypeOK
        <2>5. opened'[x] = opened[x] + 1 /\ opened[x] \in Nat
            BY <1>1, <2>4
        <2>6. Cardinality(Opened(x)) <= opened[x]
            BY DEF EachCounts
        <2> QED
            BY <2>2, <2>3, <2>5, <2>6
    <1>2. CASE x # call[o].fix
        <2>1. Opened(x)' = Opened(x)
            BY <1>2 DEF Opened, Fix, TypeOK
        <2> QED
            BY <1>2, <2>1 DEF TypeOK, EachCounts
    <1> QED
        BY <1>1, <1>2

-----------------------------------------------------------------------------
(* The initial states *)

LEMMA InitKeeps == Init => IInv
    <1> SUFFICES ASSUME Init PROVE IInv
        OBVIOUS
    <1>1. TypeOK
        <2>1. call \in [Openers -> CallType]
            <3> DEFINE Fresh == [at : {"idle"}, fix : Fixes, clone : {0}, todo : {{}},
                    sha : {Unwritten}, result : {"none"}, fresh : {TRUE}, late : {FALSE}]
            <3>1. Unwritten \in Contents /\ 0 \in 0..MaxMain
                BY MaxMainAssumption DEF Unwritten, Contents
            <3>2. "idle" \in Stages /\ "none" \in Results
                BY DEF Stages, Results
            <3>3. \A r \in Fresh : r \in CallType
                BY <3>1, <3>2 DEF CallType
            <3>4. call \in [Openers -> Fresh]
                BY DEF Init
            <3> HIDE DEF Fresh
            <3> QED
                BY <3>3, <3>4
        <2>2. branch \in [Fixes -> [exists : BOOLEAN, file : [Files -> Contents]]]
            <3>1. NoBranch \in [exists : BOOLEAN, file : [Files -> Contents]]
                BY MaxMainAssumption DEF NoBranch, Contents, Unwritten
            <3> QED
                BY <3>1 DEF Init
        <2> QED
            BY <2>1, <2>2, MaxMainAssumption DEF Init, TypeOK, CallType
    <1>2. OnlyBranchesHold /\ SettledByPeople
        BY DEF Init, OnlyBranchesHold, SettledByPeople
    <1>6. FilesFromOneClone
        <2>1. \A x \in Fixes, f \in Files : branch[x].file[f].written = FALSE
            BY DEF Init, NoBranch, Unwritten
        <2> QED
            BY <2>1 DEF FilesFromOneClone
    <1>3. \A o \in Openers :
            call[o].at = "idle" /\ call[o].result = "none" /\ call[o].late = FALSE
        BY DEF Init
    <1>4. OneWriter /\ CallsInv
        BY <1>3 DEF OneWriter, WritingStages, CallsInv, Prepared, Progress, Wrote, Late, Resulted
    <1>5. EachCounts
        <2> SUFFICES ASSUME NEW x \in Fixes PROVE Cardinality(Opened(x)) <= opened[x]
            BY DEF EachCounts
        <2>1. Opened(x) = {}
            BY <1>3 DEF Opened
        <2> QED
            BY <2>1, FS_EmptySet DEF Init
    <1> QED
        BY <1>1, <1>2, <1>4, <1>5, <1>6 DEF IInv

-----------------------------------------------------------------------------
(* Steps that leave GitHub alone *)

\* Call o may go on as c: it does not start to write, nor say opened, and has
\* what the stage it comes to takes for granted.
Quiet(o, c) ==
    /\ c.fix = call[o].fix
    /\ c.result # "opened"
    /\ c.at \in WritingStages =>
          /\ call[o].at \in WritingStages
          /\ c.clone = call[o].clone
          /\ c.todo = call[o].todo
          /\ c.at = "open" <=> call[o].at = "open"
    /\ c.at \in {"read base", "create branch"} => c.todo = Modified(c.fix)
    /\ c.at # "done" => c.result = "none"
    /\ c.late => opened[c.fix] > 0 /\ c.at \in {"check branch", "find pull", "done"}

LEMMA CallMoves ==
    ASSUME IInv, NEW o \in Openers, NEW c \in CallType, call' = [call EXCEPT ![o] = c],
           UNCHANGED gitHub, Quiet(o, c)
    PROVE  IInv'
    <1>1. \A p \in Openers : call'[p] = IF p = o THEN c ELSE call[p]
        BY DEF IInv, TypeOK
    <1>2. /\ branch' = branch /\ opened' = opened /\ pr' = pr
          /\ partial' = partial /\ settled' = settled /\ main' = main
        BY DEF gitHub
    <1>3. TypeOK'
        BY <1>1, <1>2 DEF IInv, TypeOK, CallType
    <1>4. OnlyBranchesHold' /\ FilesFromOneClone' /\ SettledByPeople'
        BY <1>2 DEF IInv, OnlyBranchesHold, FilesFromOneClone, SettledByPeople
    <1>5. \A p \in Openers :
            /\ call'[p].at \in WritingStages => call[p].at \in WritingStages
            /\ call'[p].fix = call[p].fix
        BY <1>1 DEF Quiet
    <1>6. OneWriter'
        BY <1>5 DEF IInv, OneWriter, Fix
    <1>7. CallsInv'
        <2> SUFFICES ASSUME NEW p \in Openers
                     PROVE  (Prepared(p) /\ Progress(p) /\ Wrote(p) /\ Late(p) /\ Resulted(p))'
            BY DEF CallsInv
        <2>1. Prepared(p) /\ Progress(p) /\ Wrote(p) /\ Late(p) /\ Resulted(p)
            BY DEF IInv, CallsInv
        <2>2. CASE p = o
            <3>1. call'[p] = c
                BY <1>1, <2>2
            <3>2. Prepared(p)' /\ Wrote(p)' /\ Late(p)' /\ Resulted(p)'
                BY <1>2, <3>1 DEF Quiet, Prepared, Wrote, Late, Resulted, Fix
            <3>3. Progress(p)'
                BY <1>2, <2>1, <2>2, <3>1 DEF Quiet, Progress, Fix, WritingStages
            <3> QED
                BY <3>2, <3>3
        <2>3. CASE p # o
            <3>1. call'[p] = call[p]
                BY <1>1, <2>3
            <3>2. (Prepared(p) /\ Progress(p) /\ Late(p) /\ Resulted(p))'
                BY <1>2, <2>1, <3>1 DEF Prepared, Progress, Late, Resulted, Fix, WritingStages
            <3>3. Wrote(p)'
                BY <1>2, <2>1, <3>1 DEF Wrote, Fix
            <3> QED
                BY <3>2, <3>3
        <2> QED
            BY <2>2, <2>3
    <1>8. EachCounts'
        BY <1>2, CountStays DEF IInv, Quiet
    <1> QED
        BY <1>3, <1>4, <1>6, <1>7, <1>8 DEF IInv

\* A call ends without a pull request of its own.
LEMMA Gives ==
    ASSUME IInv, NEW o \in Openers, NEW result \in {"failed", "skipped", "already_exists"},
           Return(o, result), UNCHANGED gitHub
    PROVE  IInv'
    <1> DEFINE c == [call[o] EXCEPT !.at = "done", !.result = result]
    <1>1. call[o] \in CallType
        BY DEF IInv, TypeOK, CallType
    <1>2. c \in CallType
        BY <1>1 DEF CallType, Stages, Results
    <1>3. /\ c.at = "done" /\ c.result = result /\ c.fix = call[o].fix
          /\ c.late = call[o].late
        BY <1>1 DEF CallType
    <1>4. Late(o)
        BY DEF IInv, CallsInv
    <1>5. call' = [call EXCEPT ![o] = c]
        BY DEF Return
    <1> HIDE DEF c
    <1>6. Quiet(o, c)
        BY <1>3, <1>4 DEF Quiet, Late, Fix, WritingStages
    <1> QED
        BY <1>2, <1>5, <1>6, CallMoves

\* A call goes to a stage where it does not write, or on within a file.
LEMMA Goes ==
    ASSUME IInv, NEW o \in Openers, NEW stage \in Stages \ {"done"}, Goto(o, stage),
           UNCHANGED gitHub, call[o].at # "done",
           stage \in WritingStages =>
               call[o].at \in WritingStages /\ stage # "open" /\ call[o].at # "open",
           stage \in {"read base", "create branch"} =>
               call[o].at \in {"read base", "create branch"},
           stage = "find pull" \/ ~call[o].late
    PROVE  IInv'
    <1> DEFINE c == [call[o] EXCEPT !.at = stage]
    <1>1. call[o] \in CallType
        BY DEF IInv, TypeOK, CallType
    <1>2. c \in CallType
        BY <1>1 DEF CallType
    <1>3. /\ c.at = stage /\ c.result = call[o].result /\ c.fix = call[o].fix
          /\ c.late = call[o].late /\ c.todo = call[o].todo /\ c.clone = call[o].clone
        BY <1>1 DEF CallType
    <1>4. Late(o) /\ Resulted(o) /\ Prepared(o)
        BY DEF IInv, CallsInv
    <1>5. call' = [call EXCEPT ![o] = c]
        BY DEF Goto
    <1> HIDE DEF c
    <1>6. Quiet(o, c)
        <2>1. c.late => opened[c.fix] > 0 /\ c.at \in {"check branch", "find pull", "done"}
            BY <1>3, <1>4 DEF Late, Fix
        <2>2. c.result = "none"
            BY <1>3, <1>4 DEF Resulted
        <2> QED
            BY <1>3, <1>4, <2>1, <2>2 DEF Quiet, Prepared, Fix, WritingStages
    <1> QED
        BY <1>2, <1>5, <1>6, CallMoves

LEMMA CloneKeeps ==
    ASSUME IInv, NEW o \in Openers, Clone(o)
    PROVE  IInv'
    <1> DEFINE late == opened[Fix(o)] > 0
               c == [call[o] EXCEPT !.at = "check branch", !.clone = main, !.late = late]
    <1>1. call[o] \in CallType /\ main \in 0..MaxMain
        BY DEF IInv, TypeOK, CallType
    <1>2. late \in BOOLEAN
        OBVIOUS
    <1>3. call' = [call EXCEPT ![o] = c] /\ UNCHANGED gitHub /\ call[o].at = "idle"
        BY DEF Clone, At
    <1> HIDE DEF late
    <1>4. c \in CallType
        BY <1>1, <1>2 DEF CallType, Stages
    <1>5. /\ c.at = "check branch" /\ c.result = call[o].result /\ c.fix = call[o].fix
          /\ c.late = late
        BY <1>1 DEF CallType
    <1>6. call[o].result = "none"
        BY <1>3 DEF IInv, CallsInv, Resulted
    <1> HIDE DEF c
    <1>7. c.late => opened[c.fix] > 0
        BY <1>5 DEF late, Fix
    <1>8. Quiet(o, c)
        BY <1>5, <1>6, <1>7 DEF Quiet, WritingStages
    <1> QED
        BY <1>3, <1>4, <1>8, CallMoves

LEMMA CheckBranchKeeps ==
    ASSUME IInv, NEW o \in Openers, CheckBranch(o)
    PROVE  IInv'
    <1>1. call[o].late => branch[Fix(o)].exists
        BY DEF IInv, CallsInv, Late, OnlyBranchesHold, TypeOK, Fix
    <1>2. /\ call[o].at = "check branch" /\ UNCHANGED gitHub
          /\ Goto(o, IF branch[Fix(o)].exists THEN "find pull" ELSE "prepare")
        BY DEF CheckBranch, At
    <1> QED
        BY <1>1, <1>2, Goes DEF Stages, WritingStages

LEMMA FindPullKeeps ==
    ASSUME IInv, NEW o \in Openers, FindPull(o)
    PROVE  IInv'
    <1>1. call[o].late => opened[Fix(o)] > 0
        BY DEF IInv, CallsInv, Late
    <1>2. CASE opened[Fix(o)] > 0
        BY <1>2, Gives DEF FindPull
    <1>3. CASE ~(opened[Fix(o)] > 0)
        <2>1. Goto(o, "resume") /\ call[o].at # "done" /\ UNCHANGED gitHub /\ ~call[o].late
            BY <1>1, <1>3 DEF FindPull, At
        <2> QED
            BY <2>1, Goes DEF Stages, WritingStages
    <1> QED
        BY <1>2, <1>3

LEMMA PrepareKeeps ==
    ASSUME IInv, NEW o \in Openers, Prepare(o)
    PROVE  IInv'
    <1>1. CASE Return(o, "failed") \/ Return(o, "skipped")
        BY <1>1, Gives DEF Prepare
    <1>2. CASE call' = [call EXCEPT ![o].at = "read base", ![o].todo = Modified(Fix(o))]
        <2> DEFINE c == [call[o] EXCEPT !.at = "read base", !.todo = Modified(Fix(o))]
        <2>1. call[o] \in CallType /\ call[o].at = "prepare" /\ UNCHANGED gitHub
            BY DEF IInv, TypeOK, CallType, Prepare, At
        <2>2. c \in CallType
            BY <2>1 DEF CallType, Stages, Modified, Files
        <2>3. /\ c.at = "read base" /\ c.result = call[o].result /\ c.fix = call[o].fix
              /\ c.late = call[o].late /\ c.todo = Modified(Fix(o))
            BY <2>1 DEF CallType
        <2>4. call[o].result = "none" /\ ~call[o].late
            BY <2>1 DEF IInv, CallsInv, Resulted, Late
        <2>5. call' = [call EXCEPT ![o] = c]
            BY <1>2
        <2> HIDE DEF c
        <2>6. Quiet(o, c)
            BY <2>3, <2>4 DEF Quiet, WritingStages, Fix
        <2> QED
            BY <2>1, <2>2, <2>5, <2>6, CallMoves
    <1> QED
        BY <1>1, <1>2 DEF Prepare

\* A stage that a late call does not reach.
LEMMA NotLate ==
    ASSUME IInv, NEW o \in Openers, call[o].at \notin {"check branch", "find pull", "done"}
    PROVE  ~call[o].late
    BY DEF IInv, CallsInv, Late

LEMMA ReadBaseKeeps ==
    ASSUME IInv, NEW o \in Openers, ReadBase(o)
    PROVE  IInv'
    BY NotLate, Goes DEF ReadBase, At, Stages, WritingStages

LEMMA CheckBranchAgainKeeps ==
    ASSUME IInv, NEW o \in Openers, CheckBranchAgain(o)
    PROVE  IInv'
    BY NotLate, Goes DEF CheckBranchAgain, At, Stages, WritingStages

LEMMA FetchShaKeeps ==
    ASSUME IInv, NEW o \in Openers, FetchSha(o)
    PROVE  IInv'
    <1> DEFINE sha == branch[Fix(o)].file[NextFile(o)]
               c == [call[o] EXCEPT !.at = "put file", !.sha = sha]
    <1>1. call[o] \in CallType /\ call[o].at = "fetch sha" /\ UNCHANGED gitHub
          /\ call' = [call EXCEPT ![o] = c]
        BY DEF IInv, TypeOK, CallType, FetchSha, At
    <1>2. NextFile(o) \in Files /\ Fix(o) \in Fixes
        BY <1>1 DEF NextFile, Files, Fix, CallType
    <1>3. sha \in Contents
        BY <1>2 DEF IInv, TypeOK
    <1> HIDE DEF sha
    <1>4. c \in CallType
        BY <1>1, <1>3 DEF CallType, Stages
    <1>5. /\ c.at = "put file" /\ c.result = call[o].result /\ c.fix = call[o].fix
          /\ c.late = call[o].late /\ c.todo = call[o].todo /\ c.clone = call[o].clone
        BY <1>1 DEF CallType
    <1>6. call[o].result = "none" /\ ~call[o].late
        BY <1>1 DEF IInv, CallsInv, Resulted, Late
    <1> HIDE DEF c
    <1>7. Quiet(o, c)
        BY <1>1, <1>5, <1>6 DEF Quiet, WritingStages
    <1> QED
        BY <1>1, <1>4, <1>7, CallMoves

LEMMA RequestFailsKeeps ==
    ASSUME IInv, NEW o \in Openers, RequestFails(o)
    PROVE  IInv'
    BY Gives DEF RequestFails

-----------------------------------------------------------------------------
(* Steps that change GitHub *)

LEMMA CreateBranchKeeps ==
    ASSUME IInv, NEW o \in Openers, CreateBranch(o)
    PROVE  IInv'
    <1> DEFINE x == Fix(o)
    <1>1. call[o] \in CallType /\ call[o].at = "create branch" /\ x \in Fixes
        BY DEF IInv, TypeOK, CallType, CreateBranch, At, Fix
    <1>2. CASE branch[x].exists
        <2>1. Goto(o, "check branch again") /\ UNCHANGED gitHub
            BY <1>2 DEF CreateBranch
        <2> QED
            BY <1>1, <2>1, NotLate, Goes DEF Stages, WritingStages
    <1>3. CASE ~branch[x].exists
        <2>1. PICK c \in CallType :
                /\ call' = [call EXCEPT ![o] = c]
                /\ c.fix = call[o].fix /\ c.todo = call[o].todo /\ c.clone = call[o].clone
                /\ c.late = call[o].late
                /\ \/ c.at = "fetch sha" /\ c.result = call[o].result
                   \/ c.at = "done" /\ c.result = "failed"
            <3>1. CASE Goto(o, "fetch sha")
                <4> DEFINE d == [call[o] EXCEPT !.at = "fetch sha"]
                <4>1. d \in CallType /\ call' = [call EXCEPT ![o] = d]
                    BY <1>1, <3>1 DEF Goto, CallType, Stages
                <4> QED
                    BY <1>1, <4>1 DEF CallType
            <3>2. CASE Return(o, "failed")
                <4> DEFINE d == [call[o] EXCEPT !.at = "done", !.result = "failed"]
                <4>1. d \in CallType /\ call' = [call EXCEPT ![o] = d]
                    BY <1>1, <3>2 DEF Return, CallType, Stages, Results
                <4> QED
                    BY <1>1, <4>1 DEF CallType
            <3> QED
                BY <1>3, <3>1, <3>2 DEF CreateBranch
        <2>2. /\ branch' = [branch EXCEPT ![x].exists = TRUE]
              /\ opened' = opened /\ pr' = pr /\ partial' = partial
              /\ settled' = settled /\ main' = main
            BY <1>3 DEF CreateBranch, BranchCreated
        <2>3. branch \in [Fixes -> [exists : BOOLEAN, file : [Files -> Contents]]]
            BY DEF IInv, TypeOK
        <2>4. branch' \in [Fixes -> [exists : BOOLEAN, file : [Files -> Contents]]]
            BY <1>1, <2>2, <2>3
        <2>5. \A y \in Fixes :
                /\ branch'[y].file = branch[y].file
                /\ branch'[y].exists = (y = x \/ branch[y].exists)
            BY <1>1, <2>2, <2>3
        <2>6. \A p \in Openers : call'[p] = IF p = o THEN c ELSE call[p]
            BY <2>1 DEF IInv, TypeOK
        <2>7. \A p \in Openers : Fix(p) \in Fixes
            BY DEF IInv, TypeOK, Fix
        <2>8. TypeOK'
            <3>1. call' \in [Openers -> CallType]
                BY <2>1 DEF IInv, TypeOK, CallType
            <3> QED
                BY <2>2, <2>4, <3>1 DEF IInv, TypeOK, CallType
        <2>9. OnlyBranchesHold' /\ FilesFromOneClone' /\ SettledByPeople'
            BY <2>2, <2>5 DEF IInv, OnlyBranchesHold, FilesFromOneClone, SettledByPeople
        <2>10. \A p \in Openers : Fix(p) = x => call[p].at \notin WritingStages
            BY <1>3 DEF IInv, CallsInv, Progress
        <2>11. OneWriter'
            <3>1. \A p \in Openers :
                    /\ Fix(p)' = Fix(p)
                    /\ p # o /\ call'[p].at \in WritingStages =>
                          call[p].at \in WritingStages /\ Fix(p) # Fix(o)
                BY <2>1, <2>6, <2>10 DEF Fix
            <3>2. OneWriter
                BY DEF IInv
            <3> QED
                BY <3>1, <3>2 DEF OneWriter
        <2>12. CallsInv'
            <3> SUFFICES ASSUME NEW p \in Openers
                         PROVE  (Prepared(p) /\ Progress(p) /\ Wrote(p) /\ Late(p) /\ Resulted(p))'
                BY DEF CallsInv
            <3>1. Prepared(p) /\ Progress(p) /\ Wrote(p) /\ Late(p) /\ Resulted(p)
                BY DEF IInv, CallsInv
            <3>2. CASE p = o
                <4>1. call'[p] = c /\ Fix(p)' = x
                    BY <2>1, <2>6, <3>2 DEF Fix
                <4>2. ~call[o].late /\ call[o].result = "none" /\ call[o].todo = Modified(x)
                    BY <1>1, <3>1, <3>2 DEF Late, Resulted, Prepared
                <4>3. Prepared(p)' /\ Wrote(p)' /\ Late(p)' /\ Resulted(p)'
                    BY <2>1, <4>1, <4>2 DEF Prepared, Wrote, Late, Resulted
                <4>4. branch'[x].file = Contains(x, Modified(x), c.clone)
                    <5>1. branch[x].file = NoBranch.file
                        BY <1>1, <1>3 DEF IInv, OnlyBranchesHold
                    <5> QED
                        BY <1>1, <2>5, <5>1 DEF NoBranch, Contains
                <4>5. Modified(x) # {}
                    BY DEF Modified, Files
                <4>6. Progress(p)'
                    BY <1>1, <2>1, <2>5, <4>1, <4>2, <4>4, <4>5 DEF Progress, WritingStages
                <4> QED
                    BY <4>3, <4>6
            <3>3. CASE p # o
                <4>1. call'[p] = call[p] /\ Fix(p)' = Fix(p)
                    BY <2>6, <3>3 DEF Fix
                <4>2. (Prepared(p) /\ Late(p) /\ Resulted(p) /\ Wrote(p))'
                    BY <2>2, <2>5, <2>7, <3>1, <4>1 DEF Prepared, Late, Resulted, Wrote
                <4>3. Progress(p)'
                    BY <2>5, <2>7, <3>1, <4>1 DEF Progress, WritingStages
                <4> QED
                    BY <4>2, <4>3
            <3> QED
                BY <3>2, <3>3
        <2>13. EachCounts'
            <3>1. c.result # "opened"
                BY <1>1, <2>1 DEF IInv, CallsInv, Resulted
            <3> QED
                BY <2>1, <2>2, <3>1, CountStays DEF IInv
        <2> QED
            BY <2>8, <2>9, <2>11, <2>12, <2>13 DEF IInv
    <1> QED
        BY <1>2, <1>3

LEMMA PutFileKeeps ==
    ASSUME IInv, NEW o \in Openers, PutFile(o)
    PROVE  IInv'
    <1> DEFINE x == Fix(o)
               f == NextFile(o)
    <1>1. /\ call[o] \in CallType /\ call[o].at = "put file" /\ x \in Fixes
          /\ branch \in [Fixes -> [exists : BOOLEAN, file : [Files -> Contents]]]
        BY DEF IInv, TypeOK, CallType, PutFile, At, Fix
    <1>2. CASE branch[x].file[f] # call[o].sha
        BY <1>2, Gives DEF PutFile
    <1>3. CASE branch[x].file[f] = call[o].sha
        <2> DEFINE todo == call[o].todo \ {f}
                   clone == call[o].clone
        <2>1. /\ Progress(o) /\ call[o].todo \subseteq Modified(x) /\ call[o].todo # {}
              /\ branch[x].exists /\ branch[x].file = Contains(x, call[o].todo, clone)
            BY <1>1 DEF IInv, CallsInv, Progress, WritingStages
        <2>2. f \in call[o].todo /\ f \in Modified(x) /\ f \in Files
            BY <2>1 DEF NextFile, Modified, Files
        <2>3. PICK c \in CallType :
                /\ call' = [call EXCEPT ![o] = c]
                /\ c.fix = call[o].fix /\ c.clone = call[o].clone /\ c.late = call[o].late
                /\ \/ c.at = "done" /\ c.result = "failed"
                   \/ /\ c.todo = todo /\ c.result = call[o].result
                      /\ c.at = IF todo = {} THEN "open" ELSE "fetch sha"
            <3>1. CASE Return(o, "failed")
                <4> DEFINE d == [call[o] EXCEPT !.at = "done", !.result = "failed"]
                <4>1. d \in CallType /\ call' = [call EXCEPT ![o] = d]
                    BY <1>1, <3>1 DEF Return, CallType, Stages, Results
                <4> QED
                    BY <1>1, <4>1 DEF CallType
            <3>2. CASE call' = [call EXCEPT ![o].todo = @ \ {f},
                            ![o].at = IF call[o].todo = {f} THEN "open" ELSE "fetch sha"]
                <4> DEFINE stage == IF call[o].todo = {f} THEN "open" ELSE "fetch sha"
                           d == [call[o] EXCEPT !.todo = todo, !.at = stage]
                <4>1. stage \in Stages /\ stage = (IF todo = {} THEN "open" ELSE "fetch sha")
                    BY <2>2 DEF Stages
                <4>2. todo \subseteq Files
                    BY <1>1 DEF CallType
                <4>3. call' = [call EXCEPT ![o] = d]
                    BY <3>2
                <4> HIDE DEF stage, todo
                <4>4. d \in CallType /\ d.fix = call[o].fix /\ d.clone = call[o].clone
                      /\ d.late = call[o].late /\ d.todo = todo /\ d.result = call[o].result
                      /\ d.at = stage
                    BY <1>1, <4>1, <4>2 DEF CallType
                <4> HIDE DEF d
                <4> QED
                    BY <4>1, <4>3, <4>4
            <3> QED
                BY <1>3, <3>1, <3>2 DEF PutFile
        <2>4. /\ branch' = [branch EXCEPT ![x].file[f] = Written(clone)]
              /\ opened' = opened /\ pr' = pr /\ partial' = partial
              /\ settled' = settled /\ main' = main
            BY <1>3 DEF PutFile, FileWritten
        <2>5. Written(clone) \in Contents
            BY <1>1 DEF CallType, Written, Contents
        <2>6. branch' \in [Fixes -> [exists : BOOLEAN, file : [Files -> Contents]]]
            BY <1>1, <2>2, <2>4, <2>5
        <2>7. \A y \in Fixes : y # x => branch'[y] = branch[y]
            BY <1>1, <2>4
        <2>8. /\ branch'[x].exists
              /\ branch'[x].file = [branch[x].file EXCEPT ![f] = Written(clone)]
            BY <1>1, <2>1, <2>2, <2>4
        <2>9. branch'[x].file = Contains(x, todo, clone)
            BY <2>1, <2>2, <2>8 DEF Contains
        <2>10. \A y \in Fixes, g \in Files :
                 branch[y].file[g].written => branch'[y].file[g].written
            <3>1. \A g \in Files :
                    branch'[x].file[g] = IF g = f THEN Written(clone) ELSE branch[x].file[g]
                BY <1>1, <2>8
            <3>2. Written(clone).written = TRUE
                BY DEF Written
            <3> QED
                BY <2>7, <3>1, <3>2
        <2>11. \A p \in Openers : call'[p] = IF p = o THEN c ELSE call[p]
            BY <2>3 DEF IInv, TypeOK
        <2>12. \A p \in Openers : Fix(p) \in Fixes /\ Fix(p)' = Fix(p)
            BY <2>3, <2>11 DEF IInv, TypeOK, Fix
        <2> HIDE DEF f
        <2>13. TypeOK'
            <3>1. call' \in [Openers -> CallType]
                BY <2>3 DEF IInv, TypeOK, CallType
            <3> QED
                BY <2>4, <2>6, <3>1 DEF IInv, TypeOK, CallType
        <2>14. OnlyBranchesHold' /\ SettledByPeople'
            <3>1. \A y \in Fixes : branch'[y].exists \/ branch'[y] = branch[y]
                BY <2>7, <2>8
            <3> QED
                BY <2>4, <3>1 DEF IInv, OnlyBranchesHold, SettledByPeople
        <2>15. FilesFromOneClone'
            <3>1. \A g \in Files : branch'[x].file[g] \in {Written(clone), Unwritten}
                BY <2>9 DEF Contains
            <3>2. \A g \in Files :
                    branch'[x].file[g].written => branch'[x].file[g] = Written(clone)
                BY <3>1 DEF Unwritten
            <3> QED
                BY <2>7, <3>2 DEF IInv, FilesFromOneClone
        <2>16. \A p \in Openers :
                 p # o /\ call'[p].at \in WritingStages =>
                     call[p].at \in WritingStages /\ Fix(p) # x
            BY <1>1, <2>11 DEF IInv, OneWriter, WritingStages
        <2>17. OneWriter'
            BY <2>12, <2>16 DEF IInv, OneWriter
        <2>18. CallsInv'
            <3> SUFFICES ASSUME NEW p \in Openers
                         PROVE  (Prepared(p) /\ Progress(p) /\ Wrote(p) /\ Late(p) /\ Resulted(p))'
                BY DEF CallsInv
            <3>1. Prepared(p) /\ Progress(p) /\ Wrote(p) /\ Late(p) /\ Resulted(p)
                BY DEF IInv, CallsInv
            <3>2. CASE p = o
                <4>1. call'[p] = c /\ Fix(p)' = x
                    BY <2>11, <2>12, <3>2
                <4>2. ~call[o].late /\ call[o].result = "none"
                    BY <1>1, <3>1, <3>2 DEF Late, Resulted
                <4>3. Prepared(p)' /\ Wrote(p)' /\ Late(p)' /\ Resulted(p)'
                    BY <2>3, <4>1, <4>2 DEF Prepared, Wrote, Late, Resulted
                <4>4. todo \subseteq Modified(x)
                    BY <2>1
                <4> HIDE DEF todo
                <4>5. Progress(p)'
                    BY <2>3, <2>8, <2>9, <4>1, <4>4 DEF Progress, WritingStages
                <4> QED
                    BY <4>3, <4>5
            <3>3. CASE p # o
                <4>1. call'[p] = call[p]
                    BY <2>11, <3>3
                <4>2. (Prepared(p) /\ Late(p) /\ Resulted(p))'
                    BY <2>4, <2>12, <3>1, <4>1 DEF Prepared, Late, Resulted
                <4>3. Wrote(p)'
                    <5>1. Modified(Fix(p)) \subseteq Files
                        BY DEF Modified, Files
                    <5> QED
                        BY <2>4, <2>10, <2>12, <3>1, <4>1, <5>1 DEF Wrote
                <4>4. Progress(p)'
                    BY <2>7, <2>12, <2>16, <3>1, <3>3, <4>1 DEF Progress
                <4> QED
                    BY <4>2, <4>3, <4>4
            <3> QED
                BY <3>2, <3>3
        <2>19. EachCounts'
            <3>1. c.result # "opened"
                BY <1>1, <2>3 DEF IInv, CallsInv, Resulted
            <3> QED
                BY <2>3, <2>4, <3>1, CountStays DEF IInv
        <2> QED
            BY <2>13, <2>14, <2>15, <2>17, <2>18, <2>19 DEF IInv
    <1> QED
        BY <1>2, <1>3

LEMMA PostPullKeeps ==
    ASSUME IInv, NEW o \in Openers, NEW stage \in {"open", "resume"}, PostPull(o, stage)
    PROVE  IInv'
    <1> DEFINE x == Fix(o)
               refused == pr[x] = "open" \/ Missing(x) = Modified(x)
    <1>1. /\ call[o] \in CallType /\ call[o].at = stage /\ x \in Fixes
          /\ opened \in [Fixes -> Nat] /\ pr \in [Fixes -> {"none", "open", "closed"}]
        BY DEF IInv, TypeOK, CallType, PostPull, At, Fix
    <1>2. CASE refused
        BY <1>2, Gives DEF PostPull
    <1>3. CASE ~refused
        <2>1. PICK c \in CallType :
                /\ call' = [call EXCEPT ![o] = c]
                /\ c.fix = call[o].fix /\ c.late = call[o].late /\ c.at = "done"
                /\ c.fresh = (stage = "open")
            <3>1. PICK result \in {"opened", "failed"} :
                    call' = [call EXCEPT ![o].at = "done", ![o].result = result,
                                         ![o].fresh = (stage = "open")]
                BY <1>3 DEF PostPull
            <3> DEFINE fresh == stage = "open"
                       d == [call[o] EXCEPT !.at = "done", !.result = result, !.fresh = fresh]
            <3>2. call' = [call EXCEPT ![o] = d] /\ fresh \in BOOLEAN
                BY <3>1
            <3> HIDE DEF fresh
            <3>3. d \in CallType /\ d.fix = call[o].fix /\ d.late = call[o].late
                  /\ d.at = "done" /\ d.fresh = fresh
                BY <1>1, <3>2 DEF CallType, Stages, Results
            <3> HIDE DEF d
            <3> QED
                BY <3>2, <3>3 DEF fresh
        <2>2. /\ opened' = [opened EXCEPT ![x] = @ + 1]
              /\ pr' = [pr EXCEPT ![x] = "open"]
              /\ partial' = IF Missing(x) = {} THEN partial \ {x} ELSE partial \cup {x}
              /\ branch' = branch /\ settled' = settled /\ main' = main
            BY <1>3 DEF PostPull
        <2>3. \A y \in Fixes :
                /\ opened'[y] = IF y = x THEN opened[y] + 1 ELSE opened[y]
                /\ pr'[y] = IF y = x THEN "open" ELSE pr[y]
            BY <1>1, <2>2
        <2>4. \A p \in Openers : call'[p] = IF p = o THEN c ELSE call[p]
            BY <2>1 DEF IInv, TypeOK
        <2>5. \A p \in Openers : Fix(p) \in Fixes /\ Fix(p)' = Fix(p)
            BY <2>1, <2>4 DEF IInv, TypeOK, Fix
        <2>6. TypeOK'
            <3>1. call' \in [Openers -> CallType]
                BY <2>1 DEF IInv, TypeOK, CallType
            <3>2. opened' \in [Fixes -> Nat] /\ pr' \in [Fixes -> {"none", "open", "closed"}]
                BY <1>1, <2>2
            <3>3. partial' \subseteq Fixes
                BY <1>1, <2>2 DEF IInv, TypeOK
            <3> QED
                BY <2>2, <3>1, <3>2, <3>3 DEF IInv, TypeOK, CallType
        <2>7. OnlyBranchesHold'
            <3>1. PICK f \in Modified(x) : branch[x].file[f].written
                BY <1>3 DEF Missing
            <3>2. f \in Files
                BY <3>1 DEF Modified, Files
            <3>3. branch[x].exists
                BY <1>1, <3>1, <3>2 DEF IInv, OnlyBranchesHold, NoBranch, Unwritten
            <3> QED
                BY <2>2, <2>3, <3>3 DEF IInv, OnlyBranchesHold
        <2>8. FilesFromOneClone'
            BY <2>2 DEF IInv, FilesFromOneClone
        <2>9. SettledByPeople'
            <3> SUFFICES ASSUME NEW y \in Fixes
                         PROVE  /\ opened'[y] > 0 /\ pr'[y] # "open" => y \in settled
                                /\ opened'[y] > 1 => y \in settled
                                /\ opened'[y] = 0 => pr'[y] # "open"
                BY <2>2 DEF SettledByPeople
            <3>1. /\ opened[y] > 0 /\ pr[y] # "open" => y \in settled
                  /\ opened[y] > 1 => y \in settled
                  /\ opened[y] = 0 => pr[y] # "open"
                BY DEF IInv, SettledByPeople
            <3>2. opened[y] \in Nat
                BY <1>1
            <3> QED
                BY <1>3, <2>3, <3>1, <3>2
        <2>10. \A p \in Openers :
                 call'[p].at \in WritingStages => p # o /\ call[p].at \in WritingStages
            BY <2>1, <2>4 DEF WritingStages
        <2>11. OneWriter'
            BY <2>5, <2>10 DEF IInv, OneWriter
        <2>12. CallsInv'
            <3> SUFFICES ASSUME NEW p \in Openers
                         PROVE  (Prepared(p) /\ Progress(p) /\ Wrote(p) /\ Late(p) /\ Resulted(p))'
                BY DEF CallsInv
            <3>1. Prepared(p) /\ Progress(p) /\ Wrote(p) /\ Late(p) /\ Resulted(p)
                BY DEF IInv, CallsInv
            <3>2. CASE p = o
                <4>1. call'[p] = c /\ Fix(p)' = x
                    BY <2>4, <2>5, <3>2
                <4>2. ~c.late
                    BY <1>1, <2>1, <3>1, <3>2 DEF Late
                <4>3. Prepared(p)' /\ Progress(p)' /\ Late(p)' /\ Resulted(p)'
                    BY <2>1, <4>1, <4>2
                    DEF Prepared, Progress, Late, Resulted, WritingStages
                <4>4. Wrote(p)'
                    <5> SUFFICES ASSUME stage = "open"
                                 PROVE  /\ \A f \in Modified(x) : branch[x].file[f].written
                                        /\ x \notin partial'
                        BY <2>1, <2>2, <4>1 DEF Wrote
                    <5>1. branch[x].file = Contains(x, {}, call[o].clone)
                        BY <1>1, <3>1, <3>2 DEF Progress, WritingStages
                    <5>2. \A f \in Modified(x) : branch[x].file[f].written
                        BY <5>1 DEF Contains, Modified, Files, Written
                    <5>3. Missing(x) = {}
                        BY <5>2 DEF Missing
                    <5> QED
                        BY <2>2, <5>2, <5>3
                <4> QED
                    BY <4>3, <4>4
            <3>3. CASE p # o
                <4>1. call'[p] = call[p]
                    BY <2>4, <3>3
                <4>2. Prepared(p)' /\ Resulted(p)'
                    BY <2>5, <3>1, <4>1 DEF Prepared, Resulted
                <4>3. Late(p)'
                    <5>1. opened[Fix(p)] \in Nat /\ Fix(p) \in Fixes
                        BY <1>1, <2>5
                    <5>2. opened[Fix(p)] > 0 => opened'[Fix(p)] > 0
                        BY <2>3, <5>1
                    <5> HIDE DEF x
                    <5> QED
                        BY <2>5, <3>1, <4>1, <5>2 DEF Late
                <4>4. Progress(p)'
                    BY <2>2, <2>5, <3>1, <4>1 DEF Progress, WritingStages
                <4>5. Wrote(p)'
                    <5> SUFFICES ASSUME call[p].result = "opened", call[p].fresh
                                 PROVE  /\ \A f \in Modified(Fix(p)) :
                                              branch[Fix(p)].file[f].written
                                        /\ Fix(p) \notin partial'
                        BY <2>2, <2>5, <4>1 DEF Wrote
                    <5>1. /\ \A f \in Modified(Fix(p)) : branch[Fix(p)].file[f].written
                          /\ Fix(p) \notin partial
                        BY <3>1 DEF Wrote
                    <5>2. Fix(p) = x => Missing(x) = {}
                        BY <5>1 DEF Missing
                    <5> QED
                        BY <2>2, <5>1, <5>2
                <4> QED
                    BY <4>2, <4>3, <4>4, <4>5
            <3> QED
                BY <3>2, <3>3
        <2>13. EachCounts'
            BY <2>1, <2>2, CountGrows DEF IInv, Fix
        <2> QED
            BY <2>6, <2>7, <2>8, <2>9, <2>11, <2>12, <2>13 DEF IInv
    <1> QED
        BY <1>2, <1>3

LEMMA PullSettledKeeps ==
    ASSUME IInv, NEW x \in Fixes, PullSettled(x)
    PROVE  IInv'
    <1>1. /\ pr' = [pr EXCEPT ![x] = "closed"] /\ settled' = settled \cup {x}
          /\ call' = call /\ branch' = branch /\ opened' = opened
          /\ partial' = partial /\ main' = main
        BY DEF PullSettled
    <1>2. TypeOK'
        BY <1>1 DEF IInv, TypeOK
    <1>3. OnlyBranchesHold' /\ OneWriter' /\ FilesFromOneClone'
        BY <1>1 DEF IInv, OnlyBranchesHold, OneWriter, FilesFromOneClone, Fix
    <1>4. CallsInv'
        BY <1>1 DEF IInv, CallsInv, Prepared, Progress, Wrote, Late, Resulted, Fix
    <1>5. SettledByPeople'
        BY <1>1 DEF IInv, TypeOK, SettledByPeople
    <1>6. EachCounts'
        BY <1>1 DEF IInv, EachCounts, Opened, Fix
    <1> QED
        BY <1>2, <1>3, <1>4, <1>5, <1>6 DEF IInv

\* The default branch moves, or nothing does.
LEMMA RestKeeps ==
    ASSUME IInv, MainMoves \/ UNCHANGED vars
    PROVE  IInv'
    <1>1. /\ call' = call /\ branch' = branch /\ opened' = opened /\ pr' = pr
          /\ partial' = partial /\ settled' = settled
        BY DEF MainMoves, vars
    <1>2. main' \in 0..MaxMain
        BY MaxMainAssumption DEF IInv, TypeOK, MainMoves, vars
    <1>3. TypeOK'
        BY <1>1, <1>2 DEF IInv, TypeOK
    <1>4. /\ OnlyBranchesHold' /\ OneWriter' /\ FilesFromOneClone' /\ SettledByPeople'
          /\ EachCounts'
        BY <1>1 DEF IInv, OnlyBranchesHold, OneWriter, FilesFromOneClone, SettledByPeople,
                    EachCounts, Opened, Fix
    <1>5. CallsInv'
        BY <1>1 DEF IInv, CallsInv, Prepared, Progress, Wrote, Late, Resulted, Fix
    <1> QED
        BY <1>3, <1>4, <1>5 DEF IInv

-----------------------------------------------------------------------------
(* The theorems *)

LEMMA StepKeeps == IInv /\ [Next]_vars => IInv'
    <1> SUFFICES ASSUME IInv, [Next]_vars PROVE IInv'
        OBVIOUS
    <1>1. ASSUME NEW o \in Openers, Clone(o) PROVE IInv'
        BY <1>1, CloneKeeps
    <1>2. ASSUME NEW o \in Openers, CheckBranch(o) PROVE IInv'
        BY <1>2, CheckBranchKeeps
    <1>3. ASSUME NEW o \in Openers, FindPull(o) PROVE IInv'
        BY <1>3, FindPullKeeps
    <1>4. ASSUME NEW o \in Openers, Prepare(o) PROVE IInv'
        BY <1>4, PrepareKeeps
    <1>5. ASSUME NEW o \in Openers, ReadBase(o) PROVE IInv'
        BY <1>5, ReadBaseKeeps
    <1>6. ASSUME NEW o \in Openers, CreateBranch(o) PROVE IInv'
        BY <1>6, CreateBranchKeeps
    <1>7. ASSUME NEW o \in Openers, CheckBranchAgain(o) PROVE IInv'
        BY <1>7, CheckBranchAgainKeeps
    <1>8. ASSUME NEW o \in Openers, FetchSha(o) PROVE IInv'
        BY <1>8, FetchShaKeeps
    <1>9. ASSUME NEW o \in Openers, PutFile(o) PROVE IInv'
        BY <1>9, PutFileKeeps
    <1>10. ASSUME NEW o \in Openers, OpenPull(o) \/ ResumePull(o) PROVE IInv'
        BY <1>10, PostPullKeeps DEF OpenPull, ResumePull
    <1>11. ASSUME NEW o \in Openers, RequestFails(o) PROVE IInv'
        BY <1>11, RequestFailsKeeps
    <1>12. ASSUME NEW x \in Fixes, PullSettled(x) PROVE IInv'
        BY <1>12, PullSettledKeeps
    <1>13. CASE MainMoves \/ UNCHANGED vars
        BY <1>13, RestKeeps
    <1> QED
        BY <1>1, <1>2, <1>3, <1>4, <1>5, <1>6, <1>7, <1>8, <1>9, <1>10, <1>11, <1>12, <1>13
        DEF Next

\* The inductive invariant holds of every run of open_fix_pr's calls.
THEOREM Invariance == Spec => []IInv
    <1> QED
        BY InitKeeps, StepKeeps, PTL DEF Spec

\* The state of the calls and of GitHub keeps its type.
THEOREM TypeCorrect == Spec => []TypeOK
    <1>1. IInv => TypeOK
        BY DEF IInv
    <1> QED
        BY Invariance, <1>1, PTL

\* A call that comes after a pull request of its fix, open, closed or merged,
\* never opens another: it is answered with the one it finds.
THEOREM NoDuplicates == Spec => []RerunOpensNothing
    <1>1. IInv => RerunOpensNothing
        BY DEF IInv, CallsInv, Late, RerunOpensNothing
    <1> QED
        BY Invariance, <1>1, PTL

\* The pull request of a call that wrote its branch has every file of the fix.
THEOREM CompletePulls == Spec => []WrittenPrIsComplete
    <1>1. IInv => WrittenPrIsComplete
        BY DEF IInv, CallsInv, Wrote, WrittenPrIsComplete
    <1> QED
        BY Invariance, <1>1, PTL

\* The files of a branch come from one clone, whatever calls race for it.
THEOREM OneCloneEach == Spec => []FilesFromOneClone
    <1>1. IInv => FilesFromOneClone
        BY DEF IInv
    <1> QED
        BY Invariance, <1>1, PTL

\* A fix gets a second pull request only when people settled the one it had,
\* no more calls say opened than pull requests were opened, and no re-run is
\* among them.
THEOREM PullsAreCounted == Spec => []OnePullPerFix
    <1>1. IInv => RerunOpensNothing
        BY DEF IInv, CallsInv, Late, RerunOpensNothing
    <1>2. IInv => OnePullPerFix
        BY <1>1 DEF IInv, SettledByPeople, EachCounts, Opened, OnePullPerFix
    <1> QED
        BY Invariance, <1>2, PTL

-----------------------------------------------------------------------------
(* The calls act at once *)

AskedOf == [o \in Openers |-> Fix(o)]
AnswerOf == [o \in Openers |-> Answered(call[o])]
OpenOf == [x \in Fixes |-> pr[x] = "open"]

\* A call that was made and is not done may open a pull request or join one.
Asking(o) == call[o].at \notin {"idle", "done"}

LEMMA AskingMay ==
    ASSUME NEW o \in Openers, Asking(o)
    PROVE  /\ AnswerOf[o] = IF call[o].late THEN "may join" ELSE "may open"
           /\ AnswerOf[o] \in {"may open", "may join"}
    BY DEF Asking, AnswerOf, Answered

LEMMA CallChanges ==
    ASSUME TypeOK, NEW o \in Openers, NEW c, call' = [call EXCEPT ![o] = c],
           c.fix = call[o].fix
    PROVE  /\ AskedOf' = AskedOf
           /\ AnswerOf' = [AnswerOf EXCEPT ![o] = Answered(c)]
    <1>1. \A p \in Openers : call'[p] = IF p = o THEN c ELSE call[p]
        BY DEF TypeOK
    <1>2. \A p \in Openers : Fix(p)' = Fix(p)
        BY <1>1 DEF Fix
    <1>3. AskedOf' = AskedOf
        BY <1>2 DEF AskedOf
    <1>4. \A p \in Openers : Answered(call'[p]) = IF p = o THEN Answered(c) ELSE Answered(call[p])
        BY <1>1
    <1>5. AnswerOf' = [p \in Openers |-> Answered(call'[p])]
        BY DEF AnswerOf, Answered
    <1> QED
        BY <1>3, <1>4, <1>5 DEF AnswerOf

\* Nothing of the promise changes while a call goes from stage to stage.
LEMMA GoingStutters ==
    ASSUME TypeOK, NEW o \in Openers, NEW c \in CallType, call' = [call EXCEPT ![o] = c],
           UNCHANGED <<opened, pr>>, Asking(o), c.fix = call[o].fix, c.late = call[o].late,
           c.at \notin {"idle", "done"}
    PROVE  UNCHANGED Promise!vars
    <1>1. Answered(c) = Answered(call[o])
        BY DEF Answered, Asking
    <1>2. AskedOf' = AskedOf /\ AnswerOf' = [AnswerOf EXCEPT ![o] = Answered(c)]
        BY CallChanges
    <1>3. AnswerOf' = AnswerOf
        BY <1>1, <1>2 DEF AnswerOf
    <1>4. opened' = opened /\ OpenOf' = OpenOf
        BY DEF OpenOf
    <1> QED
        BY <1>2, <1>3, <1>4 DEF Promise!vars, AskedOf, AnswerOf, OpenOf

LEMMA GotoStutters ==
    ASSUME TypeOK, NEW o \in Openers, NEW stage \in Stages \ {"idle", "done"},
           Goto(o, stage), UNCHANGED <<opened, pr>>, Asking(o)
    PROVE  UNCHANGED Promise!vars
    <1> DEFINE c == [call[o] EXCEPT !.at = stage]
    <1>1. call[o] \in CallType
        BY DEF TypeOK, CallType
    <1>2. c \in CallType /\ c.fix = call[o].fix /\ c.late = call[o].late /\ c.at = stage
        BY <1>1 DEF CallType
    <1>3. call' = [call EXCEPT ![o] = c]
        BY DEF Goto
    <1> HIDE DEF c
    <1> QED
        BY <1>2, <1>3, GoingStutters

\* A call that ends answers, once.
LEMMA EndingAnswers ==
    ASSUME TypeOK, NEW o \in Openers, NEW c, call' = [call EXCEPT ![o] = c],
           Asking(o), c.fix = call[o].fix, c.at = "done"
    PROVE  Promise!Answer(o, c.result)
    <1>1. Answered(c) = c.result
        BY DEF Answered
    <1>2. AskedOf' = AskedOf /\ AnswerOf' = [AnswerOf EXCEPT ![o] = c.result]
        BY <1>1, CallChanges
    <1> QED
        BY <1>2, AskingMay DEF Promise!Answer, AskedOf, AnswerOf

LEMMA ReturnAnswers ==
    ASSUME TypeOK, NEW o \in Openers, NEW result, Return(o, result), Asking(o)
    PROVE  Promise!Answer(o, result)
    <1> DEFINE c == [call[o] EXCEPT !.at = "done", !.result = result]
    <1>1. call[o] \in CallType
        BY DEF TypeOK, CallType
    <1>2. c.fix = call[o].fix /\ c.at = "done" /\ c.result = result
        BY <1>1 DEF CallType
    <1>3. call' = [call EXCEPT ![o] = c]
        BY DEF Return
    <1> HIDE DEF c
    <1> QED
        BY <1>2, <1>3, EndingAnswers

LEMMA FailingGivesUp ==
    ASSUME TypeOK, NEW o \in Openers, Return(o, "failed"), Asking(o), UNCHANGED <<opened, pr>>
    PROVE  Promise!GiveUp(o)
    <1>1. opened' = opened /\ OpenOf' = OpenOf
        BY DEF OpenOf
    <1> QED
        BY <1>1, ReturnAnswers DEF Promise!GiveUp, OpenOf

LEMMA CloneAsks ==
    ASSUME TypeOK, NEW o \in Openers, Clone(o)
    PROVE  Promise!Ask(o)
    <1> DEFINE late == opened[Fix(o)] > 0
               c == [call[o] EXCEPT !.at = "check branch", !.clone = main, !.late = late]
    <1>1. call[o] \in CallType /\ call[o].at = "idle" /\ Fix(o) \in Fixes
          /\ opened[Fix(o)] \in Nat
        BY DEF TypeOK, CallType, Clone, At, Fix
    <1>2. c.fix = call[o].fix /\ c.at = "check branch" /\ c.late = late
        BY <1>1 DEF CallType
    <1>3. call' = [call EXCEPT ![o] = c]
        BY DEF Clone
    <1> HIDE DEF c
    <1>4. Answered(c) = IF opened[Fix(o)] = 0 THEN "may open" ELSE "may join"
        <2>1. Answered(c) = IF late THEN "may join" ELSE "may open"
            BY <1>2 DEF Answered
        <2>2. late <=> opened[Fix(o)] # 0
            BY <1>1
        <2> HIDE DEF late
        <2> QED
            BY <2>1, <2>2
    <1>5. /\ AskedOf' = AskedOf
          /\ AnswerOf' = [AnswerOf EXCEPT ![o] = Answered(c)]
        BY <1>2, <1>3, CallChanges
    <1>6. AnswerOf[o] = "not called" /\ AskedOf[o] = Fix(o)
        BY <1>1 DEF AnswerOf, AskedOf, Answered
    <1>7. opened' = opened /\ OpenOf' = OpenOf
        BY DEF Clone, gitHub, OpenOf
    <1> QED
        BY <1>4, <1>5, <1>6, <1>7 DEF Promise!Ask, AskedOf, AnswerOf, OpenOf

LEMMA FindPullJoins ==
    ASSUME TypeOK, NEW o \in Openers, FindPull(o)
    PROVE  Promise!Join(o) \/ UNCHANGED Promise!vars
    <1>1. Asking(o) /\ UNCHANGED <<opened, pr>>
        BY DEF FindPull, At, Asking, gitHub
    <1>2. CASE opened[Fix(o)] > 0
        <2>1. Promise!Answer(o, "already_exists")
            BY <1>1, <1>2, ReturnAnswers DEF FindPull
        <2>2. AskedOf[o] = Fix(o) /\ opened' = opened /\ OpenOf' = OpenOf
            BY <1>1 DEF AskedOf, OpenOf
        <2> QED
            BY <1>2, <2>1, <2>2 DEF Promise!Join, AskedOf, OpenOf
    <1>3. CASE ~(opened[Fix(o)] > 0)
        BY <1>1, <1>3, GotoStutters DEF FindPull, Stages
    <1> QED
        BY <1>2, <1>3

LEMMA PrepareSkips ==
    ASSUME IInv, NEW o \in Openers, Prepare(o)
    PROVE  Promise!GiveUp(o) \/ Promise!Skip(o) \/ UNCHANGED Promise!vars
    <1>1. TypeOK /\ Asking(o) /\ UNCHANGED <<opened, pr>> /\ ~call[o].late /\ call[o] \in CallType
        BY DEF IInv, TypeOK, CallType, CallsInv, Late, Prepare, At, Asking, gitHub
    <1>2. CASE Return(o, "failed")
        BY <1>1, <1>2, FailingGivesUp
    <1>3. CASE Return(o, "skipped")
        <2>1. Promise!Answer(o, "skipped") /\ AnswerOf[o] = "may open"
            BY <1>1, <1>3, ReturnAnswers, AskingMay
        <2>2. opened' = opened /\ OpenOf' = OpenOf
            BY <1>1 DEF OpenOf
        <2> QED
            BY <2>1, <2>2 DEF Promise!Skip, AnswerOf, OpenOf
    <1>4. CASE call' = [call EXCEPT ![o].at = "read base", ![o].todo = Modified(Fix(o))]
        <2> DEFINE c == [call[o] EXCEPT !.at = "read base", !.todo = Modified(Fix(o))]
        <2>1. /\ c \in CallType /\ c.fix = call[o].fix /\ c.late = call[o].late
              /\ c.at = "read base"
            BY <1>1 DEF CallType, Stages, Modified, Files
        <2>2. call' = [call EXCEPT ![o] = c]
            BY <1>4
        <2> HIDE DEF c
        <2> QED
            BY <1>1, <2>1, <2>2, GoingStutters
    <1> QED
        BY <1>2, <1>3, <1>4 DEF Prepare

LEMMA CreateBranchStutters ==
    ASSUME TypeOK, NEW o \in Openers, CreateBranch(o)
    PROVE  Promise!GiveUp(o) \/ UNCHANGED Promise!vars
    <1>1. Asking(o) /\ UNCHANGED <<opened, pr>>
        BY DEF CreateBranch, BranchCreated, At, Asking, gitHub
    <1>2. \/ Goto(o, "check branch again") \/ Goto(o, "fetch sha")
          \/ Return(o, "failed")
        BY DEF CreateBranch
    <1> QED
        BY <1>1, <1>2, GotoStutters, FailingGivesUp DEF Stages

LEMMA FetchShaStutters ==
    ASSUME TypeOK, NEW o \in Openers, FetchSha(o)
    PROVE  UNCHANGED Promise!vars
    <1> DEFINE sha == branch[Fix(o)].file[NextFile(o)]
               c == [call[o] EXCEPT !.at = "put file", !.sha = sha]
    <1>1. Asking(o) /\ UNCHANGED <<opened, pr>> /\ call[o] \in CallType
        BY DEF TypeOK, CallType, FetchSha, At, Asking, gitHub
    <1>2. sha \in Contents
        BY DEF TypeOK, Fix, NextFile, Files
    <1>3. call' = [call EXCEPT ![o] = c]
        BY DEF FetchSha
    <1> HIDE DEF sha
    <1>4. /\ c \in CallType /\ c.fix = call[o].fix /\ c.late = call[o].late
          /\ c.at = "put file"
        BY <1>1, <1>2 DEF CallType, Stages
    <1> HIDE DEF c
    <1> QED
        BY <1>1, <1>3, <1>4, GoingStutters

LEMMA PutFileStutters ==
    ASSUME TypeOK, NEW o \in Openers, PutFile(o)
    PROVE  Promise!GiveUp(o) \/ UNCHANGED Promise!vars
    <1> DEFINE rest == call[o].todo \ {NextFile(o)}
               stage == IF call[o].todo = {NextFile(o)} THEN "open" ELSE "fetch sha"
               c == [call[o] EXCEPT !.todo = rest, !.at = stage]
    <1>1. Asking(o) /\ UNCHANGED <<opened, pr>> /\ call[o] \in CallType
        BY DEF TypeOK, CallType, PutFile, FileWritten, At, Asking, gitHub
    <1>2. rest \in SUBSET Files /\ stage \in {"open", "fetch sha"}
        BY <1>1 DEF CallType
    <1>3. Return(o, "failed") \/ call' = [call EXCEPT ![o] = c]
        BY DEF PutFile
    <1> HIDE DEF rest, stage
    <1>4. /\ c \in CallType /\ c.fix = call[o].fix /\ c.late = call[o].late
          /\ c.at = stage
        BY <1>1, <1>2 DEF CallType, Stages
    <1> HIDE DEF c
    <1> QED
        BY <1>1, <1>2, <1>3, <1>4, GoingStutters, FailingGivesUp

\* The pull request is opened by a call that may, since a call that came late
\* gets no further than finding the one there is.
LEMMA PostPullOpens ==
    ASSUME IInv, NEW o \in Openers, NEW stage \in {"open", "resume"}, PostPull(o, stage)
    PROVE  Promise!GiveUp(o) \/ Promise!Open(o)
    <1> DEFINE x == Fix(o)
               refused == pr[x] = "open" \/ Missing(x) = Modified(x)
    <1>1. /\ TypeOK /\ Asking(o) /\ ~call[o].late /\ x \in Fixes /\ call[o] \in CallType
          /\ pr \in [Fixes -> {"none", "open", "closed"}]
        BY DEF IInv, TypeOK, CallType, CallsInv, Late, PostPull, At, Asking, Fix
    <1>2. CASE refused
        BY <1>1, <1>2, FailingGivesUp DEF PostPull, gitHub
    <1>3. CASE ~refused
        <2>1. PICK result \in {"opened", "failed"} :
                call' = [call EXCEPT ![o].at = "done", ![o].result = result,
                                     ![o].fresh = (stage = "open")]
            BY <1>3 DEF PostPull
        <2> DEFINE fresh == stage = "open"
                   c == [call[o] EXCEPT !.at = "done", !.result = result, !.fresh = fresh]
        <2>2. call' = [call EXCEPT ![o] = c]
            BY <2>1
        <2> HIDE DEF fresh
        <2>3. c.fix = call[o].fix /\ c.at = "done" /\ c.result = result
            BY <1>1 DEF CallType
        <2> HIDE DEF c
        <2>4. Promise!Answer(o, result)
            BY <1>1, <2>2, <2>3, EndingAnswers
        <2>5. AnswerOf[o] = "may open" /\ AskedOf[o] = x /\ OpenOf[x] = FALSE
            BY <1>1, <1>3, AskingMay DEF AskedOf, OpenOf
        <2>6. opened' = [opened EXCEPT ![x] = @ + 1] /\ pr' = [pr EXCEPT ![x] = "open"]
            BY <1>3 DEF PostPull
        <2>7. OpenOf' = [OpenOf EXCEPT ![x] = TRUE]
            <3>1. \A y \in Fixes : pr'[y] = IF y = x THEN "open" ELSE pr[y]
                BY <1>1, <2>6
            <3> HIDE DEF x
            <3> QED
                BY <3>1 DEF OpenOf
        <2> HIDE DEF x
        <2> QED
            BY <2>4, <2>5, <2>6, <2>7 DEF Promise!Open, AnswerOf, AskedOf, OpenOf
    <1> QED
        BY <1>2, <1>3

LEMMA SettlingIsPromised ==
    ASSUME TypeOK, NEW x \in Fixes, PullSettled(x)
    PROVE  Promise!Settle(x)
    <1>1. OpenOf[x] /\ OpenOf' = [OpenOf EXCEPT ![x] = FALSE]
        BY DEF TypeOK, PullSettled, OpenOf
    <1>2. AskedOf' = AskedOf /\ AnswerOf' = AnswerOf /\ opened' = opened
        BY DEF PullSettled, AskedOf, AnswerOf, Fix
    <1> QED
        BY <1>1, <1>2 DEF Promise!Settle, OpenOf, AskedOf, AnswerOf

LEMMA RestStutters ==
    ASSUME MainMoves \/ UNCHANGED vars
    PROVE  UNCHANGED Promise!vars
    <1>1. call' = call /\ opened' = opened /\ pr' = pr
        BY DEF MainMoves, vars
    <1> QED
        BY <1>1 DEF Promise!vars, Fix

LEMMA InitIsPromised == Init => Promise!Init
    <1> SUFFICES ASSUME Init PROVE Promise!Init
        OBVIOUS
    <1>1. \A o \in Openers : call[o].at = "idle" /\ call[o].fix \in Fixes
        BY DEF Init
    <1>2. AskedOf \in [Openers -> Fixes]
        BY <1>1 DEF AskedOf, Fix
    <1>3. AnswerOf = [o \in Openers |-> "not called"]
        BY <1>1 DEF AnswerOf, Answered
    <1>4. OpenOf = [x \in Fixes |-> FALSE]
        BY DEF Init, OpenOf
    <1>5. opened = [x \in Fixes |-> 0]
        BY DEF Init
    <1> QED
        BY <1>2, <1>3, <1>4, <1>5 DEF Promise!Init, AskedOf, AnswerOf, OpenOf

LEMMA StepIsPromised == IInv /\ [Next]_vars => [Promise!Next]_(Promise!vars)
    <1> SUFFICES ASSUME IInv, [Next]_vars PROVE [Promise!Next]_(Promise!vars)
        OBVIOUS
    <1> USE DEF Promise!Next
    <1>1. TypeOK
        BY DEF IInv
    <1>2. ASSUME NEW o \in Openers, Clone(o) PROVE [Promise!Next]_(Promise!vars)
        BY <1>1, <1>2, CloneAsks
    <1>3. ASSUME NEW o \in Openers,
                 CheckBranch(o) \/ ReadBase(o) \/ CheckBranchAgain(o)
          PROVE  [Promise!Next]_(Promise!vars)
        <2>1. Asking(o) /\ UNCHANGED <<opened, pr>>
            BY <1>3 DEF CheckBranch, ReadBase, CheckBranchAgain, At, Asking, gitHub
        <2>2. \E stage \in Stages \ {"idle", "done"} : Goto(o, stage)
            BY <1>3 DEF CheckBranch, ReadBase, CheckBranchAgain, Stages
        <2> QED
            BY <1>1, <2>1, <2>2, GotoStutters
    <1>4. ASSUME NEW o \in Openers, FindPull(o) PROVE [Promise!Next]_(Promise!vars)
        BY <1>1, <1>4, FindPullJoins
    <1>5. ASSUME NEW o \in Openers, Prepare(o) PROVE [Promise!Next]_(Promise!vars)
        BY <1>5, PrepareSkips
    <1>6. ASSUME NEW o \in Openers, CreateBranch(o) PROVE [Promise!Next]_(Promise!vars)
        BY <1>1, <1>6, CreateBranchStutters
    <1>7. ASSUME NEW o \in Openers, FetchSha(o) PROVE [Promise!Next]_(Promise!vars)
        BY <1>1, <1>7, FetchShaStutters
    <1>8. ASSUME NEW o \in Openers, PutFile(o) PROVE [Promise!Next]_(Promise!vars)
        BY <1>1, <1>8, PutFileStutters
    <1>9. ASSUME NEW o \in Openers, OpenPull(o) \/ ResumePull(o)
          PROVE  [Promise!Next]_(Promise!vars)
        BY <1>9, PostPullOpens DEF OpenPull, ResumePull
    <1>10. ASSUME NEW o \in Openers, RequestFails(o) PROVE [Promise!Next]_(Promise!vars)
        <2>1. Asking(o) /\ UNCHANGED <<opened, pr>> /\ Return(o, "failed")
            BY <1>10 DEF RequestFails, At, Asking, gitHub
        <2> QED
            BY <1>1, <2>1, FailingGivesUp
    <1>11. ASSUME NEW x \in Fixes, PullSettled(x) PROVE [Promise!Next]_(Promise!vars)
        BY <1>1, <1>11, SettlingIsPromised
    <1>12. CASE MainMoves \/ UNCHANGED vars
        BY <1>12, RestStutters
    <1> QED
        BY <1>2, <1>3, <1>4, <1>5, <1>6, <1>7, <1>8, <1>9, <1>10, <1>11, <1>12 DEF Next

\* However the requests of any number of calls interleave and fail, each call
\* acts on the pull requests of its fix at once or not at all, and answers at
\* that moment: the calls implement the promise of open_fix_pr.
THEOREM CallsActAtOnce == Spec => ActsAtOnce
    <1> QED
        BY InitIsPromised, StepIsPromised, Invariance, PTL DEF Spec, ActsAtOnce, Promise!Spec

==============================================================================
