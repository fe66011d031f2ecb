----------------------------- MODULE PullPromise ------------------------------
(***************************************************************************)
(* What a call of open_fix_pr promises, with no word of branches, files or *)
(* requests: it acts on GitHub once or not at all, and answers at that very *)
(* moment.                                                                 *)
(***************************************************************************)
EXTENDS Naturals

CONSTANTS Openers, Fixes

VARIABLES
    asked,     \* asked[o]: the fix call o is for
    answer,    \* answer[o]: "not called", "may open", "may join", or what o answered
    opened,    \* opened[x]: how many pull requests fix x ever had
    isOpen     \* isOpen[x]: the latest of them is open

vars == <<asked, answer, opened, isOpen>>

Init ==
    /\ asked \in [Openers -> Fixes]
    /\ answer = [o \in Openers |-> "not called"]
    /\ opened = [x \in Fixes |-> 0]
    /\ isOpen = [x \in Fixes |-> FALSE]

Answer(o, what) ==
    /\ answer[o] \in {"may open", "may join"}
    /\ answer' = [answer EXCEPT ![o] = what]
    /\ UNCHANGED asked

\* Only a call for a fix without any pull request may open one.
Ask(o) ==
    /\ answer[o] = "not called"
    /\ answer' = [answer EXCEPT ![o] = IF opened[asked[o]] = 0 THEN "may open" ELSE "may join"]
    /\ UNCHANGED <<asked, opened, isOpen>>

\* It opens one beside no other that is open; GitHub's answer may be lost.
Open(o) ==
    /\ answer[o] = "may open"
    /\ ~isOpen[asked[o]]
    /\ \E what \in {"opened", "failed"} : Answer(o, what)
    /\ opened' = [opened EXCEPT ![asked[o]] = @ + 1]
    /\ isOpen' = [isOpen EXCEPT ![asked[o]] = TRUE]

\* It answers that there is one when there is one, in whatever state.
Join(o) ==
    /\ opened[asked[o]] > 0
    /\ Answer(o, "already_exists")
    /\ UNCHANGED <<opened, isOpen>>

Skip(o) ==
    /\ answer[o] = "may open"
    /\ Answer(o, "skipped")
    /\ UNCHANGED <<opened, isOpen>>

GiveUp(o) ==
    /\ Answer(o, "failed")
    /\ UNCHANGED <<opened, isOpen>>

\* People close or merge a pull request.
Settle(x) ==
    /\ isOpen[x]
    /\ isOpen' = [isOpen EXCEPT ![x] = FALSE]
    /\ UNCHANGED <<asked, answer, opened>>

Next ==
    \/ \E o \in Openers : Ask(o) \/ Open(o) \/ Join(o) \/ Skip(o) \/ GiveUp(o)
    \/ \E x \in Fixes : Settle(x)

Spec == Init /\ [][Next]_vars

=============================================================================
