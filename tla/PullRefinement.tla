---------------------------- MODULE PullRefinement ----------------------------
(***************************************************************************)
(* The requests of open_fix_pr, of however many calls, failed ones         *)
(* included, keep its promise.                                             *)
(***************************************************************************)
EXTENDS OpenFixPr

\* How far a call is, to whoever asked for it.
Answered(c) ==
    CASE c.at = "done" -> c.result
      [] c.at = "idle" -> "not called"
      [] OTHER -> IF c.late THEN "may join" ELSE "may open"

Promise == INSTANCE PullPromise WITH
    asked <- [o \in Openers |-> Fix(o)],
    answer <- [o \in Openers |-> Answered(call[o])],
    isOpen <- [x \in Fixes |-> pr[x] = "open"]

\* However the requests of racing, failing and repeated calls interleave, each
\* call acts as if at once: it opens a pull request where none is open, and
\* none at all if its fix had one when it began; or it answers that there is one
\* when there is; or it leaves GitHub's pull requests alone; and it never takes
\* its answer back.
ActsAtOnce == Promise!Spec

=============================================================================
