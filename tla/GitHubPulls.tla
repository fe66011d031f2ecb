----------------------------- MODULE GitHubPulls -----------------------------
(***************************************************************************)
(* GitHub as Arguss sees it while it waits to merge: pull requests and the *)
(* commit each one points to.  GitHub is not part of the repository; it is *)
(* modelled from the calls arguss/web/action_merge.py makes and the status *)
(* codes it tells apart.  Check runs start, end and are run again as CI    *)
(* likes, so what they say is asked for and not kept.                      *)
(***************************************************************************)
EXTENDS MergeParameters

VARIABLE gh    \* gh[p]: status, head commit and merger of pull request p

Nobody == "nobody"
ASSUME NobodyAssumption == Nobody \notin Runs

\* A pull request is settled once it is merged or closed; the merge endpoint
\* answers both alike.
PullRequest ==
    [status : {"open", "settled"}, head : Shas, by : Runs \cup {Nobody}]

GhTypeOK == gh \in [Prs -> PullRequest]

\* A run may meet pull requests that people already merged or closed:
\* _find_existing_pr asks for state=all.
GhInit ==
    gh \in [Prs -> [status : {"open", "settled"}, head : {1}, by : {Nobody}]]

-----------------------------------------------------------------------------
(* What people do. *)

\* Someone pushes a commit to the branch of an open pull request.
Push(p) ==
    /\ gh[p].status = "open"
    /\ gh[p].head < MaxSha
    /\ gh' = [gh EXCEPT ![p].head = @ + 1]

\* A person merges or closes the pull request by hand.
SettledByHand(p) ==
    /\ gh[p].status = "open"
    /\ gh' = [gh EXCEPT ![p].status = "settled"]

GhEnvironment == \E p \in Prs : Push(p) \/ SettledByHand(p)

-----------------------------------------------------------------------------
(* The merge endpoint: PUT /pulls/{number}/merge with the expected head. *)

MergeReplies == {"200", "409", "other"}

\* 200 merges; 409 when the head moved; anything else (already merged or
\* closed, branch protection, conflicts) leaves the pull request as it was.
MergeCall(r, p, sha, reply) ==
    \/ /\ reply = "200"
       /\ gh[p].status = "open"
       /\ gh[p].head = sha
       /\ gh' = [gh EXCEPT ![p].status = "settled", ![p].by = r]
    \/ /\ reply = "409"
       /\ gh[p].status = "open"
       /\ gh[p].head # sha
       /\ UNCHANGED gh
    \/ /\ reply = "other"
       /\ UNCHANGED gh

=============================================================================
