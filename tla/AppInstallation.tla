--------------------------- MODULE AppInstallation ----------------------------
(***************************************************************************)
(* How a browser comes by an installation of the GitHub App and acts with  *)
(* it: /github/install and /github/callback (arguss/web/github_install.py),*)
(* GET and POST /authorize (arguss/web/dashboard.py), and the tokens.      *)
(*                                                                         *)
(* The session of these routes is a signed cookie: a request carries the   *)
(* cookie the browser had when it was sent, and its answer replaces the    *)
(* whole cookie when it arrives, whatever other tabs received in between.  *)
(***************************************************************************)
EXTENDS InstallTokens, Sequences

CONSTANTS
    Tabs,
    Owned,          \* the installations this user has access to on GitHub
    Paths,          \* pages an install may start from
    DefaultPath,    \* DEFAULT_RESUME_REDIRECT
    MaxStarts       \* bound: installs started in a behaviour

ASSUME OwnedAssumption == Owned \subseteq Installations

ASSUME PathsAssumption == None \notin Paths /\ MaxStarts \in Nat

VARIABLES
    cookie,     \* [state, path, id]: arguss_session in the browser
    tabs,       \* [step, cookie, nonce, id, path] of a tab
    starts,     \* starts[n]: the path the n-th install was to return to
    live,       \* installations that GitHub still has
    runs        \* installations that runs were started with

browserVars == <<cookie, tabs, starts, live, runs>>

vars == <<tokenVars, browserVars>>

EmptyCookie == [state |-> 0, path |-> None, id |-> None]

CookieType ==
    [state : Nat, path : Paths \cup {None}, id : Installations \cup {None}]

NewTab == [step |-> "page", cookie |-> EmptyCookie, nonce |-> 0, id |-> None, path |-> None]

TabType ==
    [step : {"page", "install", "github", "callback", "refused", "landed", "show", "begin"},
     cookie : CookieType, nonce : Nat, id : Installations \cup {None},
     path : Paths \cup {DefaultPath, None}]

TypeOK ==
    /\ TokensTypeOK
    /\ cookie \in CookieType
    /\ tabs \in [Tabs -> TabType]
    /\ starts \in Seq(Paths \cup {None})
    /\ live \subseteq Installations
    /\ runs \subseteq Installations

Init ==
    /\ TokensInit
    /\ cookie = EmptyCookie
    /\ tabs = [t \in Tabs |-> NewTab]
    /\ starts = <<>>
    /\ live = Installations
    /\ runs = {}

-----------------------------------------------------------------------------
(* Installing *)

AtRest(t) == tabs[t].step \in {"page", "refused", "landed"}

\* A link to /github/install, with a page to return to or without.
SendInstall(t, path) ==
    /\ AtRest(t)
    /\ Len(starts) < MaxStarts
    /\ tabs' = [tabs EXCEPT ![t] =
                   [NewTab EXCEPT !.step = "install", !.cookie = cookie, !.path = path]]
    /\ UNCHANGED <<tokenVars, cookie, starts, live, runs>>

\* Variant: an install without a page to return to leaves that of the last.
LeavesStalePath(session, nonce, path) ==
    [session EXCEPT !.state = nonce, !.path = IF path = None THEN session.path ELSE path]

\* github_install: a new state, and the path or none.
Starting(session, nonce, path) == [session EXCEPT !.state = nonce, !.path = path]

Install(t) ==
    LET nonce == Len(starts) + 1
    IN  /\ tabs[t].step = "install"
        /\ nonce <= MaxStarts
        /\ cookie' = Starting(tabs[t].cookie, nonce, tabs[t].path)
        /\ starts' = Append(starts, tabs[t].path)
        /\ tabs' = [tabs EXCEPT ![t] = [NewTab EXCEPT !.step = "github", !.nonce = nonce]]
        /\ UNCHANGED <<tokenVars, live, runs>>

\* GitHub sends the browser back with the installation that was made or chosen.
SendCallback(t, i) ==
    /\ tabs[t].step = "github"
    /\ tabs' = [tabs EXCEPT ![t] =
                   [tabs[t] EXCEPT !.step = "callback", !.cookie = cookie, !.id = i]]
    /\ UNCHANGED <<tokenVars, cookie, starts, live, runs>>

\* The page of a callback that failed is loaded again.
Reload(t) ==
    /\ tabs[t].step = "refused"
    /\ tabs' = [tabs EXCEPT ![t] = [tabs[t] EXCEPT !.step = "callback", !.cookie = cookie]]
    /\ UNCHANGED <<tokenVars, cookie, starts, live, runs>>

Refuse(t) ==
    tabs' = [tabs EXCEPT ![t] =
                [NewTab EXCEPT !.step = "refused", !.nonce = tabs[t].nonce, !.id = tabs[t].id]]

StateMatches(t) == tabs[t].cookie.state # 0 /\ tabs[t].cookie.state = tabs[t].nonce

\* A session that a request does not change is sent back or not: that is up
\* to the middleware.
CallbackMismatch(t) ==
    /\ tabs[t].step = "callback"
    /\ ~StateMatches(t)
    /\ Refuse(t)
    /\ cookie' \in {cookie, tabs[t].cookie}
    /\ UNCHANGED <<tokenVars, starts, live, runs>>

\* The state is spent; the code is missing, its exchange fails, ownership
\* cannot be seen, or is seen not to be.
CallbackFails(t) ==
    /\ tabs[t].step = "callback"
    /\ StateMatches(t)
    /\ Refuse(t)
    /\ cookie' = [tabs[t].cookie EXCEPT !.state = 0]
    /\ UNCHANGED <<tokenVars, starts, live, runs>>

\* Variant: the installation is taken as GitHub's redirect names it.
Trusts(i) == TRUE

\* user_can_access_installation
CanAccess(i) == i \in Owned

\* The return path is used once; without one there is a default.
CallbackBinds(t) ==
    LET i == tabs[t].id
        path == tabs[t].cookie.path
    IN  /\ tabs[t].step = "callback"
        /\ StateMatches(t)
        /\ CanAccess(i)
        /\ cookie' = [tabs[t].cookie EXCEPT !.state = 0, !.path = None, !.id = i]
        /\ tabs' = [tabs EXCEPT ![t] =
                       [NewTab EXCEPT !.step = "landed", !.nonce = tabs[t].nonce,
                                      !.path = IF path = None THEN DefaultPath ELSE path]]
        /\ UNCHANGED <<tokenVars, starts, live, runs>>

-----------------------------------------------------------------------------
(* Acting *)

\* GET ("show") or POST ("begin") /authorize
SendAuthorize(t, step) ==
    /\ AtRest(t)
    /\ step \in {"show", "begin"}
    /\ tabs' = [tabs EXCEPT ![t] = [NewTab EXCEPT !.step = step, !.cookie = cookie]]
    /\ UNCHANGED <<tokenVars, cookie, starts, live, runs>>

Answered(t) == tabs' = [tabs EXCEPT ![t] = NewTab]

\* installation_exists answers 404: the id is cleared, its token dropped, and
\* the page says so, at once or after the redirect; that one-shot note in the
\* cookie is left out.
FindGone(t) ==
    LET session == tabs[t].cookie
    IN  /\ tabs[t].step \in {"show", "begin"}
        /\ session.id # None /\ session.id \notin live
        /\ cookie' = [session EXCEPT !.id = None]
        /\ tokens' = Dropped(session.id)
        /\ Answered(t)
        /\ UNCHANGED <<now, workers, starts, live, runs>>

\* The page, with the installation that is there or cannot be looked up, or
\* with the link to make one.
Show(t) ==
    /\ tabs[t].step = "show"
    /\ cookie' \in {cookie, tabs[t].cookie}
    /\ Answered(t)
    /\ UNCHANGED <<tokenVars, starts, live, runs>>

\* POST without an installation is sent to install one.
BeginUnconnected(t) ==
    /\ tabs[t].step = "begin"
    /\ tabs[t].cookie.id = None
    /\ cookie' \in {cookie, tabs[t].cookie}
    /\ Answered(t)
    /\ UNCHANGED <<tokenVars, starts, live, runs>>

\* POST with one that is there, or that cannot be looked up.
Begin(t) ==
    LET session == tabs[t].cookie
    IN  /\ tabs[t].step = "begin"
        /\ session.id # None
        /\ runs' = runs \cup {session.id}
        /\ cookie' \in {cookie, session}
        /\ Answered(t)
        /\ UNCHANGED <<tokenVars, starts, live>>

-----------------------------------------------------------------------------

\* The App is uninstalled on GitHub.
Uninstall(i) ==
    /\ i \in live
    /\ live' = live \ {i}
    /\ UNCHANGED <<tokenVars, cookie, tabs, starts, runs>>

\* Deploy or death of the process: threads, the cache and the requests under
\* way are lost, the cookie is the browser's.
Crash ==
    /\ tokens' = [i \in Installations |-> None]
    /\ workers' = [w \in Workers |-> Idle]
    /\ tabs' = [t \in Tabs |->
                   IF tabs[t].step \in {"github", "refused"} THEN tabs[t] ELSE NewTab]
    /\ UNCHANGED <<now, cookie, starts, live, runs>>

TokenNext ==
    /\ Tick \/ \E w \in Workers : TokenStep(w) \/ \E i \in runs : Ask(w, i)
    /\ UNCHANGED browserVars

TabNext(t) ==
    \/ \E path \in Paths \cup {None} : SendInstall(t, path)
    \/ \E i \in Installations : SendCallback(t, i)
    \/ \E step \in {"show", "begin"} : SendAuthorize(t, step)
    \/ Install(t) \/ Reload(t) \/ CallbackMismatch(t) \/ CallbackFails(t) \/ CallbackBinds(t)
    \/ FindGone(t) \/ Show(t) \/ BeginUnconnected(t) \/ Begin(t)

Next ==
    \/ TokenNext
    \/ \E t \in Tabs : TabNext(t)
    \/ \E i \in Installations : Uninstall(i)
    \/ Crash

Spec == Init /\ [][Next]_vars

-----------------------------------------------------------------------------
(* Properties *)

\* However answers cross, a browser holds, and a run is given, only an
\* installation its user has access to.
BoundIsOwned ==
    /\ cookie.id # None => cookie.id \in Owned
    /\ runs \subseteq Owned

\* A tab that comes back from GitHub lands on the page its own install was
\* started from, or the default when there was none, although all tabs share
\* the one return path in the cookie.
LandsWhereItStarted ==
    \A t \in Tabs :
        tabs[t].step = "landed" =>
            LET path == starts[tabs[t].nonce]
            IN  tabs[t].path = IF path = None THEN DefaultPath ELSE path

\* A token is still good for the refresh skew when a thread is given it, although
\* the thread waited for the lock and the answer of GitHub was on its way.
TokenOutlivesItsUse ==
    \A w \in Workers : workers[w].step = "using" => workers[w].left > Skew

\* Threads that find no fresh token mint one between them: a token that is
\* still fresh is dropped or kept, never minted again.
FreshTokenIsKept ==
    [][\A i \in Installations :
          Fresh(tokens[i], now) => tokens'[i] \in {tokens[i], None}]_vars
==============================================================================
