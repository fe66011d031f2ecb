------------------------- MODULE AppInstallationProofs -------------------------
(***************************************************************************)
(* What holds of installations and their tokens for any number of tabs,    *)
(* threads and installations, any lifetime of a token that exceeds the     *)
(* skew and the delay of an answer, and a clock that never stops.          *)
(***************************************************************************)
EXTENDS AppInstallation, SequenceTheorems, TLAPS

-----------------------------------------------------------------------------
(* The invariant of the tokens *)

\* The lock of an installation has one holder.
OneMintEach ==
    \A v, w \in Workers :
        workers[v].step = "minting" /\ workers[w].step = "minting"
            /\ workers[v].id = workers[w].id => v = w

\* Under the lock, a token that was not fresh does not become so by itself.
MintsStale ==
    \A w \in Workers :
        workers[w].step = "minting" => ~Fresh(tokens[workers[w].id], now)

HoldersNamed ==
    \A w \in Workers : workers[w].step # "idle" => workers[w].id \in Installations

TokensInv ==
    /\ TokensTypeOK
    /\ HoldersNamed
    /\ OneMintEach
    /\ MintsStale
    /\ TokenOutlivesItsUse

-----------------------------------------------------------------------------
(* The invariant of the browser *)

Starts == Paths \cup {None}

\* A cookie, wherever it is, holds an owned installation if any, and with an
\* unspent state the path of just that install.
CookieOK(c, ss) ==
    /\ c \in CookieType
    /\ c.id # None => c.id \in Owned
    /\ c.state # 0 => c.state \in 1..Len(ss) /\ c.path = ss[c.state]

TabOK(tab, ss) ==
    /\ tab \in TabType
    /\ CookieOK(tab.cookie, ss)
    /\ tab.step = "install" => tab.path \in Starts
    /\ tab.step = "landed" =>
          /\ tab.nonce \in 1..Len(ss)
          /\ tab.path = IF ss[tab.nonce] = None THEN DefaultPath ELSE ss[tab.nonce]

BrowserInv ==
    /\ starts \in Seq(Starts)
    /\ CookieOK(cookie, starts)
    /\ tabs \in [Tabs -> TabType]
    /\ \A t \in Tabs : TabOK(tabs[t], starts)
    /\ live \subseteq Installations
    /\ runs \subseteq Owned

IInv == TokensInv /\ BrowserInv

-----------------------------------------------------------------------------
(* Tokens *)

LEMMA TokensInitially == TokensInit => TokensInv
    BY NoneAssumption
       DEF TokensInit, TokensInv, TokensTypeOK, HoldersNamed, OneMintEach, MintsStale,
           TokenOutlivesItsUse, Idle, WorkerType

\* A thread that moves to a step other than minting, with what it needs there.
LEMMA WorkerMoves ==
    ASSUME TokensInv, NEW w \in Workers, NEW new \in WorkerType,
           workers' = [workers EXCEPT ![w] = new], UNCHANGED <<now, tokens>>,
           new.step # "idle" => new.id \in Installations,
           new.step = "minting" =>
               ~Locked(new.id) /\ ~Fresh(tokens[new.id], now),
           new.step = "using" => new.left > Skew
    PROVE  TokensInv'
    <1>1. \A v \in Workers : workers'[v] = IF v = w THEN new ELSE workers[v]
        BY DEF TokensInv, TokensTypeOK
    <1>2. TokensTypeOK' /\ HoldersNamed' /\ TokenOutlivesItsUse'
        BY <1>1 DEF TokensInv, TokensTypeOK, HoldersNamed, TokenOutlivesItsUse
    <1>3. OneMintEach'
        BY <1>1 DEF TokensInv, OneMintEach, Locked
    <1>4. MintsStale'
        BY <1>1 DEF TokensInv, MintsStale
    <1> QED
        BY <1>2, <1>3, <1>4 DEF TokensInv

LEMMA TickKeeps ==
    ASSUME TokensInv, Tick
    PROVE  TokensInv'
    <1>1. now' \in Nat /\ now' > now /\ tokens' = tokens /\ workers' = workers
        BY DEF Tick, TokensInv, TokensTypeOK
    <1>2. ASSUME NEW w \in Workers, workers[w].step = "minting"
          PROVE  ~Fresh(tokens[workers[w].id], now')
        <2>1. ~Fresh(tokens[workers[w].id], now)
            BY <1>2 DEF TokensInv, MintsStale
        <2>2. workers[w].id \in Installations
            BY <1>2 DEF TokensInv, HoldersNamed
        <2>3. tokens[workers[w].id] \in Int \cup {None} /\ now \in Nat
            BY <2>2 DEF TokensInv, TokensTypeOK
        <2> QED
            BY <1>1, <2>1, <2>3, TimesAssumption DEF Fresh
    <1>3. MintsStale'
        BY <1>1, <1>2 DEF MintsStale
    <1> QED
        BY <1>1, <1>3 DEF TokensInv, TokensTypeOK, HoldersNamed, OneMintEach, TokenOutlivesItsUse

LEMMA AskKeeps ==
    ASSUME TokensInv, NEW w \in Workers, NEW i \in Installations, Ask(w, i)
    PROVE  TokensInv'
    <1> DEFINE new == [step |-> "waiting", id |-> i, asked |-> now, left |-> 0]
    <1>1. new \in WorkerType
        BY DEF WorkerType, TokensInv, TokensTypeOK
    <1> QED
        BY <1>1, WorkerMoves DEF Ask

\* MintFails and Used.
LEMMA RestKeeps ==
    ASSUME TokensInv, NEW w \in Workers, MintFails(w) \/ Used(w)
    PROVE  TokensInv'
    <1>1. Idle \in WorkerType /\ Idle.step = "idle"
        BY DEF WorkerType, Idle
    <1> QED
        BY <1>1, WorkerMoves DEF MintFails, Used

LEMMA ReuseKeeps ==
    ASSUME TokensInv, NEW w \in Workers, Reuse(w)
    PROVE  TokensInv'
    <1> DEFINE i == workers[w].id
               new == [step |-> "using", id |-> i, asked |-> 0, left |-> tokens[i] - now]
    <1>1. i \in Installations
        BY DEF Reuse, TokensInv, HoldersNamed
    <1>2. tokens[i] \in Int /\ now \in Nat /\ now < tokens[i] - Skew
        BY <1>1 DEF Reuse, Fresh, TimeRead, TokensInv, TokensTypeOK
    <1>3. tokens[i] - now > Skew
        BY <1>2, TimesAssumption
    <1>4. new \in WorkerType
        BY <1>1, <1>2 DEF WorkerType
    <1>5. workers' = [workers EXCEPT ![w] = new] /\ UNCHANGED <<now, tokens>>
        BY DEF Reuse, Given
    <1> QED
        BY <1>1, <1>3, <1>4, <1>5, WorkerMoves

LEMMA StartMintKeeps ==
    ASSUME TokensInv, NEW w \in Workers, StartMint(w)
    PROVE  TokensInv'
    <1> DEFINE i == workers[w].id
               new == [step |-> "minting", id |-> i, asked |-> 0, left |-> 0]
    <1>1. i \in Installations
        BY DEF StartMint, TokensInv, HoldersNamed
    <1>2. new \in WorkerType
        BY <1>1 DEF WorkerType
    <1>3. ~Locked(i) /\ ~Fresh(tokens[i], now)
        BY DEF StartMint, Free, TimeRead
    <1>4. workers' = [workers EXCEPT ![w] = new] /\ UNCHANGED <<now, tokens>>
        BY DEF StartMint
    <1> QED
        BY <1>1, <1>2, <1>3, <1>4, WorkerMoves

LEMMA StoreTokenKeeps ==
    ASSUME TokensInv, NEW w \in Workers, StoreToken(w)
    PROVE  TokensInv'
    <1> DEFINE i == workers[w].id
    <1>1. i \in Installations
        BY DEF StoreToken, TokensInv, HoldersNamed
    <1>2. PICK age \in 0..Delay :
            /\ tokens' = [tokens EXCEPT ![i] = now - age + Lifetime]
            /\ workers' = [workers EXCEPT ![w] =
                  [step |-> "using", id |-> i, asked |-> 0, left |-> (now - age + Lifetime) - now]]
        BY DEF StoreToken, Given
    <1> DEFINE new == [step |-> "using", id |-> i, asked |-> 0,
                       left |-> (now - age + Lifetime) - now]
    <1>3. /\ now \in Nat /\ now' = now
          /\ now - age + Lifetime \in Int
          /\ (now - age + Lifetime) - now \in Int
          /\ (now - age + Lifetime) - now > Skew
        BY TimesAssumption DEF StoreToken, TokensInv, TokensTypeOK
    <1>4. new \in WorkerType /\ new.step = "using" /\ new.id = i /\ new.left > Skew
        BY <1>1, <1>3 DEF WorkerType
    <1> HIDE DEF new
    <1>5. \A v \in Workers : workers'[v] = IF v = w THEN new ELSE workers[v]
        BY <1>2 DEF TokensInv, TokensTypeOK, new
    <1>6. TokensTypeOK'
        BY <1>1, <1>2, <1>3, <1>4 DEF TokensInv, TokensTypeOK, new
    <1>7. HoldersNamed' /\ OneMintEach' /\ TokenOutlivesItsUse'
        BY <1>1, <1>4, <1>5 DEF TokensInv, HoldersNamed, OneMintEach, TokenOutlivesItsUse
    <1>8. ASSUME NEW v \in Workers, workers'[v].step = "minting"
          PROVE  ~Fresh(tokens'[workers'[v].id], now')
        <2>1. v # w /\ workers'[v] = workers[v]
            BY <1>4, <1>5, <1>8
        <2>2. workers[v].id # i
            BY <2>1, <1>8 DEF StoreToken, TokensInv, OneMintEach
        <2>3. workers[v].id \in Installations
            BY <2>1, <1>8 DEF TokensInv, HoldersNamed
        <2>4. tokens'[workers[v].id] = tokens[workers[v].id]
            BY <1>2, <2>2, <2>3 DEF TokensInv, TokensTypeOK
        <2> QED
            BY <2>1, <2>4, <1>3, <1>8 DEF TokensInv, MintsStale
    <1>9. MintsStale'
        BY <1>8 DEF MintsStale
    <1> QED
        BY <1>6, <1>7, <1>9 DEF TokensInv

LEMMA TokenStepKeeps ==
    ASSUME TokensInv, NEW w \in Workers, TokenStep(w)
    PROVE  TokensInv'
    BY ReuseKeeps, StartMintKeeps, StoreTokenKeeps, RestKeeps DEF TokenStep

\* The cached token of an installation is dropped, with or without its lock.
LEMMA DropKeeps ==
    ASSUME TokensInv, NEW i \in Installations,
           tokens' = Dropped(i), UNCHANGED <<now, workers>>
    PROVE  TokensInv'
    <1>1. \A j \in Installations : tokens'[j] = IF j = i THEN None ELSE tokens[j]
        BY DEF Dropped, TokensInv, TokensTypeOK
    <1>2. TokensTypeOK'
        BY DEF Dropped, TokensInv, TokensTypeOK
    <1>3. MintsStale'
        BY <1>1 DEF TokensInv, MintsStale, HoldersNamed, Fresh
    <1> QED
        BY <1>2, <1>3 DEF TokensInv, HoldersNamed, OneMintEach, TokenOutlivesItsUse

-----------------------------------------------------------------------------
(* The browser *)

LEMMA EmptyCookieOK == ASSUME NEW ss PROVE CookieOK(EmptyCookie, ss)
    BY DEF CookieOK, CookieType, EmptyCookie

LEMMA NewTabOK == ASSUME NEW ss PROVE TabOK(NewTab, ss)
    BY EmptyCookieOK DEF TabOK, TabType, NewTab, CookieOK

\* What a cookie and a tab say of the installs stays true as more are started.
LEMMA CookieGrows ==
    ASSUME NEW c, NEW ss \in Seq(Starts), NEW p \in Starts, CookieOK(c, ss)
    PROVE  CookieOK(c, Append(ss, p))
    <1>1. /\ Len(Append(ss, p)) = Len(ss) + 1 /\ Len(ss) \in Nat
          /\ \A n \in 1..Len(ss) : Append(ss, p)[n] = ss[n]
        BY AppendProperties, LenProperties
    <1> QED
        BY <1>1 DEF CookieOK

LEMMA TabGrows ==
    ASSUME NEW tab, NEW ss \in Seq(Starts), NEW p \in Starts, TabOK(tab, ss)
    PROVE  TabOK(tab, Append(ss, p))
    <1>1. /\ Len(Append(ss, p)) = Len(ss) + 1 /\ Len(ss) \in Nat
          /\ \A n \in 1..Len(ss) : Append(ss, p)[n] = ss[n]
        BY AppendProperties, LenProperties
    <1> QED
        BY <1>1, CookieGrows DEF TabOK

\* A tab moves, and with it perhaps the cookie and the runs.
LEMMA TabMoves ==
    ASSUME BrowserInv, NEW t \in Tabs, NEW new, TabOK(new, starts),
           tabs' = [tabs EXCEPT ![t] = new], starts' = starts, live' = live,
           CookieOK(cookie', starts), runs' \subseteq Owned
    PROVE  BrowserInv'
    <1>1. new \in TabType
        BY DEF TabOK
    <1>2. \A u \in Tabs : tabs'[u] = IF u = t THEN new ELSE tabs[u]
        BY DEF BrowserInv
    <1>3. \A u \in Tabs : TabOK(tabs'[u], starts)
        BY <1>2 DEF BrowserInv
    <1> QED
        BY <1>1, <1>3 DEF BrowserInv

\* A request leaves with the cookie the browser has.
LEMMA SendKeeps ==
    ASSUME BrowserInv, NEW t \in Tabs,
           \/ \E path \in Starts : SendInstall(t, path)
           \/ \E i \in Installations : SendCallback(t, i)
           \/ \E step \in {"show", "begin"} : SendAuthorize(t, step)
           \/ Reload(t)
    PROVE  BrowserInv'
    <1>0. /\ CookieOK(cookie, starts) /\ cookie \in CookieType
          /\ tabs[t] \in TabType /\ TabOK(tabs[t], starts) /\ runs \subseteq Owned
        BY DEF BrowserInv, CookieOK
    <1>1. ASSUME NEW path \in Starts, SendInstall(t, path) PROVE BrowserInv'
        <2> DEFINE new == [NewTab EXCEPT !.step = "install", !.cookie = cookie, !.path = path]
        <2>1. /\ new \in TabType /\ new.cookie = cookie /\ new.step = "install"
              /\ new.path = path
            BY <1>0 DEF NewTab, TabType, Starts
        <2>2. TabOK(new, starts)
            BY <1>0, <2>1 DEF TabOK
        <2>3. /\ tabs' = [tabs EXCEPT ![t] = new] /\ starts' = starts /\ live' = live
              /\ cookie' = cookie /\ runs' = runs
            BY <1>1 DEF SendInstall
        <2> QED
            BY <1>0, <2>2, <2>3, TabMoves
    <1>2. ASSUME NEW i \in Installations, SendCallback(t, i) PROVE BrowserInv'
        <2> DEFINE new == [tabs[t] EXCEPT !.step = "callback", !.cookie = cookie, !.id = i]
        <2>1. new \in TabType /\ new.cookie = cookie /\ new.step = "callback"
            BY <1>0 DEF TabType
        <2>2. TabOK(new, starts)
            BY <1>0, <2>1 DEF TabOK
        <2>3. /\ tabs' = [tabs EXCEPT ![t] = new] /\ starts' = starts /\ live' = live
              /\ cookie' = cookie /\ runs' = runs
            BY <1>2 DEF SendCallback
        <2> QED
            BY <1>0, <2>2, <2>3, TabMoves
    <1>3. ASSUME NEW step \in {"show", "begin"}, SendAuthorize(t, step) PROVE BrowserInv'
        <2> DEFINE new == [NewTab EXCEPT !.step = step, !.cookie = cookie]
        <2>1. new \in TabType /\ new.cookie = cookie /\ new.step = step
            BY <1>0 DEF NewTab, TabType
        <2>2. TabOK(new, starts)
            BY <1>0, <2>1 DEF TabOK
        <2>3. /\ tabs' = [tabs EXCEPT ![t] = new] /\ starts' = starts /\ live' = live
              /\ cookie' = cookie /\ runs' = runs
            BY <1>3 DEF SendAuthorize
        <2> QED
            BY <1>0, <2>2, <2>3, TabMoves
    <1>4. CASE Reload(t)
        <2> DEFINE new == [tabs[t] EXCEPT !.step = "callback", !.cookie = cookie]
        <2>1. new \in TabType /\ new.cookie = cookie /\ new.step = "callback"
            BY <1>0 DEF TabType
        <2>2. TabOK(new, starts)
            BY <1>0, <2>1 DEF TabOK
        <2>3. /\ tabs' = [tabs EXCEPT ![t] = new] /\ starts' = starts /\ live' = live
              /\ cookie' = cookie /\ runs' = runs
            BY <1>4 DEF Reload
        <2> QED
            BY <1>0, <2>2, <2>3, TabMoves
    <1> QED
        BY <1>1, <1>2, <1>3, <1>4

\* GET /github/install: a new state, and the path of this very install.
LEMMA InstallKeeps ==
    ASSUME BrowserInv, NEW t \in Tabs, Install(t)
    PROVE  BrowserInv'
    <1> DEFINE n == Len(starts) + 1
               p == tabs[t].path
               new == [NewTab EXCEPT !.step = "github", !.nonce = n]
    <1>1. /\ tabs[t] \in TabType /\ CookieOK(tabs[t].cookie, starts)
          /\ starts \in Seq(Starts)
        BY DEF BrowserInv, TabOK
    <1>2. p \in Starts
        BY DEF Install, BrowserInv, TabOK
    <1>3. /\ cookie' = [tabs[t].cookie EXCEPT !.state = n, !.path = p]
          /\ starts' = Append(starts, p)
          /\ tabs' = [tabs EXCEPT ![t] = new] /\ live' = live /\ runs' = runs
        BY DEF Install, Starting
    <1>4. /\ starts' \in Seq(Starts) /\ Len(starts') = n /\ n \in Nat /\ n # 0
          /\ starts'[n] = p
        BY <1>1, <1>2, <1>3, AppendProperties, LenProperties
    <1>5. /\ cookie' \in CookieType /\ cookie'.id = tabs[t].cookie.id
          /\ cookie'.state = n /\ cookie'.path = p
        BY <1>1, <1>2, <1>3, <1>4 DEF CookieOK, CookieType, Starts
    <1>6. CookieOK(cookie', starts')
        BY <1>1, <1>4, <1>5 DEF CookieOK
    <1>7. new \in TabType /\ TabOK(new, starts')
        BY <1>4, EmptyCookieOK DEF TabOK, TabType, NewTab, CookieOK
    <1>8. ASSUME NEW u \in Tabs PROVE TabOK(tabs'[u], starts')
        <2>1. CASE u = t
            BY <2>1, <1>3, <1>7 DEF BrowserInv
        <2>2. CASE u # t
            <3>1. tabs'[u] = tabs[u] /\ TabOK(tabs[u], starts)
                BY <2>2, <1>3 DEF BrowserInv
            <3> QED
                BY <3>1, <1>1, <1>2, <1>3, TabGrows
        <2> QED
            BY <2>1, <2>2
    <1> HIDE DEF new
    <1>9. tabs' \in [Tabs -> TabType]
        BY <1>3, <1>7 DEF BrowserInv
    <1> QED
        BY <1>3, <1>4, <1>6, <1>8, <1>9 DEF BrowserInv

\* The callback: refused, or bound to an installation the user has access to
\* and back on the page of its own install.
LEMMA CallbackKeeps ==
    ASSUME BrowserInv, NEW t \in Tabs,
           CallbackMismatch(t) \/ CallbackFails(t) \/ CallbackBinds(t)
    PROVE  BrowserInv'
    <1> DEFINE c == tabs[t].cookie
    <1>0. /\ CookieOK(cookie, starts) /\ tabs[t] \in TabType /\ TabOK(tabs[t], starts)
          /\ CookieOK(c, starts) /\ c \in CookieType /\ runs \subseteq Owned
        BY DEF BrowserInv, TabOK, CookieOK
    <1> DEFINE refused == [NewTab EXCEPT !.step = "refused", !.nonce = tabs[t].nonce,
                                         !.id = tabs[t].id]
    <1>1. TabOK(refused, starts)
        <2>1. refused \in TabType /\ refused.cookie = EmptyCookie /\ refused.step = "refused"
            BY <1>0 DEF NewTab, TabType, EmptyCookie, CookieType
        <2> QED
            BY <2>1, EmptyCookieOK DEF TabOK
    <1>2. CASE CallbackMismatch(t)
        <2>1. CookieOK(cookie', starts)
            BY <1>0, <1>2 DEF CallbackMismatch
        <2>2. /\ tabs' = [tabs EXCEPT ![t] = refused]
              /\ starts' = starts /\ live' = live /\ runs' = runs
            BY <1>2 DEF CallbackMismatch, Refuse
        <2> QED
            BY <1>0, <1>1, <2>1, <2>2, TabMoves
    <1>3. CASE CallbackFails(t)
        <2>1. cookie' = [c EXCEPT !.state = 0]
            BY <1>3 DEF CallbackFails
        <2>2. CookieOK(cookie', starts)
            BY <1>0, <2>1 DEF CookieOK, CookieType
        <2>3. /\ tabs' = [tabs EXCEPT ![t] = refused]
              /\ starts' = starts /\ live' = live /\ runs' = runs
            BY <1>3 DEF CallbackFails, Refuse
        <2> QED
            BY <1>0, <1>1, <2>2, <2>3, TabMoves
    <1>4. CASE CallbackBinds(t)
        <2> DEFINE i == tabs[t].id
                   back == IF c.path = None THEN DefaultPath ELSE c.path
                   new == [NewTab EXCEPT !.step = "landed", !.nonce = tabs[t].nonce,
                                         !.path = back]
        <2>1. /\ cookie' = [c EXCEPT !.state = 0, !.path = None, !.id = i]
              /\ tabs' = [tabs EXCEPT ![t] = new]
              /\ starts' = starts /\ live' = live /\ runs' = runs
              /\ i \in Owned /\ c.state # 0 /\ c.state = tabs[t].nonce
            BY <1>4 DEF CallbackBinds, CanAccess, StateMatches
        <2>2. CookieOK(cookie', starts)
            BY <1>0, <2>1, OwnedAssumption DEF CookieOK, CookieType
        <2>3. tabs[t].nonce \in 1..Len(starts) /\ c.path = starts[tabs[t].nonce]
            BY <1>0, <2>1 DEF CookieOK
        <2>4. tabs[t].nonce \in Nat /\ back \in Paths \cup {DefaultPath, None}
            BY <1>0 DEF TabType, CookieType
        <2> HIDE DEF back
        <2>5. /\ new \in TabType /\ new.cookie = EmptyCookie /\ new.step = "landed"
              /\ new.nonce = tabs[t].nonce /\ new.path = back
            BY <2>4 DEF NewTab, TabType, EmptyCookie, CookieType
        <2> HIDE DEF new
        <2>6. TabOK(new, starts)
            BY <2>3, <2>5, EmptyCookieOK DEF TabOK, back
        <2> QED
            BY <1>0, <2>1, <2>2, <2>6, TabMoves
    <1> QED
        BY <1>2, <1>3, <1>4

\* GET and POST /authorize.
LEMMA AuthorizeKeeps ==
    ASSUME BrowserInv, NEW t \in Tabs,
           FindGone(t) \/ Show(t) \/ BeginUnconnected(t) \/ Begin(t)
    PROVE  BrowserInv'
    <1> DEFINE c == tabs[t].cookie
    <1>0. /\ CookieOK(cookie, starts) /\ CookieOK(c, starts) /\ c \in CookieType
          /\ runs \subseteq Owned
        BY DEF BrowserInv, TabOK, CookieOK
    <1>1. TabOK(NewTab, starts)
        BY NewTabOK
    <1>2. /\ tabs' = [tabs EXCEPT ![t] = NewTab] /\ starts' = starts /\ live' = live
        BY DEF FindGone, Show, BeginUnconnected, Begin, Answered
    <1>3. CookieOK([c EXCEPT !.id = None], starts)
        BY <1>0 DEF CookieOK, CookieType
    <1>4. CookieOK(cookie', starts)
        BY <1>0, <1>3 DEF FindGone, Show, BeginUnconnected, Begin
    <1>5. runs' \subseteq Owned
        BY <1>0 DEF FindGone, Show, BeginUnconnected, Begin, CookieOK
    <1> QED
        BY <1>1, <1>2, <1>4, <1>5, TabMoves

\* The process dies: tabs that wait for GitHub, or show a refusal, stay.
LEMMA CrashKeeps ==
    ASSUME IInv, Crash
    PROVE  IInv'
    <1>1. BrowserInv'
        <2>1. ASSUME NEW t \in Tabs
              PROVE  tabs'[t] = NewTab \/ tabs'[t] = tabs[t]
            BY DEF Crash
        <2>2. TabOK(NewTab, starts) /\ NewTab \in TabType
            BY NewTabOK DEF TabOK
        <2>3. tabs' \in [Tabs -> TabType]
            BY <2>2 DEF Crash, IInv, BrowserInv
        <2> QED
            BY <2>1, <2>2, <2>3 DEF Crash, IInv, BrowserInv
    <1>2. TokensInv'
        <2>1. Idle \in WorkerType /\ Idle.step = "idle"
            BY DEF WorkerType, Idle
        <2> QED
            BY <2>1
               DEF Crash, IInv, TokensInv, TokensTypeOK, HoldersNamed, OneMintEach, MintsStale,
                   TokenOutlivesItsUse
    <1> QED
        BY <1>1, <1>2 DEF IInv

-----------------------------------------------------------------------------
(* Every step keeps the invariant *)

LEMMA InitKeeps == Init => IInv
    <1> SUFFICES ASSUME Init PROVE IInv
        OBVIOUS
    <1>1. TokensInv
        BY TokensInitially DEF Init
    <1>2. \A ss : CookieOK(EmptyCookie, ss) /\ TabOK(NewTab, ss)
        BY EmptyCookieOK, NewTabOK
    <1>3. starts \in Seq(Starts)
        BY EmptySeq DEF Init
    <1>4. NewTab \in TabType
        BY <1>2 DEF TabOK
    <1>5. BrowserInv
        BY <1>2, <1>3, <1>4 DEF Init, BrowserInv
    <1> QED
        BY <1>1, <1>5 DEF IInv

LEMMA TabNextKeeps ==
    ASSUME IInv, NEW t \in Tabs, TabNext(t)
    PROVE  IInv'
    <1>1. BrowserInv'
        BY SendKeeps, InstallKeeps, CallbackKeeps, AuthorizeKeeps DEF TabNext, IInv, Starts
    <1>2. CASE FindGone(t)
        <2>1. tabs[t].cookie.id \in Installations
            BY <1>2, OwnedAssumption DEF FindGone, IInv, BrowserInv, TabOK, CookieOK
        <2> QED
            BY <1>1, <1>2, <2>1, DropKeeps DEF FindGone, IInv
    <1>3. CASE ~FindGone(t)
        <2>1. UNCHANGED tokenVars
            BY <1>3 DEF TabNext, SendInstall, SendCallback, SendAuthorize, Install, Reload,
                        CallbackMismatch, CallbackFails, CallbackBinds, Show, BeginUnconnected, Begin
        <2> QED
            BY <1>1, <2>1
               DEF IInv, tokenVars, TokensInv, TokensTypeOK, HoldersNamed, OneMintEach, MintsStale,
                   TokenOutlivesItsUse
    <1> QED
        BY <1>2, <1>3

LEMMA StepKeeps == IInv /\ [Next]_vars => IInv'
    <1> SUFFICES ASSUME IInv, [Next]_vars PROVE IInv'
        OBVIOUS
    <1>1. CASE TokenNext
        <2>1. TokensInv'
            <3>1. ASSUME NEW w \in Workers, NEW i \in runs, Ask(w, i) PROVE TokensInv'
                BY <3>1, AskKeeps, OwnedAssumption DEF IInv, BrowserInv
            <3> QED
                BY <1>1, <3>1, TickKeeps, TokenStepKeeps DEF TokenNext, IInv
        <2> QED
            BY <1>1, <2>1 DEF TokenNext, browserVars, IInv, BrowserInv
    <1>2. CASE \E t \in Tabs : TabNext(t)
        BY <1>2, TabNextKeeps
    <1>3. CASE \E i \in Installations : Uninstall(i)
        BY <1>3 DEF Uninstall, tokenVars, IInv, BrowserInv, TokensInv, TokensTypeOK,
                    HoldersNamed, OneMintEach, MintsStale, TokenOutlivesItsUse
    <1>4. CASE Crash
        BY <1>4, CrashKeeps
    <1>5. CASE UNCHANGED vars
        BY <1>5 DEF vars, browserVars, tokenVars, IInv, BrowserInv, TokensInv, TokensTypeOK,
                    HoldersNamed, OneMintEach, MintsStale, TokenOutlivesItsUse
    <1> QED
        BY <1>1, <1>2, <1>3, <1>4, <1>5 DEF Next

THEOREM Invariance == Spec => []IInv
    BY InitKeeps, StepKeeps, PTL DEF Spec

-----------------------------------------------------------------------------
(* What follows *)

\* A cookie is bound to, and a run is started with, an installation that
\* user_can_access_installation has seen to be the user's.
THEOREM BindsOwned == Spec => []BoundIsOwned
    <1>1. IInv => BoundIsOwned
        BY DEF IInv, BrowserInv, CookieOK, BoundIsOwned
    <1> QED
        BY <1>1, Invariance, PTL

\* github_callback returns a tab to the page of its own install.
THEOREM LandsRight == Spec => []LandsWhereItStarted
    <1>1. IInv => LandsWhereItStarted
        BY DEF IInv, BrowserInv, TabOK, LandsWhereItStarted
    <1> QED
        BY <1>1, Invariance, PTL

\* get_installation_access_token returns a token with more life left than the
\* refresh skew.
THEOREM TokensLast == Spec => []TokenOutlivesItsUse
    <1>1. IInv => TokenOutlivesItsUse
        BY DEF IInv, TokensInv
    <1> QED
        BY <1>1, Invariance, PTL

\* No thread replaces a token that is still fresh.
LEMMA StoreReplacesStale ==
    ASSUME TokensInv, NEW w \in Workers, TokenStep(w),
           NEW i \in Installations, Fresh(tokens[i], now)
    PROVE  tokens'[i] = tokens[i]
    <1>1. CASE StoreToken(w)
        <2>1. workers[w].id # i
            BY <1>1 DEF StoreToken, TokensInv, MintsStale
        <2>2. workers[w].id \in Installations
            BY <1>1 DEF StoreToken, TokensInv, HoldersNamed
        <2> QED
            BY <1>1, <2>1, <2>2 DEF StoreToken, TokensInv, TokensTypeOK
    <1>2. CASE ~StoreToken(w)
        BY <1>2 DEF TokenStep, Reuse, StartMint, MintFails, Used
    <1> QED
        BY <1>1, <1>2

\* The lock of an installation makes threads share one token.
THEOREM FreshTokenStays == Spec => FreshTokenIsKept
    <1> DEFINE Kept == \A i \in Installations :
                          Fresh(tokens[i], now) => tokens'[i] \in {tokens[i], None}
    <1>1. IInv /\ [Next]_vars => [Kept]_vars
        <2> SUFFICES ASSUME IInv, Next, NEW i \in Installations, Fresh(tokens[i], now)
                     PROVE  tokens'[i] \in {tokens[i], None}
            OBVIOUS
        <2>1. CASE TokenNext
            BY <2>1, StoreReplacesStale DEF TokenNext, Tick, Ask, IInv
        <2>2. ASSUME NEW t \in Tabs, TabNext(t) PROVE tokens'[i] \in {tokens[i], None}
            <3>1. CASE FindGone(t)
                BY <3>1 DEF FindGone, Dropped, IInv, TokensInv, TokensTypeOK
            <3>2. CASE ~FindGone(t)
                BY <2>2, <3>2
                   DEF TabNext, SendInstall, SendCallback, SendAuthorize, Install, Reload,
                       CallbackMismatch, CallbackFails, CallbackBinds, Show, BeginUnconnected,
                       Begin, tokenVars
            <3> QED
                BY <3>1, <3>2
        <2>3. CASE \E j \in Installations : Uninstall(j)
            BY <2>3 DEF Uninstall, tokenVars
        <2>4. CASE Crash
            BY <2>4 DEF Crash
        <2> QED
            BY <2>1, <2>2, <2>3, <2>4 DEF Next
    <1> QED
        BY <1>1, Invariance, PTL DEF Spec, FreshTokenIsKept
=============================================================================
