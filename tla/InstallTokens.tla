---------------------------- MODULE InstallTokens -----------------------------
(***************************************************************************)
(* get_installation_access_token (arguss/web/github_app_auth.py): worker   *)
(* threads of the merge tasks and of the pull-request openers share one    *)
(* cached token for each installation of the App.  A token is its expiry.  *)
(***************************************************************************)
EXTENDS Integers

CONSTANTS
    Installations,
    Workers,        \* threads that may ask for a token at a time
    Lifetime,       \* of a token, counted from when GitHub made it
    Skew,           \* _REFRESH_SKEW_SECONDS
    Delay,          \* how long an answer of GitHub may be on its way: the
                    \* timeout of the client
    MaxTime,        \* bound: when the clock stops
    None

ASSUME TimesAssumption ==
    /\ Lifetime \in Nat /\ Skew \in Nat /\ Delay \in Nat /\ MaxTime \in Nat
    /\ Skew + Delay < Lifetime

ASSUME NoneAssumption == None \notin Int /\ None \notin Installations

VARIABLES
    now,        \* the clock
    tokens,     \* _token_cache: the expiry of the token of an installation
    workers     \* [step, id, asked, left]: where a thread stands in the
                \* function, for which installation, since when, and how long
                \* the token it was given had to live then

tokenVars == <<now, tokens, workers>>

Idle == [step |-> "idle", id |-> None, asked |-> 0, left |-> 0]

WorkerType ==
    [step : {"idle", "waiting", "minting", "using"}, id : Installations \cup {None},
     asked : Nat, left : Int]

TokensTypeOK ==
    /\ now \in Nat
    /\ tokens \in [Installations -> Int \cup {None}]
    /\ workers \in [Workers -> WorkerType]

TokensInit ==
    /\ now = 0
    /\ tokens = [i \in Installations |-> None]
    /\ workers = [w \in Workers |-> Idle]

\* The installations whose lock a thread holds: it asks GitHub under the lock.
Locked(i) == \E w \in Workers : workers[w].id = i /\ workers[w].step = "minting"

\* Variant: a thread does not wait for another that asks for the same token.
NoLock(i) == TRUE

\* _lock_for_installation
Free(i) == ~Locked(i)

\* _token_is_fresh
Fresh(expires, t) == expires # None /\ t < expires - Skew

\* Variant: the time is read before the thread waits for the lock.
TimeAsked(w) == workers[w].asked

\* datetime.now of the thread, read under the lock.
TimeRead(w) == now

Tick ==
    /\ now < MaxTime
    /\ now' = now + 1
    /\ UNCHANGED <<tokens, workers>>

Ask(w, i) ==
    /\ workers[w].step = "idle"
    /\ workers' = [workers EXCEPT ![w] = [step |-> "waiting", id |-> i, asked |-> now, left |-> 0]]
    /\ UNCHANGED <<now, tokens>>

Given(w, expires) ==
    workers' = [workers EXCEPT ![w] =
                   [step |-> "using", id |-> workers[w].id, asked |-> 0, left |-> expires - now]]

\* The lock is taken and the cached token is good for a while.
Reuse(w) ==
    LET i == workers[w].id
    IN  /\ workers[w].step = "waiting"
        /\ Free(i)
        /\ Fresh(tokens[i], TimeRead(w))
        /\ Given(w, tokens[i])
        /\ UNCHANGED <<now, tokens>>

\* The lock is taken and there is no such token: fetch_installation_access_token.
StartMint(w) ==
    LET i == workers[w].id
    IN  /\ workers[w].step = "waiting"
        /\ Free(i)
        /\ ~Fresh(tokens[i], TimeRead(w))
        /\ workers' = [workers EXCEPT ![w] =
                          [step |-> "minting", id |-> i, asked |-> 0, left |-> 0]]
        /\ UNCHANGED <<now, tokens>>

\* The answer of GitHub, made a while ago, is cached and the lock released.
StoreToken(w) ==
    /\ workers[w].step = "minting"
    /\ \E age \in 0..Delay :
          LET expires == now - age + Lifetime
          IN  /\ tokens' = [tokens EXCEPT ![workers[w].id] = expires]
              /\ Given(w, expires)
    /\ UNCHANGED now

\* No credentials, no answer, or one that is refused or unusable: the
\* exception releases the lock.
MintFails(w) ==
    /\ workers[w].step = "minting"
    /\ workers' = [workers EXCEPT ![w] = Idle]
    /\ UNCHANGED <<now, tokens>>

\* The thread has made its call of GitHub.
Used(w) ==
    /\ workers[w].step = "using"
    /\ workers' = [workers EXCEPT ![w] = Idle]
    /\ UNCHANGED <<now, tokens>>

\* drop_installation_token_cache: under the guard of the table of locks, not
\* under the lock of the installation.
Dropped(i) == [tokens EXCEPT ![i] = None]

TokenStep(w) ==
    Reuse(w) \/ StartMint(w) \/ StoreToken(w) \/ MintFails(w) \/ Used(w)
==============================================================================
