------------------------------ MODULE Sessions ------------------------------
(***************************************************************************)
(* Accounts and their session tokens: the /auth handlers (api/auth.go),    *)
(* the cookie that carries the token (api/web/web.go) and the table of     *)
(* tokens (datastore).  A request that needs authentication looks its      *)
(* token up first and acts on what it found in a second statement; other   *)
(* requests, and the passing of time, come in between.                     *)
(***************************************************************************)
EXTENDS Naturals, FiniteSets

CONSTANTS
    Account,      \* usernames that may be registered
    Browser,      \* each with one cookie jar
    Token,        \* token values, each drawn at most once
    Lifetime,     \* sessionTokenLifetime
    MaxTime,      \* bound: the clock stops here
    None          \* no cookie, an empty cookie

ASSUME SessionsAssumption ==
    /\ None \notin Token \cup Account
    /\ Lifetime \in Nat \ {0} /\ MaxTime \in Nat

VARIABLES
    now,
    registered,   \* accounts in the users table
    row,          \* session_tokens: token -> whose it is, or None
    expires,      \* session_tokens.expires_at
    used,         \* tokens that have ever been issued
    cookie,       \* the token a browser sends
    pc,           \* the browser's request in flight: which handler runs
    who, session  \* GetAuth's answer, or the account that logs in

vars == <<now, registered, row, expires, used, cookie, pc, who, session>>

Handlers == {"logout", "logoutOthers", "renew"}

TypeOK ==
    /\ now \in 0..MaxTime
    /\ registered \subseteq Account
    /\ row \in [Token -> Account \cup {None}]
    /\ expires \in [Token -> Nat] /\ \A t \in Token : expires[t] <= now + Lifetime
    /\ used \subseteq Token /\ \A t \in Token \ used : row[t] = None
    /\ cookie \in [Browser -> used \cup {None}]
    /\ pc \in [Browser -> Handlers \cup {"idle", "issue"}]
    /\ \A b \in Browser :
          /\ pc[b] = "issue" => who[b] \in registered
          /\ pc[b] \in Handlers => who[b] \in registered /\ session[b] \in used

Init ==
    /\ now = 0
    /\ registered = {}
    /\ row = [t \in Token |-> None] /\ expires = [t \in Token |-> 0]
    /\ used = {}
    /\ cookie = [b \in Browser |-> None]
    /\ pc = [b \in Browser |-> "idle"]
    /\ who = [b \in Browser |-> None] /\ session = who

Goto(b, l) == pc' = [pc EXCEPT ![b] = l]
SetAuthCookie(b, t) == cookie' = [cookie EXCEPT ![b] = t]

-----------------------------------------------------------------------------
(* handleRegister and handleLogin.                                          *)

\* CreateUser succeeds; the token is issued by a statement of its own.
Register(b, a) ==
    /\ pc[b] = "idle" /\ a \notin registered
    /\ registered' = registered \cup {a}
    /\ who' = [who EXCEPT ![b] = a]
    /\ Goto(b, "issue")
    /\ UNCHANGED <<now, row, expires, used, cookie, session>>

\* The username exists and the password matches.
Login(b, a) ==
    /\ pc[b] = "idle" /\ a \in registered
    /\ who' = [who EXCEPT ![b] = a]
    /\ Goto(b, "issue")
    /\ UNCHANGED <<now, registered, row, expires, used, cookie, session>>

issueSessionToken(b, t) ==
    /\ pc[b] = "issue" /\ t \notin used
    /\ used' = used \cup {t}
    /\ row' = [row EXCEPT ![t] = who[b]]
    /\ expires' = [expires EXCEPT ![t] = now + Lifetime]
    /\ SetAuthCookie(b, t)
    /\ Goto(b, "idle")
    /\ UNCHANGED <<now, registered, who, session>>

\* InsertSessionToken fails: an error is answered, and the new account stays.
IssueFails(b) ==
    /\ pc[b] = "issue"
    /\ Goto(b, "idle")
    /\ UNCHANGED <<now, registered, row, expires, used, cookie, who, session>>

-----------------------------------------------------------------------------
(* RequireAuth, then the handler.                                           *)

Active(t) == row[t] # None /\ expires[t] > now

RequireAuth(b, h) ==
    /\ pc[b] = "idle" /\ cookie[b] # None /\ Active(cookie[b])
    /\ who' = [who EXCEPT ![b] = row[cookie[b]]]
    /\ session' = [session EXCEPT ![b] = cookie[b]]
    /\ Goto(b, h)
    /\ UNCHANGED <<now, registered, row, expires, used, cookie>>

\* A row that is gone already answers an error, and the cookie stays.
handleLogout(b) ==
    /\ pc[b] = "logout"
    /\ row' = [row EXCEPT ![session[b]] = None]
    /\ IF row[session[b]] = None THEN UNCHANGED cookie ELSE SetAuthCookie(b, None)
    /\ Goto(b, "idle")
    /\ UNCHANGED <<now, registered, expires, used, who, session>>

\* Names with an underscore are faulty variants of the definition after them.
Others_everyones(b) == Token \ {session[b]}
Others(b) == {t \in Token : row[t] = who[b]} \ {session[b]}

handleLogoutOthers(b) ==
    /\ pc[b] = "logoutOthers"
    /\ row' = [t \in Token |-> IF t \in Others(b) THEN None ELSE row[t]]
    /\ Goto(b, "idle")
    /\ UNCHANGED <<now, registered, expires, used, cookie, who, session>>

RenewedUntil(b) == now + Lifetime

\* UpdateSessionTokenExpiry touches a row that is still there, active or not.
Renewed_reinserts(b) == [row EXCEPT ![session[b]] = who[b]]
Renewed(b) == row

\* dbSessionTokenWithUserToApp does not fill in SessionToken.Token, so the
\* cookie that handleRenew sets is an empty one.
handleRenew(b) ==
    /\ pc[b] = "renew"
    /\ row' = Renewed(b)
    /\ expires' = IF row'[session[b]] = None THEN expires
                  ELSE [expires EXCEPT ![session[b]] = RenewedUntil(b)]
    /\ SetAuthCookie(b, None)
    /\ Goto(b, "idle")
    /\ UNCHANGED <<now, registered, used, who, session>>

Tick ==
    /\ now < MaxTime
    /\ now' = now + 1
    /\ UNCHANGED <<registered, row, expires, used, cookie, pc, who, session>>

-----------------------------------------------------------------------------

Next ==
    \/ Tick
    \/ \E b \in Browser :
          \/ \E a \in Account : Register(b, a) \/ Login(b, a)
          \/ \E t \in Token : issueSessionToken(b, t)
          \/ \E h \in Handlers : RequireAuth(b, h)
          \/ IssueFails(b) \/ handleLogout(b) \/ handleLogoutOthers(b) \/ handleRenew(b)

Spec == Init /\ [][Next]_vars

-----------------------------------------------------------------------------

\* A session that was signed out, by its own logout or from another browser,
\* is never signed in again: not by a renewal that was looked up before and
\* runs after, and not by another handler that still holds what it looked up.
SignedOutForGood ==
    [][\A t \in used : row[t] = None => row'[t] = None]_vars

\* Signing out the other sessions, in the time since the session was looked up
\* and whoever logged in meanwhile, ends no session of another account, and no
\* session ends otherwise than by a logout of its account.
OnlyOwnSessionsEnd ==
    [][\A t \in Token : row[t] # None /\ row'[t] = None
          => \E b \in Browser : pc[b] \in {"logout", "logoutOthers"} /\ who[b] = row[t]]_vars

\* "set cookie again so it won't expire" (auth.go): the renewal of a session
\* that was not signed out meanwhile leaves the browser signed in.
RenewKeepsCookie ==
    [][\A b \in Browser : pc[b] = "renew" /\ pc'[b] = "idle" /\ row[session[b]] # None
          => cookie'[b] = session[b]]_vars
=============================================================================
