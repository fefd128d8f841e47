---------------------------- MODULE SessionsProofs ----------------------------
(***************************************************************************)
(* Proofs about Sessions, for any accounts, browsers and tokens, any       *)
(* lifetime of a session and any time.                                     *)
(*                                                                         *)
(* What a handler acts on was looked up by an earlier statement.  The      *)
(* invariant says what remains true of it: the token has been issued, and  *)
(* if its row is still there the row is the same account's; and rows are   *)
(* of accounts that are registered (SessionHeld).                          *)
(***************************************************************************)
EXTENDS Sessions, TLAPS

SessionHeld ==
    /\ who \in [Browser -> Account \cup {None}]
    /\ session \in [Browser -> Token \cup {None}]
    /\ \A b \in Browser : pc[b] \in Handlers =>
          /\ session[b] \in Token /\ who[b] \in Account
          /\ row[session[b]] \in {who[b], None}
    /\ \A t \in Token : row[t] \in registered \cup {None}

SessionsInv == TypeOK /\ SessionHeld

-----------------------------------------------------------------------------

\* Nobody is registered, and no request is in flight.
LEMMA SessionsInit == Init => SessionsInv
  BY SessionsAssumption DEF Init, SessionsInv, SessionHeld, TypeOK, Handlers

\* An account that registers or logs in has a request in flight, but no session.
LEMMA EnterInv ==
    ASSUME SessionsInv, NEW b \in Browser, NEW a \in Account, Register(b, a) \/ Login(b, a)
    PROVE  SessionsInv'
  <1> USE DEF SessionsInv, TypeOK, SessionHeld, Handlers
  <1>1. CASE Register(b, a)
    BY <1>1 DEF Register, Goto
  <1>2. CASE Login(b, a)
    BY <1>2 DEF Login, Goto
  <1> QED
    BY <1>1, <1>2

\* A token that is issued is fresh: no handler holds it.
LEMMA IssueInv ==
    ASSUME SessionsInv, NEW b \in Browser, NEW t \in Token, issueSessionToken(b, t)
    PROVE  SessionsInv'
  <1> USE SessionsAssumption DEF SessionsInv, TypeOK, SessionHeld, Handlers
  <1>1. pc[b] = "issue" /\ t \notin used /\ who[b] \in Account
    BY DEF issueSessionToken
  <1>2. TypeOK'
    BY <1>1 DEF issueSessionToken, Goto, SetAuthCookie
  <1>3. ASSUME NEW c \in Browser, pc'[c] \in Handlers
        PROVE  session[c] \in Token /\ session[c] # t /\ row'[session[c]] = row[session[c]]
    BY <1>1, <1>3 DEF issueSessionToken, Goto
  <1>4. SessionHeld'
    BY <1>1, <1>3 DEF issueSessionToken, Goto
  <1> QED
    BY <1>2, <1>4

\* RequireAuth finds the row whose token the cookie carries.
LEMMA RequireAuthInv ==
    ASSUME SessionsInv, NEW b \in Browser, NEW h \in Handlers, RequireAuth(b, h)
    PROVE  SessionsInv'
  BY SessionsAssumption
  DEF SessionsInv, TypeOK, SessionHeld, Handlers, RequireAuth, Active, Goto

\* Handlers only take rows away, and renew the one they hold.
LEMMA HandlerInv ==
    ASSUME SessionsInv, NEW b \in Browser,
           IssueFails(b) \/ handleLogout(b) \/ handleLogoutOthers(b) \/ handleRenew(b)
    PROVE  SessionsInv'
  <1> USE SessionsAssumption DEF SessionsInv, TypeOK, SessionHeld, Handlers, Goto
  <1>1. CASE IssueFails(b)
    BY <1>1 DEF IssueFails
  <1>2. CASE handleLogout(b)
    BY <1>2 DEF handleLogout, SetAuthCookie
  <1>3. CASE handleLogoutOthers(b)
    BY <1>3 DEF handleLogoutOthers
  <1>4. CASE handleRenew(b)
    BY <1>4 DEF handleRenew, Renewed, RenewedUntil, SetAuthCookie
  <1> QED
    BY <1>1, <1>2, <1>3, <1>4

\* Every step keeps the invariant.
LEMMA SessionsStep == SessionsInv /\ [Next]_vars => SessionsInv'
  <1> SUFFICES ASSUME SessionsInv, [Next]_vars PROVE SessionsInv'
    OBVIOUS
  <1>1. CASE Tick
    BY <1>1, SessionsAssumption DEF Tick, SessionsInv, TypeOK, SessionHeld
  <1>2. CASE UNCHANGED vars
    BY <1>2 DEF vars, SessionsInv, TypeOK, SessionHeld
  <1> QED
    BY <1>1, <1>2, EnterInv, IssueInv, RequireAuthInv, HandlerInv DEF Next

-----------------------------------------------------------------------------

\* The variables keep their types; a row is only of a token that was issued.
THEOREM SessionsTypeCorrect == Spec => []TypeOK
  <1>1. SessionsInv => TypeOK
    BY DEF SessionsInv
  <1> QED
    BY <1>1, SessionsInit, SessionsStep, PTL DEF Spec

\* Whatever is looked up and acted on later, a session that was signed out stays
\* signed out: only issueSessionToken adds a row, and only for a fresh token.
THEOREM SignedOutStaysOut == Spec => SignedOutForGood
  <1>1. SessionsInv /\ [Next]_vars
            => [\A t \in used : row[t] = None => row'[t] = None]_vars
    <2> SUFFICES ASSUME SessionsInv, Next, NEW t \in used, row[t] = None
                 PROVE  row'[t] = None
      BY DEF vars
    <2> USE DEF SessionsInv, TypeOK
    <2>1. ASSUME NEW b \in Browser, NEW u \in Token, issueSessionToken(b, u)
          PROVE  row'[t] = None
      BY <2>1 DEF issueSessionToken
    <2>2. ASSUME NEW b \in Browser, handleLogout(b) PROVE row'[t] = None
      BY <2>2 DEF handleLogout
    <2>3. ASSUME NEW b \in Browser, handleLogoutOthers(b) PROVE row'[t] = None
      BY <2>3 DEF handleLogoutOthers
    <2>4. ASSUME NEW b \in Browser, handleRenew(b) PROVE row'[t] = None
      BY <2>4 DEF handleRenew, Renewed
    <2>5. CASE UNCHANGED row
      BY <2>5
    <2> QED
      BY <2>1, <2>2, <2>3, <2>4, <2>5
      DEF Next, Tick, Register, Login, RequireAuth, IssueFails
  <1> QED
    BY <1>1, SessionsInit, SessionsStep, PTL DEF Spec, SignedOutForGood

\* A session ends only by a logout of its own account.
THEOREM OwnSessionsOnly == Spec => OnlyOwnSessionsEnd
  <1> DEFINE Ended(t) == row[t] # None /\ row'[t] = None
             ByOwner(t) == \E b \in Browser :
                              pc[b] \in {"logout", "logoutOthers"} /\ who[b] = row[t]
  <1>1. SessionsInv /\ [Next]_vars => [\A t \in Token : Ended(t) => ByOwner(t)]_vars
    <2> SUFFICES ASSUME SessionsInv, Next, NEW t \in Token, Ended(t)
                 PROVE  ByOwner(t)
      BY DEF vars
    <2> USE DEF SessionsInv, TypeOK, SessionHeld, Handlers
    <2>1. ASSUME NEW b \in Browser, NEW u \in Token, issueSessionToken(b, u)
          PROVE  ByOwner(t)
      BY <2>1, SessionsAssumption DEF issueSessionToken
    <2>2. ASSUME NEW b \in Browser, handleLogout(b) PROVE ByOwner(t)
      BY <2>2 DEF handleLogout
    <2>3. ASSUME NEW b \in Browser, handleLogoutOthers(b) PROVE ByOwner(t)
      BY <2>3 DEF handleLogoutOthers, Others
    <2>4. ASSUME NEW b \in Browser, handleRenew(b) PROVE ByOwner(t)
      BY <2>4 DEF handleRenew, Renewed
    <2>5. CASE UNCHANGED row
      BY <2>5
    <2> QED
      BY <2>1, <2>2, <2>3, <2>4, <2>5
      DEF Next, Tick, Register, Login, RequireAuth, IssueFails
  <1> QED
    BY <1>1, SessionsInit, SessionsStep, PTL DEF Spec, OnlyOwnSessionsEnd
=============================================================================
