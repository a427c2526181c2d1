------------------------------- MODULE Session -------------------------------
(***************************************************************************)
(* The session of the back office in one tab of a browser                  *)
(* (frontend/src/lib/api/axios.ts, context/AuthContext.tsx,                *)
(* components/admin/ProtectedRoute.tsx, pages/admin/AdminLogin.tsx).       *)
(*                                                                         *)
(* Three keys of localStorage, one React state and the promises in flight  *)
(* each hold a piece of who is signed in.  A token is known by the person  *)
(* it was issued to; whether the API takes it is the API's to say, so that *)
(* every call may be answered, refused with 401 or fail.                   *)
(*                                                                         *)
(* A definition whose name starts with M_ is a mutated form of the one     *)
(* below it, used only to show that a property fails of that bug.          *)
(***************************************************************************)
EXTENDS Naturals, FiniteSets

CONSTANTS
  Person,   \* people who may sign in here
  Nobody,   \* "no one", and a key that is not in localStorage
  Call,     \* calls to the API that can be in flight at once
  MeCall,   \* the one AuthProvider makes when the page loads
  MaxLoads  \* bound: times the page is loaded again

ASSUME PersonAssumption == Nobody \notin Person
ASSUME CallAssumption == MeCall \in Call
ASSUME LoadsAssumption == MaxLoads \in Nat

VARIABLES
  \* localStorage
  token, refreshToken, userKey,
  \* AuthContext
  user,           \* the signed-in user on screen
  isBootstrapping,
  page,           \* the part of the site on screen
  loads,          \* times the page was loaded again
  \* axios
  refreshing,     \* whose refresh token refreshPromise has sent
  phase,          \* of a call: "none", "sent", or "waiting" for the refresh
  purpose,        \* what the call is
  bearer,         \* whose token it carries; for a sign-in, who signs in
  retried,        \* its _retried
  \* History variables.
  astray,         \* calls in flight when the session ended or changed hands
  refreshAstray,  \* the same of the refresh
  mixed,          \* one of those has written to the session since
  signedOut,      \* signed out, and nobody signed in since
  confirmed       \* the API has vouched for the user on screen since the load

storage     == <<token, refreshToken, userKey>>
calls       == <<phase, purpose, bearer, retried>>
ghost       == <<astray, refreshAstray, mixed, signedOut, confirmed>>
sessionVars == <<storage, user, isBootstrapping, page, loads, refreshing, calls, ghost>>

Page    == {"public", "admin", "login"}
Purpose == {"none", "me", "refreshUser", "work", "login", "logout"}
Someone == Person \cup {Nobody}

-----------------------------------------------------------------------------
(* State functions *)

\* What ProtectedRoute and AdminLogin make of the page asked for.
Landing(p, u, checking) ==
  IF p = "login" /\ u # Nobody /\ ~checking THEN "admin"
  ELSE IF p = "admin" /\ u = Nobody /\ ~checking THEN "login" ELSE p

\* The admin screens are there to be used.
InAdmin == page = "admin" /\ user # Nobody /\ ~isBootstrapping

\* isBootstrapping when the page loads.
M_TrustsStorage(t) == FALSE
Checking(t) == t # Nobody

\* A 401 that may still be mended: not a second one, and not a sign-in's.
M_RetriesForEver(c) == purpose[c] # "login"
Mendable(c) == ~retried[c] /\ purpose[c] # "login"

InFlight == {c \in Call : phase[c] # "none"}

Idle(c) == phase[c] = "none"

Send(c, k, p) ==
  /\ Idle(c)
  /\ phase' = [phase EXCEPT ![c] = "sent"]
  /\ purpose' = [purpose EXCEPT ![c] = k]
  /\ bearer' = [bearer EXCEPT ![c] = p]
  /\ retried' = [retried EXCEPT ![c] = FALSE]

\* A call leaves.
Drop(c) ==
  /\ phase' = [phase EXCEPT ![c] = "none"]
  /\ purpose' = [purpose EXCEPT ![c] = "none"]
  /\ bearer' = [bearer EXCEPT ![c] = Nobody]
  /\ retried' = [retried EXCEPT ![c] = FALSE]

DropAll ==
  /\ phase' = [d \in Call |-> "none"]
  /\ purpose' = [d \in Call |-> "none"]
  /\ bearer' = [d \in Call |-> Nobody]
  /\ retried' = [d \in Call |-> FALSE]

Store(t, r, u) == token' = t /\ refreshToken' = r /\ userKey' = u

\* clearSession
ClearSession == Store(Nobody, Nobody, Nobody)

\* .finally of the check of the stored session.
M_EndsOnSuccessOnly(c) == isBootstrapping
CheckingAfter(c) == isBootstrapping /\ purpose[c] # "me"

\* The user's key after a sign-in.
M_LoginLeavesUserKey(p) == userKey
UserKeyAfterLogin(p) == p

OnScreen(u, b) ==
  /\ user' = u /\ isBootstrapping' = b /\ page' = Landing(page, u, b)
  /\ UNCHANGED loads

\* The session ends or changes hands: what is in flight is astray from now on.
LeaveAstray(c) ==
  /\ astray' = InFlight \ {c}
  /\ refreshAstray' = (refreshing # Nobody)

-----------------------------------------------------------------------------
\* A browser that has never been here, and one that was left signed in.
SessionInit ==
  /\ token \in Someone /\ refreshToken = token /\ userKey = token
  /\ user = userKey /\ isBootstrapping = Checking(token)
  /\ page \in {Landing(p, user, isBootstrapping) : p \in Page}
  /\ refreshing = Nobody /\ loads = 0
  /\ phase = [c \in Call |-> IF c = MeCall /\ token # Nobody THEN "sent" ELSE "none"]
  /\ purpose = [c \in Call |-> IF c = MeCall /\ token # Nobody THEN "me" ELSE "none"]
  /\ bearer = [c \in Call |-> IF c = MeCall THEN token ELSE Nobody]
  /\ retried = [c \in Call |-> FALSE]
  /\ astray = {} /\ refreshAstray = FALSE /\ mixed = FALSE
  /\ signedOut = (token = Nobody) /\ confirmed = FALSE

\* The page is loaded again: promises are gone, storage is what there is.
Load(p) ==
  /\ loads < MaxLoads /\ loads' = loads + 1
  /\ UNCHANGED storage
  /\ user' = userKey /\ isBootstrapping' = Checking(token)
  /\ page' = Landing(p, userKey, Checking(token))
  /\ refreshing' = Nobody
  /\ phase' = [c \in Call |-> IF c = MeCall /\ token # Nobody THEN "sent" ELSE "none"]
  /\ purpose' = [c \in Call |-> IF c = MeCall /\ token # Nobody THEN "me" ELSE "none"]
  /\ bearer' = [c \in Call |-> IF c = MeCall THEN token ELSE Nobody]
  /\ retried' = [c \in Call |-> FALSE]
  /\ astray' = {} /\ refreshAstray' = FALSE /\ confirmed' = FALSE
  /\ UNCHANGED <<mixed, signedOut>>

\* A link of the site is followed.
Visit(p) ==
  /\ page' = Landing(p, user, isBootstrapping) /\ page' # page
  /\ UNCHANGED <<storage, user, isBootstrapping, loads, refreshing, calls, ghost>>

\* The sign-in form, submitted once at a time.
SignIn(c, p) ==
  /\ page = "login" /\ user = Nobody /\ ~isBootstrapping
  /\ \A d \in Call : purpose[d] # "login"
  /\ c # MeCall /\ Send(c, "login", p)
  /\ UNCHANGED <<storage, user, isBootstrapping, page, loads, refreshing, ghost>>

\* A screen's call, the account's own after a change of password, and the
\* sign-out of the top bar: the request interceptor reads the token.
Use(c, k) ==
  /\ InAdmin /\ k \in {"work", "refreshUser", "logout"}
  /\ c # MeCall /\ Send(c, k, token)
  /\ UNCHANGED <<storage, user, isBootstrapping, page, loads, refreshing, ghost>>

\* login: the three keys, then the state.
SignedIn(c) ==
  LET p == bearer[c] IN
  /\ phase[c] = "sent" /\ purpose[c] = "login"
  /\ Store(p, p, UserKeyAfterLogin(p)) /\ OnScreen(p, isBootstrapping)
  /\ Drop(c) /\ LeaveAstray(c)
  /\ mixed' = (mixed \/ c \in astray)
  /\ signedOut' = FALSE /\ confirmed' = TRUE
  /\ UNCHANGED refreshing

\* /auth/me answers for whoever the token was issued to.
MeAnswered(c) ==
  LET p == bearer[c] IN
  /\ phase[c] = "sent" /\ purpose[c] \in {"me", "refreshUser"} /\ p # Nobody
  /\ userKey' = p /\ UNCHANGED <<token, refreshToken>>
  /\ OnScreen(p, CheckingAfter(c))
  /\ Drop(c) /\ astray' = astray \ {c}
  /\ mixed' = (mixed \/ c \in astray)
  /\ confirmed' = TRUE
  /\ UNCHANGED <<refreshing, refreshAstray, signedOut>>

\* The catch of logout: it is over whatever the API has answered.
M_LogoutNeedsAnAnswer(c) == purpose[c] = "logout" /\ ~retried[c]
EndsSession(c) == purpose[c] = "logout"

M_ForgetsStorage == UNCHANGED storage
ClearOnSignOut == ClearSession

SignedOut(c) ==
  /\ phase[c] = "sent" /\ EndsSession(c)
  /\ ClearOnSignOut /\ OnScreen(Nobody, isBootstrapping)
  /\ Drop(c) /\ LeaveAstray(c)
  /\ mixed' = (mixed \/ c \in astray)
  /\ signedOut' = TRUE /\ confirmed' = FALSE
  /\ UNCHANGED refreshing

\* The screen has its answer, or an error to show; so has a failed sign-in and
\* a failed refreshUser.
Settled(c) ==
  /\ phase[c] = "sent"
  /\ \/ purpose[c] \in {"work", "login"}
     \/ purpose[c] = "refreshUser"
     \/ purpose[c] = "logout" /\ ~EndsSession(c)
  /\ Drop(c) /\ astray' = astray \ {c}
  /\ UNCHANGED <<storage, user, isBootstrapping, page, loads, refreshing,
                 refreshAstray, mixed, signedOut, confirmed>>

\* /auth/me failed, with a 401 after a new token or in any other way: the
\* stored session is dropped.
MeFailed(c) ==
  /\ phase[c] = "sent" /\ purpose[c] = "me"
  /\ ClearSession /\ OnScreen(Nobody, CheckingAfter(c))
  /\ Drop(c) /\ LeaveAstray(c)
  /\ mixed' = (mixed \/ c \in astray)
  /\ UNCHANGED <<refreshing, signedOut, confirmed>>

\* A first 401: the call waits for the refresh in flight, or starts one.
Unauthorized(c) ==
  /\ phase[c] = "sent" /\ Mendable(c)
  /\ refreshing # Nobody \/ refreshToken # Nobody
  /\ retried' = [retried EXCEPT ![c] = TRUE]
  /\ phase' = [phase EXCEPT ![c] = "waiting"]
  /\ IF refreshing # Nobody THEN UNCHANGED <<refreshing, refreshAstray>>
     ELSE refreshing' = refreshToken /\ refreshAstray' = FALSE
  /\ UNCHANGED <<storage, user, isBootstrapping, page, loads, purpose, bearer,
                 astray, mixed, signedOut, confirmed>>

\* What follows a refresh that failed, or a 401 with nothing to refresh: the
\* session is cleared and, unless the sign-in form is there already, loaded.
GiveUp(over) ==
  /\ ClearSession
  /\ IF page = "login"
     THEN /\ OnScreen(IF \E c \in over : purpose[c] \in {"me", "logout"} THEN Nobody ELSE user,
                      isBootstrapping /\ \A c \in over : purpose[c] # "me")
          /\ phase' = [c \in Call |-> IF c \in over THEN "none" ELSE phase[c]]
          /\ purpose' = [c \in Call |-> IF c \in over THEN "none" ELSE purpose[c]]
          /\ bearer' = [c \in Call |-> IF c \in over THEN Nobody ELSE bearer[c]]
          /\ retried' = [c \in Call |-> IF c \in over THEN FALSE ELSE retried[c]]
          /\ astray' = InFlight \ over
     ELSE /\ user' = Nobody /\ isBootstrapping' = FALSE /\ page' = "login"
          /\ UNCHANGED loads
          /\ DropAll /\ astray' = {}
  /\ refreshing' = Nobody /\ refreshAstray' = FALSE
  /\ signedOut' = (signedOut \/ \E c \in over : purpose[c] = "logout")
  /\ confirmed' = FALSE

\* refreshAccessToken has no refresh token to send.
NothingToRefresh(c) ==
  /\ phase[c] = "sent" /\ Mendable(c)
  /\ refreshing = Nobody /\ refreshToken = Nobody
  /\ GiveUp({c}) /\ UNCHANGED mixed

Waiting == {c \in Call : phase[c] = "waiting"}

\* The refresh is answered: three keys, and every waiting call is sent again
\* with the new token.
Refreshed ==
  /\ refreshing # Nobody
  /\ Store(refreshing, refreshing, refreshing)
  /\ phase' = [c \in Call |-> IF c \in Waiting THEN "sent" ELSE phase[c]]
  /\ bearer' = [c \in Call |-> IF c \in Waiting THEN refreshing ELSE bearer[c]]
  /\ refreshing' = Nobody /\ refreshAstray' = FALSE
  /\ mixed' = (mixed \/ refreshAstray)
  /\ UNCHANGED <<user, isBootstrapping, page, loads, purpose, retried,
                 astray, signedOut, confirmed>>

RefreshFailed ==
  /\ refreshing # Nobody
  /\ GiveUp(Waiting)
  /\ mixed' = (mixed \/ refreshAstray)

Answer(c) ==
  \/ SignedIn(c) \/ MeAnswered(c) \/ SignedOut(c) \/ Settled(c)
  \/ MeFailed(c) \/ Unauthorized(c) \/ NothingToRefresh(c)

SessionNext ==
  \/ \E p \in Page : Load(p) \/ Visit(p)
  \/ \E c \in Call :
       \/ \E p \in Person : SignIn(c, p)
       \/ \E k \in Purpose : Use(c, k)
       \/ Answer(c)
  \/ Refreshed \/ RefreshFailed

\* The network answers, or a timeout does, sooner or later.
SessionFairness ==
  /\ \A c \in Call : WF_sessionVars(Answer(c))
  /\ WF_sessionVars(Refreshed \/ RefreshFailed)

SessionSpec == SessionInit /\ [][SessionNext]_sessionVars /\ SessionFairness

-----------------------------------------------------------------------------
(* Properties *)

SessionTypeOK ==
  /\ token \in Someone /\ refreshToken \in Someone /\ userKey \in Someone
  /\ user \in Someone /\ isBootstrapping \in BOOLEAN /\ page \in Page /\ loads \in 0..MaxLoads
  /\ refreshing \in Someone
  /\ phase \in [Call -> {"none", "sent", "waiting"}]
  /\ purpose \in [Call -> Purpose]
  /\ bearer \in [Call -> Someone]
  /\ retried \in [Call -> BOOLEAN]
  /\ astray \subseteq Call
  /\ refreshAstray \in BOOLEAN /\ mixed \in BOOLEAN
  /\ signedOut \in BOOLEAN /\ confirmed \in BOOLEAN

\* Everything that holds an identity holds the same one, unless an answer
\* that was in flight when the session ended or changed hands has come since.
OneIdentity ==
  ~mixed =>
    /\ token = refreshToken /\ token = userKey
    /\ user # Nobody => user = token
    /\ refreshing # Nobody /\ ~refreshAstray => refreshing = token
    /\ \A c \in InFlight \ astray : purpose[c] # "login" => bearer[c] = token

\* After a sign-out nothing of the session is left, or comes back, unless by
\* such an answer.
SignedOutStays ==
  signedOut /\ ~mixed => token = Nobody /\ refreshToken = Nobody /\ user = Nobody

\* "The stored session is confirmed against /auth/me before the admin UI is
\* shown", unless such an answer has left a user without a token.
ConfirmedBeforeShown == InAdmin /\ ~mixed => confirmed

\* All three: one tab has one identity, and shows the back office to it only.
SessionHolds == OneIdentity /\ SignedOutStays /\ ConfirmedBeforeShown

\* Every call is answered in the end: a 401 is mended once, not for ever.
CallsEnd == \A c \in Call : phase[c] # "none" ~> phase[c] = "none"

\* A sign-out ends with nobody on screen whatever the API answers, unless the
\* page is loaded again meanwhile.
SignOutEnds ==
  \A n \in 0..MaxLoads :
    (loads = n /\ \E c \in Call : purpose[c] = "logout") ~> (user = Nobody \/ loads # n)

\* The check of the stored session ends, so that the page is shown.
BootstrapEnds == isBootstrapping ~> ~isBootstrapping

\* All three: nothing the visitor waits for lasts for ever.
SessionEnds == CallsEnd /\ SignOutEnds /\ BootstrapEnds
=============================================================================
