------------------------------- MODULE Access -------------------------------
(***************************************************************************)
(* AuthService of auth/service.py with its dependency (auth/deps.py) and   *)
(* router (api/routers/auth.py): the first account, sessions that are      *)
(* opened, expire and are closed, API tokens that are made and revoked,    *)
(* and requests that present either.  A request is one row after the       *)
(* other: every access to the database is a step.                          *)
(***************************************************************************)
EXTENDS Naturals, FiniteSets

CONSTANTS
  User,
  Session, ApiToken,   \* tokens there can be
  Scope,               \* what a request may need; "admin" stands for all of them
  Visit,               \* bound: requests served at a time
  MaxFailures          \* failed logins after which the delay grows no more

ASSUME AccessAssumption == MaxFailures \in Nat /\ "admin" \in Scope

VARIABLES
  users,       \* accounts
  sessionRow,  \* per session token: not given out, a live row, an expired one, no row
  tokenRow,    \* per API token: not made, valid or revoked
  tokenScopes, \* per API token: what it was made for
  failures,    \* per name: failed logins in a row
  visit        \* per request: its place and what it carries

accessVars == <<users, sessionRow, tokenRow, tokenScopes, failures, visit>>

Nothing == "nothing"
NoVisit == [pc |-> "none", user |-> Nothing, right |-> FALSE, cookie |-> Nothing,
            bearer |-> Nothing, needs |-> "admin", late |-> FALSE]

Request ==
  [pc : {"none", "first", "creating", "delayed", "logging in", "opening", "asking",
         "deleting", "named", "in", "refused"},
   user : User \union {Nothing}, right : BOOLEAN, cookie : Session \union {Nothing},
   bearer : ApiToken \union {Nothing}, needs : Scope, late : BOOLEAN]

AccessTypeOK ==
  /\ users \subseteq User
  /\ sessionRow \in [Session -> {"unused", "live", "expired", "gone"}]
  /\ tokenRow \in [ApiToken -> {"unused", "valid", "revoked"}]
  /\ tokenScopes \in [ApiToken -> SUBSET Scope]
  /\ failures \in [User -> 0 .. MaxFailures]
  /\ visit \in [Visit -> Request]

AccessInit ==
  /\ users = {} /\ sessionRow = [s \in Session |-> "unused"]
  /\ tokenRow = [t \in ApiToken |-> "unused"] /\ tokenScopes = [t \in ApiToken |-> {}]
  /\ failures = [u \in User |-> 0]
  /\ visit = [v \in Visit |-> NoVisit]

\* A request moves on; one that is refused carries nothing any more.
Moves(v, pc) == visit' = [visit EXCEPT ![v] =
  IF pc = "refused" THEN [NoVisit EXCEPT !.pc = pc] ELSE [@ EXCEPT !.pc = pc]]
Tokens == <<tokenRow, tokenScopes>>
Rows == <<users, sessionRow, Tokens, failures>>

\* What the calls of the database do to the tables.
InsertUser(u) == users' = users \union {u}
InsertSession(s) == sessionRow[s] = "unused" /\ sessionRow' = [sessionRow EXCEPT ![s] = "live"]
DeleteSession(s) == sessionRow' = [sessionRow EXCEPT ![s] = "gone"]
PurgeSessions ==
  sessionRow' = [s \in Session |-> IF sessionRow[s] = "expired" THEN "gone" ELSE sessionRow[s]]
InsertToken(t, scopes) ==
  /\ tokenRow[t] = "unused" /\ tokenRow' = [tokenRow EXCEPT ![t] = "valid"]
  /\ tokenScopes' = [tokenScopes EXCEPT ![t] = scopes]
RevokeRow(t) == tokenRow' = [tokenRow EXCEPT ![t] = "revoked"] /\ UNCHANGED tokenScopes

\* POST /auth/bootstrap: no account may exist, the name must be free; then login.
AskFirst(v) ==
  /\ visit[v].pc = "none"
  /\ \E u \in User : visit' = [visit EXCEPT ![v] =
       [NoVisit EXCEPT !.pc = "first", !.user = u, !.right = TRUE]]
  /\ UNCHANGED Rows

CountUsers(v) ==
  /\ visit[v].pc = "first" /\ Moves(v, IF users = {} THEN "creating" ELSE "refused")
  /\ UNCHANGED Rows

CreateUser(v) ==
  /\ visit[v].pc = "creating" /\ InsertUser(visit[v].user)
  /\ Moves(v, IF visit[v].user \in users THEN "refused"
              ELSE IF failures[visit[v].user] > 0 THEN "delayed" ELSE "logging in")
  /\ UNCHANGED <<sessionRow, Tokens, failures>>

\* POST /auth/login, held back after failures of that name.
AskLogin(v) ==
  /\ visit[v].pc = "none"
  /\ \E u \in User : \E right \in BOOLEAN : visit' = [visit EXCEPT ![v] =
       [NoVisit EXCEPT !.pc = IF failures[u] > 0 THEN "delayed" ELSE "logging in",
                       !.user = u, !.right = right]]
  /\ UNCHANGED Rows

DelayOver(v) == visit[v].pc = "delayed" /\ Moves(v, "logging in") /\ UNCHANGED Rows

\* An unknown name and a wrong password end alike.
CheckPassword(v) ==
  LET u == visit[v].user
      ok == u \in users /\ visit[v].right IN
  /\ visit[v].pc = "logging in" /\ Moves(v, IF ok THEN "opening" ELSE "refused")
  /\ failures' = [failures EXCEPT ![u] = IF ok THEN 0 ELSE IF @ < MaxFailures THEN @ + 1 ELSE @]
  /\ UNCHANGED <<users, sessionRow, Tokens>>

OpenSession(v) ==
  /\ visit[v].pc = "opening" /\ Moves(v, "none")
  /\ \E s \in Session : InsertSession(s)
  /\ UNCHANGED <<users, Tokens, failures>>

\* What ends a session: time, the janitor's purge, POST /auth/logout.
SessionExpires(s) ==
  /\ sessionRow[s] = "live" /\ sessionRow' = [sessionRow EXCEPT ![s] = "expired"]
  /\ UNCHANGED <<users, Tokens, failures, visit>>

SessionsPurged ==
  /\ \E s \in Session : sessionRow[s] = "expired"
  /\ PurgeSessions /\ UNCHANGED <<users, Tokens, failures, visit>>

Logout(s) ==
  /\ sessionRow[s] # "unused" /\ DeleteSession(s)
  /\ UNCHANGED <<users, Tokens, failures, visit>>

\* A request with a cookie, a bearer token or both, of credentials given out once.
Ended(cookie, bearer) ==
  IF bearer # Nothing THEN tokenRow[bearer] # "valid"
  ELSE cookie = Nothing \/ sessionRow[cookie] # "live"

AskIn(v) ==
  /\ visit[v].pc = "none"
  /\ \E c \in {s \in Session : sessionRow[s] # "unused"} \union {Nothing} :
     \E b \in {t \in ApiToken : tokenRow[t] # "unused"} \union {Nothing}, n \in Scope :
       visit' = [visit EXCEPT ![v] = [NoVisit EXCEPT !.pc = "asking", !.cookie = c, !.bearer = b,
                                                     !.needs = n, !.late = Ended(c, b)]]
  /\ UNCHANGED Rows

\* Mutant: the time of expiry is not looked at.
SessionLeadsAnyway(c) == IF sessionRow[c] = "gone" THEN "refused" ELSE "named"

\* authenticate_session: no row, a row whose time is over, or a principal.
SessionLeads(c) ==
  CASE sessionRow[c] = "gone" -> "refused"
    [] sessionRow[c] = "expired" -> "deleting"
    [] sessionRow[c] = "live" -> "named"

\* current_principal: a bearer token decides alone; an expired session is deleted.
ReadCredential(v) ==
  LET c == visit[v].cookie
      b == visit[v].bearer IN
  /\ visit[v].pc = "asking"
  /\ Moves(v, IF b # Nothing THEN IF tokenRow[b] = "valid" THEN "named" ELSE "refused"
              ELSE IF c = Nothing THEN "refused" ELSE SessionLeads(c))
  /\ UNCHANGED Rows

DeleteExpired(v) ==
  /\ visit[v].pc = "deleting" /\ Moves(v, "refused")
  /\ DeleteSession(visit[v].cookie)
  /\ UNCHANGED <<users, Tokens, failures>>

\* The user behind it is read (accounts are never deleted), then its scopes
\* decide: every account is an admin's, a token has those it was made for.
Allows(v) ==
  visit[v].bearer = Nothing \/ tokenScopes[visit[v].bearer] \intersect {"admin", visit[v].needs} # {}

ReadUser(v) ==
  /\ visit[v].pc = "named" /\ Moves(v, IF Allows(v) THEN "in" ELSE "refused") /\ UNCHANGED Rows

\* What an admin may ask for: POST /auth/tokens, DELETE /auth/tokens/{id}.
CreateToken(v, t) ==
  /\ visit[v].pc = "in" /\ visit[v].needs = "admin" /\ visit' = [visit EXCEPT ![v] = NoVisit]
  /\ \E scopes \in (SUBSET Scope) \ {{}} : InsertToken(t, scopes)
  /\ UNCHANGED <<users, sessionRow, failures>>

RevokeToken(v, t) ==
  /\ visit[v].pc = "in" /\ visit[v].needs = "admin" /\ visit' = [visit EXCEPT ![v] = NoVisit]
  /\ tokenRow[t] = "valid" /\ RevokeRow(t)
  /\ UNCHANGED <<users, sessionRow, failures>>

Answered(v) ==
  /\ visit[v].pc \in {"in", "refused"} /\ visit' = [visit EXCEPT ![v] = NoVisit]
  /\ UNCHANGED Rows

AccessNext ==
  \/ \E v \in Visit :
       \/ AskFirst(v) \/ CountUsers(v) \/ CreateUser(v) \/ AskLogin(v) \/ DelayOver(v)
       \/ CheckPassword(v) \/ OpenSession(v) \/ AskIn(v) \/ ReadCredential(v)
       \/ DeleteExpired(v) \/ ReadUser(v) \/ Answered(v)
       \/ \E t \in ApiToken : CreateToken(v, t) \/ RevokeToken(v, t)
  \/ \E s \in Session : SessionExpires(s) \/ Logout(s)
  \/ SessionsPurged

AccessSpec == AccessInit /\ [][AccessNext]_accessVars

-----------------------------------------------------------------------------
\* A session that has expired or was closed, and a token that was revoked, let
\* nobody in any more, whatever else is in flight and whatever else the request
\* carries; who is let in is an account's owner or a token for what is asked,
\* and there is no token before an account (service.py 203-249, deps.py 58-103).
EndedIsRefused ==
  /\ \A v \in Visit : visit[v].pc = "in" => ~visit[v].late /\ Allows(v)
  /\ (users = {} => \A t \in ApiToken : tokenRow[t] = "unused")
=============================================================================
