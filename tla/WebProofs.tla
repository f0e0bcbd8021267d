------------------------------ MODULE WebProofs ------------------------------
(***************************************************************************)
(* What holds of what the web client meets:                                *)
(*   - Access, for any number of users, sessions, tokens, scopes and       *)
(*     requests at once: ended credentials let nobody in; the invariant    *)
(*     follows a request from the moment it was made, for a credential that*)
(*     had ended then has ended since;                                     *)
(*   - VapidKeys, for any number of calls and browsers: who was not        *)
(*     overtaken has the stored pair of keys, and nobody has one that was  *)
(*     never given out: what the public row and the browsers hold some call*)
(*     returned, and a call that goes on from the row it read holds that   *)
(*     row until another overwrites it;                                    *)
(*   - Exports, Previews and Clips, for any number of exports, hours and   *)
(*     viewers: what is served was finished; the invariant says who may be *)
(*     writing: the worker's job is running and no other is, what waits    *)
(*     waits once, and a viewer at work on the clip is alone unless the    *)
(*     clip was crowded.                                                   *)
(***************************************************************************)
EXTENDS Access, VapidKeys, Clips, TLAPS

-----------------------------------------------------------------------------
(* Who is let in.                                                          *)

\* Sessions and tokens are for those who have an account.
AccountsFirst ==
  users = {} => /\ \A s \in Session : sessionRow[s] = "unused"
                /\ \A t \in ApiToken : tokenRow[t] = "unused"

\* What a request carries was given out, and is known to be good from the lookup on.
Entitled(b, n) == b = Nothing \/ tokenScopes[b] \intersect {"admin", n} # {}

GivenOut(c, b) ==
  /\ b # Nothing => b \in ApiToken /\ tokenRow[b] # "unused"
  /\ c # Nothing => c \in Session /\ sessionRow[c] # "unused"

CarefulAt(pc, r) ==
  /\ pc \in {"first", "creating", "delayed", "logging in"} => r.user \in User
  /\ pc = "opening" => users # {}
  /\ pc \in {"asking", "named", "in", "deleting"} => GivenOut(r.cookie, r.bearer)
  /\ pc = "deleting" => r.cookie # Nothing
  /\ pc \in {"named", "in"} => (r.bearer # Nothing \/ r.cookie # Nothing) /\ ~r.late
  /\ pc = "asking" /\ r.late => Ended(r.cookie, r.bearer)
  /\ pc = "in" => Entitled(r.bearer, r.needs)

Careful(r) == CarefulAt(r.pc, r)

AccessInv == AccessTypeOK /\ AccountsFirst /\ \A v \in Visit : Careful(visit[v])

\* No row becomes usable again, and no row comes before an account.
RowsAge ==
  /\ AccountsFirst' /\ (users # {} => users' # {})
  /\ \A s \in Session : /\ sessionRow[s] # "unused" => sessionRow'[s] # "unused"
                        /\ sessionRow[s] \notin {"unused", "live"} => sessionRow'[s] # "live"
  /\ \A t \in ApiToken : tokenRow[t] # "unused" =>
       /\ tokenRow'[t] # "unused" /\ tokenScopes'[t] = tokenScopes[t]
       /\ tokenRow[t] # "valid" => tokenRow'[t] # "valid"

\* A request that does not move keeps what it knows.
LEMMA OthersStayCareful ==
  ASSUME RowsAge, NEW r, Careful(r)
  PROVE  Careful(r)'
<1>1. r.pc = "opening" => users' # {}
  BY DEF RowsAge, Careful, CarefulAt
<1>2. ASSUME r.pc \in {"asking", "named", "in", "deleting"} PROVE GivenOut(r.cookie, r.bearer)'
  BY <1>2 DEF RowsAge, Careful, CarefulAt, GivenOut
<1>3. ASSUME r.pc = "asking", r.late PROVE Ended(r.cookie, r.bearer)'
  BY <1>3 DEF RowsAge, Careful, CarefulAt, GivenOut, Ended
<1>4. ASSUME r.pc = "in" PROVE Entitled(r.bearer, r.needs)'
  BY <1>4 DEF RowsAge, Careful, CarefulAt, GivenOut, Entitled
<1> QED
  BY <1>1, <1>2, <1>3, <1>4 DEF Careful, CarefulAt

LEMMA CarefulThen ==
  ASSUME NEW w, NEW r, r = visit'[w], Careful(r)'
  PROVE  Careful(visit[w])'
  BY DEF Careful, CarefulAt, GivenOut, Ended, Entitled

\* So a step is as it should be when its rows age and the one request it moves
\* stays careful.
LEMMA OneRequestMoves ==
  ASSUME AccessInv, AccessTypeOK', RowsAge, NEW v \in Visit,
         \A w \in Visit \ {v} : visit'[w] = visit[w],
         NEW moved, moved = visit'[v], Careful(moved)'
  PROVE  AccessInv'
<1>1. ASSUME NEW w \in Visit PROVE Careful(visit[w])'
  <2>1. CASE w = v
    BY <2>1, CarefulThen
  <2>2. CASE w # v
    <3>1. PICK r : r = visit[w]
      OBVIOUS
    <3>2. Careful(r) /\ r = visit'[w]
      BY <2>2, <3>1 DEF AccessInv
    <3>3. Careful(r)'
      BY <3>2, OthersStayCareful
    <3> QED BY <3>2, <3>3, CarefulThen
  <2> QED BY <2>1, <2>2
<1> QED
  BY <1>1 DEF AccessInv, RowsAge

\* What the tables hold.
RowsTyped ==
  /\ users \subseteq User
  /\ sessionRow \in [Session -> {"unused", "live", "expired", "gone"}]
  /\ tokenRow \in [ApiToken -> {"unused", "valid", "revoked"}]
  /\ tokenScopes \in [ApiToken -> SUBSET Scope]
  /\ failures \in [User -> 0 .. MaxFailures]

Place == {"none", "first", "creating", "delayed", "logging in", "opening", "asking",
          "deleting", "named", "in", "refused"}

\* A request that is made, or answered.
LEMMA BeginsAnew ==
  ASSUME AccessInv, NEW v \in Visit, RowsAge, RowsTyped',
         NEW r \in Request, visit' = [visit EXCEPT ![v] = r], Careful(r)'
  PROVE  AccessInv'
<1>1. visit' \in [Visit -> Request] /\ r = visit'[v]
      /\ \A w \in Visit \ {v} : visit'[w] = visit[w]
  BY DEF AccessInv, AccessTypeOK
<1>2. AccessTypeOK'
  BY <1>1 DEF AccessTypeOK, RowsTyped
<1> QED
  BY <1>1, <1>2, OneRequestMoves

\* A request that goes to another place takes along what it carries.
LEMMA MovesOn ==
  ASSUME AccessInv, NEW v \in Visit, RowsAge, RowsTyped',
         NEW pc \in Place, Moves(v, pc),
         NEW r, r = visit[v], CarefulAt(pc, r)'
  PROVE  AccessInv'
<1>0. CASE pc = "refused"
  <2> DEFINE none == [NoVisit EXCEPT !.pc = "refused"]
  <2>1. none \in Request /\ none.pc = "refused"
    BY AccessAssumption DEF NoVisit, Request, Nothing
  <2>2. visit' = [visit EXCEPT ![v] = none]
    BY <1>0 DEF Moves
  <2> HIDE DEF none
  <2>3. Careful(none)'
    BY <2>1 DEF Careful, CarefulAt
  <2> QED BY <2>1, <2>2, <2>3, BeginsAnew
<1> SUFFICES ASSUME pc # "refused" PROVE AccessInv'
  BY <1>0
<1>1. visit \in [Visit -> Request]
  BY DEF AccessInv, AccessTypeOK
<1> DEFINE moved == [r EXCEPT !.pc = pc]
<1>2. visit' = [visit EXCEPT ![v] = moved]
  BY DEF Moves
<1>3. moved \in Request /\ r \in Request
  BY <1>1 DEF Request, Place
<1>4. moved.pc = pc /\ moved.user = r.user /\ moved.cookie = r.cookie
      /\ moved.bearer = r.bearer /\ moved.needs = r.needs /\ moved.late = r.late
  BY <1>3 DEF Request
<1> HIDE DEF moved
<1>5. visit' \in [Visit -> Request] /\ moved = visit'[v]
      /\ \A w \in Visit \ {v} : visit'[w] = visit[w]
  BY <1>1, <1>2, <1>3
<1>6. Careful(moved)'
  BY <1>4 DEF Careful, CarefulAt
<1>7. AccessTypeOK'
  BY <1>5 DEF AccessTypeOK, RowsTyped
<1> QED
  BY <1>5, <1>6, <1>7, OneRequestMoves

LEMMA NobodyMoves ==
  ASSUME AccessInv, RowsAge, RowsTyped', UNCHANGED visit
  PROVE  AccessInv'
<1>1. ASSUME NEW w \in Visit PROVE Careful(visit[w])'
  <2>1. PICK r : r = visit[w]
    OBVIOUS
  <2>2. Careful(r)'
    BY <2>1, OthersStayCareful DEF AccessInv
  <2> QED BY <2>1, <2>2, CarefulThen
<1> QED
  BY <1>1 DEF AccessInv, AccessTypeOK, RowsTyped, RowsAge

LEMMA RowsRest ==
  ASSUME AccessInv, UNCHANGED Rows
  PROVE  RowsAge /\ RowsTyped'
  BY DEF AccessInv, AccessTypeOK, AccountsFirst, RowsAge, RowsTyped, Rows, Tokens

LEMMA NoVisitType == NoVisit \in Request /\ NoVisit.pc = "none"
  BY AccessAssumption DEF NoVisit, Request

-----------------------------------------------------------------------------
(* The steps.                                                              *)

\* The requests for a session.
LEMMA AskFirstStep ==
  ASSUME AccessInv, NEW v \in Visit, AskFirst(v)
  PROVE  AccessInv'
<1>1. PICK u \in User : visit' = [visit EXCEPT ![v] =
        [NoVisit EXCEPT !.pc = "first", !.user = u, !.right = TRUE]]
  BY DEF AskFirst
<1> DEFINE r == [NoVisit EXCEPT !.pc = "first", !.user = u, !.right = TRUE]
<1>2. r \in Request /\ r.pc = "first" /\ r.user = u
  BY AccessAssumption DEF NoVisit, Request
<1> HIDE DEF r
<1>3. Careful(r)'
  BY <1>2 DEF Careful, CarefulAt
<1>4. visit' = [visit EXCEPT ![v] = r]
  BY <1>1 DEF r
<1> QED
  BY <1>2, <1>3, <1>4, RowsRest, BeginsAnew DEF AskFirst

LEMMA CountUsersStep ==
  ASSUME AccessInv, NEW v \in Visit, CountUsers(v)
  PROVE  AccessInv'
<1>1. PICK r : r = visit[v] OBVIOUS
<1>2. PICK pc \in Place : Moves(v, pc) /\ (pc = "creating" \/ pc = "refused")
  BY DEF CountUsers, Place
<1>3. CarefulAt(pc, r)'
  BY <1>1, <1>2 DEF AccessInv, Careful, CarefulAt, CountUsers
<1> QED
  BY <1>1, <1>2, <1>3, RowsRest, MovesOn DEF CountUsers

LEMMA CreateUserStep ==
  ASSUME AccessInv, NEW v \in Visit, CreateUser(v)
  PROVE  AccessInv'
<1>1. PICK r : r = visit[v] OBVIOUS
<1>2. PICK pc \in Place : Moves(v, pc) /\ pc \in {"refused", "delayed", "logging in"}
  BY DEF CreateUser, Place
<1>3. r.user \in User /\ users' = users \union {r.user} /\ UNCHANGED <<sessionRow, Tokens, failures>>
  BY <1>1 DEF AccessInv, Careful, CarefulAt, CreateUser, InsertUser
<1>4. CarefulAt(pc, r)'
  BY <1>2, <1>3 DEF CarefulAt
<1>5. RowsAge /\ RowsTyped'
  BY <1>3 DEF AccessInv, AccessTypeOK, AccountsFirst, RowsAge, RowsTyped, Tokens
<1> QED
  BY <1>1, <1>2, <1>4, <1>5, MovesOn

LEMMA AskLoginStep ==
  ASSUME AccessInv, NEW v \in Visit, AskLogin(v)
  PROVE  AccessInv'
<1>1. PICK u \in User, right \in BOOLEAN, pc \in {"delayed", "logging in"} :
        visit' = [visit EXCEPT ![v] = [NoVisit EXCEPT !.pc = pc, !.user = u, !.right = right]]
  BY DEF AskLogin
<1> DEFINE r == [NoVisit EXCEPT !.pc = pc, !.user = u, !.right = right]
<1>2. r \in Request /\ r.pc = pc /\ r.user = u
  BY AccessAssumption DEF NoVisit, Request
<1> HIDE DEF r
<1>3. Careful(r)'
  BY <1>2 DEF Careful, CarefulAt
<1>4. visit' = [visit EXCEPT ![v] = r]
  BY <1>1 DEF r
<1> QED
  BY <1>2, <1>3, <1>4, RowsRest, BeginsAnew DEF AskLogin

LEMMA DelayOverStep ==
  ASSUME AccessInv, NEW v \in Visit, DelayOver(v)
  PROVE  AccessInv'
<1>1. PICK r : r = visit[v] OBVIOUS
<1>2. CarefulAt("logging in", r)'
  BY <1>1 DEF AccessInv, Careful, CarefulAt, DelayOver
<1>3. "logging in" \in Place BY DEF Place
<1> QED
  BY <1>1, <1>2, <1>3, RowsRest, MovesOn DEF DelayOver

LEMMA CheckPasswordStep ==
  ASSUME AccessInv, NEW v \in Visit, CheckPassword(v)
  PROVE  AccessInv'
<1>1. PICK r : r = visit[v] OBVIOUS
<1>2. PICK pc \in Place : /\ Moves(v, pc) /\ pc \in {"opening", "refused"}
                          /\ pc = "opening" => r.user \in users
  BY <1>1 DEF CheckPassword, Place
<1>3. UNCHANGED <<users, sessionRow, Tokens>>
  BY DEF CheckPassword
<1>4. CarefulAt(pc, r)'
  BY <1>2, <1>3 DEF CarefulAt
<1>5. failures' \in [User -> 0 .. MaxFailures]
  <2>1. r.user \in User /\ failures \in [User -> 0 .. MaxFailures]
    BY <1>1 DEF CheckPassword, AccessInv, AccessTypeOK, Careful, CarefulAt
  <2>2. PICK ok \in BOOLEAN : failures' = [failures EXCEPT ![r.user] =
          IF ok THEN 0 ELSE IF @ < MaxFailures THEN @ + 1 ELSE @]
    BY <1>1, Zenon DEF CheckPassword
  <2>3. MaxFailures \in Nat
    BY AccessAssumption
  <2>4. failures[r.user] \in 0 .. MaxFailures
    BY <2>1
  <2> QED BY <2>1, <2>2, <2>3, <2>4
<1>6. RowsAge /\ RowsTyped'
  BY <1>3, <1>5 DEF AccessInv, AccessTypeOK, AccountsFirst, RowsAge, RowsTyped, Tokens
<1> QED
  BY <1>1, <1>2, <1>4, <1>6, MovesOn

LEMMA OpenSessionStep ==
  ASSUME AccessInv, NEW v \in Visit, OpenSession(v)
  PROVE  AccessInv'
<1>1. PICK r : r = visit[v] OBVIOUS
<1>2. PICK s \in Session : InsertSession(s)
  BY DEF OpenSession
<1>3. users # {} /\ Moves(v, "none") /\ UNCHANGED <<users, Tokens, failures>>
  BY DEF AccessInv, Careful, CarefulAt, OpenSession
<1>4. CarefulAt("none", r)' /\ "none" \in Place
  BY DEF CarefulAt, Place
<1>5. RowsAge /\ RowsTyped'
  BY <1>2, <1>3 DEF AccessInv, AccessTypeOK, AccountsFirst, RowsAge, RowsTyped, Tokens, InsertSession
<1> QED
  BY <1>1, <1>3, <1>4, <1>5, MovesOn

-----------------------------------------------------------------------------
(* The end of a session.                                                   *)

LEMMA SessionsEnd ==
  ASSUME AccessInv, \/ \E s \in Session : SessionExpires(s) \/ Logout(s)
                    \/ SessionsPurged
  PROVE  AccessInv'
<1>1. /\ sessionRow' \in [Session -> {"unused", "live", "expired", "gone"}]
      /\ \A s \in Session : /\ sessionRow[s] = "unused" <=> sessionRow'[s] = "unused"
                            /\ sessionRow[s] # "live" => sessionRow'[s] # "live"
      /\ UNCHANGED <<users, Tokens, failures, visit>>
  BY DEF AccessInv, AccessTypeOK, SessionExpires, Logout, SessionsPurged, DeleteSession, PurgeSessions
<1>2. RowsAge /\ RowsTyped'
  BY <1>1 DEF AccessInv, AccessTypeOK, AccountsFirst, RowsAge, RowsTyped, Tokens
<1> QED
  BY <1>1, <1>2, NobodyMoves

-----------------------------------------------------------------------------
(* The requests that present a credential.                                 *)

LEMMA AskInStep ==
  ASSUME AccessInv, NEW v \in Visit, AskIn(v)
  PROVE  AccessInv'
<1>1. PICK c \in {s \in Session : sessionRow[s] # "unused"} \union {Nothing},
           b \in {t \in ApiToken : tokenRow[t] # "unused"} \union {Nothing}, n \in Scope :
        visit' = [visit EXCEPT ![v] = [NoVisit EXCEPT !.pc = "asking", !.cookie = c, !.bearer = b,
                                                      !.needs = n, !.late = Ended(c, b)]]
  BY DEF AskIn
<1>2. UNCHANGED Rows
  BY DEF AskIn
<1>3. PICK late \in BOOLEAN : late = Ended(c, b)
  BY Zenon DEF Ended
<1> DEFINE r == [NoVisit EXCEPT !.pc = "asking", !.cookie = c, !.bearer = b, !.needs = n, !.late = late]
<1>4. r \in Request /\ r.pc = "asking" /\ r.cookie = c /\ r.bearer = b /\ r.late = late
  BY AccessAssumption DEF NoVisit, Request
<1>5. visit' = [visit EXCEPT ![v] = r]
  BY <1>1, <1>3
<1> HIDE DEF r
<1>6. GivenOut(c, b)'
  BY <1>1, <1>2 DEF GivenOut, Rows, Tokens
<1>7. late => Ended(c, b)'
  BY <1>2, <1>3 DEF Ended, Rows, Tokens
<1>8. Careful(r)'
  BY <1>4, <1>6, <1>7 DEF Careful, CarefulAt
<1> QED
  BY <1>2, <1>4, <1>5, <1>8, RowsRest, BeginsAnew

LEMMA ReadCredentialStep ==
  ASSUME AccessInv, NEW v \in Visit, ReadCredential(v)
  PROVE  AccessInv'
<1>1. PICK r : r = visit[v] OBVIOUS
<1>2. r.pc = "asking" /\ CarefulAt("asking", r) /\ UNCHANGED Rows
  BY <1>1 DEF AccessInv, Careful, ReadCredential
<1> DEFINE leads == IF r.bearer # Nothing THEN IF tokenRow[r.bearer] = "valid" THEN "named" ELSE "refused"
                    ELSE IF r.cookie = Nothing THEN "refused" ELSE SessionLeads(r.cookie)
<1>0. PICK pc : pc = leads OBVIOUS
<1>3. r.bearer = Nothing /\ r.cookie # Nothing =>
        /\ SessionLeads(r.cookie) \in {"refused", "deleting", "named"}
        /\ SessionLeads(r.cookie) = "named" => sessionRow[r.cookie] = "live"
  BY <1>2 DEF CarefulAt, GivenOut, SessionLeads, AccessInv, AccessTypeOK
<1>4. pc \in {"refused", "deleting", "named"} /\ pc \in Place /\ Moves(v, pc)
  BY <1>0, <1>1, <1>3 DEF ReadCredential, Place
<1>5. pc = "named" => (r.bearer # Nothing \/ r.cookie # Nothing) /\ ~Ended(r.cookie, r.bearer)
  BY <1>0, <1>3 DEF Ended
<1>6. pc = "deleting" => r.cookie # Nothing
  BY <1>0, <1>3
<1> HIDE DEF leads
<1>7. GivenOut(r.cookie, r.bearer)'
  BY <1>2 DEF CarefulAt, GivenOut, Rows, Tokens
<1>8. pc = "named" => ~r.late
  BY <1>2, <1>5 DEF CarefulAt
<1>9. CarefulAt(pc, r)'
  BY <1>4, <1>5, <1>6, <1>7, <1>8 DEF CarefulAt
<1> QED
  BY <1>1, <1>2, <1>4, <1>9, RowsRest, MovesOn

LEMMA DeleteExpiredStep ==
  ASSUME AccessInv, NEW v \in Visit, DeleteExpired(v)
  PROVE  AccessInv'
<1>1. PICK r : r = visit[v] OBVIOUS
<1>2. /\ r.cookie \in Session /\ sessionRow[r.cookie] # "unused"
      /\ Moves(v, "refused") /\ UNCHANGED <<users, Tokens, failures>>
      /\ sessionRow' = [sessionRow EXCEPT ![r.cookie] = "gone"]
  BY <1>1 DEF AccessInv, Careful, CarefulAt, GivenOut, DeleteExpired, DeleteSession
<1>3. CarefulAt("refused", r)' /\ "refused" \in Place
  BY DEF CarefulAt, Place
<1>4. RowsAge /\ RowsTyped'
  BY <1>2 DEF AccessInv, AccessTypeOK, AccountsFirst, RowsAge, RowsTyped, Tokens
<1> QED
  BY <1>1, <1>2, <1>3, <1>4, MovesOn

LEMMA ReadUserStep ==
  ASSUME AccessInv, NEW v \in Visit, ReadUser(v)
  PROVE  AccessInv'
<1>1. PICK r : r = visit[v] OBVIOUS
<1>2. CarefulAt("named", r) /\ UNCHANGED Rows
  BY <1>1 DEF AccessInv, Careful, ReadUser
<1>3. PICK pc \in Place : Moves(v, pc) /\ pc \in {"in", "refused"} /\ (pc = "in" => Entitled(r.bearer, r.needs))
  BY <1>1 DEF ReadUser, Allows, Entitled, Place
<1>4. CarefulAt(pc, r)'
  BY <1>2, <1>3 DEF CarefulAt, GivenOut, Entitled, Rows, Tokens
<1> QED
  BY <1>1, <1>2, <1>3, <1>4, RowsRest, MovesOn

LEMMA AnsweredStep ==
  ASSUME AccessInv, NEW v \in Visit, Answered(v)
  PROVE  AccessInv'
<1>1. Careful(NoVisit)'
  BY NoVisitType DEF Careful, CarefulAt
<1> QED
  BY <1>1, NoVisitType, RowsRest, BeginsAnew DEF Answered

\* Who is let in for it has an account, or a token somebody with an account made.
LEMMA TokenSteps ==
  ASSUME AccessInv, NEW v \in Visit, NEW t \in ApiToken, CreateToken(v, t) \/ RevokeToken(v, t)
  PROVE  AccessInv'
<1>1. users # {}
  BY DEF AccessInv, AccountsFirst, Careful, CarefulAt, GivenOut, CreateToken, RevokeToken
<1>2. visit' = [visit EXCEPT ![v] = NoVisit] /\ UNCHANGED <<users, sessionRow, failures>>
  BY DEF CreateToken, RevokeToken
<1>3. /\ tokenRow' \in [ApiToken -> {"unused", "valid", "revoked"}]
      /\ tokenScopes' \in [ApiToken -> SUBSET Scope]
      /\ \A u \in ApiToken : tokenRow[u] # "unused" =>
           /\ tokenRow'[u] # "unused" /\ tokenScopes'[u] = tokenScopes[u]
           /\ tokenRow[u] # "valid" => tokenRow'[u] # "valid"
  BY DEF CreateToken, RevokeToken, InsertToken, RevokeRow, AccessInv, AccessTypeOK
<1>4. RowsAge /\ RowsTyped'
  BY <1>1, <1>2, <1>3 DEF AccessInv, AccessTypeOK, AccountsFirst, RowsAge, RowsTyped
<1>5. Careful(NoVisit)'
  BY NoVisitType DEF Careful, CarefulAt
<1> QED
  BY <1>2, <1>4, <1>5, NoVisitType, BeginsAnew

-----------------------------------------------------------------------------
LEMMA AccessStep == AccessInv /\ [AccessNext]_accessVars => AccessInv'
<1> SUFFICES ASSUME AccessInv, [AccessNext]_accessVars PROVE AccessInv'
  OBVIOUS
<1>1. CASE UNCHANGED accessVars
  BY <1>1, RowsRest, NobodyMoves DEF accessVars, Rows, Tokens
<1>2. CASE \E v \in Visit : \/ AskFirst(v) \/ CountUsers(v) \/ CreateUser(v) \/ AskLogin(v)
                            \/ DelayOver(v) \/ CheckPassword(v) \/ OpenSession(v)
  BY <1>2, AskFirstStep, CountUsersStep, CreateUserStep, AskLoginStep, DelayOverStep,
     CheckPasswordStep, OpenSessionStep
<1>3. CASE \E v \in Visit : \/ AskIn(v) \/ ReadCredential(v) \/ DeleteExpired(v) \/ ReadUser(v) \/ Answered(v)
                            \/ \E t \in ApiToken : CreateToken(v, t) \/ RevokeToken(v, t)
  BY <1>3, AskInStep, ReadCredentialStep, DeleteExpiredStep, ReadUserStep, AnsweredStep, TokenSteps
<1>4. CASE (\E s \in Session : SessionExpires(s) \/ Logout(s)) \/ SessionsPurged
  BY <1>4, SessionsEnd
<1> QED
  BY <1>1, <1>2, <1>3, <1>4 DEF AccessNext

LEMMA AccessStarts == AccessInit => AccessInv
<1> SUFFICES ASSUME AccessInit PROVE AccessInv
  OBVIOUS
<1>1. visit \in [Visit -> Request] /\ \A v \in Visit : visit[v].pc = "none"
  BY NoVisitType DEF AccessInit
<1>2. \A v \in Visit : Careful(visit[v])
  BY <1>1 DEF Careful, CarefulAt
<1>3. AccountsFirst /\ AccessTypeOK
  BY <1>1, AccessAssumption DEF AccessInit, AccountsFirst, AccessTypeOK
<1> QED BY <1>2, <1>3 DEF AccessInv

\* Ended credentials let nobody in, tokens open only what they were made for, and
\* none is made before there is an account (service.py 203-249, deps.py 58-103).
THEOREM EndedStaysOut == AccessSpec => []EndedIsRefused
<1>1. AccessInv => EndedIsRefused
  BY DEF AccessInv, AccountsFirst, Careful, CarefulAt, Entitled, Allows, EndedIsRefused
<1> QED
  BY <1>1, AccessStarts, AccessStep, PTL DEF AccessSpec

-----------------------------------------------------------------------------
(* The keys of web push.                                                   *)

KeysTyped ==
  /\ meta \in [{"private", "public"} -> Key]
  /\ asking \in [KeyCall -> [pc : {"none", "minting", "rereading", "deriving", "returned"},
                             key : Key]]
  /\ subscribed \in [Browser -> Key]

\* What calls returned.
KeysGiven == {asking[c].key : c \in {d \in KeyCall : asking[d].pc = "returned"}}

OnlyGivenOut ==
  /\ meta["public"] \in {NoKey} \union KeysGiven
  /\ \A b \in Browser : subscribed[b] \in {NoKey} \union KeysGiven

HoldsTheStored ==
  \A c \in KeyCall \ overtaken :
    asking[c].pc \in {"deriving", "returned"} => asking[c].key = meta["private"]

KeysInv == KeysTyped /\ OnlyGivenOut /\ HoldsTheStored

\* A step of ensure_vapid_keys keeps the other calls where they are, and what was
\* given out.
LEMMA OneAsks ==
  ASSUME KeysInv, NEW c \in KeyCall, NEW pc \in {"minting", "rereading", "deriving", "returned"},
         NEW key \in Key, At(c, pc, key), asking[c].pc # "returned"
  PROVE  /\ asking' \in [KeyCall -> [pc : {"none", "minting", "rereading", "deriving", "returned"},
                                     key : Key]]
         /\ asking'[c].pc = pc /\ asking'[c].key = key
         /\ \A d \in KeyCall \ {c} : asking'[d] = asking[d]
         /\ KeysGiven \subseteq KeysGiven' /\ (pc = "returned" => key \in KeysGiven')
<1>1. /\ asking' \in [KeyCall -> [pc : {"none", "minting", "rereading", "deriving", "returned"},
                                  key : Key]]
      /\ asking'[c].pc = pc /\ asking'[c].key = key
      /\ \A d \in KeyCall \ {c} : asking'[d] = asking[d]
  BY DEF At, KeysInv, KeysTyped
<1>2. KeysGiven \subseteq KeysGiven' /\ (pc = "returned" => key \in KeysGiven')
  BY <1>1 DEF KeysGiven
<1> QED
  BY <1>1, <1>2

LEMMA KeysStep == KeysInv /\ [KeysNext]_keyVars => KeysInv'
<1> SUFFICES ASSUME KeysInv, [KeysNext]_keyVars PROVE KeysInv'
  OBVIOUS
<1>0. /\ "private" \in {"private", "public"} /\ "public" \in {"private", "public"}
      /\ meta["private"] \in Key /\ NoKey \in Key /\ \A c \in KeyCall : c \in Key
  BY DEF KeysInv, KeysTyped, Key
<1>1. ASSUME NEW c \in KeyCall, ReadKey(c) PROVE KeysInv'
  <2>1. PICK pc \in {"minting", "deriving"} : At(c, pc, meta["private"])
    BY <1>1 DEF ReadKey
  <2>2. asking[c].pc = "none" /\ UNCHANGED <<meta, overtaken, subscribed>>
    BY <1>1 DEF ReadKey
  <2> QED
    BY <1>0, <2>1, <2>2, OneAsks DEF KeysInv, KeysTyped, OnlyGivenOut, HoldsTheStored
<1>2. ASSUME NEW c \in KeyCall, MintKey(c) PROVE KeysInv'
  <2>1. /\ asking[c].pc = "minting" /\ At(c, "rereading", c) /\ UNCHANGED subscribed
        /\ meta' = [meta EXCEPT !["private"] = c]
        /\ overtaken' = overtaken \union {d \in KeyCall : asking[d].pc \in {"deriving", "returned"}}
    BY <1>2 DEF MintKey, SetMeta
  <2>2. /\ asking'[c].pc = "rereading" /\ KeysGiven \subseteq KeysGiven'
        /\ \A d \in KeyCall \ {c} : asking'[d] = asking[d]
        /\ KeysTyped' /\ meta'["public"] = meta["public"]
    BY <1>0, <2>1, OneAsks DEF KeysInv, KeysTyped
  <2>3. OnlyGivenOut'
    BY <2>1, <2>2 DEF KeysInv, OnlyGivenOut
  <2>4. \A d \in KeyCall \ overtaken' : asking'[d].pc \notin {"deriving", "returned"}
    BY <2>1, <2>2
  <2>5. HoldsTheStored'
    BY <2>4 DEF HoldsTheStored
  <2> QED
    BY <2>2, <2>3, <2>5 DEF KeysInv
<1>3. ASSUME NEW c \in KeyCall, RereadKey(c) PROVE KeysInv'
  <2>1. asking[c].pc = "rereading" /\ At(c, "deriving", meta["private"])
        /\ UNCHANGED <<meta, overtaken, subscribed>>
    BY <1>3 DEF RereadKey
  <2> QED
    BY <1>0, <2>1, OneAsks DEF KeysInv, KeysTyped, OnlyGivenOut, HoldsTheStored
<1>4. ASSUME NEW c \in KeyCall, DeriveKey(c) PROVE KeysInv'
  <2>1. asking[c].pc = "deriving" /\ At(c, "returned", asking[c].key) /\ asking[c].key \in Key
        /\ meta' = [meta EXCEPT !["public"] = asking[c].key] /\ UNCHANGED <<overtaken, subscribed>>
    BY <1>4 DEF DeriveKey, SetMeta, KeysInv, KeysTyped
  <2>2. /\ asking'[c].pc = "returned" /\ asking'[c].key = asking[c].key
        /\ KeysGiven \subseteq KeysGiven' /\ asking[c].key \in KeysGiven'
        /\ \A d \in KeyCall \ {c} : asking'[d] = asking[d]
        /\ KeysTyped'
    BY <1>0, <2>1, OneAsks DEF KeysInv, KeysTyped
  <2>3. meta'["private"] = meta["private"] /\ meta'["public"] = asking[c].key
    BY <2>1 DEF KeysInv, KeysTyped
  <2>4. OnlyGivenOut'
    BY <2>1, <2>2, <2>3 DEF KeysInv, OnlyGivenOut
  <2>5. HoldsTheStored'
    BY <2>1, <2>2, <2>3 DEF KeysInv, HoldsTheStored
  <2> QED
    BY <2>2, <2>4, <2>5 DEF KeysInv
<1>5. ASSUME NEW b \in Browser, Subscribe(b) PROVE KeysInv'
  <2>1. PICK c \in KeyCall :
          asking[c].pc = "returned" /\ subscribed' = [subscribed EXCEPT ![b] = asking[c].key]
    BY <1>5 DEF Subscribe, PutSubscription
  <2>2. UNCHANGED <<meta, asking, overtaken>>
    BY <1>5 DEF Subscribe
  <2>3. asking[c].key \in KeysGiven /\ KeysGiven' = KeysGiven
    BY <2>1, <2>2 DEF KeysGiven
  <2> QED
    BY <2>1, <2>2, <2>3 DEF KeysInv, KeysTyped, OnlyGivenOut, HoldsTheStored
<1>6. ASSUME NEW b \in Browser, subscribed' = [subscribed EXCEPT ![b] = NoKey],
             UNCHANGED <<meta, asking, overtaken>>
      PROVE  KeysInv'
  BY <1>0, <1>6 DEF KeysInv, KeysTyped, KeysGiven, OnlyGivenOut, HoldsTheStored
<1>7. ASSUME UNCHANGED <<meta, asking, overtaken, subscribed>> PROVE KeysInv'
  BY <1>7 DEF KeysInv, KeysTyped, KeysGiven, OnlyGivenOut, HoldsTheStored
<1>8. ASSUME NEW it \in Browser \X Key, PushOne(it) PROVE KeysInv'
  BY <1>6, <1>7, <1>8 DEF PushOne, DeleteSubscription
<1>9. ASSUME NEW b \in Browser, Unsubscribe(b) PROVE KeysInv'
  BY <1>6, <1>9 DEF Unsubscribe, DeleteSubscription
<1>10. CASE ListSubscriptions \/ StartPush \/ EndPush \/ UNCHANGED keyVars
  BY <1>7, <1>10 DEF ListSubscriptions, StartPush, EndPush, keyVars
<1> QED
  BY <1>1, <1>2, <1>3, <1>4, <1>5, <1>8, <1>9, <1>10 DEF KeysNext

\* However many first calls overlap: a call that was not overtaken returned the stored
\* pair, and the public row and every browser have that pair or one an overtaken call
\* returned (webpush.py 59-82).
THEOREM OnePairForAll == KeysSpec => []KeysAreStable
<1>1. KeysInit => KeysInv
  BY DEF KeysInit, KeysInv, KeysTyped, OnlyGivenOut, HoldsTheStored, Key
<1>2. KeysInv => KeysAreStable
  <2> SUFFICES ASSUME KeysInv PROVE KeysAreStable
    OBVIOUS
  <2>1. KeysGiven \subseteq {meta["private"]} \union Superseded
    BY DEF KeysInv, HoldsTheStored, KeysGiven, Superseded
  <2> QED BY <2>1 DEF KeysInv, OnlyGivenOut, HoldsTheStored, KeysAreStable
<1> QED
  BY <1>1, <1>2, KeysStep, PTL DEF KeysSpec

-----------------------------------------------------------------------------
(* What is served was finished.                                            *)

JobState == {"none", "queued", "running", "done", "error"}

ExportsTyped ==
  /\ job \in [ExportId -> [state : JobState, age : Age]]
  /\ cut \in [ExportId -> [is : {"none", "partial", "whole"}, age : Age]]
  /\ toDo \in Seq(ExportId)

\* Jobs wait once and as queued; only the worker's is running.
QueueInOrder ==
  /\ \A i \in 1 .. Len(toDo) : job[toDo[i]].state = "queued"
  /\ \A i, j \in 1 .. Len(toDo) : toDo[i] = toDo[j] => i = j
WorkerHasItsJob ==
  /\ worker = [on |-> worker.on, at |-> worker.at]
  /\ worker.at # "idle" => worker.on \in ExportId /\ job[worker.on].state = "running"
NewIsNew == \A e \in ExportId \ used : job[e].state = "none"

ExportsInv == ExportsTyped /\ QueueInOrder /\ WorkerHasItsJob /\ NewIsNew /\ DoneIsDownloadable

LEMMA AgesAreAges ==
  /\ 0 \in Age /\ \A a \in Age : Older(a) \in Age
  BY ExportsAssumption DEF Age, Older

\* A step that leaves the queue and the worker alone, and no running or queued job
\* behind, keeps the order.
LEMMA ExportsStep == ExportsInv /\ ExportsNext => ExportsInv'
<1> SUFFICES ASSUME ExportsInv, ExportsNext PROVE ExportsInv'
  OBVIOUS
<1> USE AgesAreAges
<1>1. ASSUME NEW e \in ExportId, CreateExport(e) PROVE ExportsInv'
  <2>1. /\ job[e].state = "none" /\ job' = [job EXCEPT ![e] = [state |-> "queued", age |-> 0]]
        /\ toDo' = Append(toDo, e) /\ used' = used \union {e} /\ UNCHANGED <<worker, cut>>
    BY <1>1 DEF CreateExport, ExportsInv, NewIsNew
  <2>2. job' \in [ExportId -> [state : JobState, age : Age]] /\ toDo' \in Seq(ExportId)
    BY <2>1 DEF ExportsInv, ExportsTyped, JobState
  <2>3. \A i \in 1 .. Len(toDo) : toDo[i] \in ExportId /\ toDo[i] # e /\ toDo'[i] = toDo[i]
    BY <2>1 DEF ExportsInv, ExportsTyped, QueueInOrder
  <2>4. Len(toDo') = Len(toDo) + 1 /\ toDo'[Len(toDo) + 1] = e /\ Len(toDo) \in Nat
    BY <2>1 DEF ExportsInv, ExportsTyped
  <2>5. \A f \in ExportId : job'[f].state = IF f = e THEN "queued" ELSE job[f].state
    BY <2>1 DEF ExportsInv, ExportsTyped
  <2>6. \A i \in 1 .. Len(toDo') : i \in 1 .. Len(toDo) \/ i = Len(toDo) + 1
    BY <2>4
  <2>7. QueueInOrder'
    BY <2>1, <2>3, <2>4, <2>5, <2>6 DEF ExportsInv, QueueInOrder
  <2>8. WorkerHasItsJob' /\ NewIsNew' /\ DoneIsDownloadable'
    BY <2>1, <2>5 DEF ExportsInv, WorkerHasItsJob, NewIsNew, DoneIsDownloadable
  <2> QED BY <2>1, <2>2, <2>7, <2>8 DEF ExportsInv, ExportsTyped
<1>2. CASE WorkerTakes
  <2>1. PICK e : e = Head(toDo)
    OBVIOUS
  <2>2. /\ toDo # <<>> /\ toDo' = Tail(toDo) /\ worker' = [on |-> e, at |-> "listing"]
        /\ job' = [job EXCEPT ![e].state = "running"] /\ UNCHANGED <<cut, used>>
    BY <1>2, <2>1 DEF WorkerTakes
  <2>3. e \in ExportId /\ toDo[1] = e /\ 1 \in 1 .. Len(toDo)
    BY <2>1, <2>2 DEF ExportsInv, ExportsTyped
  <2>4. job[e].state = "queued" /\ job[e] \in [state : JobState, age : Age]
    BY <2>3 DEF ExportsInv, ExportsTyped, QueueInOrder
  <2>5. /\ job' \in [ExportId -> [state : JobState, age : Age]]
        /\ \A f \in ExportId : job'[f].state = IF f = e THEN "running" ELSE job[f].state
    BY <2>2, <2>3, <2>4 DEF ExportsInv, ExportsTyped, JobState
  <2>6. /\ toDo' \in Seq(ExportId) /\ Len(toDo') = Len(toDo) - 1 /\ Len(toDo) \in Nat
        /\ \A i \in 1 .. Len(toDo') : toDo'[i] = toDo[i + 1]
    BY <2>2 DEF ExportsInv, ExportsTyped
  <2>7. \A i \in 1 .. Len(toDo') : i + 1 \in 1 .. Len(toDo) /\ toDo[i + 1] # e /\ toDo[i + 1] \in ExportId
    BY <2>3, <2>6 DEF ExportsInv, ExportsTyped, QueueInOrder
  <2>8. QueueInOrder'
    <3>1. \A i \in 1 .. Len(toDo') : job'[toDo'[i]].state = "queued"
      BY <2>5, <2>6, <2>7 DEF ExportsInv, QueueInOrder
    <3>2. ASSUME NEW i \in 1 .. Len(toDo'), NEW j \in 1 .. Len(toDo'), toDo'[i] = toDo'[j]
          PROVE  i = j
      <4>1. i + 1 \in 1 .. Len(toDo) /\ j + 1 \in 1 .. Len(toDo) /\ toDo[i + 1] = toDo[j + 1]
        BY <2>6, <2>7, <3>2
      <4>2. i + 1 = j + 1
        BY <4>1 DEF ExportsInv, QueueInOrder
      <4> QED BY <4>2
    <3> QED BY <3>1, <3>2 DEF QueueInOrder
  <2>9. WorkerHasItsJob' /\ NewIsNew' /\ DoneIsDownloadable'
    BY <2>2, <2>3, <2>4, <2>5 DEF ExportsInv, WorkerHasItsJob, NewIsNew, DoneIsDownloadable
  <2> QED BY <2>2, <2>5, <2>6, <2>8, <2>9 DEF ExportsInv, ExportsTyped
\* The worker's job ends, well or badly.
<1>3. ASSUME NEW state \in {"done", "error"}, worker.at # "idle",
             job' = [job EXCEPT ![worker.on].state = state],
             cut' \in [ExportId -> [is : {"none", "partial", "whole"}, age : Age]],
             \A f \in ExportId \ {worker.on} : cut'[f] = cut[f],
             state = "done" => cut'[worker.on].is = "whole",
             worker' = Idle, UNCHANGED <<toDo, used>>
      PROVE  ExportsInv'
  <2>1. PICK e : e = worker.on
    OBVIOUS
  <2>2. e \in ExportId /\ job[e].state = "running" /\ job[e] \in [state : JobState, age : Age]
    BY <1>3, <2>1 DEF ExportsInv, WorkerHasItsJob, ExportsTyped
  <2>3. /\ job' \in [ExportId -> [state : JobState, age : Age]]
        /\ \A f \in ExportId : job'[f].state = IF f = e THEN state ELSE job[f].state
    BY <1>3, <2>1, <2>2 DEF ExportsInv, ExportsTyped, JobState
  <2>4. \A i \in 1 .. Len(toDo) : toDo[i] \in ExportId /\ toDo[i] # e
    BY <2>2 DEF ExportsInv, ExportsTyped, QueueInOrder
  <2>5. QueueInOrder'
    BY <1>3, <2>3, <2>4 DEF ExportsInv, QueueInOrder
  <2>6. WorkerHasItsJob' /\ NewIsNew' /\ DoneIsDownloadable'
    BY <1>3, <2>1, <2>2, <2>3 DEF Idle, ExportsInv, WorkerHasItsJob, NewIsNew, DoneIsDownloadable
  <2> QED BY <1>3, <2>3, <2>5, <2>6 DEF ExportsInv, ExportsTyped
<1>4. CASE StartCut
  <2>1. worker.at = "listing" /\ UNCHANGED <<toDo, used>>
    BY <1>4 DEF StartCut
  <2>2. /\ worker.on \in ExportId /\ job[worker.on].state = "running"
        /\ job[worker.on] \in [state : JobState, age : Age]
    BY <2>1 DEF ExportsInv, WorkerHasItsJob, ExportsTyped
  <2>3. CASE /\ worker' = Idle /\ job' = [job EXCEPT ![worker.on].state = "error"]
             /\ UNCHANGED cut
    <3>1. /\ cut' \in [ExportId -> [is : {"none", "partial", "whole"}, age : Age]]
          /\ \A f \in ExportId : cut'[f] = cut[f]
      BY <2>3 DEF ExportsInv, ExportsTyped
    <3> QED BY <1>3, <2>1, <2>3, <3>1 DEF Idle
  <2>4. CASE /\ worker' = [worker EXCEPT !.at = "cutting"] /\ UNCHANGED job
             /\ cut' = [cut EXCEPT ![worker.on] = [is |-> "partial", age |-> 0]]
    <3>1. job \in [ExportId -> [state : JobState, age : Age]]
      BY DEF ExportsInv, ExportsTyped
    <3>2. /\ cut' \in [ExportId -> [is : {"none", "partial", "whole"}, age : Age]]
          /\ \A f \in ExportId : job'[f].state = job[f].state
          /\ \A f \in ExportId \ {worker.on} : cut'[f] = cut[f]
      BY <2>4 DEF ExportsInv, ExportsTyped
    <3>3. QueueInOrder'
      BY <2>1, <2>4 DEF ExportsInv, QueueInOrder
    <3>4. WorkerHasItsJob'
      <4>1. PICK e : e = worker.on
        OBVIOUS
      <4>2. worker = [on |-> e, at |-> worker.at]
        BY <4>1 DEF ExportsInv, WorkerHasItsJob
      <4>3. worker' = [on |-> e, at |-> "cutting"]
        BY <2>4, <4>2
      <4> QED BY <2>2, <2>4, <4>1, <4>3 DEF WorkerHasItsJob
    <3>5. NewIsNew' /\ DoneIsDownloadable'
      BY <2>1, <2>2, <2>4, <3>2 DEF ExportsInv, NewIsNew, DoneIsDownloadable
    <3> QED BY <2>1, <2>4, <3>1, <3>2, <3>3, <3>4, <3>5 DEF ExportsInv, ExportsTyped
  <2> QED BY <1>4, <2>3, <2>4 DEF StartCut
<1>5. CASE EndCut
  <2>1. /\ worker.at = "cutting" /\ worker' = Idle /\ UNCHANGED <<toDo, used>>
    BY <1>5 DEF EndCut
  <2>2. worker.on \in ExportId
    BY <2>1 DEF ExportsInv, WorkerHasItsJob
  <2>3. PICK ok \in BOOLEAN :
          /\ job' = [job EXCEPT ![worker.on].state = IF ok THEN "done" ELSE "error"]
          /\ cut' = [cut EXCEPT ![worker.on] = IF ok THEN [is |-> "whole", age |-> 0] ELSE NoFile]
    BY <1>5 DEF EndCut
  <2>4. CASE ok
    <3>1. /\ job' = [job EXCEPT ![worker.on].state = "done"]
          /\ cut' = [cut EXCEPT ![worker.on] = [is |-> "whole", age |-> 0]]
      BY <2>3, <2>4
    <3>2. /\ cut' \in [ExportId -> [is : {"none", "partial", "whole"}, age : Age]]
          /\ \A f \in ExportId \ {worker.on} : cut'[f] = cut[f]
          /\ cut'[worker.on].is = "whole"
      BY <2>2, <3>1 DEF ExportsInv, ExportsTyped
    <3> QED BY <1>3, <2>1, <3>1, <3>2 DEF Idle
  <2>5. CASE ~ok
    <3>1. /\ job' = [job EXCEPT ![worker.on].state = "error"]
          /\ cut' = [cut EXCEPT ![worker.on] = [is |-> "none", age |-> 0]]
      BY <2>3, <2>5 DEF NoFile
    <3>2. /\ cut' \in [ExportId -> [is : {"none", "partial", "whole"}, age : Age]]
          /\ \A f \in ExportId \ {worker.on} : cut'[f] = cut[f]
      BY <2>2, <3>1 DEF ExportsInv, ExportsTyped
    <3> QED BY <1>3, <2>1, <3>1, <3>2 DEF Idle
  <2> QED BY <2>4, <2>5
<1>6. ASSUME NEW stuck, CleanupOld(stuck) PROVE ExportsInv'
  <2>1. PICK gone \in SUBSET {e \in ExportId : Old(e) /\ ~(Kept(e) /\ e \in stuck)},
             swept \in SUBSET {e \in ExportId : cut[e].age > KeepFor /\ ~Kept(e)} :
          /\ job' = [e \in ExportId |-> IF e \in gone THEN NoJob ELSE job[e]]
          /\ cut' = [e \in ExportId |->
               IF e \in swept \/ (e \in gone /\ Kept(e)) THEN NoFile ELSE cut[e]]
          /\ UNCHANGED <<toDo, worker, used>>
    BY <1>6 DEF CleanupOld
  <2>2. /\ job' \in [ExportId -> [state : JobState, age : Age]]
        /\ cut' \in [ExportId -> [is : {"none", "partial", "whole"}, age : Age]]
        /\ \A e \in ExportId :
             /\ job[e].state \in {"none", "queued", "running"} => job'[e].state = job[e].state
             /\ job'[e].state = "done" => job[e].state = "done" /\ cut'[e] = cut[e]
    BY <2>1 DEF ExportsInv, ExportsTyped, Old, Kept, NoJob, NoFile, JobState
  <2>3. \A i \in 1 .. Len(toDo) : toDo[i] \in ExportId
    BY DEF ExportsInv, ExportsTyped
  <2>4. QueueInOrder'
    BY <2>1, <2>2, <2>3 DEF ExportsInv, QueueInOrder
  <2>5. WorkerHasItsJob' /\ NewIsNew' /\ DoneIsDownloadable'
    BY <2>1, <2>2 DEF ExportsInv, WorkerHasItsJob, NewIsNew, DoneIsDownloadable
  <2> QED BY <2>1, <2>2, <2>4, <2>5 DEF ExportsInv, ExportsTyped
<1>7. CASE ExportsAge
  <2>1. /\ \A e \in ExportId : [job[e] EXCEPT !.age = Older(@)] = [state |-> job[e].state, age |-> Older(job[e].age)]
        /\ \A e \in ExportId : [cut[e] EXCEPT !.age = Older(@)] = [is |-> cut[e].is, age |-> Older(cut[e].age)]
    BY DEF ExportsInv, ExportsTyped
  <2>2. /\ job' = [e \in ExportId |-> IF job[e].state = "none" THEN NoJob
                     ELSE [state |-> job[e].state, age |-> Older(job[e].age)]]
        /\ cut' = [e \in ExportId |-> IF cut[e].is = "none" \/ worker.on = e THEN cut[e]
                     ELSE [is |-> cut[e].is, age |-> Older(cut[e].age)]]
        /\ UNCHANGED <<toDo, worker, used>>
    BY <1>7, <2>1 DEF ExportsAge
  <2>3. /\ job' \in [ExportId -> [state : JobState, age : Age]]
        /\ cut' \in [ExportId -> [is : {"none", "partial", "whole"}, age : Age]]
        /\ \A e \in ExportId : job'[e].state = job[e].state /\ cut'[e].is = cut[e].is
    BY <2>2 DEF ExportsInv, ExportsTyped, NoJob, JobState
  <2>4. \A i \in 1 .. Len(toDo) : toDo[i] \in ExportId
    BY DEF ExportsInv, ExportsTyped
  <2>5. QueueInOrder'
    BY <2>2, <2>3, <2>4 DEF ExportsInv, QueueInOrder
  <2>6. WorkerHasItsJob' /\ NewIsNew' /\ DoneIsDownloadable'
    BY <2>2, <2>3 DEF ExportsInv, WorkerHasItsJob, NewIsNew, DoneIsDownloadable
  <2> QED BY <2>2, <2>3, <2>5, <2>6 DEF ExportsInv, ExportsTyped
<1>8. CASE ExportsRestart
  <2>1. /\ job' = [e \in ExportId |-> NoJob] /\ toDo' = <<>> /\ worker' = Idle
        /\ UNCHANGED <<cut, used>>
    BY <1>8 DEF ExportsRestart
  <2>2. ExportsTyped' /\ QueueInOrder'
    BY <2>1 DEF ExportsInv, ExportsTyped, QueueInOrder, NoJob, JobState
  <2> QED
    BY <2>1, <2>2 DEF ExportsInv, WorkerHasItsJob, NewIsNew, DoneIsDownloadable, NoJob, Idle
<1> QED
  BY <1>1, <1>2, <1>4, <1>5, <1>6, <1>7, <1>8 DEF ExportsNext, ExportSteps

-----------------------------------------------------------------------------
PreviewsWhole == \A h \in Hour : preview[h] # "partial"

LEMMA PreviewsStep ==
  ASSUME preview \in [Hour -> File], PreviewsWhole, PreviewsNext
  PROVE  preview' \in [Hour -> File] /\ PreviewsWhole'
<1>1. CASE EndPreview
  <2>1. PICK h : h = rendering
    OBVIOUS
  <2>2. preview' = [preview EXCEPT ![h] = "whole"] \/ preview' = preview
    BY <1>1, <2>1 DEF EndPreview
  <2> QED BY <2>2 DEF File, PreviewsWhole
<1>2. CASE UNCHANGED preview
  BY <1>2 DEF PreviewsWhole
<1> QED
  BY <1>1, <1>2 DEF PreviewsNext, HourPasses, FootageChanges, StartPreview, PreviewsInterrupted

-----------------------------------------------------------------------------
AtWorkOnIt == {"asking", "listed", "cutting", "cut"}

ClipsInv ==
  /\ viewer \in [Viewer -> AtWorkOnIt \union {"none", "serving"}]
  /\ ~crowded =>
       /\ clipPath => clip = "whole"
       /\ \A v \in Viewer :
            /\ viewer[v] = "serving" => clipPath
            /\ viewer[v] = "cut" => clip = "whole"
            /\ viewer[v] \in AtWorkOnIt =>
                 ~clipPath /\ \A u \in Viewer \ {v} : viewer[u] = "none"

LEMMA ClipsStep ==
  ASSUME ClipsInv, ClipsNext
  PROVE  ClipsInv'
<1>1. ASSUME NEW v \in Viewer,
             NEW place \in AtWorkOnIt \union {"none", "serving"}, ViewerGoes(v, place)
      PROVE  /\ viewer' \in [Viewer -> AtWorkOnIt \union {"none", "serving"}]
             /\ viewer'[v] = place /\ \A u \in Viewer \ {v} : viewer'[u] = viewer[u]
  BY <1>1 DEF ClipsInv, ViewerGoes
<1>2. ASSUME NEW v \in Viewer, FindClip(v) PROVE ClipsInv'
  <2>1. CASE clipPath /\ clip # "none"
    <3>1. ViewerGoes(v, "serving") /\ (~crowded' => ~crowded) /\ UNCHANGED <<clip, clipPath>>
      BY <1>2, <2>1 DEF FindClip
    <3>2. ~crowded => \A u \in Viewer : viewer[u] \notin AtWorkOnIt
      BY <2>1 DEF ClipsInv
    <3> QED BY <1>1, <2>1, <3>1, <3>2 DEF ClipsInv, AtWorkOnIt
  <2>2. CASE ~(clipPath /\ clip # "none")
    <3>1. /\ ViewerGoes(v, "asking") /\ UNCHANGED <<clip, clipPath>>
          /\ ~crowded' => ~crowded /\ \A u \in Viewer : viewer[u] = "none"
      BY <1>2, <2>2 DEF FindClip
    <3> QED BY <1>1, <2>2, <3>1 DEF ClipsInv, AtWorkOnIt
  <2> QED BY <2>1, <2>2
<1>3. ASSUME NEW v \in Viewer, ListClip(v) PROVE ClipsInv'
  <2>1. /\ ViewerGoes(v, "none") \/ ViewerGoes(v, "listed")
        /\ viewer[v] = "asking" /\ UNCHANGED <<clip, clipPath, crowded>>
    BY <1>3 DEF ListClip
  <2> QED BY <1>1, <2>1 DEF ClipsInv, AtWorkOnIt
<1>4. ASSUME NEW v \in Viewer, CutClip(v) PROVE ClipsInv'
  <2>1. viewer[v] = "listed" /\ ViewerGoes(v, "cutting") /\ UNCHANGED <<clipPath, crowded>>
    BY <1>4 DEF CutClip
  <2> QED BY <1>1, <2>1 DEF ClipsInv, AtWorkOnIt
<1>5. ASSUME NEW v \in Viewer, EndClip(v) PROVE ClipsInv'
  <2>1. /\ viewer[v] = "cutting" /\ UNCHANGED <<clipPath, crowded>>
        /\ \/ ViewerGoes(v, "cut") /\ clip' = "whole"
           \/ ViewerGoes(v, "none") /\ clip' = "none"
    BY <1>5 DEF EndClip
  <2> QED BY <1>1, <2>1 DEF ClipsInv, AtWorkOnIt
<1>6. ASSUME NEW v \in Viewer, StoreClip(v) PROVE ClipsInv'
  <2>1. /\ viewer[v] = "cut" /\ ViewerGoes(v, "serving") /\ clipPath' = TRUE
        /\ UNCHANGED <<clip, crowded>>
    BY <1>6 DEF StoreClip
  <2> QED BY <1>1, <2>1 DEF ClipsInv, AtWorkOnIt
<1>7. ASSUME NEW v \in Viewer, ClipServed(v) PROVE ClipsInv'
  <2>1. viewer[v] = "serving" /\ ViewerGoes(v, "none") /\ UNCHANGED <<clip, clipPath, crowded>>
    BY <1>7 DEF ClipServed
  <2> QED BY <1>1, <2>1 DEF ClipsInv, AtWorkOnIt
<1>8. CASE ClipsCrash
  BY <1>8 DEF ClipsCrash, ClipsInv, AtWorkOnIt
<1> QED
  BY <1>2, <1>3, <1>4, <1>5, <1>6, <1>7, <1>8 DEF ClipsNext

-----------------------------------------------------------------------------
MediaInv == ExportsInv /\ preview \in [Hour -> File] /\ PreviewsWhole /\ ClipsInv

LEMMA ExportsRest == ExportsInv /\ UNCHANGED exportVars => ExportsInv'
  BY DEF exportVars, ExportsInv, ExportsTyped, QueueInOrder, WorkerHasItsJob, NewIsNew,
         DoneIsDownloadable

LEMMA ClipsRest == ClipsInv /\ UNCHANGED clipVars => ClipsInv'
  BY DEF clipVars, ClipsInv

\* Whatever the API serves was finished: exports that are done and previews in place,
\* however many there are, and the clip of an event as long as no two requests were ever
\* at work on it at once; once two were, nothing is said of the clip (recordings.py
\* 168-208, previews.py 160-189, events.py 157-184).
THEOREM FinishedOnly == MediaSpec => []ServedMediaIsWhole
<1>1. MediaInit => MediaInv
  <2> SUFFICES ASSUME MediaInit PROVE MediaInv
    OBVIOUS
  <2>1. ExportsInv
    BY AgesAreAges DEF MediaInit, ExportsInit, ExportsInv, ExportsTyped, QueueInOrder,
       WorkerHasItsJob, NewIsNew, DoneIsDownloadable, NoJob, NoFile, Idle, JobState
  <2>2. preview \in [Hour -> File] /\ PreviewsWhole
    BY DEF MediaInit, PreviewsInit, PreviewsWhole, File
  <2>3. ClipsInv
    BY DEF MediaInit, ClipsInit, ClipsInv, AtWorkOnIt
  <2> QED BY <2>1, <2>2, <2>3 DEF MediaInv
<1>2. MediaInv /\ [MediaNext]_<<exportVars, previewVars, clipVars>> => MediaInv'
  <2> SUFFICES ASSUME MediaInv, [MediaNext]_<<exportVars, previewVars, clipVars>> PROVE MediaInv'
    OBVIOUS
  <2>1. UNCHANGED previewVars => preview' \in [Hour -> File] /\ PreviewsWhole'
    BY DEF previewVars, MediaInv, PreviewsWhole
  <2>2. CASE ExportsNext /\ UNCHANGED <<previewVars, clipVars>>
    BY <2>1, <2>2, ExportsStep, ClipsRest DEF MediaInv
  <2>3. CASE PreviewsNext /\ UNCHANGED <<exportVars, clipVars>>
    BY <2>3, PreviewsStep, ExportsRest, ClipsRest DEF MediaInv
  <2>4. CASE ClipsNext /\ UNCHANGED <<exportVars, previewVars>>
    BY <2>1, <2>4, ClipsStep, ExportsRest DEF MediaInv
  <2>5. CASE UNCHANGED <<exportVars, previewVars, clipVars>>
    BY <2>1, <2>5, ExportsRest, ClipsRest DEF MediaInv
  <2> QED BY <2>2, <2>3, <2>4, <2>5 DEF MediaNext
<1>3. MediaInv => ServedMediaIsWhole
  BY DEF MediaInv, ExportsInv, PreviewsWhole, ClipsInv, ServedMediaIsWhole
<1> QED BY <1>1, <1>2, <1>3, PTL DEF MediaSpec

-----------------------------------------------------------------------------
(* Types of the makers of media and of the keys.                           *)

\* A job changes its state; nobody's changes nothing.
LEMMA JobGoes ==
  ASSUME ExportsTypeOK, NEW e, NEW state \in JobState, job' = [job EXCEPT ![e].state = state]
  PROVE  job' \in [ExportId -> [state : JobState, age : Age]]
<1>1. /\ job \in [ExportId -> [state : JobState, age : Age]]
      /\ DOMAIN job' = ExportId /\ job' = [f \in ExportId |-> job'[f]]
  BY DEF ExportsTypeOK, JobState
<1>2. ASSUME NEW f \in ExportId PROVE job'[f] \in [state : JobState, age : Age]
  <2>1. job[f] \in [state : JobState, age : Age]
    BY <1>1
  <2>2. job'[f] = IF f = e THEN [job[f] EXCEPT !.state = state] ELSE job[f]
    BY <1>1
  <2> QED BY <2>1, <2>2
<1> QED BY <1>1, <1>2

LEMMA ExportsTypesStep == ExportsTypeOK /\ ExportsNext => ExportsTypeOK'
<1> SUFFICES ASSUME ExportsTypeOK, ExportsNext PROVE ExportsTypeOK'
  OBVIOUS
<1> USE AgesAreAges
<1>1. ASSUME NEW e \in ExportId, CreateExport(e) PROVE ExportsTypeOK'
  BY <1>1 DEF CreateExport, ExportsTypeOK
<1>2. CASE WorkerTakes
  <2>1. Head(toDo) \in ExportId /\ toDo' \in Seq(ExportId)
    BY <1>2 DEF WorkerTakes, ExportsTypeOK
  <2>2. worker' \in [on : ExportId \union {Nobody}, at : {"idle", "listing", "cutting"}]
    BY <1>2, <2>1 DEF WorkerTakes
  <2>3. job' \in [ExportId -> [state : {"none", "queued", "running", "done", "error"}, age : Age]]
    BY <1>2, JobGoes DEF WorkerTakes, JobState
  <2> QED BY <1>2, <2>1, <2>2, <2>3 DEF WorkerTakes, ExportsTypeOK
<1>3. CASE StartCut
  <2>1. CASE /\ worker' = Idle /\ job' = [job EXCEPT ![worker.on].state = "error"]
             /\ UNCHANGED <<cut, list>>
    <3>1. job' \in [ExportId -> [state : {"none", "queued", "running", "done", "error"}, age : Age]]
      BY <2>1, JobGoes DEF JobState
    <3>2. worker' \in [on : ExportId \union {Nobody}, at : {"idle", "listing", "cutting"}]
      BY <2>1 DEF Idle
    <3> QED BY <1>3, <2>1, <3>1, <3>2 DEF StartCut, ExportsTypeOK
  <2>2. CASE /\ worker' = [worker EXCEPT !.at = "cutting"]
             /\ list' = [list EXCEPT ![worker.on] = 0]
             /\ cut' = [cut EXCEPT ![worker.on] = [is |-> "partial", age |-> 0]]
             /\ UNCHANGED job
    <3>1. worker' \in [on : ExportId \union {Nobody}, at : {"idle", "listing", "cutting"}]
      BY <2>2 DEF ExportsTypeOK
    <3>2. list' \in [ExportId -> Age \union {MaxNow + 1}]
      BY <2>2 DEF ExportsTypeOK
    <3>3. cut' \in [ExportId -> [is : {"none", "partial", "whole"}, age : Age]]
      BY <2>2 DEF ExportsTypeOK
    <3> QED BY <1>3, <2>2, <3>1, <3>2, <3>3 DEF StartCut, ExportsTypeOK
  <2> QED BY <1>3, <2>1, <2>2 DEF StartCut
<1>4. CASE EndCut
  <2>1. worker' \in [on : ExportId \union {Nobody}, at : {"idle", "listing", "cutting"}]
    BY <1>4 DEF EndCut, ExportsTypeOK, Idle
  <2>2. list' \in [ExportId -> Age \union {MaxNow + 1}]
    BY <1>4 DEF EndCut, ExportsTypeOK, NoList
  <2> QED BY <1>4, <2>1, <2>2 DEF EndCut, ExportsTypeOK, NoFile
<1>5. ASSUME NEW stuck, CleanupOld(stuck) PROVE ExportsTypeOK'
  BY <1>5 DEF CleanupOld, ExportsTypeOK, NoFile, NoJob, NoList
<1>6. CASE ExportsAge
  BY <1>6 DEF ExportsAge, ExportsTypeOK, NoJob, NoList
<1>7. CASE ExportsRestart
  BY <1>7 DEF ExportsRestart, ExportsTypeOK, NoJob, NoList, Idle
<1> QED BY <1>1, <1>2, <1>3, <1>4, <1>5, <1>6, <1>7 DEF ExportsNext, ExportSteps

LEMMA PreviewsTypesStep == PreviewsTypeOK /\ PreviewsNext => PreviewsTypeOK'
  BY DEF PreviewsTypeOK, PreviewsNext, HourPasses, FootageChanges, StartPreview, EndPreview,
         PreviewsInterrupted, File

LEMMA ClipsTypesStep == ClipsTypeOK /\ ClipsNext => ClipsTypeOK'
  BY DEF ClipsTypeOK, ClipsNext, FindClip, ListClip, CutClip, EndClip, StoreClip, ClipServed,
         ClipsCrash, ViewerGoes, File

LEMMA KeysTypesStep == KeysTypeOK /\ KeysNext => KeysTypeOK'
<1> SUFFICES ASSUME KeysTypeOK, KeysNext PROVE KeysTypeOK'
  OBVIOUS
<1>1. ASSUME NEW c \in KeyCall, ReadKey(c) \/ MintKey(c) \/ RereadKey(c) \/ DeriveKey(c)
      PROVE  KeysTypeOK'
  BY <1>1 DEF KeysTypeOK, ReadKey, MintKey, RereadKey, DeriveKey, At, SetMeta, Key
<1>2. ASSUME NEW b \in Browser, Subscribe(b) \/ Unsubscribe(b) PROVE KeysTypeOK'
  BY <1>2 DEF KeysTypeOK, Subscribe, Unsubscribe, PutSubscription, DeleteSubscription, Key
<1>3. ASSUME NEW it \in Browser \X Key, PushOne(it) PROVE KeysTypeOK'
  <2>1. subscribed' \in [Browser -> Key]
    BY <1>3 DEF KeysTypeOK, PushOne, DeleteSubscription, Key
  <2>2. pushing' \in [pc : {"none", "listed", "sending"}, key : Key, to : SUBSET (Browser \X Key),
                      ok : BOOLEAN, failed : BOOLEAN]
    <3>1. CASE pushing' = [pushing EXCEPT !.to = @ \ {it}]
      BY <3>1 DEF KeysTypeOK
    <3>2. ASSUME NEW ok \in {FALSE, it[2] = pushing.key},
                 pushing' = [pushing EXCEPT !.to = @ \ {it}, !.ok = @ \/ ok, !.failed = @ \/ ~ok]
          PROVE  pushing' \in [pc : {"none", "listed", "sending"}, key : Key,
                               to : SUBSET (Browser \X Key), ok : BOOLEAN, failed : BOOLEAN]
      <4>1. ok = TRUE \/ ok = FALSE
        BY Zenon
      <4>2. CASE ok = TRUE
        BY <3>2, <4>2 DEF KeysTypeOK
      <4>3. CASE ok = FALSE
        BY <3>2, <4>3 DEF KeysTypeOK
      <4> QED BY <4>1, <4>2, <4>3
    <3> QED BY <1>3, <3>1, <3>2 DEF PushOne
  <2> QED BY <1>3, <2>1, <2>2 DEF KeysTypeOK, PushOne
<1>4. CASE ListSubscriptions \/ StartPush \/ EndPush
  <2>1. Subscriptions \subseteq Browser \X Key
    BY DEF Subscriptions, KeysTypeOK
  <2>2. NotPushing \in [pc : {"none", "listed", "sending"}, key : Key, to : SUBSET (Browser \X Key),
                        ok : BOOLEAN, failed : BOOLEAN]
    BY DEF NotPushing, Key
  <2>3. pushing' \in [pc : {"none", "listed", "sending"}, key : Key, to : SUBSET (Browser \X Key),
                      ok : BOOLEAN, failed : BOOLEAN]
    <3>1. CASE ListSubscriptions
      BY <3>1, <2>1, <2>2 DEF ListSubscriptions
    <3>2. CASE StartPush
      <4>1. PICK c \in KeyCall : pushing' = [pushing EXCEPT !.pc = "sending", !.key = asking[c].key]
        BY <3>2 DEF StartPush
      <4>2. PICK k : k = asking[c].key
        OBVIOUS
      <4>3. k \in Key
        BY <4>2 DEF KeysTypeOK
      <4>4. pushing' = [pushing EXCEPT !.pc = "sending", !.key = k]
        BY <4>1, <4>2
      <4> QED BY <4>3, <4>4 DEF KeysTypeOK
    <3>3. CASE EndPush
      BY <3>3, <2>2 DEF EndPush
    <3> QED BY <1>4, <3>1, <3>2, <3>3
  <2> QED BY <1>4, <2>3 DEF ListSubscriptions, StartPush, EndPush, KeysTypeOK
<1> QED BY <1>1, <1>2, <1>3, <1>4 DEF KeysNext

\* The four, at the start.
LEMMA WebTypesStart ==
  ASSUME ExportsInit, PreviewsInit, ClipsInit, KeysInit
  PROVE  ExportsTypeOK /\ PreviewsTypeOK /\ ClipsTypeOK /\ KeysTypeOK
<1>1. ExportsTypeOK
  BY AgesAreAges DEF ExportsInit, ExportsTypeOK, NoJob, NoFile, NoList, Idle
<1>2. PreviewsTypeOK /\ ClipsTypeOK
  BY DEF PreviewsInit, PreviewsTypeOK, ClipsInit, ClipsTypeOK, File
<1>3. KeysTypeOK
  BY DEF KeysInit, KeysTypeOK, Key, NotPushing
<1> QED BY <1>1, <1>2, <1>3

=============================================================================
