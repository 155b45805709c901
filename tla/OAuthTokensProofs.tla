-------------------------- MODULE OAuthTokensProofs ---------------------------
(***************************************************************************)
(* Theorems about OAuthTokens for any number of users, states, grants and  *)
(* requests, any TTL and any set of faults.                                *)
(*                                                                         *)
(* The argument follows a state from its issue: while it is in the map it  *)
(* names its user and no request or grant has it (Spent); once redeemed,   *)
(* one request holds it, and then one grant (Once). So a token's owner is  *)
(* known from its grant (OwnTokens), and a token on its way to Save is in  *)
(* no row and was never handed to revoke (Unsaved).                        *)
(***************************************************************************)
EXTENDS OAuthTokens, TLAPS

Spent ==
  /\ \A s \in States : bound[s] # NoUser => issuedTo[s] = bound[s]
  /\ \A g \in Grants :
       Granted(g) => issuedTo[consent[g]] # NoUser /\ bound[consent[g]] = NoUser
  /\ \A r \in Requests :
       via[r] # NoState => issuedTo[via[r]] = who[r] /\ bound[via[r]] = NoUser

Once ==
  /\ \A q, r \in Requests : via[r] # NoState /\ via[q] = via[r] => q = r
  /\ \A g, h \in Grants : Granted(g) /\ g # h => consent[g] # consent[h]
  /\ \A r \in Requests :
       /\ pc[r] = "exchange" => \A g \in Grants : consent[g] # via[r]
       /\ pc[r] = "save"     => consent[tok[r]] = via[r]

AllGranted ==
  /\ \A u \in Users : HasRow(u) => Granted(refresh[u]) /\ Granted(access[u])
  /\ \A r \in Requests : tok[r] # NoGrant => Granted(tok[r])
  /\ \A g \in revoking \cup revoked : Granted(g)

Unsaved ==
  \A r \in Requests :
    pc[r] = "save" => /\ tok[r] \notin revoking \cup revoked
                      /\ \A u \in Users : refresh[u] # tok[r]

Redemption == Spent /\ Once
Ownership == AllGranted /\ OwnTokens /\ Unsaved /\ RevokeSpares
Inv     == TypeOK /\ Redemption /\ Ownership

-------------------------------------------------------------------------------
\* A step of request r at each place it touches.
MovedTo(r, l, u, s, g) ==
  /\ pc'[r] = l /\ who'[r] = u /\ via'[r] = s /\ tok'[r] = g
  /\ \A q \in Requests \ {r} :
       pc'[q] = pc[q] /\ who'[q] = who[q] /\ via'[q] = via[q] /\ tok'[q] = tok[q]

\* A request moved to a point with what that point needs is a request again.
LEMMA MoveOK ==
  ASSUME RequestsOK, NEW r \in Requests, NEW l \in Points,
         NEW u \in Users \cup {NoUser}, NEW s \in States \cup {NoState},
         NEW g \in Grants \cup {NoGrant}, Move(r, l, u, s, g),
         u # NoUser <=> l # "idle",
         s # NoState <=> l \in {"exchange", "save"},
         g # NoGrant <=> l \notin {"idle", "exchange"}
  PROVE  RequestsOK' /\ MovedTo(r, l, u, s, g)
<1>1. MovedTo(r, l, u, s, g)
  BY DEF RequestsOK, Move, MovedTo
<1>2. /\ pc' \in [Requests -> Points]
      /\ who' \in [Requests -> Users \cup {NoUser}]
      /\ via' \in [Requests -> States \cup {NoState}]
      /\ tok' \in [Requests -> Grants \cup {NoGrant}]
  BY DEF RequestsOK, Move
<1>. QED
  BY <1>1, <1>2 DEF RequestsOK, MovedTo

\* A request that is answered keeps nothing.
LEMMA AnswerOK ==
  ASSUME RequestsOK, NEW r \in Requests, Answer(r)
  PROVE  RequestsOK' /\ MovedTo(r, "idle", NoUser, NoState, NoGrant)
<1>. Move(r, "idle", NoUser, NoState, NoGrant)
  BY DEF Answer
<1>. QED
  BY MoveOK, "idle" \in Points DEF Points

\* What a request holds at each of its points.
LEMMA Held ==
  ASSUME RequestsOK, NEW r \in Requests
  PROVE  /\ pc[r] # "idle" => who[r] \in Users
         /\ pc[r] \in {"exchange", "save"} => via[r] \in States
         /\ pc[r] \in {"save", "refresh", "update", "use"} => tok[r] \in Grants
BY DEF RequestsOK

\* The row after an access token was put into it.
PutTo(u, g) ==
  \A v \in Users : access'[v] \in {access[v]} \cup IF v = u /\ HasRow(u) THEN {g} ELSE {}

LEMMA PutOK ==
  ASSUME RowOK, NEW u \in Users, NEW g \in Grants, NEW o, PutAccess(u, g, o),
         UNCHANGED refresh
  PROVE  RowOK' /\ PutTo(u, g)
<1>1. CASE o # "err" /\ HasRow(u)
  <2>. access' = [access EXCEPT ![u] = g] /\ fresh' = [fresh EXCEPT ![u] = TRUE]
    BY <1>1 DEF PutAccess, SetAccess
  <2>. QED
    BY <1>1, TokensAssumption DEF RowOK, HasRow, PutTo
<1>2. CASE ~(o # "err" /\ HasRow(u))
  <2>. UNCHANGED <<access, fresh>>
    BY <1>2 DEF PutAccess
  <2>. QED
    BY DEF RowOK, HasRow, PutTo
<1>. QED
  BY <1>1, <1>2

\* Every step keeps the types, and rows and requests complete.
LEMMA TypeStep == TypeOK /\ [Next]_vars => TypeOK'
<1>. SUFFICES ASSUME TypeOK, [Next]_vars PROVE TypeOK'
  OBVIOUS
<1>. USE StoreAssumption, TokensAssumption
<1>. StoreTypeOK /\ RowOK /\ RequestsOK /\ GoogleOK
  BY DEF TypeOK
<1>a. UNCHANGED storeVars => StoreTypeOK'
  BY DEF storeVars, entries, sweeper, StoreTypeOK
<1>b. UNCHANGED row => RowOK'
  BY DEF row, RowOK, HasRow
<1>c. UNCHANGED requests => RequestsOK'
  BY DEF requests, RequestsOK
<1>d. UNCHANGED <<revoking, google>> => GoogleOK'
  BY DEF google, GoogleOK
<1>1. ASSUME NEW s \in States, NEW u \in Users, ConsentURL(s, u) PROVE TypeOK'
  <2>1. StoreTypeOK'
    <3>1. now + TTL \in Nat
      BY DEF StoreTypeOK
    <3>. QED
      BY <1>1, <3>1 DEF ConsentURL, Issue, StoreTypeOK, sweeper
  <2>. QED
    BY <1>1, <1>b, <1>c, <1>d, <2>1 DEF ConsentURL, TypeOK
<1>2. ASSUME NEW r \in Requests, NEW s \in States, Callback(r, s) PROVE TypeOK'
  <2>1. StoreTypeOK' /\ bound[s] \in Users
    BY <1>2 DEF Callback, Redeem, StoreTypeOK, sweeper
  <2>2. CASE Expired(s)
    <3>. UNCHANGED requests
      BY <1>2, <2>2 DEF Callback
    <3>. QED
      BY <1>2, <1>b, <1>c, <1>d, <2>1 DEF Callback, TypeOK
  <2>3. CASE ~Expired(s)
    <3>1. Move(r, "exchange", bound[s], s, NoGrant)
      BY <1>2, <2>3 DEF Callback
    <3>2. RequestsOK'
      BY <2>1, <3>1, MoveOK DEF Points
    <3>. QED
      BY <1>2, <1>b, <1>d, <2>1, <3>2 DEF Callback, TypeOK
  <2>. QED
    BY <2>2, <2>3
<1>3. ASSUME NEW r \in Requests, NEW g \in Grants, Exchange(r, g) PROVE TypeOK'
  <2>1. who[r] \in Users /\ via[r] \in States
    BY <1>3, Held DEF Exchange
  <2>2. RequestsOK'
    BY <1>3, <2>1, MoveOK DEF Exchange, Points
  <2>3. GoogleOK'
    BY <1>3, <2>1 DEF Exchange, GoogleOK
  <2>. QED
    BY <1>3, <1>a, <1>b, <2>2, <2>3 DEF Exchange, TypeOK
<1>4. ASSUME NEW r \in Requests, ExchangeError(r) PROVE TypeOK'
  BY <1>4, <1>a, <1>b, <1>d, AnswerOK DEF ExchangeError, TypeOK
<1>5. ASSUME NEW r \in Requests, NEW o \in Outcomes, Save(r, o) PROVE TypeOK'
  <2>1. who[r] \in Users /\ tok[r] \in Grants
    BY <1>5, Held DEF Save
  <2>2. RowOK'
    <3>1. CASE UNCHANGED row
      BY <1>b, <3>1
    <3>2. CASE /\ refresh' = [refresh EXCEPT ![who[r]] = tok[r]]
               /\ SetAccess(who[r], tok[r])
      BY <2>1, <3>2 DEF SetAccess, RowOK, HasRow
    <3>. QED
      BY <1>5, <3>1, <3>2 DEF Save
  <2>. QED
    BY <1>5, <1>a, <1>d, <2>2, AnswerOK DEF Save, TypeOK
<1>6. ASSUME NEW r \in Requests, NEW o \in Outcomes, SaveAccessOnly(r, o) PROVE TypeOK'
  <2>1. who[r] \in Users /\ tok[r] \in Grants
    BY <1>6, Held DEF SaveAccessOnly
  <2>2. RowOK'
    BY <1>6, <2>1, PutOK DEF SaveAccessOnly
  <2>. QED
    BY <1>6, <1>a, <1>d, <2>2, AnswerOK DEF SaveAccessOnly, TypeOK
<1>7. ASSUME NEW r \in Requests, NEW u \in Users, Load(r, u) PROVE TypeOK'
  <2>1. refresh[u] \in Grants /\ access[u] \in Grants
    BY <1>7 DEF Load, RowOK, HasRow
  <2>2. RequestsOK'
    BY <1>7, <2>1, MoveOK DEF Load, Points
  <2>. QED
    BY <1>7, <1>a, <1>b, <1>d, <2>2 DEF Load, TypeOK
<1>8. ASSUME NEW r \in Requests, Refresh(r) PROVE TypeOK'
  <2>1. who[r] \in Users /\ tok[r] \in Grants
    BY <1>8, Held DEF Refresh
  <2>2. RequestsOK'
    BY <1>8, <2>1, MoveOK, AnswerOK DEF Refresh, Points
  <2>. QED
    BY <1>8, <1>a, <1>b, <1>d, <2>2 DEF Refresh, TypeOK
<1>9. ASSUME NEW r \in Requests, NEW o \in Outcomes, UpdateAccess(r, o) PROVE TypeOK'
  <2>1. who[r] \in Users /\ tok[r] \in Grants
    BY <1>9, Held DEF UpdateAccess
  <2>2. RowOK'
    BY <1>9, <2>1, PutOK DEF UpdateAccess
  <2>3. RequestsOK'
    BY <1>9, <2>1, MoveOK, AnswerOK DEF UpdateAccess, Points
  <2>. QED
    BY <1>9, <1>a, <1>d, <2>2, <2>3 DEF UpdateAccess, TypeOK
<1>10. ASSUME NEW r \in Requests, Use(r) PROVE TypeOK'
  BY <1>10, <1>a, <1>b, <1>d, AnswerOK DEF Use, TypeOK
<1>11. ASSUME NEW u \in Users, Age(u) PROVE TypeOK'
  <2>1. RowOK'
    BY <1>11 DEF Age, RowOK, HasRow
  <2>. QED
    BY <1>11, <1>a, <1>c, <1>d, <2>1 DEF Age, TypeOK
<1>12. ASSUME NEW u \in Users, NEW o \in Outcomes, Disconnect(u, o) PROVE TypeOK'
  <2>1. RowOK'
    BY <1>12 DEF Disconnect, DeleteRow, RowOK, HasRow
  <2>2. GoogleOK'
    BY <1>12 DEF Disconnect, google, GoogleOK, RowOK, HasRow
  <2>. QED
    BY <1>12, <1>a, <1>c, <2>1, <2>2 DEF Disconnect, TypeOK
<1>13. ASSUME NEW g \in Grants, RevokeAtGoogle(g) PROVE TypeOK'
  <2>1. GoogleOK'
    BY <1>13 DEF RevokeAtGoogle, GoogleOK
  <2>. QED
    BY <1>13, <1>a, <1>b, <1>c, <2>1 DEF RevokeAtGoogle, TypeOK
<1>14. ASSUME Background PROVE TypeOK'
  <2>1. ASSUME Elapse PROVE StoreTypeOK'
    BY <2>1 DEF Elapse, StoreTypeOK, entries, sweeper
  <2>2. ASSUME Sweep PROVE StoreTypeOK'
    BY <2>2 DEF Sweep, StoreTypeOK, sweeper
  <2>. QED
    BY <1>14, <1>b, <1>c, <1>d, <2>1, <2>2 DEF Background, TypeOK
<1>15. ASSUME Crash PROVE TypeOK'
  <2>1. StoreTypeOK'
    BY <1>15 DEF Crash, Renew, StoreTypeOK
  <2>2. RequestsOK'
    BY <1>15 DEF Crash, RequestsOK, Points
  <2>3. GoogleOK'
    BY <1>15 DEF Crash, google, GoogleOK
  <2>. QED
    BY <1>15, <1>b, <2>1, <2>2, <2>3 DEF Crash, TypeOK
<1>16. ASSUME UNCHANGED vars PROVE TypeOK'
  BY <1>16, <1>a, <1>b, <1>c, <1>d DEF vars, TypeOK
<1>. QED
  BY <1>1, <1>2, <1>3, <1>4, <1>5, <1>6, <1>7, <1>8, <1>9, <1>10, <1>11, <1>12, <1>13,
     <1>14, <1>15, <1>16 DEF Next, Connect, AccessToken
-------------------------------------------------------------------------------
\* The steps of a request after its redirect: where each leads.
LEMMA Moves ==
  ASSUME TypeOK, NEW r \in Requests
  PROVE  /\ ExchangeError(r) => MovedTo(r, "idle", NoUser, NoState, NoGrant)
         /\ \A o \in Outcomes : Save(r, o) \/ SaveAccessOnly(r, o)
              => MovedTo(r, "idle", NoUser, NoState, NoGrant)
         /\ \A u \in Users : Load(r, u)
              => \/ MovedTo(r, "use", u, NoState, access[u])
                 \/ MovedTo(r, "refresh", u, NoState, refresh[u])
         /\ Refresh(r) => \/ MovedTo(r, "update", who[r], NoState, tok[r])
                          \/ MovedTo(r, "idle", NoUser, NoState, NoGrant)
         /\ \A o \in Outcomes : UpdateAccess(r, o)
              => \/ MovedTo(r, "use", who[r], NoState, tok[r])
                 \/ MovedTo(r, "idle", NoUser, NoState, NoGrant)
         /\ Use(r) => MovedTo(r, "idle", NoUser, NoState, NoGrant)
BY DEF TypeOK, RequestsOK, MovedTo, Move, Answer, ExchangeError, Save, SaveAccessOnly,
       Load, Refresh, UpdateAccess, Use

\* Once a request holds no state, what is left of it disturbs no redemption.
LEMMA LeaveKeeps ==
  ASSUME TypeOK, Redemption, NEW r \in Requests, NEW l \in Points \ {"exchange", "save"},
         NEW u, NEW g, MovedTo(r, l, u, NoState, g),
         UNCHANGED <<bound, issuedTo, consent>>
  PROVE  Redemption'
<1>1. Spent'
  BY DEF Redemption, Spent, Granted, MovedTo
<1>2. Once'
  BY DEF Redemption, Once, Granted, MovedTo
<1>. QED
  BY <1>1, <1>2 DEF Redemption

\* Nor does taking states out of the map.
LEMMA UnbindKeeps ==
  ASSUME TypeOK, Redemption, \A s \in States : bound'[s] \in {bound[s], NoUser},
         UNCHANGED <<issuedTo, consent, requests>>
  PROVE  Redemption'
<1>1. Spent'
  BY DEF Redemption, Spent, Granted, requests, TypeOK, RequestsOK, GoogleOK
<1>2. Once'
  BY DEF Redemption, Once, Granted, requests
<1>. QED
  BY <1>1, <1>2 DEF Redemption

\* Each state goes from the map to one request, and from it to one grant.
LEMMA RedemptionStep == TypeOK /\ Redemption /\ [Next]_vars => Redemption'
<1>. SUFFICES ASSUME TypeOK, Redemption, [Next]_vars PROVE Redemption'
  OBVIOUS
<1>. USE StoreAssumption, TokensAssumption
<1>a. UNCHANGED <<bound, issuedTo, consent, requests>> => Redemption'
  BY DEF Redemption, Spent, Once, Granted, requests
<1>1. ASSUME NEW s \in States, NEW u \in Users, ConsentURL(s, u) PROVE Redemption'
  <2>1. /\ issuedTo[s] = NoUser /\ issuedTo'[s] = u /\ bound'[s] = u
        /\ \A x \in States \ {s} : issuedTo'[x] = issuedTo[x] /\ bound'[x] = bound[x]
        /\ UNCHANGED <<consent, pc, who, via, tok>>
    BY <1>1 DEF ConsentURL, Issue, google, requests, TypeOK, StoreTypeOK
  <2>2. \A g \in Grants : Granted(g) => consent[g] \in States \ {s}
    BY <2>1 DEF Redemption, Spent, Granted, TypeOK, GoogleOK
  <2>3. \A r \in Requests : via[r] # NoState => via[r] \in States \ {s}
    BY <2>1 DEF Redemption, Spent, TypeOK, RequestsOK
  <2>4. Spent'
    BY <2>1, <2>2, <2>3 DEF Redemption, Spent, Granted
  <2>5. Once'
    BY <2>1 DEF Redemption, Once, Granted
  <2>. QED
    BY <2>4, <2>5 DEF Redemption
<1>2. ASSUME NEW r \in Requests, NEW s \in States, Callback(r, s) PROVE Redemption'
  <2>1. /\ bound[s] \in Users /\ bound'[s] = NoUser
        /\ \A x \in States \ {s} : bound'[x] = bound[x]
        /\ UNCHANGED <<issuedTo, consent>>
    BY <1>2 DEF Callback, Redeem, google, TypeOK, StoreTypeOK
  <2>2. CASE Expired(s)
    <3>1. UNCHANGED requests
      BY <1>2, <2>2 DEF Callback
    <3>. QED
      BY <2>1, <3>1, UnbindKeeps
  <2>3. CASE ~Expired(s)
    <3>1. MovedTo(r, "exchange", bound[s], s, NoGrant)
      BY <1>2, <2>3 DEF Callback, Move, MovedTo, TypeOK, RequestsOK
    <3>2. /\ \A g \in Grants : consent[g] # s
          /\ \A q \in Requests : via[q] # s
      BY <2>1 DEF Redemption, Spent, Granted
    <3>3. Spent'
      BY <2>1, <3>1, <3>2 DEF Redemption, Spent, Granted, MovedTo, TypeOK, RequestsOK, GoogleOK
    <3>4. Once'
      BY <2>1, <3>1, <3>2 DEF Redemption, Once, Granted, MovedTo
    <3>. QED
      BY <3>3, <3>4 DEF Redemption
  <2>. QED
    BY <2>2, <2>3
<1>3. ASSUME NEW r \in Requests, NEW g \in Grants, Exchange(r, g) PROVE Redemption'
  <2>1. /\ pc[r] = "exchange" /\ via[r] \in States /\ who[r] \in Users
        /\ consent'[g] = via[r]
        /\ \A h \in Grants \ {g} : consent'[h] = consent[h]
        /\ UNCHANGED <<bound, issuedTo>>
        /\ MovedTo(r, "save", who[r], via[r], g)
    BY <1>3 DEF Exchange, Move, MovedTo, storeVars, entries, TypeOK, RequestsOK, GoogleOK
  <2>2. \A q \in Requests : pc[q] = "save" => tok[q] # g
    BY <1>3 DEF Exchange, Redemption, Once, TypeOK, RequestsOK
  <2>3. Spent'
    BY <2>1 DEF Redemption, Spent, Granted, MovedTo
  <2>4. Once'
    BY <2>1, <2>2 DEF Redemption, Once, Granted, MovedTo, TypeOK, RequestsOK
  <2>. QED
    BY <2>3, <2>4 DEF Redemption
<1>. DEFINE Frame == UNCHANGED <<bound, issuedTo, consent>>
<1>4. ASSUME NEW r \in Requests, ExchangeError(r) PROVE Redemption'
  <2>. Frame
    BY <1>4 DEF ExchangeError, storeVars, entries, google
  <2>. QED
    BY <1>4, Moves, LeaveKeeps DEF Points
<1>5. ASSUME NEW r \in Requests, NEW o \in Outcomes, Save(r, o) PROVE Redemption'
  <2>. Frame
    BY <1>5 DEF Save, storeVars, entries, google
  <2>. QED
    BY <1>5, Moves, LeaveKeeps DEF Points
<1>6. ASSUME NEW r \in Requests, NEW o \in Outcomes, SaveAccessOnly(r, o) PROVE Redemption'
  <2>. Frame
    BY <1>6 DEF SaveAccessOnly, storeVars, entries, google
  <2>. QED
    BY <1>6, Moves, LeaveKeeps DEF Points
<1>7. ASSUME NEW r \in Requests, NEW u \in Users, Load(r, u) PROVE Redemption'
  <2>. Frame
    BY <1>7 DEF Load, storeVars, entries, google
  <2>. QED
    BY <1>7, Moves, LeaveKeeps DEF Points
<1>8. ASSUME NEW r \in Requests, Refresh(r) PROVE Redemption'
  <2>. Frame
    BY <1>8 DEF Refresh, storeVars, entries, google
  <2>. QED
    BY <1>8, Moves, LeaveKeeps DEF Points
<1>9. ASSUME NEW r \in Requests, NEW o \in Outcomes, UpdateAccess(r, o) PROVE Redemption'
  <2>. Frame
    BY <1>9 DEF UpdateAccess, storeVars, entries, google
  <2>. QED
    BY <1>9, Moves, LeaveKeeps DEF Points
<1>10. ASSUME NEW r \in Requests, Use(r) PROVE Redemption'
  <2>. Frame
    BY <1>10 DEF Use, storeVars, entries, google
  <2>. QED
    BY <1>10, Moves, LeaveKeeps DEF Points
<1>11. ASSUME NEW u \in Users, Age(u) PROVE Redemption'
  BY <1>a, <1>11 DEF Age, storeVars, entries, google
<1>12. ASSUME NEW u \in Users, NEW o \in Outcomes, Disconnect(u, o) PROVE Redemption'
  BY <1>a, <1>12 DEF Disconnect, storeVars, entries, google
<1>13. ASSUME NEW g \in Grants, RevokeAtGoogle(g) PROVE Redemption'
  BY <1>a, <1>13 DEF RevokeAtGoogle, storeVars, entries
<1>14. ASSUME Background PROVE Redemption'
  <2>1. \A s \in States : bound'[s] \in {bound[s], NoUser}
    BY <1>14 DEF Background, Elapse, Sweep, entries, TypeOK, StoreTypeOK
  <2>2. UNCHANGED <<issuedTo, consent, requests>>
    BY <1>14 DEF Background, Elapse, Sweep, entries, google
  <2>. QED
    BY <2>1, <2>2, UnbindKeeps
<1>15. ASSUME Crash PROVE Redemption'
  <2>1. /\ \A s \in States : bound'[s] = NoUser
        /\ \A r \in Requests : pc'[r] = "idle" /\ via'[r] = NoState
        /\ UNCHANGED <<issuedTo, consent>>
    BY <1>15 DEF Crash, Renew, google
  <2>2. Spent'
    BY <2>1 DEF Redemption, Spent, Granted, TypeOK, GoogleOK
  <2>3. Once'
    BY <2>1 DEF Redemption, Once, Granted
  <2>. QED
    BY <2>2, <2>3 DEF Redemption
<1>16. ASSUME UNCHANGED vars PROVE Redemption'
  BY <1>a, <1>16 DEF vars, storeVars, entries, google
<1>. QED
  BY <1>1, <1>2, <1>3, <1>4, <1>5, <1>6, <1>7, <1>8, <1>9, <1>10, <1>11, <1>12, <1>13,
     <1>14, <1>15, <1>16 DEF Next, Connect, AccessToken
-------------------------------------------------------------------------------
\* g came of a consent under a state issued to u.
GrantOf(g, u) == g \in Grants /\ Granted(g) /\ OwnerOf(g) = u

\* Every token in a row or in a request's hands is of a grant of its user.
LEMMA Grantee ==
  ASSUME TypeOK, Ownership
  PROVE  /\ \A u \in Users : HasRow(u) => GrantOf(refresh[u], u) /\ GrantOf(access[u], u)
         /\ \A r \in Requests : tok[r] # NoGrant => GrantOf(tok[r], who[r])
<1>1. /\ \A u \in Users : HasRow(u) => refresh[u] \in Grants /\ access[u] \in Grants
      /\ \A r \in Requests : tok[r] # NoGrant => tok[r] \in Grants
  BY DEF TypeOK, RowOK, RequestsOK, HasRow
<1>. QED
  BY <1>1 DEF Ownership, AllGranted, OwnTokens, GrantOf

\* A grant never changes hands: a state is issued only while no grant has it.
LEMMA GrantsStay ==
  ASSUME TypeOK, Redemption, [Next]_vars, NEW g \in Grants, NEW u, GrantOf(g, u)
  PROVE  GrantOf(g, u)'
<1>1. /\ consent[g] \in States /\ issuedTo[consent[g]] = u /\ u # NoUser
  BY DEF TypeOK, GoogleOK, Redemption, Spent, GrantOf, Granted, OwnerOf
<1>2. ASSUME NEW s \in States, NEW v \in Users, ConsentURL(s, v)
      PROVE  consent' = consent /\ issuedTo'[consent[g]] = u
  <2>1. issuedTo[s] = NoUser /\ issuedTo' = [issuedTo EXCEPT ![s] = v] /\ consent' = consent
    BY <1>2 DEF ConsentURL, Issue, google
  <2>. QED
    BY <1>1, <2>1 DEF TypeOK, StoreTypeOK
<1>3. ASSUME NEW r \in Requests, NEW h \in Grants, Exchange(r, h)
      PROVE  consent'[g] = consent[g] /\ issuedTo' = issuedTo
  BY <1>1, <1>3, TokensAssumption DEF Exchange, storeVars, entries, TypeOK, GoogleOK
<1>4. \/ \E s \in States, v \in Users : ConsentURL(s, v)
      \/ \E r \in Requests, h \in Grants : Exchange(r, h)
      \/ consent' = consent /\ issuedTo' = issuedTo
  BY DEF Next, vars, google, storeVars, entries, Connect, AccessToken, Callback, Redeem,
         ExchangeError, Save, SaveAccessOnly, Load, Refresh, UpdateAccess, Use, Age,
         Disconnect, RevokeAtGoogle, Background, Elapse, Sweep, Crash, Renew
<1>5. consent'[g] = consent[g] /\ issuedTo'[consent[g]] = u
  BY <1>1, <1>2, <1>3, <1>4
<1>. QED
  BY <1>1, <1>5, TokensAssumption DEF GrantOf, Granted, OwnerOf

\* What a step must show of the row, the requests and the revocations.
LEMMA Reowned ==
  ASSUME TypeOK, Redemption, [Next]_vars,
         \A u \in Users : HasRow(u)' => GrantOf(refresh'[u], u) /\ GrantOf(access'[u], u),
         \A r \in Requests : tok'[r] # NoGrant => GrantOf(tok'[r], who'[r]),
         \A g \in (revoking \cup revoked)' : g \in Grants /\ Granted(g),
         Unsaved', RevokeSpares'
  PROVE  Ownership'
<1>1. \A g \in Grants, u \in Users \cup {NoUser} : GrantOf(g, u) => GrantOf(g, u)'
  BY GrantsStay
<1>2. \A u \in Users : HasRow(u)' => GrantOf(refresh[u], u)' /\ GrantOf(access[u], u)'
  BY GrantsStay DEF GrantOf
<1>3. \A r \in Requests : tok'[r] # NoGrant => GrantOf(tok[r], who[r])'
  BY GrantsStay DEF GrantOf
<1>4. \A g \in (revoking \cup revoked)' : Granted(g)'
  BY GrantsStay DEF GrantOf
<1>5. AllGranted'
  BY <1>2, <1>3, <1>4 DEF AllGranted, GrantOf
<1>6. OwnTokens'
  BY <1>2, <1>3 DEF OwnTokens, GrantOf
<1>. QED
  BY <1>5, <1>6 DEF Ownership

\* A step of one request that saves nothing leaves rows and tokens as owned.
LEMMA RequestKeeps ==
  ASSUME TypeOK, Redemption, Ownership, [Next]_vars,
         NEW r \in Requests, NEW l \in Points \ {"save"}, NEW u, NEW s, NEW g,
         MovedTo(r, l, u, s, g), g # NoGrant => GrantOf(g, u),
         UNCHANGED <<refresh, access, revoking, revoked>>
  PROVE  Ownership'
<1>1. Unsaved' /\ RevokeSpares'
  BY DEF Ownership, Unsaved, RevokeSpares, MovedTo, HasRow
<1>2. \A q \in Requests : tok'[q] # NoGrant => GrantOf(tok'[q], who'[q])
  BY Grantee DEF MovedTo
<1>3. \A v \in Users : HasRow(v)' => GrantOf(refresh'[v], v) /\ GrantOf(access'[v], v)
  BY Grantee DEF HasRow
<1>4. \A h \in (revoking \cup revoked)' : h \in Grants /\ Granted(h)
  BY DEF Ownership, AllGranted, TypeOK, GoogleOK
<1>. QED
  BY <1>1, <1>2, <1>3, <1>4, Reowned

\* So does one that puts an access token of its user into the user's row.
LEMMA AccessKeeps ==
  ASSUME TypeOK, Redemption, Ownership, [Next]_vars,
         NEW r \in Requests, NEW l \in Points \ {"save"}, NEW u, NEW g,
         MovedTo(r, l, u, NoState, g), g # NoGrant => GrantOf(g, u),
         NEW v \in Users, NEW h \in Grants, PutTo(v, h), GrantOf(h, v),
         UNCHANGED <<refresh, revoking, revoked>>
  PROVE  Ownership'
<1>1. Unsaved' /\ RevokeSpares'
  BY DEF Ownership, Unsaved, RevokeSpares, MovedTo, HasRow
<1>2. \A q \in Requests : tok'[q] # NoGrant => GrantOf(tok'[q], who'[q])
  BY Grantee DEF MovedTo
<1>3. \A w \in Users : HasRow(w)' => GrantOf(refresh'[w], w) /\ GrantOf(access'[w], w)
  BY Grantee DEF HasRow, PutTo
<1>4. \A k \in (revoking \cup revoked)' : k \in Grants /\ Granted(k)
  BY DEF Ownership, AllGranted, TypeOK, GoogleOK
<1>. QED
  BY <1>1, <1>2, <1>3, <1>4, Reowned

\* So does one that touches no request and no row, and revokes nothing new.
LEMMA TablesKeep ==
  ASSUME TypeOK, Redemption, Ownership, [Next]_vars,
         UNCHANGED <<refresh, access, requests>>,
         (revoking \cup revoked)' \subseteq revoking \cup revoked
  PROVE  Ownership'
<1>1. Unsaved' /\ RevokeSpares'
  BY DEF Ownership, Unsaved, RevokeSpares, HasRow, requests
<1>2. \A q \in Requests : tok'[q] # NoGrant => GrantOf(tok'[q], who'[q])
  BY Grantee DEF requests
<1>3. \A v \in Users : HasRow(v)' => GrantOf(refresh'[v], v) /\ GrantOf(access'[v], v)
  BY Grantee DEF HasRow
<1>4. \A h \in (revoking \cup revoked)' : h \in Grants /\ Granted(h)
  BY DEF Ownership, AllGranted, TypeOK, GoogleOK
<1>. QED
  BY <1>1, <1>2, <1>3, <1>4, Reowned

\* Who holds which token, and what is revoked, through every step.
LEMMA OwnershipStep == TypeOK /\ Redemption /\ Ownership /\ [Next]_vars => Ownership'
<1>. SUFFICES ASSUME TypeOK, Redemption, Ownership, [Next]_vars PROVE Ownership'
  OBVIOUS
<1>1. ASSUME NEW s \in States, NEW u \in Users, ConsentURL(s, u) PROVE Ownership'
  BY <1>1, TablesKeep DEF ConsentURL, row, google
<1>2. ASSUME NEW r \in Requests, NEW s \in States, Callback(r, s) PROVE Ownership'
  <2>1. UNCHANGED <<refresh, access, revoking, revoked>>
    BY <1>2 DEF Callback, row, google
  <2>2. CASE Expired(s)
    BY <1>2, <2>1, <2>2, TablesKeep DEF Callback
  <2>3. CASE ~Expired(s)
    <3>1. MovedTo(r, "exchange", bound[s], s, NoGrant)
      BY <1>2, <2>3 DEF Callback, Move, MovedTo, TypeOK, RequestsOK
    <3>. QED
      BY <2>1, <3>1, RequestKeeps DEF Points
  <2>. QED
    BY <2>2, <2>3
<1>3. ASSUME NEW r \in Requests, NEW g \in Grants, Exchange(r, g) PROVE Ownership'
  <2>1. /\ pc[r] = "exchange" /\ via[r] \in States /\ who[r] \in Users
        /\ ~Granted(g) /\ consent'[g] = via[r]
        /\ UNCHANGED <<issuedTo, refresh, access, revoking, revoked>>
        /\ MovedTo(r, "save", who[r], via[r], g)
    BY <1>3 DEF Exchange, Granted, Move, MovedTo, storeVars, entries, row, TypeOK,
                RequestsOK, GoogleOK
  <2>2. GrantOf(tok[r], who[r])'
    BY <2>1, TokensAssumption
    DEF MovedTo, Redemption, Spent, GrantOf, Granted, OwnerOf
  <2>3. g \notin revoking \cup revoked /\ \A u \in Users : refresh[u] # g
    BY <2>1, Grantee, TokensAssumption
    DEF Ownership, AllGranted, GrantOf, HasRow, TypeOK, GoogleOK
  <2>4. Unsaved' /\ RevokeSpares'
    BY <2>1, <2>3 DEF Ownership, Unsaved, RevokeSpares, MovedTo, HasRow
  <2>5. \A q \in Requests : tok'[q] # NoGrant => GrantOf(tok[q], who[q])'
    BY <2>1, <2>2, Grantee, GrantsStay DEF MovedTo, GrantOf, Granted, OwnerOf
  <2>6. \A u \in Users : HasRow(u)' => GrantOf(refresh[u], u)' /\ GrantOf(access[u], u)'
    BY <2>1, Grantee, GrantsStay DEF HasRow, GrantOf, Granted, OwnerOf
  <2>7. \A h \in (revoking \cup revoked)' : Granted(h)'
    BY <1>3, <2>1, <2>3
    DEF Exchange, Ownership, AllGranted, TypeOK, GoogleOK, Granted
  <2>. QED
    BY <2>4, <2>5, <2>6, <2>7 DEF Ownership, AllGranted, OwnTokens, GrantOf
<1>4. ASSUME NEW r \in Requests, ExchangeError(r) PROVE Ownership'
  BY <1>4, Moves, RequestKeeps DEF ExchangeError, row, google, Points
<1>5. ASSUME NEW r \in Requests, NEW o \in Outcomes, Save(r, o) PROVE Ownership'
  <2>1. /\ pc[r] = "save" /\ UNCHANGED <<revoking, revoked>>
        /\ MovedTo(r, "idle", NoUser, NoState, NoGrant)
    BY <1>5, Moves DEF Save, google
  <2>2. CASE UNCHANGED row
    BY <2>1, <2>2, RequestKeeps DEF row, Points
  <2>3. CASE /\ refresh' = [refresh EXCEPT ![who[r]] = tok[r]]
             /\ SetAccess(who[r], tok[r])
    <3>1. who[r] \in Users /\ tok[r] \in Grants /\ tok[r] \notin revoking \cup revoked
      BY <2>1, Held DEF TypeOK, Ownership, Unsaved
    <3>2. /\ refresh'[who[r]] = tok[r] /\ access'[who[r]] = tok[r]
          /\ \A u \in Users \ {who[r]} : refresh'[u] = refresh[u] /\ access'[u] = access[u]
      BY <2>3, <3>1 DEF SetAccess, TypeOK, RowOK
    <3>3. \A q \in Requests \ {r} : pc[q] = "save" => tok[q] # tok[r]
      BY <2>1 DEF Redemption, Once, TypeOK, RequestsOK
    <3>4. Unsaved'
      BY <2>1, <3>2, <3>3 DEF Ownership, Unsaved, MovedTo
    <3>5. RevokeSpares'
      BY <2>1, <3>1, <3>2 DEF Ownership, RevokeSpares, HasRow
    <3>6. \A q \in Requests : tok'[q] # NoGrant => GrantOf(tok'[q], who'[q])
      BY <2>1, Grantee DEF MovedTo
    <3>7. GrantOf(tok[r], who[r])
      BY <3>1, Grantee, TokensAssumption
    <3>8. \A u \in Users : HasRow(u)' => GrantOf(refresh'[u], u) /\ GrantOf(access'[u], u)
      BY <3>2, <3>7, Grantee DEF HasRow
    <3>9. \A h \in (revoking \cup revoked)' : h \in Grants /\ Granted(h)
      BY <2>1 DEF Ownership, AllGranted, TypeOK, GoogleOK
    <3>. QED
      BY <3>4, <3>5, <3>6, <3>8, <3>9, Reowned
  <2>. QED
    BY <1>5, <2>2, <2>3 DEF Save
<1>6. ASSUME NEW r \in Requests, NEW o \in Outcomes, SaveAccessOnly(r, o) PROVE Ownership'
  <2>1. /\ UNCHANGED <<refresh, revoking, revoked>>
        /\ MovedTo(r, "idle", NoUser, NoState, NoGrant)
        /\ who[r] \in Users /\ tok[r] \in Grants
    BY <1>6, Moves, Held DEF SaveAccessOnly, google, TypeOK
  <2>2. PutTo(who[r], tok[r])
    BY <1>6, <2>1, PutOK DEF SaveAccessOnly, TypeOK
  <2>3. GrantOf(tok[r], who[r])
    BY <2>1, Grantee, TokensAssumption
  <2>. QED
    BY <2>1, <2>2, <2>3, AccessKeeps DEF Points
<1>7. ASSUME NEW r \in Requests, NEW u \in Users, Load(r, u) PROVE Ownership'
  <2>1. UNCHANGED <<refresh, access, revoking, revoked>> /\ HasRow(u)
    BY <1>7 DEF Load, row, google
  <2>2. GrantOf(refresh[u], u) /\ GrantOf(access[u], u)
    BY <2>1, Grantee
  <2>. QED
    BY <1>7, <2>1, <2>2, Moves, RequestKeeps DEF Points
<1>8. ASSUME NEW r \in Requests, Refresh(r) PROVE Ownership'
  <2>1. UNCHANGED <<refresh, access, revoking, revoked>> /\ tok[r] \in Grants
    BY <1>8, Held DEF Refresh, row, google, TypeOK
  <2>2. GrantOf(tok[r], who[r])
    BY <2>1, Grantee, TokensAssumption
  <2>. QED
    BY <1>8, <2>1, <2>2, Moves, RequestKeeps DEF Points
<1>9. ASSUME NEW r \in Requests, NEW o \in Outcomes, UpdateAccess(r, o) PROVE Ownership'
  <2>1. /\ UNCHANGED <<refresh, revoking, revoked>>
        /\ who[r] \in Users /\ tok[r] \in Grants
    BY <1>9, Held DEF UpdateAccess, google, TypeOK
  <2>2. PutTo(who[r], tok[r])
    BY <1>9, <2>1, PutOK DEF UpdateAccess, TypeOK
  <2>3. GrantOf(tok[r], who[r])
    BY <2>1, Grantee, TokensAssumption
  <2>4. \/ MovedTo(r, "use", who[r], NoState, tok[r])
        \/ MovedTo(r, "idle", NoUser, NoState, NoGrant)
    BY <1>9, Moves
  <2>. QED
    BY <2>1, <2>2, <2>3, <2>4, AccessKeeps DEF Points
<1>10. ASSUME NEW r \in Requests, Use(r) PROVE Ownership'
  BY <1>10, Moves, RequestKeeps DEF Use, row, google, Points
<1>11. ASSUME NEW u \in Users, Age(u) PROVE Ownership'
  BY <1>11, TablesKeep DEF Age, google
<1>12. ASSUME NEW u \in Users, NEW o \in Outcomes, Disconnect(u, o) PROVE Ownership'
  <2>1. /\ HasRow(u) /\ UNCHANGED <<requests, revoked>>
        /\ revoking' \subseteq revoking \cup {refresh[u]}
    BY <1>12 DEF Disconnect, google
  <2>2. /\ refresh'[u] = NoGrant
        /\ \A v \in Users \ {u} : refresh'[v] = refresh[v] /\ access'[v] = access[v]
    BY <1>12 DEF Disconnect, DeleteRow, TypeOK, RowOK
  <2>3. GrantOf(refresh[u], u)
    BY <2>1, Grantee
  <2>4. \A v \in Users \ {u} : HasRow(v) => refresh[v] # refresh[u]
    BY <2>3, Grantee DEF GrantOf
  <2>5. RevokeSpares'
    BY <2>1, <2>2, <2>4 DEF Ownership, RevokeSpares, HasRow
  <2>6. \A r \in Requests : pc[r] = "save" => tok[r] # NoGrant
    BY DEF TypeOK, RequestsOK
  <2>7. Unsaved'
    BY <2>1, <2>2, <2>6 DEF Ownership, Unsaved, requests
  <2>8. \A q \in Requests : tok'[q] # NoGrant => GrantOf(tok'[q], who'[q])
    BY <2>1, Grantee DEF requests
  <2>9. \A v \in Users : HasRow(v)' => GrantOf(refresh'[v], v) /\ GrantOf(access'[v], v)
    BY <2>2, Grantee DEF HasRow
  <2>10. \A h \in (revoking \cup revoked)' : h \in Grants /\ Granted(h)
    BY <2>1, <2>3 DEF Ownership, AllGranted, TypeOK, GoogleOK, GrantOf
  <2>. QED
    BY <2>5, <2>7, <2>8, <2>9, <2>10, Reowned
<1>13. ASSUME NEW g \in Grants, RevokeAtGoogle(g) PROVE Ownership'
  BY <1>13, TablesKeep DEF RevokeAtGoogle, row
<1>14. ASSUME Background PROVE Ownership'
  BY <1>14, TablesKeep DEF Background, row, google
<1>15. ASSUME Crash PROVE Ownership'
  <2>1. /\ \A r \in Requests : pc'[r] = "idle" /\ tok'[r] = NoGrant
        /\ revoking' = {} /\ UNCHANGED <<refresh, access, revoked>>
    BY <1>15 DEF Crash, row, google
  <2>2. Unsaved' /\ RevokeSpares'
    BY <2>1 DEF Ownership, Unsaved, RevokeSpares, HasRow
  <2>3. \A v \in Users : HasRow(v)' => GrantOf(refresh'[v], v) /\ GrantOf(access'[v], v)
    BY <2>1, Grantee DEF HasRow
  <2>4. \A h \in (revoking \cup revoked)' : h \in Grants /\ Granted(h)
    BY <2>1 DEF Ownership, AllGranted, TypeOK, GoogleOK
  <2>. QED
    BY <2>1, <2>2, <2>3, <2>4, Reowned
<1>16. ASSUME UNCHANGED vars PROVE Ownership'
  BY <1>16, TablesKeep DEF vars, row, google
<1>. QED
  BY <1>1, <1>2, <1>3, <1>4, <1>5, <1>6, <1>7, <1>8, <1>9, <1>10, <1>11, <1>12, <1>13,
     <1>14, <1>15, <1>16 DEF Next, Connect, AccessToken

-------------------------------------------------------------------------------
LEMMA InvInit == Init => Inv
<1>. SUFFICES ASSUME Init PROVE Inv
  OBVIOUS
<1>. USE StoreAssumption, TokensAssumption
<1>1. StoreTypeOK
  BY DEF Init, StoreInit, StoreTypeOK
<1>2. RowOK /\ RequestsOK /\ GoogleOK
  BY DEF Init, RowOK, HasRow, RequestsOK, Points, GoogleOK
<1>3. Spent /\ Once
  BY DEF Init, StoreInit, Spent, Once, Granted
<1>4. AllGranted /\ OwnTokens /\ Unsaved /\ RevokeSpares
  BY DEF Init, AllGranted, OwnTokens, Unsaved, RevokeSpares, HasRow
<1>. QED
  BY <1>1, <1>2, <1>3, <1>4 DEF Inv, TypeOK, Redemption, Ownership

LEMMA InvStep == Inv /\ [Next]_vars => Inv'
BY TypeStep, RedemptionStep, OwnershipStep DEF Inv

\* The inductive invariant holds in every reachable state.
THEOREM InvHolds == Spec => []Inv
<1>. QED
  BY InvInit, InvStep, PTL DEF Spec

\* Rows hold both tokens or none, and a request past Google's answer a token,
\* for every number of users, states, grants and requests.
THEOREM TypeCorrect == Spec => []TypeOK
<1>. Inv => TypeOK
  BY DEF Inv
<1>. QED
  BY InvHolds, PTL

\* No user's row or request ever holds a token of another user's consent.
THEOREM TokensStayHome == Spec => []OwnTokens
<1>. Inv => OwnTokens
  BY DEF Inv, Ownership
<1>. QED
  BY InvHolds, PTL

\* A state leads to one exchange and to one grant, whatever redirects repeat
\* and whatever the sweeper and a restart take away.
THEOREM StatesSingleUse == Spec => []StateRedeemedOnce
<1>1. Inv => StateRedeemedOnce
  <2>. SUFFICES ASSUME Inv PROVE StateRedeemedOnce
    OBVIOUS
  <2>1. \A r \in Requests : pc[r] = "exchange" => via[r] # NoState
    BY DEF Inv, TypeOK, RequestsOK
  <2>. QED
    BY <2>1 DEF Inv, Redemption, Spent, Once, StateRedeemedOnce
<1>. QED
  BY <1>1, InvHolds, PTL

\* A reconnected user's refresh token is none that a disconnect revokes.
THEOREM ReconnectedKeepsToken == Spec => []RevokeSpares
<1>. Inv => RevokeSpares
  BY DEF Inv, Ownership
<1>. QED
  BY InvHolds, PTL

\* Only a step of Save makes a row where there was none.
LEMMA RowAppears ==
  ASSUME TypeOK, [Next]_vars, NEW u \in Users, ~HasRow(u), HasRow(u)'
  PROVE  \E r \in Requests : pc[r] = "save" /\ who[r] = u
<1>1. refresh'[u] # refresh[u]
  BY DEF HasRow
<1>2. ASSUME NEW r \in Requests, NEW o \in Outcomes, Save(r, o)
      PROVE  pc[r] = "save" /\ who[r] = u
  BY <1>1, <1>2 DEF Save, row, TypeOK, RowOK
<1>3. ASSUME NEW v \in Users, NEW o \in Outcomes, Disconnect(v, o) PROVE FALSE
  BY <1>3 DEF Disconnect, DeleteRow, HasRow, TypeOK, RowOK
<1>. QED
  BY <1>1, <1>2, <1>3
  DEF Next, vars, row, Connect, AccessToken, ConsentURL, Callback, Exchange,
      ExchangeError, SaveAccessOnly, Load, Refresh, UpdateAccess, Use, Age,
      RevokeAtGoogle, Background, Crash

\* Disconnect is final, also for a refresh that was under way.
THEOREM DisconnectIsFinal == Spec => DisconnectFinal
<1>1. TypeOK /\ [Next]_vars =>
        [\A u \in Users :
           ~HasRow(u) /\ HasRow(u)' => \E r \in Requests : pc[r] = "save" /\ who[r] = u]_vars
  BY RowAppears
<1>. QED
  BY <1>1, TypeCorrect, PTL DEF Spec, DisconnectFinal

-------------------------------------------------------------------------------
(* What it takes to serve a revoked token: two requests at once.           *)

OneAtATime == \A q, r \in Requests : q = r

\* No row serves a token that was dropped, and a refresh under way is of the
\* token in its user's row, if there still is one.
Unmixed ==
  /\ \A u \in Users : HasRow(u) => access[u] \notin revoking \cup revoked
  /\ \A r \in Requests :
       pc[r] \in {"refresh", "update"} /\ HasRow(who[r]) => tok[r] = refresh[who[r]]

LEMMA UnmixedStep ==
  ASSUME OneAtATime, Inv, Unmixed, [Next]_vars
  PROVE  Unmixed'
<1>. TypeOK /\ Redemption /\ Ownership
  BY DEF Inv
<1>. DEFINE Revocations == UNCHANGED <<revoking, revoked>>
<1>a. ASSUME UNCHANGED <<refresh, access, requests, revoking, revoked>> PROVE Unmixed'
  BY <1>a DEF Unmixed, HasRow, requests
<1>b. ASSUME NEW r \in Requests, NEW l, NEW u, NEW s, NEW g, MovedTo(r, l, u, s, g),
             UNCHANGED <<refresh, revoking, revoked>>,
             l \in {"refresh", "update"} /\ HasRow(u) => g = refresh[u],
             \A v \in Users : HasRow(v) => access'[v] \notin revoking \cup revoked
      PROVE  Unmixed'
  BY <1>b DEF Unmixed, HasRow, MovedTo, OneAtATime
<1>1. ASSUME NEW s \in States, NEW u \in Users, ConsentURL(s, u) PROVE Unmixed'
  BY <1>1, <1>a DEF ConsentURL, row, google
<1>2. ASSUME NEW r \in Requests, NEW s \in States, Callback(r, s) PROVE Unmixed'
  <2>1. UNCHANGED <<refresh, access, revoking, revoked>>
    BY <1>2 DEF Callback, row, google
  <2>2. CASE Expired(s)
    BY <1>2, <1>a, <2>1, <2>2 DEF Callback
  <2>3. CASE ~Expired(s)
    <3>1. MovedTo(r, "exchange", bound[s], s, NoGrant)
      BY <1>2, <2>3 DEF Callback, Move, MovedTo, TypeOK, RequestsOK
    <3>. QED
      BY <1>b, <2>1, <3>1 DEF Unmixed
  <2>. QED
    BY <2>2, <2>3
<1>3. ASSUME NEW r \in Requests, NEW g \in Grants, Exchange(r, g) PROVE Unmixed'
  <2>1. /\ UNCHANGED <<refresh, access, revoking, revoked>>
        /\ MovedTo(r, "save", who[r], via[r], g)
    BY <1>3 DEF Exchange, Move, MovedTo, row, TypeOK, RequestsOK
  <2>. QED
    BY <1>b, <2>1 DEF Unmixed
<1>4. ASSUME NEW r \in Requests, ExchangeError(r) PROVE Unmixed'
  BY <1>4, <1>b, Moves DEF ExchangeError, row, google, Unmixed
<1>5. ASSUME NEW r \in Requests, NEW o \in Outcomes, Save(r, o) PROVE Unmixed'
  <2>1. /\ pc[r] = "save" /\ Revocations
        /\ MovedTo(r, "idle", NoUser, NoState, NoGrant)
    BY <1>5, Moves DEF Save, google
  <2>2. CASE UNCHANGED row
    BY <1>b, <2>1, <2>2 DEF row, Unmixed
  <2>3. CASE /\ refresh' = [refresh EXCEPT ![who[r]] = tok[r]]
             /\ SetAccess(who[r], tok[r])
    <3>1. /\ \A u \in Users \ {who[r]} : refresh'[u] = refresh[u] /\ access'[u] = access[u]
          /\ who[r] \in Users => access'[who[r]] = tok[r]
      BY <2>3 DEF SetAccess, TypeOK, RowOK
    <3>2. tok[r] \notin revoking \cup revoked
      BY <2>1 DEF Ownership, Unsaved
    <3>3. \A q \in Requests : pc'[q] = "idle"
      BY <2>1 DEF MovedTo, OneAtATime
    <3>. QED
      BY <2>1, <3>1, <3>2, <3>3 DEF Unmixed, HasRow
  <2>. QED
    BY <1>5, <2>2, <2>3 DEF Save
<1>6. ASSUME NEW r \in Requests, NEW o \in Outcomes, SaveAccessOnly(r, o) PROVE Unmixed'
  <2>1. /\ pc[r] = "save" /\ UNCHANGED refresh /\ Revocations
        /\ MovedTo(r, "idle", NoUser, NoState, NoGrant)
        /\ who[r] \in Users /\ tok[r] \in Grants
    BY <1>6, Moves, Held DEF SaveAccessOnly, google, TypeOK
  <2>2. PutTo(who[r], tok[r])
    BY <1>6, <2>1, PutOK DEF SaveAccessOnly, TypeOK
  <2>3. tok[r] \notin revoking \cup revoked
    BY <2>1 DEF Ownership, Unsaved
  <2>4. \A v \in Users : HasRow(v) => access'[v] \notin revoking \cup revoked
    BY <2>2, <2>3 DEF PutTo, Unmixed
  <2>. QED
    BY <1>b, <2>1, <2>4
<1>7. ASSUME NEW r \in Requests, NEW u \in Users, Load(r, u) PROVE Unmixed'
  BY <1>7, <1>b, Moves DEF Load, row, google, Unmixed
<1>8. ASSUME NEW r \in Requests, Refresh(r) PROVE Unmixed'
  BY <1>8, <1>b, Moves DEF Refresh, row, google, Unmixed
<1>9. ASSUME NEW r \in Requests, NEW o \in Outcomes, UpdateAccess(r, o) PROVE Unmixed'
  <2>1. /\ pc[r] = "update" /\ UNCHANGED refresh /\ Revocations
        /\ who[r] \in Users /\ tok[r] \in Grants
    BY <1>9, Held DEF UpdateAccess, google, TypeOK
  <2>2. PutTo(who[r], tok[r])
    BY <1>9, <2>1, PutOK DEF UpdateAccess, TypeOK
  <2>3. HasRow(who[r]) => tok[r] \notin revoking \cup revoked
    BY <2>1 DEF Unmixed, Ownership, RevokeSpares
  <2>4. \A v \in Users : HasRow(v) => access'[v] \notin revoking \cup revoked
    BY <2>2, <2>3 DEF PutTo, Unmixed
  <2>. QED
    BY <1>9, <1>b, <2>1, <2>4, Moves
<1>10. ASSUME NEW r \in Requests, Use(r) PROVE Unmixed'
  BY <1>10, <1>b, Moves DEF Use, row, google, Unmixed
<1>11. ASSUME NEW u \in Users, Age(u) PROVE Unmixed'
  BY <1>11, <1>a DEF Age, google
<1>12. ASSUME NEW u \in Users, NEW o \in Outcomes, Disconnect(u, o) PROVE Unmixed'
  <2>1. /\ HasRow(u) /\ UNCHANGED <<requests, revoked>>
        /\ revoking' \subseteq revoking \cup {refresh[u]}
    BY <1>12 DEF Disconnect, google
  <2>2. /\ refresh'[u] = NoGrant
        /\ \A v \in Users \ {u} : refresh'[v] = refresh[v] /\ access'[v] = access[v]
    BY <1>12 DEF Disconnect, DeleteRow, TypeOK, RowOK
  <2>3. \A v \in Users \ {u} : HasRow(v) => access[v] # refresh[u]
    BY <2>1, Grantee DEF GrantOf
  <2>4. \A r \in Requests : pc[r] \in {"refresh", "update"} => who[r] \in Users
    BY Held DEF TypeOK
  <2>. QED
    BY <2>1, <2>2, <2>3, <2>4 DEF Unmixed, HasRow, requests
<1>13. ASSUME NEW g \in Grants, RevokeAtGoogle(g) PROVE Unmixed'
  <2>1. (revoking \cup revoked)' \subseteq revoking \cup revoked /\ UNCHANGED <<row, requests>>
    BY <1>13 DEF RevokeAtGoogle
  <2>. QED
    BY <2>1 DEF Unmixed, HasRow, row, requests
<1>14. ASSUME Background PROVE Unmixed'
  BY <1>14, <1>a DEF Background, row, google
<1>15. ASSUME Crash PROVE Unmixed'
  BY <1>15 DEF Crash, row, google, Unmixed, HasRow
<1>16. ASSUME UNCHANGED vars PROVE Unmixed'
  BY <1>16, <1>a DEF vars, row, google
<1>. QED
  BY <1>1, <1>2, <1>3, <1>4, <1>5, <1>6, <1>7, <1>8, <1>9, <1>10, <1>11, <1>12, <1>13,
     <1>14, <1>15, <1>16 DEF Next, Connect, AccessToken

\* A token is served at once only from a row.
LEMMA ServedFromRow ==
  ASSUME TypeOK, Unmixed, [Next]_vars, NEW r \in Requests, pc[r] = "idle", pc'[r] = "use"
  PROVE  tok'[r] \notin revoked
<1>1. ASSUME NEW q \in Requests, NEW u \in Users, Load(q, u) PROVE tok'[r] \notin revoked
  <2>1. \/ MovedTo(q, "use", u, NoState, access[u])
        \/ MovedTo(q, "refresh", u, NoState, refresh[u])
    BY <1>1, Moves
  <2>2. q = r /\ tok'[r] = access[u]
    BY <2>1 DEF MovedTo
  <2>. QED
    BY <1>1, <2>2 DEF Load, Unmixed
<1>2. ASSUME NEW q \in Requests, NEW s \in States, Callback(q, s) PROVE pc'[r] # "use"
  BY <1>2 DEF Callback, Move, requests, TypeOK, RequestsOK
<1>3. ASSUME NEW q \in Requests, NEW g \in Grants, Exchange(q, g) PROVE pc'[r] # "use"
  BY <1>3 DEF Exchange, Move, TypeOK, RequestsOK
<1>4. ASSUME NEW q \in Requests,
             \/ ExchangeError(q) \/ Refresh(q) \/ Use(q)
             \/ \E o \in Outcomes : Save(q, o) \/ SaveAccessOnly(q, o) \/ UpdateAccess(q, o)
      PROVE  pc'[r] # "use"
  <2>1. pc[q] # "idle"
    BY <1>4 DEF ExchangeError, Refresh, Use, Save, SaveAccessOnly, UpdateAccess
  <2>2. pc'[r] = pc[r]
    BY <1>4, <2>1, Moves DEF MovedTo
  <2>. QED
    BY <2>2
<1>5. ASSUME UNCHANGED requests PROVE pc'[r] # "use"
  BY <1>5 DEF requests
<1>6. ASSUME Crash PROVE pc'[r] # "use"
  BY <1>6 DEF Crash
<1>. QED
  BY <1>1, <1>2, <1>3, <1>4, <1>5, <1>6
  DEF Next, vars, Connect, AccessToken, ConsentURL, Age, Disconnect, RevokeAtGoogle, Background

\* accessToken serves no token that was revoked, as client.go:234 says, where
\* requests come one at a time: a stale one takes a refresh that another
\* request's consent overtakes.
THEOREM ServedValidAlone == OneAtATime => (Spec => ServedValid)
<1>. SUFFICES ASSUME OneAtATime PROVE Spec => ServedValid
  OBVIOUS
<1>1. Init => Unmixed
  BY DEF Init, Unmixed, HasRow
<1>2. Inv /\ Unmixed /\ [Next]_vars => Unmixed'
  BY UnmixedStep
<1>3. TypeOK /\ Unmixed /\ [Next]_vars =>
        [\A r \in Requests : pc[r] = "idle" /\ pc'[r] = "use" => tok'[r] \notin revoked]_vars
  BY ServedFromRow
<1>. QED
  BY <1>1, <1>2, <1>3, InvHolds, TypeCorrect, PTL DEF Spec, ServedValid
===============================================================================
