----------------------------- MODULE OAuthTokens ------------------------------
(***************************************************************************)
(* How users connect to Google and disconnect: the OAuth half of client.go *)
(* over the stateStore of oauth.go and the photopicker_oauth_tokens table  *)
(* of postgres/tokens.go, with several requests in flight for one user.    *)
(*                                                                         *)
(* A grant stands for one consent given at Google and for every token that *)
(* comes of it, so a row holds the grant of its refresh token and that of  *)
(* its access token. Every call that leaves the process is one step.       *)
(***************************************************************************)
EXTENDS StateStore

CONSTANTS
  Grants,    \* the consents Google may record
  Requests,  \* requests in flight together: callbacks and access-token users
  Faults,    \* which of "db", "omit", "crash" may happen
  NoState, NoGrant

ASSUME TokensAssumption ==
  /\ NoState \notin States
  /\ NoGrant \notin Grants
  /\ Faults \subseteq {"db", "omit", "crash"}

VARIABLES
  (* the table: no row is refresh NoGrant *)
  refresh, access,
  fresh,     \* expires_at is more than a minute away
  (* requests *)
  pc, who,
  via,       \* the state a callback redeemed
  tok,       \* the grant of the token a request holds
  revoking,  \* grants that a revokeAtGoogle goroutine is about to revoke
  (* Google *)
  consent,   \* the state under which each grant was given
  revoked    \* grants Google was told to revoke

row      == <<refresh, access, fresh>>
requests == <<pc, who, via, tok>>
google   == <<consent, revoked>>
vars     == <<storeVars, row, requests, revoking, google>>

Points == {"idle", "exchange", "save", "refresh", "update", "use"}

HasRow(u) == refresh[u] # NoGrant

RowOK ==
  /\ refresh \in [Users -> Grants \cup {NoGrant}]
  /\ access  \in [Users -> Grants \cup {NoGrant}]
  /\ fresh   \in [Users -> BOOLEAN]
  /\ \A u \in Users : HasRow(u) <=> access[u] # NoGrant

RequestsOK ==
  /\ pc  \in [Requests -> Points]
  /\ who \in [Requests -> Users \cup {NoUser}]
  /\ via \in [Requests -> States \cup {NoState}]
  /\ tok \in [Requests -> Grants \cup {NoGrant}]
  /\ \A r \in Requests :
       /\ who[r] # NoUser  <=> pc[r] # "idle"
       /\ via[r] # NoState <=> pc[r] \in {"exchange", "save"}
       /\ tok[r] # NoGrant <=> pc[r] \notin {"idle", "exchange"}

GoogleOK ==
  /\ consent  \in [Grants -> States \cup {NoState}]
  /\ revoked  \subseteq Grants
  /\ revoking \subseteq Grants

\* The types, and that a row holds both tokens or none, a request its user
\* and, once Google answered it, a token.
TypeOK == StoreTypeOK /\ RowOK /\ RequestsOK /\ GoogleOK

Init ==
  /\ StoreInit
  /\ refresh  = [u \in Users |-> NoGrant]
  /\ access   = [u \in Users |-> NoGrant]
  /\ fresh    = [u \in Users |-> FALSE]
  /\ pc       = [r \in Requests |-> "idle"]
  /\ who      = [r \in Requests |-> NoUser]
  /\ via      = [r \in Requests |-> NoState]
  /\ tok      = [r \in Requests |-> NoGrant]
  /\ revoking = {}
  /\ consent  = [g \in Grants |-> NoState]
  /\ revoked  = {}

-------------------------------------------------------------------------------
\* A request at point l, for user u, with a redeemed state and a token.
Move(r, l, u, s, g) ==
  /\ pc'  = [pc  EXCEPT ![r] = l]
  /\ who' = [who EXCEPT ![r] = u]
  /\ via' = [via EXCEPT ![r] = s]
  /\ tok' = [tok EXCEPT ![r] = g]

Answer(r) == Move(r, "idle", NoUser, NoState, NoGrant)

SetAccess(u, g) ==
  /\ access' = [access EXCEPT ![u] = g]
  /\ fresh'  = [fresh EXCEPT ![u] = TRUE]

\* UPDATE ... SET access_token, expires_at WHERE user_id = u.
PutAccess(u, g, o) ==
  IF o # "err" /\ HasRow(u) THEN SetAccess(u, g) ELSE UNCHANGED <<access, fresh>>

\* A statement ends "ok"; or "err", not applied; or applied, its answer "lost".
Outcomes == {"ok"} \cup IF "db" \in Faults THEN {"err", "lost"} ELSE {}

-------------------------------------------------------------------------------
(* Connecting: ConsentURL, then Google's redirect to Callback, which calls *)
(* CompleteConsent: consume, Exchange, Save.                               *)
ConsentURL(s, u) == Issue(s, u) /\ UNCHANGED <<row, requests, revoking, google>>

\* Variant: the tokens go to the user whose browser comes back.
CallbackForVisitor(r, s) ==
  /\ pc[r] = "idle"
  /\ Redeem(s)
  /\ \E u \in Users : Move(r, "exchange", u, s, NoGrant)
  /\ UNCHANGED <<row, revoking, google>>

\* A redirect may come twice or late; an expired entry is deleted all the same.
Callback(r, s) ==
  /\ pc[r] = "idle"
  /\ Redeem(s)
  /\ IF Expired(s) THEN UNCHANGED requests
                   ELSE Move(r, "exchange", bound[s], s, NoGrant)
  /\ UNCHANGED <<row, revoking, google>>

Exchange(r, g) ==
  /\ pc[r] = "exchange"
  /\ consent[g] = NoState
  /\ consent' = [consent EXCEPT ![g] = via[r]]
  /\ Move(r, "save", who[r], via[r], g)
  /\ UNCHANGED <<storeVars, row, revoking, revoked>>

ExchangeError(r) ==
  /\ pc[r] = "exchange"
  /\ Answer(r)
  /\ UNCHANGED <<storeVars, row, revoking, google>>

\* Save with a refresh token: INSERT ... ON CONFLICT DO UPDATE.
Save(r, o) ==
  /\ pc[r] = "save"
  /\ \/ o = "err" /\ UNCHANGED row
     \/ /\ o # "err"
        /\ refresh' = [refresh EXCEPT ![who[r]] = tok[r]]
        /\ SetAccess(who[r], tok[r])
  /\ Answer(r)
  /\ UNCHANGED <<storeVars, revoking, google>>

\* Variant: an upsert without a refresh token.
SaveAccessUpserts(r, o) ==
  /\ "omit" \in Faults
  /\ pc[r] = "save"
  /\ SetAccess(who[r], tok[r])
  /\ Answer(r)
  /\ UNCHANGED <<storeVars, refresh, revoking, google>>

\* Variant: an answer without a refresh token erases the one in the row.
SaveAccessErases(r, o) ==
  /\ "omit" \in Faults
  /\ pc[r] = "save"
  /\ refresh' = [refresh EXCEPT ![who[r]] = NoGrant]
  /\ SetAccess(who[r], tok[r])
  /\ Answer(r)
  /\ UNCHANGED <<storeVars, revoking, google>>

\* Save without one: an UPDATE, which changes nothing where there is no row.
SaveAccessOnly(r, o) ==
  /\ "omit" \in Faults
  /\ pc[r] = "save"
  /\ PutAccess(who[r], tok[r], o)
  /\ Answer(r)
  /\ UNCHANGED <<storeVars, refresh, revoking, google>>

-------------------------------------------------------------------------------
(* accessToken, for a picker call or a worker; then the call that uses it. *)
Load(r, u) ==
  /\ pc[r] = "idle"
  /\ HasRow(u)
  /\ IF fresh[u] THEN Move(r, "use", u, NoState, access[u])
                 ELSE Move(r, "refresh", u, NoState, refresh[u])
  /\ UNCHANGED <<storeVars, row, revoking, google>>

\* Google issues an access token of the same grant, or refuses.
Refresh(r) ==
  /\ pc[r] = "refresh"
  /\ \/ tok[r] \notin revoked /\ Move(r, "update", who[r], NoState, tok[r])
     \/ Answer(r)
  /\ UNCHANGED <<storeVars, row, revoking, google>>

\* Variant: an upsert, as Save does it.
UpdateAccessUpserts(r, o) ==
  /\ pc[r] = "update"
  /\ refresh' = [refresh EXCEPT ![who[r]] = tok[r]] /\ SetAccess(who[r], tok[r])
  /\ Move(r, "use", who[r], NoState, tok[r])
  /\ UNCHANGED <<storeVars, revoking, google>>

UpdateAccess(r, o) ==
  /\ pc[r] = "update"
  /\ PutAccess(who[r], tok[r], o)
  /\ IF o = "ok" THEN Move(r, "use", who[r], NoState, tok[r]) ELSE Answer(r)
  /\ UNCHANGED <<storeVars, refresh, revoking, google>>

\* The call to Google ends: a refused token changes nothing of ours.
Use(r) ==
  /\ pc[r] = "use"
  /\ Answer(r)
  /\ UNCHANGED <<storeVars, row, revoking, google>>

Age(u) ==
  /\ fresh[u]
  /\ fresh' = [fresh EXCEPT ![u] = FALSE]
  /\ UNCHANGED <<storeVars, refresh, access, requests, revoking, google>>

-------------------------------------------------------------------------------
DeleteRow(u) ==
  /\ refresh' = [refresh EXCEPT ![u] = NoGrant]
  /\ access'  = [access EXCEPT ![u] = NoGrant]
  /\ fresh'   = [fresh EXCEPT ![u] = FALSE]

\* Variant: revoke first, delete then; the DELETE may fail.
DisconnectRevokesFirst(u, o) ==
  /\ HasRow(u)
  /\ IF o = "err" THEN UNCHANGED row ELSE DeleteRow(u)
  /\ revoking' = revoking \cup {refresh[u]}
  /\ UNCHANGED <<storeVars, requests, google>>

\* Disconnect: DELETE ... RETURNING, then a goroutine that revokes. A lost
\* answer, or a token that does not decrypt, leaves nothing to revoke.
Disconnect(u, o) ==
  /\ HasRow(u)
  /\ o # "err"
  /\ DeleteRow(u)
  /\ revoking' = IF o = "ok" THEN revoking \cup {refresh[u]} ELSE revoking
  /\ UNCHANGED <<storeVars, requests, google>>

\* One attempt, bounded by ten seconds; a failure is only logged.
RevokeAtGoogle(g) ==
  /\ g \in revoking
  /\ revoking' = revoking \ {g}
  /\ revoked' \in {revoked, revoked \cup {g}}
  /\ UNCHANGED <<storeVars, row, requests, consent>>

\* The process dies, with its states, requests and goroutines.
Crash ==
  /\ "crash" \in Faults
  /\ Renew
  /\ pc'  = [r \in Requests |-> "idle"]
  /\ who' = [r \in Requests |-> NoUser]
  /\ via' = [r \in Requests |-> NoState]
  /\ tok' = [r \in Requests |-> NoGrant]
  /\ revoking' = {}
  /\ UNCHANGED <<row, google>>

Background == (Elapse \/ Sweep) /\ UNCHANGED <<row, requests, revoking, google>>

Connect(r) ==
  \/ \E s \in States : Callback(r, s)
  \/ \E g \in Grants : Exchange(r, g)
  \/ ExchangeError(r)
  \/ \E o \in Outcomes : Save(r, o) \/ SaveAccessOnly(r, o)

AccessToken(r) ==
  \/ \E u \in Users : Load(r, u)
  \/ Refresh(r) \/ Use(r)
  \/ \E o \in Outcomes : UpdateAccess(r, o)

Next ==
  \/ \E s \in States, u \in Users : ConsentURL(s, u)
  \/ \E r \in Requests : Connect(r) \/ AccessToken(r)
  \/ \E u \in Users : Age(u) \/ \E o \in Outcomes : Disconnect(u, o)
  \/ \E g \in Grants : RevokeAtGoogle(g)
  \/ Background \/ Crash

Spec == Init /\ [][Next]_vars

-------------------------------------------------------------------------------
Granted(g) == consent[g] # NoState
OwnerOf(g) == issuedTo[consent[g]]

\* Whatever requests, redirects and disconnects overlap, a user's row holds
\* tokens only of consents given under a state issued to that user, and a
\* request acts only with such tokens.
OwnTokens ==
  /\ \A u \in Users :
       HasRow(u) => OwnerOf(refresh[u]) = u /\ OwnerOf(access[u]) = u
  /\ \A r \in Requests : tok[r] # NoGrant => OwnerOf(tok[r]) = who[r]

\* A state is redeemed once: no two grants come of one state, nor does one
\* whose exchange is still under way, through repeated redirects and sweeps.
StateRedeemedOnce ==
  /\ \A g, h \in Grants : Granted(g) /\ g # h => consent[g] # consent[h]
  /\ \A q, r \in Requests :
       pc[r] = "exchange" =>
         /\ bound[via[r]] = NoUser
         /\ via[q] = via[r] => q = r
         /\ \A g \in Grants : consent[g] # via[r]

\* Disconnect revokes only what it deleted: a user who reconnects while the
\* revoke is on its way, or whose DELETE fails, keeps a refresh token that
\* this process neither revoked nor is about to revoke.
RevokeSpares == \A u \in Users : HasRow(u) => refresh[u] \notin revoking \cup revoked

\* Disconnect is final: a refresh under way at that moment never brings the
\* row back; only the Save of a consent does.
DisconnectFinal ==
  [][\A u \in Users :
       ~HasRow(u) /\ HasRow(u)' => \E r \in Requests : pc[r] = "save" /\ who[r] = u]_vars

\* A row has the refresh token of g; a request is about to save it.
InRow(g)      == \E u \in Users : refresh[u] = g
BeingSaved(g) == \E r \in Requests : pc[r] = "save" /\ tok[r] = g

LifeOf(g) ==
  IF ~Granted(g)         THEN "none"
  ELSE IF InRow(g)       THEN "kept"
  ELSE IF g \in revoking THEN "revoking"
  ELSE IF g \in revoked  THEN "revoked"
  ELSE IF BeingSaved(g)  THEN "given"
  ELSE "spent"

\* TokenStore and Client as their callers see them: each consent follows
\* GrantLifecycle, seen through the rows and the Saves and revokes under way.
Lifecycle == INSTANCE GrantLifecycle
  WITH life  <- [g \in Grants |-> LifeOf(g)],
       owner <- [g \in Grants |-> IF Granted(g) THEN OwnerOf(g) ELSE NoUser],
       kept  <- refresh
ImplementsGrants == Lifecycle!GrantsSpec

\* client.go:234: "accessToken returns a valid non-expired access token for
\* userID". Violated: see the findings.
ServedValid ==
  [][\A r \in Requests :
       pc[r] = "idle" /\ pc'[r] = "use" => tok'[r] \notin revoked]_vars
===============================================================================
