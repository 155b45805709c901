------------------------- MODULE GrantLifecycleProofs --------------------------
(***************************************************************************)
(* OAuthTokens implements GrantLifecycle, for any number of users, states, *)
(* grants and requests and any faults: each of its steps is one step in    *)
(* the life of one grant, or none, and a crash is a Restart.               *)
(*                                                                         *)
(* A grant's life is read off five facts about it. What keeps them in step *)
(* is Inv of OAuthTokensProofs: one request at most saves a grant (Once),  *)
(* a grant being saved is in no row and was never dropped (Unsaved), a row *)
(* has nothing that was (RevokeSpares), two users never share one          *)
(* (OwnTokens). One part is added: a revoke is attempted once (Attempted). *)
(***************************************************************************)
EXTENDS OAuthTokensProofs

Attempted == revoking \cap revoked = {}

GrantsInv == Inv /\ Attempted

LEMMA AttemptedStep == Inv /\ Attempted /\ [Next]_vars => Attempted'
<1>. SUFFICES ASSUME Inv, Attempted, [Next]_vars PROVE Attempted'
  OBVIOUS
<1>1. ASSUME NEW u \in Users, NEW o \in Outcomes, Disconnect(u, o) PROVE Attempted'
  <2>1. refresh[u] \notin revoked /\ revoked' = revoked
    BY <1>1 DEF Disconnect, google, Inv, Ownership, RevokeSpares
  <2>2. revoking' \subseteq revoking \cup {refresh[u]}
    BY <1>1 DEF Disconnect
  <2>. QED
    BY <2>1, <2>2 DEF Attempted
<1>2. ASSUME NEW g \in Grants, RevokeAtGoogle(g) PROVE Attempted'
  BY <1>2 DEF RevokeAtGoogle, Attempted
<1>3. ASSUME Crash PROVE Attempted'
  BY <1>3 DEF Crash, Attempted
<1>4. ASSUME UNCHANGED <<revoking, revoked>> PROVE Attempted'
  BY <1>4 DEF Attempted
<1>. QED
  BY <1>1, <1>2, <1>3, <1>4
  DEF Next, vars, google, Connect, AccessToken, ConsentURL, Callback, Exchange,
      ExchangeError, Save, SaveAccessOnly, Load, Refresh, UpdateAccess, Use, Age, Background

LEMMA GrantsInvHolds == Spec => []GrantsInv
<1>1. Init => GrantsInv
  BY InvInit DEF GrantsInv, Attempted, Init
<1>2. GrantsInv /\ [Next]_vars => GrantsInv'
  BY InvStep, AttemptedStep DEF GrantsInv
<1>. QED
  BY <1>1, <1>2, PTL DEF Spec

-------------------------------------------------------------------------------
\* The state as GrantLifecycle sees it.
Lives  == [g \in Grants |-> LifeOf(g)]
Owners == [g \in Grants |-> IF Granted(g) THEN OwnerOf(g) ELSE NoUser]

\* Nothing of what a grant's life is read off changes.
Same(g) ==
  /\ Granted(g)' <=> Granted(g)
  /\ InRow(g)' <=> InRow(g)
  /\ g \in revoking' <=> g \in revoking
  /\ g \in revoked' <=> g \in revoked
  /\ BeingSaved(g)' <=> BeingSaved(g)

LEMMA SameLife == ASSUME NEW g \in Grants, Same(g) PROVE LifeOf(g)' = LifeOf(g)
BY DEF Same, LifeOf

\* One grant's life changes.
LEMMA OneLife ==
  ASSUME NEW g \in Grants, NEW l, LifeOf(g)' = l, \A h \in Grants \ {g} : Same(h)
  PROVE  Lives' = [Lives EXCEPT ![g] = l]
<1>. \A h \in Grants \ {g} : LifeOf(h)' = LifeOf(h)
  BY SameLife
<1>. QED
  BY DEF Lives

LEMMA NoLife == (\A h \in Grants : Same(h)) => Lives' = Lives
<1>. SUFFICES ASSUME \A h \in Grants : Same(h) PROVE Lives' = Lives
  OBVIOUS
<1>. \A h \in Grants : LifeOf(h)' = LifeOf(h)
  BY SameLife
<1>. QED
  BY DEF Lives

\* Owners stay, but for a grant that is given.
LEMMA OwnersStay ==
  ASSUME TypeOK, Redemption, [Next]_vars, UNCHANGED consent
  PROVE  Owners' = Owners
<1>1. \A g \in Grants : Granted(g) => OwnerOf(g)' = OwnerOf(g)
  BY GrantsStay DEF GrantOf
<1>2. \A g \in Grants : Granted(g)' <=> Granted(g)
  BY DEF Granted
<1>. QED
  BY <1>1, <1>2 DEF Owners

\* Which grants are being saved, after a step of one request.
LEMMA SavedBy ==
  ASSUME TypeOK, NEW r \in Requests, NEW l, NEW u, NEW s, NEW g, MovedTo(r, l, u, s, g)
  PROVE  /\ pc[r] # "save" /\ l # "save" => \A h : BeingSaved(h)' <=> BeingSaved(h)
         /\ \A h : h # g /\ (pc[r] = "save" => h # tok[r])
              => (BeingSaved(h)' <=> BeingSaved(h))
         /\ l = "save" => BeingSaved(g)'
BY DEF BeingSaved, MovedTo

\* A step that touches no row, no consent, no revocation and no Save is none
\* of GrantLifecycle's.
LEMMA Stutter ==
  ASSUME TypeOK, Redemption, [Next]_vars,
         UNCHANGED <<refresh, revoking, revoked, consent>>,
         \A h \in Grants : BeingSaved(h)' <=> BeingSaved(h)
  PROVE  UNCHANGED <<Lives, Owners, refresh>>
<1>1. \A h \in Grants : Same(h)
  BY DEF Same, Granted, InRow
<1>. QED
  BY <1>1, NoLife, OwnersStay

\* At the start there is no consent.
LEMMA InitGrants == Init => Lifecycle!GrantsInit
<1>. SUFFICES ASSUME Init PROVE Lifecycle!GrantsInit
  OBVIOUS
<1>1. \A g \in Grants : ~Granted(g) /\ LifeOf(g) = "none"
  BY DEF Init, Granted, LifeOf
<1>. QED
  BY <1>1 DEF Init, Lifecycle!GrantsInit

\* What each step is to GrantLifecycle.
LEMMA StepGrants ==
  GrantsInv /\ [Next]_vars => [Lifecycle!GrantsNext]_(Lifecycle!abstractVars)
<1>. SUFFICES ASSUME GrantsInv, [Next]_vars
     PROVE  Lifecycle!GrantsNext \/ UNCHANGED Lifecycle!abstractVars
  OBVIOUS
<1>. DEFINE Maps == Lifecycle!GrantsNext \/ UNCHANGED Lifecycle!abstractVars
<1>. TypeOK /\ Redemption /\ Ownership /\ Attempted
  BY DEF GrantsInv, Inv
<1>. USE TokensAssumption
<1>0. UNCHANGED <<Lives, Owners, refresh>> => Maps
  BY DEF Lives, Owners, Lifecycle!abstractVars
<1>a. ASSUME UNCHANGED <<refresh, revoking, revoked, consent>>, UNCHANGED requests PROVE Maps
  <2>. \A h \in Grants : BeingSaved(h)' <=> BeingSaved(h)
    BY <1>a DEF BeingSaved, requests
  <2>. QED
    BY <1>0, <1>a, Stutter
<1>b. ASSUME NEW r \in Requests, NEW l, NEW u, NEW s, NEW g, MovedTo(r, l, u, s, g),
             pc[r] # "save", l # "save", UNCHANGED <<refresh, revoking, revoked, consent>>
      PROVE  Maps
  BY <1>0, <1>b, SavedBy, Stutter
<1>1. ASSUME NEW s \in States, NEW u \in Users, ConsentURL(s, u) PROVE Maps
  BY <1>1, <1>a DEF ConsentURL, row, google
<1>2. ASSUME NEW r \in Requests, NEW s \in States, Callback(r, s) PROVE Maps
  <2>1. UNCHANGED <<refresh, revoking, revoked, consent>> /\ pc[r] = "idle"
    BY <1>2 DEF Callback, row, google
  <2>2. CASE Expired(s)
    BY <1>2, <1>a, <2>1, <2>2 DEF Callback
  <2>3. CASE ~Expired(s)
    <3>1. MovedTo(r, "exchange", bound[s], s, NoGrant)
      BY <1>2, <2>3 DEF Callback, Move, MovedTo, TypeOK, RequestsOK
    <3>. QED
      BY <1>b, <2>1, <3>1
  <2>. QED
    BY <2>2, <2>3
<1>3. ASSUME NEW r \in Requests, NEW g \in Grants, Exchange(r, g) PROVE Maps
  <2>1. /\ pc[r] = "exchange" /\ via[r] \in States /\ who[r] \in Users
        /\ ~Granted(g) /\ consent' = [consent EXCEPT ![g] = via[r]]
        /\ UNCHANGED <<issuedTo, refresh, revoking, revoked>>
        /\ MovedTo(r, "save", who[r], via[r], g)
    BY <1>3 DEF Exchange, Granted, Move, MovedTo, storeVars, entries, row, TypeOK,
                RequestsOK, GoogleOK
  <2>2. Granted(g)' /\ OwnerOf(g)' = who[r]
    BY <2>1 DEF Granted, OwnerOf, TypeOK, GoogleOK, Redemption, Spent
  <2>3. g \notin revoking \cup revoked /\ ~InRow(g)
    BY <2>1, Grantee DEF InRow, Ownership, AllGranted, GrantOf, HasRow
  <2>4. LifeOf(g)' = "given"
    <3>1. BeingSaved(g)'
      BY <2>1, SavedBy
    <3>. QED
      BY <2>1, <2>2, <2>3, <3>1 DEF LifeOf, InRow
  <2>5. \A h \in Grants \ {g} : Same(h)
    <3>1. \A h \in Grants \ {g} : BeingSaved(h)' <=> BeingSaved(h)
      BY <2>1, SavedBy
    <3>. QED
      BY <2>1, <3>1 DEF Same, Granted, InRow, TypeOK, GoogleOK
  <2>6. Lives' = [Lives EXCEPT ![g] = "given"]
    BY <2>4, <2>5, OneLife
  <2>7. Owners' = [Owners EXCEPT ![g] = who[r]]
    <3>1. \A h \in Grants \ {g} : (Granted(h)' <=> Granted(h)) /\ OwnerOf(h)' = OwnerOf(h)
      BY <2>1 DEF Granted, OwnerOf, TypeOK, GoogleOK
    <3>. QED
      BY <2>2, <3>1 DEF Owners
  <2>8. Lives[g] = "none"
    BY <2>1 DEF Lives, LifeOf
  <2>9. Lifecycle!Give(g, who[r])
    BY <2>1, <2>6, <2>7, <2>8 DEF Lifecycle!Give, Lives, Owners
  <2>. QED
    BY <2>1, <2>9 DEF Lifecycle!GrantsNext
<1>4. ASSUME NEW r \in Requests, ExchangeError(r) PROVE Maps
  BY <1>4, <1>b, Moves DEF ExchangeError, row, google
<1>5. ASSUME NEW r \in Requests, pc[r] = "save"
      PROVE  /\ tok[r] \in Grants /\ Granted(tok[r]) /\ who[r] \in Users
             /\ OwnerOf(tok[r]) = who[r] /\ ~InRow(tok[r])
             /\ tok[r] \notin revoking \cup revoked
             /\ LifeOf(tok[r]) = "given"
             /\ \A q \in Requests \ {r} : pc[q] = "save" => tok[q] # tok[r]
  <2>1. tok[r] \in Grants /\ Granted(tok[r]) /\ who[r] \in Users
    BY <1>5, Held DEF TypeOK, Ownership, AllGranted
  <2>2. OwnerOf(tok[r]) = who[r]
    BY <2>1 DEF Ownership, OwnTokens
  <2>3. ~InRow(tok[r]) /\ tok[r] \notin revoking \cup revoked
    BY <1>5 DEF Ownership, Unsaved, InRow
  <2>4. BeingSaved(tok[r])
    BY <1>5 DEF BeingSaved
  <2>5. \A q \in Requests \ {r} : pc[q] = "save" => tok[q] # tok[r]
    BY <1>5 DEF Redemption, Once, TypeOK, RequestsOK
  <2>. QED
    BY <2>1, <2>2, <2>3, <2>4, <2>5 DEF LifeOf
<1>6. ASSUME NEW r \in Requests, pc[r] = "save", MovedTo(r, "idle", NoUser, NoState, NoGrant),
             UNCHANGED <<refresh, revoking, revoked, consent>>
      PROVE  Maps
  <2>. PICK g \in Grants : g = tok[r]
    BY <1>5, <1>6
  <2>1. ~BeingSaved(g)'
    BY <1>5, <1>6 DEF BeingSaved, MovedTo
  <2>2. LifeOf(g)' = "spent"
    BY <1>5, <1>6, <2>1 DEF LifeOf, Granted, InRow
  <2>3. \A h \in Grants \ {g} : Same(h)
    <3>1. \A h \in Grants \ {g} : BeingSaved(h)' <=> BeingSaved(h)
      BY <1>6, SavedBy
    <3>. QED
      BY <1>6, <3>1 DEF Same, Granted, InRow
  <2>4. g \in Grants /\ Lives[g] = "given"
    BY <1>5, <1>6 DEF Lives
  <2>5. Lives' = [Lives EXCEPT ![g] = "spent"]
    BY <2>2, <2>3, <2>4, OneLife
  <2>6. Owners' = Owners
    BY <1>6, OwnersStay
  <2>7. Lifecycle!Lose(g)
    BY <1>6, <2>4, <2>5, <2>6 DEF Lifecycle!Lose, Lives, Owners
  <2>. QED
    BY <2>4, <2>7 DEF Lifecycle!GrantsNext
<1>7. ASSUME NEW r \in Requests, NEW o \in Outcomes, Save(r, o) PROVE Maps
  <2>1. /\ pc[r] = "save" /\ UNCHANGED <<revoking, revoked, consent>>
        /\ MovedTo(r, "idle", NoUser, NoState, NoGrant)
    BY <1>7, Moves DEF Save, google
  <2>2. CASE UNCHANGED row
    BY <1>6, <2>1, <2>2 DEF row
  <2>3. CASE refresh' = [refresh EXCEPT ![who[r]] = tok[r]]
    <3>. PICK g \in Grants, u \in Users : g = tok[r] /\ u = who[r]
      BY <1>5, <2>1
    <3>. Granted(g) /\ OwnerOf(g) = u
      BY <1>5, <2>1
    <3>1. LifeOf(g)' = "kept"
      <4>1. InRow(g)'
        BY <2>3 DEF InRow, TypeOK, RowOK
      <4>. QED
        BY <2>1, <4>1 DEF LifeOf, Granted
    <3>2. \A h \in Grants \ {g} : BeingSaved(h)' <=> BeingSaved(h)
      BY <2>1, SavedBy
    <3>3. ASSUME NEW h \in Grants, h # g, h # refresh[u] PROVE Same(h)
      <4>1. InRow(h)' <=> InRow(h)
        BY <2>3, <3>3 DEF InRow, TypeOK, RowOK
      <4>. QED
        BY <2>1, <3>2, <3>3, <4>1 DEF Same, Granted
    <3>4. ASSUME NEW h \in Grants, h # g, h = refresh[u] PROVE LifeOf(h)' = "spent"
      <4>1. HasRow(u)
        BY <3>4 DEF HasRow
      <4>2. Granted(h) /\ h \notin revoking \cup revoked
        BY <3>4, <4>1 DEF Ownership, AllGranted, RevokeSpares
      <4>3. ~InRow(h)'
        <5>1. \A v \in Users : HasRow(v) /\ refresh[v] = h => v = u
          BY <3>4, <4>1 DEF Ownership, OwnTokens
        <5>. QED
          BY <2>3, <3>4, <5>1 DEF InRow, HasRow, TypeOK, RowOK
      <4>4. ~BeingSaved(h)'
        BY <3>2, <3>4 DEF BeingSaved, Ownership, Unsaved
      <4>. QED
        BY <2>1, <4>2, <4>3, <4>4 DEF LifeOf, Granted
    <3>5. \A h \in Grants : LifeOf(h)' = IF h = g THEN "kept"
                                         ELSE IF h = refresh[u] THEN "spent"
                                         ELSE LifeOf(h)
      BY <3>1, <3>3, <3>4, SameLife
    <3>6. Lives[g] = "given" /\ Owners[g] = u
      BY <1>5, <2>1 DEF Lives, Owners
    <3>7. Owners' = Owners
      BY <2>1, OwnersStay
    <3>8. Lifecycle!Keep(g)
      BY <2>3, <3>5, <3>6, <3>7 DEF Lifecycle!Keep, Lives, Owners
    <3>. QED
      BY <3>8 DEF Lifecycle!GrantsNext
  <2>. QED
    BY <1>7, <2>2, <2>3 DEF Save
<1>8. ASSUME NEW r \in Requests, NEW o \in Outcomes, SaveAccessOnly(r, o) PROVE Maps
  BY <1>6, <1>8, Moves DEF SaveAccessOnly, google
<1>9. ASSUME NEW r \in Requests, NEW u \in Users, Load(r, u) PROVE Maps
  BY <1>9, <1>b, Moves DEF Load, row, google
<1>10. ASSUME NEW r \in Requests, Refresh(r) PROVE Maps
  BY <1>10, <1>b, Moves DEF Refresh, row, google
<1>11. ASSUME NEW r \in Requests, NEW o \in Outcomes, UpdateAccess(r, o) PROVE Maps
  BY <1>11, <1>b, Moves DEF UpdateAccess, google
<1>12. ASSUME NEW r \in Requests, Use(r) PROVE Maps
  BY <1>12, <1>b, Moves DEF Use, row, google
<1>13. ASSUME NEW u \in Users, Age(u) PROVE Maps
  BY <1>13, <1>a DEF Age, google
<1>14. ASSUME NEW u \in Users, NEW o \in Outcomes, Disconnect(u, o) PROVE Maps
  <2>. PICK g \in Grants : g = refresh[u]
    BY <1>14, Grantee DEF Disconnect, GrantOf
  <2>1. /\ HasRow(u) /\ UNCHANGED <<requests, revoked, consent>>
        /\ refresh' = [refresh EXCEPT ![u] = NoGrant]
        /\ revoking' = revoking \cup {g} \/ revoking' = revoking
    BY <1>14 DEF Disconnect, DeleteRow, google
  <2>2. g \in Grants /\ Granted(g) /\ g \notin revoking \cup revoked
    BY <2>1, Grantee DEF GrantOf, Ownership, RevokeSpares
  <2>3. \A h \in Grants : BeingSaved(h)' <=> BeingSaved(h)
    BY <2>1 DEF BeingSaved, requests
  <2>4. ~InRow(g)' /\ ~BeingSaved(g)
    <3>1. \A v \in Users : refresh[v] = g => v = u
      BY <2>1 DEF HasRow, Ownership, OwnTokens
    <3>2. g # NoGrant
      BY <2>1 DEF HasRow
    <3>. QED
      BY <2>1, <3>1, <3>2 DEF InRow, BeingSaved, Ownership, Unsaved, TypeOK, RowOK
  <2>5. LifeOf(g)' \in {"revoking", "spent"}
    BY <2>1, <2>2, <2>3, <2>4 DEF LifeOf, Granted
  <2>6. ASSUME NEW h \in Grants \ {g} PROVE Same(h)
    <3>1. InRow(h)' <=> InRow(h)
      BY <2>1 DEF InRow, TypeOK, RowOK
    <3>. QED
      BY <2>1, <2>3, <3>1 DEF Same, Granted
  <2>7. PICK end \in {"revoking", "spent"} : Lives' = [Lives EXCEPT ![g] = end]
    BY <2>2, <2>5, <2>6, OneLife
  <2>8. Owners' = Owners
    BY <2>1, OwnersStay
  <2>9. Lifecycle!Drop(u)
    BY <2>1, <2>7, <2>8 DEF Lifecycle!Drop, HasRow, Lives, Owners
  <2>. QED
    BY <2>9 DEF Lifecycle!GrantsNext
<1>15. ASSUME NEW g \in Grants, RevokeAtGoogle(g) PROVE Maps
  <2>1. /\ g \in revoking /\ revoking' = revoking \ {g}
        /\ revoked' \in {revoked, revoked \cup {g}}
        /\ UNCHANGED <<refresh, requests, consent>>
    BY <1>15 DEF RevokeAtGoogle, row
  <2>2. Granted(g) /\ ~InRow(g) /\ ~BeingSaved(g)
    BY <2>1 DEF InRow, HasRow, BeingSaved, Ownership, AllGranted, RevokeSpares, Unsaved
  <2>3. \A h \in Grants : BeingSaved(h)' <=> BeingSaved(h)
    BY <2>1 DEF BeingSaved, requests
  <2>4. Lives[g] = "revoking"
    BY <2>1, <2>2 DEF Lives, LifeOf
  <2>5. LifeOf(g)' \in {"revoked", "spent"}
    BY <2>1, <2>2, <2>3 DEF LifeOf, Granted, InRow
  <2>6. ASSUME NEW h \in Grants \ {g} PROVE Same(h)
    BY <2>1, <2>3 DEF Same, Granted, InRow
  <2>7. PICK end \in {"revoked", "spent"} : Lives' = [Lives EXCEPT ![g] = end]
    BY <2>5, <2>6, OneLife
  <2>8. Owners' = Owners
    BY <2>1, OwnersStay
  <2>9. Lifecycle!Revoke(g)
    BY <2>1, <2>4, <2>7, <2>8 DEF Lifecycle!Revoke, Lives, Owners
  <2>. QED
    BY <2>9 DEF Lifecycle!GrantsNext
<1>16. ASSUME Background PROVE Maps
  BY <1>16, <1>a DEF Background, row, google
<1>17. ASSUME Crash PROVE Maps
  <2>1. /\ \A r \in Requests : pc'[r] = "idle"
        /\ revoking' = {} /\ UNCHANGED <<refresh, consent, revoked>>
    BY <1>17 DEF Crash, row, google
  <2>2. \A h \in Grants : ~BeingSaved(h)'
    BY <2>1 DEF BeingSaved
  <2>3. \A h \in Grants : h \in revoking => h \notin revoked
    BY DEF Attempted
  <2>4. \A h \in Grants : LifeOf(h)' = IF LifeOf(h) \in {"given", "revoking"} THEN "spent"
                                       ELSE LifeOf(h)
    BY <2>1, <2>2, <2>3 DEF LifeOf, Granted, InRow
  <2>5. Owners' = Owners
    BY <2>1, OwnersStay
  <2>6. Lifecycle!Restart
    BY <2>1, <2>4, <2>5 DEF Lifecycle!Restart, Lives, Owners
  <2>. QED
    BY <2>6 DEF Lifecycle!GrantsNext
<1>18. ASSUME UNCHANGED vars PROVE Maps
  BY <1>18, <1>a DEF vars, row, google
<1>. QED
  BY <1>1, <1>2, <1>3, <1>4, <1>7, <1>8, <1>9, <1>10, <1>11, <1>12, <1>13, <1>14,
     <1>15, <1>16, <1>17, <1>18 DEF Next, Connect, AccessToken

\* Seen through the rows, Saves and revokes, every behaviour of the service
\* follows the life of GrantLifecycle: a token that was displaced, dropped or
\* lost never comes back, and only a dropped one is revoked.
THEOREM TokensImplementGrants == Spec => ImplementsGrants
<1>. QED
  BY InitGrants, StepGrants, GrantsInvHolds, PTL
  DEF Spec, ImplementsGrants, Lifecycle!GrantsSpec
===============================================================================
