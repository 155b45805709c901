---------------------------- MODULE GrantLifecycle -----------------------------
(***************************************************************************)
(* What TokenStore (stores.go) and the Client that uses it promise about   *)
(* the consents of users, with no state, statement or request in sight:    *)
(* the abstract specification that OAuthTokens implements.                 *)
(*                                                                         *)
(*  - a consent belongs to the user it was given for, and only that user   *)
(*    ever keeps its refresh token, and keeps it once;                     *)
(*  - a user keeps one refresh token at a time; a newer one displaces it;  *)
(*  - only a token that its user dropped is revoked, and none comes back   *)
(*    to a user once it was displaced, dropped or lost.                    *)
(***************************************************************************)
CONSTANTS Users, Grants, NoUser, NoGrant

VARIABLES life,    \* "none", "given", "kept", "spent", "revoking" or "revoked"
          owner,   \* for whom it was given
          kept     \* the grant whose refresh token each user has

abstractVars == <<life, owner, kept>>

GrantsInit ==
  /\ life  = [g \in Grants |-> "none"]
  /\ owner = [g \in Grants |-> NoUser]
  /\ kept  = [u \in Users |-> NoGrant]

\* Google grants u a consent.
Give(g, u) ==
  /\ life[g] = "none"
  /\ life'  = [life EXCEPT ![g] = "given"]
  /\ owner' = [owner EXCEPT ![g] = u]
  /\ UNCHANGED kept

\* Its refresh token is saved for its owner, in the place of an earlier one.
Keep(g) ==
  /\ life[g] = "given"
  /\ kept' = [kept EXCEPT ![owner[g]] = g]
  /\ life' = [h \in Grants |-> IF h = g THEN "kept"
                               ELSE IF h = kept[owner[g]] THEN "spent"
                               ELSE life[h]]
  /\ UNCHANGED owner

\* It could not be saved, or came without a refresh token: what the user
\* keeps stays (stores.go, Save).
Lose(g) ==
  /\ life[g] = "given"
  /\ life' = [life EXCEPT ![g] = "spent"]
  /\ UNCHANGED <<owner, kept>>

\* The user disconnects; the token is revoked if the caller gets it back.
Drop(u) ==
  /\ kept[u] # NoGrant
  /\ kept' = [kept EXCEPT ![u] = NoGrant]
  /\ \E end \in {"revoking", "spent"} : life' = [life EXCEPT ![kept[u]] = end]
  /\ UNCHANGED owner

\* One attempt to revoke it.
Revoke(g) ==
  /\ life[g] = "revoking"
  /\ \E end \in {"revoked", "spent"} : life' = [life EXCEPT ![g] = end]
  /\ UNCHANGED <<owner, kept>>

\* The process is replaced: what it had in its hands is lost.
Restart ==
  /\ life' = [g \in Grants |-> IF life[g] \in {"given", "revoking"} THEN "spent"
                               ELSE life[g]]
  /\ UNCHANGED <<owner, kept>>

GrantsNext ==
  \/ \E g \in Grants, u \in Users : Give(g, u)
  \/ \E g \in Grants : Keep(g) \/ Lose(g) \/ Revoke(g)
  \/ \E u \in Users : Drop(u)
  \/ Restart

GrantsSpec == GrantsInit /\ [][GrantsNext]_abstractVars
===============================================================================
