---------------------------- MODULE MCOAuthTokens -----------------------------
(* Small instances of OAuthTokens for TLC.                                  *)
EXTENDS OAuthTokens, TLC

Permuted == Permutations(Users) \cup Permutations(States)
            \cup Permutations(Grants) \cup Permutations(Requests)
===============================================================================
