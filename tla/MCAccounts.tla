----------------------------- MODULE MCAccounts -----------------------------
(* Three requests of any kind for one address, after an earlier one. *)
EXTENDS Accounts, TLC

CONSTANTS r1, r2, r3, google, github

MCRequest == {r1, r2, r3}
MCProvider == {google, github}

\* The requests are alike, and so are the providers.
Alike == Permutations(MCRequest) \union Permutations(MCProvider)
=============================================================================
