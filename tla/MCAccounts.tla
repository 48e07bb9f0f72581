----------------------------- MODULE MCAccounts -----------------------------
(***************************************************************************)
(* An instance of Accounts: two users, one telephone line, two handlers.   *)
(***************************************************************************)
EXTENDS Accounts, TLC

CONSTANTS h1, h2, alice, bob, line

Interchangeable == Permutations({h1, h2}) \cup Permutations({alice, bob})
=============================================================================
