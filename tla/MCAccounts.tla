----------------------------- MODULE MCAccounts -----------------------------
(***************************************************************************)
(* Accounts for TLC: two requests at once, two accounts that contest two   *)
(* names and two wallets, three tokens (one may be exchanged twice).       *)
(***************************************************************************)
EXTENDS Accounts, TLC

Symmetry ==
    Permutations(Slots) \union Permutations(Wallets) \union Permutations(Names)
=============================================================================
