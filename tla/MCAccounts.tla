----------------------------- MODULE MCAccounts -----------------------------
(* Small instances of Accounts.  Names, users and cards are                *)
(* interchangeable.                                                        *)
EXTENDS Accounts, TLC

AccountSymmetry ==
  Permutations(Name) \cup Permutations(Token) \cup Permutations(Card)
=============================================================================
