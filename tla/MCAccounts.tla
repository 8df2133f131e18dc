----------------------------- MODULE MCAccounts -----------------------------
(* Accounts with two browsers and two addresses.                              *)
EXTENDS Accounts, TLC

CONSTANTS b1, b2, ann, bob

EmailSymmetry == Permutations(Emails) \cup Permutations(Browsers)
=============================================================================
