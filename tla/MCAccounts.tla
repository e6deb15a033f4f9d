----------------------------- MODULE MCAccounts -----------------------------
(* Small instances of Accounts: one account with the bounds of the cfg, or *)
(* two with a single session and fewer versions.                           *)
EXTENDS Accounts, TLC

FewerWithTwo ==
  Cardinality(drawn) = 2 =>
    sessions <= 1 /\ \A i \in DOMAIN users : users[i].cv <= 2

Interchangeable == Permutations(Id) \cup Permutations(Call)
=============================================================================
