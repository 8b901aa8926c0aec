----------------------------- MODULE MCAccounts ------------------------------
(* Accounts on small instances: account 1 is an administrator. *)
EXTENDS Accounts, TLC

Symmetry == Permutations(Browsers)

\* Either an account is rotated twice or one is created later.
OneOrTheOther == created = MaxId \/ \A r \in written : r[2] <= 1

=============================================================================
