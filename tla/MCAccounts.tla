----------------------------- MODULE MCAccounts -----------------------------
(* A small instance: two names that fold to one, two addresses.            *)
EXTENDS Accounts, TLC

CONSTANTS alice, Alice, h1, h2, j1, j2, p1, p2

FoldedNames == [n \in Names |-> IF n = Alice THEN alice ELSE n]

Symmetry == Permutations(Hosts) \cup Permutations(Jtis) \cup Permutations(Places)

=============================================================================
