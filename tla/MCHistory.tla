------------------------------ MODULE MCHistory ------------------------------
\* History for TLC: accounts and list tasks are interchangeable, transactions too.
EXTENDS History, TLC

Symmetry == Permutations(Account) \cup Permutations(Tx) \cup Permutations(Lister)
=============================================================================
