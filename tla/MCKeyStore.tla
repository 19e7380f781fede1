----------------------------- MODULE MCKeyStore -----------------------------
\* KeyStore for TLC: addresses are interchangeable, ids too.
EXTENDS KeyStore, TLC

Symmetry == Permutations(Addr) \cup Permutations(Uuid)
=============================================================================
