----------------------------- MODULE MCJwksCache -----------------------------
\* Instances of JwksCache for TLC.
EXTENDS JwksCache, TLC

Symmetric == Permutations(Kid) \cup Permutations(Verifier)
=============================================================================
