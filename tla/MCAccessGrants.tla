--------------------------- MODULE MCAccessGrants ---------------------------
\* Instances of AccessGrants for TLC.
EXTENDS AccessGrants, TLC

Symmetric == Permutations(Session) \cup Permutations(Jti) \cup Permutations(Verify)
=============================================================================
