----------------------------- MODULE MCRoleReads -----------------------------
\* Instances of RoleReads for TLC.
EXTENDS RoleReads, TLC

Symmetric == Permutations(Id) \cup Permutations(Event) \cup Permutations(Actor)
               \cup Permutations(Principal) \cup Permutations(Scope)
               \cup Permutations(Role) \cup Permutations(Reader)
=============================================================================
