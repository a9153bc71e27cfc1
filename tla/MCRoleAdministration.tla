------------------------- MODULE MCRoleAdministration -------------------------
\* Instances of RoleAdministration for TLC.
EXTENDS RoleAdministration, TLC

Symmetric == Permutations(Id \ SeedId) \cup Permutations(Instance)
               \cup Permutations(Worker) \cup Permutations(Principal)
               \cup Permutations(Scope) \cup Permutations(Event)
=============================================================================
