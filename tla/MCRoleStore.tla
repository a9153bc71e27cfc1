----------------------------- MODULE MCRoleStore -----------------------------
\* Instances of RoleStore for TLC.
EXTENDS RoleStoreInvariant, TLC

\* Ids, clients, events and actors are only compared, so they are symmetric.
Symmetric == Permutations(Id) \cup Permutations(Client) \cup Permutations(Event)
               \cup Permutations(Actor) \cup Permutations(Principal)
               \cup Permutations(Scope) \cup Permutations(Role)
=============================================================================
