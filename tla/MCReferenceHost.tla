--------------------------- MODULE MCReferenceHost ---------------------------
\* Instances of ReferenceHost for TLC: an administrator may do both, a feature
\* opens the guarded route, and a role of neither policy nor use is left out.
EXTENDS ReferenceHost, TLC

MCRolePermissions == [administrator |-> {"manage", "read"}]
MCEntitlementPermissions == [pro |-> {"read"}]
MCFeatureEntitlements == [feature |-> {"pro"}]

\* One key is sent with a grant of administration, and by the other principal
\* to depose the administrator; the second with a grant in another scope, and
\* with revokes.
MCInput ==
    LET k == CHOOSE x \in Key : TRUE
        l == CHOOSE x \in Key : x # k
    IN UNION {
         {[kind |-> "grant", actor |-> Founder, key |-> k, principal |-> q,
           role |-> Admin, scope |-> Application],
          [kind |-> "revoke", actor |-> q, key |-> k, id |-> Seed],
          [kind |-> "visit", actor |-> q]}
         \cup {[kind |-> "grant", actor |-> Founder, key |-> l, principal |-> q,
                role |-> Admin, scope |-> s] : s \in Scope \ {Application}}
         \cup {[kind |-> "revoke", actor |-> Founder, key |-> l, id |-> i] : i \in Id}
         : q \in Principal \ {Founder}}

Symmetric == Permutations(Id) \cup Permutations(Request)
=============================================================================
