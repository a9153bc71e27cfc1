-------------------------- MODULE AccessResolution --------------------------
(***************************************************************************)
(* packages/core and packages/stripe as pure operators: the permissions of *)
(* an access context, the entitlements of a persisted state.  A policy     *)
(* and the rules are the host's and stay as they are; names outside their  *)
(* domains grant nothing.                                                  *)
(***************************************************************************)
EXTENDS Integers

CONSTANTS
    Defaults,                \* the permissions of everybody
    RolePermissions,         \* role -> permissions
    EntitlementPermissions,  \* entitlement -> permissions
    FeatureEntitlements,     \* Stripe feature -> entitlements
    MaxStateAge              \* maximumStateAgeMs

ASSUME AgeAssumption == MaxStateAge \in Nat \ {0}

\* What the names of a list are assigned, unknown names left out.
Assigned(assignments, names) ==
    UNION {assignments[n] : n \in names \cap DOMAIN assignments}

\* resolveAccess: the permissions of the context.
Permissions(roles, entitlements) ==
    Defaults \cup Assigned(RolePermissions, roles)
             \cup Assigned(EntitlementPermissions, entitlements)

\* decideAccess
Allowed(permission, roles, entitlements) ==
    permission \in Permissions(roles, entitlements)

\* createStripeEntitlementTranslator, by features.
Translated(features) == Assigned(FeatureEntitlements, features)

\* readPersistedEntitlementState: neither of the future nor too old.
StateAccepted(state, now) ==
    state.at <= now /\ now - state.at <= MaxStateAge
=============================================================================
