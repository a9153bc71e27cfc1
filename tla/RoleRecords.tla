----------------------------- MODULE RoleRecords -----------------------------
(***************************************************************************)
(* The record types the authorization collections hold, shared by the      *)
(* modules about role assignments.  One host application is fixed, so the  *)
(* application id that starts every key is left out.  Names, actors and    *)
(* instants are members of constant sets: the code only compares them.     *)
(***************************************************************************)
EXTENDS Naturals

CONSTANTS Id,         \* role assignment ids, selected by the caller
          Principal,  \* principal ids
          Scope,      \* exact scopes (the application, each organization)
          Role,       \* role names
          Event,      \* audit event ids, selected by the caller
          Actor,      \* who revokes, with the optional reason
          Time,       \* lifecycle instants, epoch milliseconds in the code
          None        \* null

\* The exact principal and scope a record belongs to: one storage partition.
Location == [principal : Principal, scope : Scope]

\* An immutable pointer: where the one lifecycle of an id lives.
Pointer == [loc : Location, role : Role]

\* Revocation evidence, with the event id that recorded it.
Revocation == [event : Event, by : Actor, at : Time]

\* The authoritative lifecycle record.  grantedAt stands for all of the grant
\* evidence (instant and actor); revocation is None while it is active.
Assignment == [id : Id, loc : Location, role : Role, grantEvent : Event,
               grantedAt : Time, revocation : Revocation \cup {None}]

Active(a)  == a # None /\ a.revocation = None
Revoked(a) == a # None /\ a.revocation # None

\* b is the lifecycle a, with the same grant evidence.
SameGrant(a, b) == /\ a.id = b.id /\ a.loc = b.loc /\ a.role = b.role
                   /\ a.grantEvent = b.grantEvent /\ a.grantedAt = b.grantedAt

\* Instants are safe integers, and null is none of the values it stands beside.
ASSUME RecordsAssumption ==
    /\ Time \subseteq Nat
    /\ None \notin Id
    /\ None \notin Principal
    /\ None \notin Event
    /\ None \notin Pointer
    /\ None \notin Revocation
    /\ None \notin Assignment
=============================================================================
