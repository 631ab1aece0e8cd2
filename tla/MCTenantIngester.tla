-------------------------- MODULE MCTenantIngester --------------------------
(***************************************************************************)
(* Small instances of TenantIngester for TLC.                              *)
(***************************************************************************)
EXTENDS TenantIngester

CONSTANTS sA, sB, gX

\* spec.tenant left to its default, the name.
MCSpecTenant == [t \in Tenants |-> t]
\* Two services of one namespace; storages whose names differ.
MCNamespaceOf == [s \in Services |-> "ns"]
MCStorageName == [g \in StorageRefs |-> g]

L(svc, stg, excl) == [svc |-> svc, stg |-> stg, excl |-> excl]

Shared == {L(sA, Default, FALSE)}
SharedOrOwn == Shared \cup {L(sA, Default, TRUE)}
\* Exclusive or not, or on another service with another storage.
AnyPlacement == SharedOrOwn \cup {L(sB, gX, FALSE)}
\* The storage label left out.
Unlabelled == {L(sA, NoLabel, FALSE)}
=============================================================================
