------------------------- MODULE MCTenantCompactor -------------------------
(* Tenants that share the compactors of one storage, or have their own.    *)
EXTENDS TenantCompactor

MCSpecTenant == [t \in Tenants |-> t]
MCLabelings ==
    {[svc |-> "svc", stg |-> "st1", excl |-> FALSE],
     [svc |-> "svc", stg |-> Default, excl |-> FALSE],
     [svc |-> "svc", stg |-> "st2", excl |-> TRUE]}
=============================================================================
