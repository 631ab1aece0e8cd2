--------------------------- MODULE MCTenantStores ---------------------------
(* Tenants of two Services with a storage of their own or the default one. *)
EXTENDS TenantStores

MCLabelings ==
    {[svc |-> "s1", stg |-> Default], [svc |-> "s2", stg |-> "st1"],
     [svc |-> NoService, stg |-> "st1"]}
MCFirstStorage == [s \in Services |-> IF s = "s1" THEN "st1" ELSE Local]
=============================================================================
