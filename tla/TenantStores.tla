---------------------------- MODULE TenantStores ----------------------------
(***************************************************************************)
(* Tenant.store(): the Stores that tenants share                           *)
(* (pkg/controllers/resources/tenant/store.go).                            *)
(*                                                                         *)
(* Any tenant's reconcile looks after all Stores.  It lists them from the  *)
(* informer's cache (cstore), which may be behind the API server (store),  *)
(* and creates one under a generated name where it sees none.              *)
(* A Tenant is written by users and by its own reconcile only: an edit is  *)
(* the moment at which it reaches the cache.  Of ingester(), ruler() and   *)
(* compactor() there are the finalizers, which come and go before store(): *)
(* fin is whether there are any.  The hash of the storage is in Components.*)
(***************************************************************************)
EXTENDS Naturals, FiniteSets

CONSTANTS
    Tenants,
    Services,           \* Services, which stay
    NoService,          \* no Service label
    Storages,
    Local,              \* constants.LocalStorage
    Default,            \* constants.DefaultStorage
    Labelings,          \* the labels users put on a Tenant: [svc, stg]
    ServiceStorages,    \* the default storages users give a Service
    FirstStorage,       \* Service -> the one it has when the operator starts
    None,
    Absent,             \* no such object
    MaxNames,           \* bound: generated names in use at once
    MaxUserOps,         \* bound: edits made by users
    MaxFailures,        \* bound: failed API calls
    MaxStale            \* bound: cache entries behind when the worker steps

ASSUME StoresAssumption ==
    /\ NoService \notin Services
    /\ Labelings \subseteq [svc : Services \cup {NoService}, stg : Storages \cup {Default}]
    /\ ServiceStorages \subseteq Storages \cup {Local}
    /\ FirstStorage \in [Services -> ServiceStorages]
    /\ {Local, Default} \cap Storages = {}
    /\ MaxNames \in Nat /\ MaxUserOps \in Nat /\ MaxFailures \in Nat /\ MaxStale \in Nat

Places == Services \X Storages
Names == 1..MaxNames

TenantObject ==
    [svc : Services \cup {NoService}, stg : Storages \cup {Default}, deleting : BOOLEAN, fin : BOOLEAN]
StoreObject == [place : Places, hash : SUBSET Tenants]

VARIABLES
    tenant,                 \* Tenants
    store, cstore, stale,   \* Stores: stored, cached, cache entry behind
    svcStorage,             \* Service -> its spec.storage (Local: none)
    queue, w,               \* work queue and worker of the tenant controller
    userOps, failures,
    unseen, gone,           \* history: Stores that came, and that one went, and woke no reconcile
    missed                  \* history: tenants changed, and no reconcile follows

vars == <<tenant, store, cstore, stale, svcStorage, queue, w, userOps, failures, unseen, gone, missed>>

\* The worker: def is the spec.storage of its tenant's Service, seen the Stores
\* it listed, old those of them that were behind; then what is left to do.
Idle == [pc |-> "idle", t |-> None, def |-> Local, seen |-> [n \in Names |-> Absent], old |-> {},
         drop |-> {}, update |-> {}, delete |-> {}, create |-> {}]

TypeOK ==
    /\ tenant \in [Tenants -> TenantObject \cup {Absent}]
    /\ store \in [Names -> StoreObject \cup {Absent}]
    /\ cstore \in [Names -> StoreObject \cup {Absent}]
    /\ \A n \in Names \ stale : cstore[n] = store[n]
    /\ svcStorage \in [Services -> Storages \cup {Local}]
    /\ queue \subseteq Tenants
    /\ w \in [pc : {"idle", "list", "drop", "write"}, t : Tenants \cup {None}, def : Storages \cup {Local},
              seen : [Names -> StoreObject \cup {Absent}], old : SUBSET Names, drop : SUBSET Names,
              update : SUBSET Names, delete : SUBSET Names, create : SUBSET Places]
    /\ \A n \in w.drop \cup w.update \cup w.old : w.seen[n] # Absent
    /\ unseen \subseteq Names /\ gone \in BOOLEAN /\ missed \in BOOLEAN
    /\ userOps \in 0..MaxUserOps /\ failures \in 0..MaxFailures

\* The operator starts: every Tenant there is, is queued.
New(l) == [svc |-> l.svc, stg |-> l.stg, deleting |-> FALSE, fin |-> FALSE]

Init ==
    /\ tenant \in [Tenants -> {New(l) : l \in Labelings} \cup {Absent}]
    /\ store = [n \in Names |-> Absent] /\ cstore = store /\ stale = {}
    /\ svcStorage = FirstStorage
    /\ queue = {t \in Tenants : tenant[t] # Absent} /\ w = Idle
    /\ userOps = 0 /\ failures = 0 /\ unseen = {} /\ gone = FALSE /\ missed = FALSE

CaughtUp == Cardinality(stale) <= MaxStale

Put(n, obj) ==
    /\ store' = [store EXCEPT ![n] = obj]
    /\ stale' = stale \cup {n}

\* Reconcile goes on with a Tenant that has a Service.
Reconciled(obj) == obj # Absent /\ obj.svc # NoService

\* The API server generates a name that nobody knows; which one is no matter.
Known == {n \in Names : store[n] # Absent \/ cstore[n] # Absent \/ w.seen[n] # Absent} \cup stale \cup w.delete
Generated(n) == n \notin Known /\ 1..(n - 1) \subseteq Known

-----------------------------------------------------------------------------
(* What Tenant.store() decides.                                            *)

\* Mutant: the default storage is not looked up.
GetStorageAsIs(def, stg) == stg

\* The storage that a label stands for, def being that of the reconciler's Service.
GetStorage(def, stg) == IF stg = Default THEN def ELSE stg

\* The places that tenants want a Store for.  Each tenant's default storage is
\* that of the Service of the tenant being reconciled.
sortTenantsByStorageAndService(def) ==
    {<<tenant[t].svc, GetStorage(def, tenant[t].stg)>> :
        t \in {u \in Tenants : /\ Reconciled(tenant[u]) /\ ~tenant[u].deleting
                               /\ GetStorage(def, tenant[u].stg) # Local}}

\* The places as the tenants that are reconciled see them.
Views ==
    LET by == {t \in Tenants : Reconciled(tenant[t])}
    IN  IF by = {} THEN {{}} ELSE {sortTenantsByStorageAndService(svcStorage[tenant[t].svc]) : t \in by}

\* The tenants that have both labels of the Store.
GetTenantHash(p) ==
    {t \in Tenants : tenant[t] # Absent /\ ~tenant[t].deleting /\ tenant[t].svc = p[1] /\ tenant[t].stg = p[2]}

\* Mutant: a second Store of a place is left alone.
SecondsKept(seen) == {{}}

\* The Stores deleted while listing: all of a place but the first, whichever it is.
Seconds(seen) ==
    LET listed == {n \in Names : seen[n] # Absent}
    IN  {drop \in SUBSET listed :
            \A n \in listed : Cardinality({m \in listed \ drop : seen[m].place = seen[n].place}) = 1}

\* Mutant: the annotation is set whatever it was.
NeedUpdateAlways(n) == TRUE

needUpdate(n) == w.seen[n].hash # GetTenantHash(w.seen[n].place)

-----------------------------------------------------------------------------
(* Users.                                                                  *)

UserEdit ==
    /\ CaughtUp /\ userOps < MaxUserOps
    /\ userOps' = userOps + 1
    /\ UNCHANGED <<cstore, w, failures, unseen, gone>>

TenantEdit(t, obj) ==
    /\ UserEdit
    /\ tenant' = [tenant EXCEPT ![t] = obj]
    /\ queue' = queue \cup {t}
    /\ missed' = (missed \/ (Reconciled(tenant[t]) /\ ~Reconciled(obj)))
    /\ UNCHANGED <<store, stale, svcStorage>>

CreateTenant(t, l) ==
    /\ tenant[t] = Absent
    /\ TenantEdit(t, New(l))

RelabelTenant(t, l) ==
    /\ tenant[t] # Absent
    /\ l # [svc |-> tenant[t].svc, stg |-> tenant[t].stg]
    /\ TenantEdit(t, [tenant[t] EXCEPT !.svc = l.svc, !.stg = l.stg])

\* A Tenant with finalizers stays until its reconcile has removed them.
DeleteTenant(t) ==
    /\ tenant[t] # Absent /\ ~tenant[t].deleting
    /\ TenantEdit(t, IF tenant[t].fin THEN [tenant[t] EXCEPT !.deleting = TRUE] ELSE Absent)

\* Tenants labelled with the default storage are queued.
mapToTenantByService(s) ==
    {t \in Tenants : tenant[t] # Absent /\ tenant[t].svc = s /\ tenant[t].stg = Default}

SetServiceStorage(s, g) ==
    /\ svcStorage[s] # g
    /\ UserEdit
    /\ svcStorage' = [svcStorage EXCEPT ![s] = g]
    /\ queue' = queue \cup mapToTenantByService(s)
    /\ UNCHANGED <<tenant, store, stale>>
    /\ missed' = (missed \/ (mapToTenantByService(s) = {} /\ Views' # Views))

StoreEdit(n, obj) ==
    /\ UserEdit /\ Put(n, obj)
    /\ UNCHANGED <<tenant, svcStorage, queue, missed>>

UserCreatesStore(n, p) == Generated(n) /\ StoreEdit(n, [place |-> p, hash |-> {}])
UserDeletesStore(n) == store[n] # Absent /\ StoreEdit(n, Absent)

\* A change of a Store queues the first Tenant of a list without order, if there
\* is one; an update does so for the old version and for the new one.
mapToTenantByStore(n) ==
    LET listed == {t \in Tenants : tenant[t] # Absent}
    IN  IF listed = {} THEN {{}}
        ELSE IF cstore[n] # Absent /\ store[n] # Absent THEN {{t, u} : t, u \in listed}
        ELSE {{t} : t \in listed}

Sync(n) ==
    /\ n \in stale
    /\ cstore' = [cstore EXCEPT ![n] = store[n]]
    /\ stale' = stale \ {n}
    /\ \E woken \in mapToTenantByStore(n) :
          /\ queue' = queue \cup woken
          /\ LET seen == \E t \in woken : Reconciled(tenant[t])
             IN  /\ unseen' = IF seen \/ store[n] = Absent THEN unseen \ {n} ELSE unseen \cup {n}
                 /\ gone' = (gone \/ (~seen /\ store[n] = Absent))
    /\ UNCHANGED <<tenant, store, svcStorage, w, userOps, failures, missed>>

-----------------------------------------------------------------------------
(* The worker.                                                             *)

\* The Tenant as its reconcile leaves it: it gets finalizers, or loses them.
Finalized(obj) == IF obj.deleting THEN Absent ELSE [obj EXCEPT !.fin = TRUE]

Start(t) ==
    /\ CaughtUp /\ w.pc = "idle" /\ t \in queue
    /\ IF Reconciled(tenant[t])
       THEN /\ tenant' = [tenant EXCEPT ![t] = Finalized(tenant[t])]
            /\ queue' = IF tenant' = tenant THEN queue \ {t} ELSE queue
            /\ w' = [Idle EXCEPT !.pc = "list", !.t = t, !.def = svcStorage[tenant[t].svc]]
       ELSE /\ queue' = queue \ {t}
            /\ UNCHANGED <<tenant, w>>
    /\ UNCHANGED <<store, cstore, stale, svcStorage, userOps, failures, unseen, gone, missed>>

List ==
    /\ CaughtUp /\ w.pc = "list"
    /\ \E drop \in Seconds(cstore) :
          w' = [w EXCEPT !.pc = "drop", !.seen = cstore, !.old = {n \in stale : cstore[n] # Absent}, !.drop = drop]
    /\ unseen' = unseen \cap stale /\ gone' = FALSE
    /\ missed' = (sortTenantsByStorageAndService(w.def) \notin Views)
    /\ UNCHANGED <<tenant, store, cstore, stale, svcStorage, queue, userOps, failures>>

Work ==
    /\ CaughtUp
    /\ UNCHANGED <<tenant, cstore, svcStorage, queue, userOps, failures, unseen, gone, missed>>

\* The worker goes on, or has done all.
Then(next) == IF next.update = {} /\ next.delete = {} /\ next.create = {} THEN Idle ELSE next

Drop(n) ==
    /\ Work /\ w.pc = "drop" /\ n \in w.drop
    /\ store[n] # Absent /\ Put(n, Absent)
    /\ w' = [w EXCEPT !.drop = @ \ {n}, !.seen[n] = Absent, !.old = @ \ {n}]

Sort ==
    /\ Work /\ w.pc = "drop" /\ w.drop = {}
    /\ LET listed == {n \in Names : w.seen[n] # Absent}
           expected == sortTenantsByStorageAndService(w.def)
           update == {n \in listed : w.seen[n].place \in expected}
       IN  w' = Then([w EXCEPT !.pc = "write", !.def = Local,
                               !.seen = [n \in Names |-> IF n \in update THEN w.seen[n] ELSE Absent],
                               !.old = @ \cap update,
                               !.update = update,
                               !.delete = {n \in listed : w.seen[n].place \notin expected},
                               !.create = expected \ {w.seen[n].place : n \in listed}])
    /\ UNCHANGED <<store, stale>>

\* An Update is refused if the Store is not what was listed any more.
Current(n) == n \notin w.old /\ store[n] # Absent

Update(n) ==
    /\ Work /\ w.pc = "write" /\ n \in w.update
    /\ IF needUpdate(n)
       THEN Current(n) /\ Put(n, [store[n] EXCEPT !.hash = GetTenantHash(store[n].place)])
       ELSE UNCHANGED <<store, stale>>
    /\ w' = Then([w EXCEPT !.update = @ \ {n}, !.seen[n] = Absent, !.old = @ \ {n}])

Delete(n) ==
    /\ Work /\ w.pc = "write" /\ w.update = {} /\ n \in w.delete
    /\ store[n] # Absent /\ Put(n, Absent)
    /\ w' = Then([w EXCEPT !.delete = @ \ {n}])

Create(p, n) ==
    /\ Work /\ w.pc = "write" /\ w.update = {} /\ w.delete = {} /\ p \in w.create
    /\ Generated(n) /\ Put(n, [place |-> p, hash |-> GetTenantHash(p)])
    /\ w' = Then([w EXCEPT !.create = @ \ {p}])

\* The tenant is tried again, which comes to nothing if it is gone.
Return ==
    /\ CaughtUp
    /\ w' = Idle
    /\ queue' = queue \cup {w.t}
    /\ missed' = (missed \/ ~Reconciled(tenant[w.t]))
    /\ UNCHANGED <<tenant, store, cstore, stale, svcStorage, userOps, unseen, gone>>

\* Deleting a Store that is gone is an error too.
Refused ==
    /\ \/ w.pc = "drop" /\ \E n \in w.drop : store[n] = Absent
       \/ w.pc = "write" /\ \E n \in w.update : needUpdate(n) /\ ~Current(n)
       \/ w.pc = "write" /\ w.update = {} /\ \E n \in w.delete : store[n] = Absent
    /\ Return
    /\ UNCHANGED failures

Fail ==
    /\ w.pc # "idle" /\ failures < MaxFailures
    /\ failures' = failures + 1
    /\ Return

-----------------------------------------------------------------------------
(* The specification.                                                      *)

Worker ==
    \/ \E t \in Tenants : Start(t)
    \/ List \/ Sort \/ Refused
    \/ \E n \in Names : Drop(n) \/ Update(n) \/ Delete(n) \/ \E p \in w.create : Create(p, n)

Informer == \E n \in Names : Sync(n)

Next ==
    \/ \E t \in Tenants, l \in Labelings : CreateTenant(t, l) \/ RelabelTenant(t, l)
    \/ \E t \in Tenants : DeleteTenant(t)
    \/ \E s \in Services, g \in ServiceStorages : SetServiceStorage(s, g)
    \/ \E n \in Names : UserDeletesStore(n) \/ \E p \in Places : UserCreatesStore(n, p)
    \/ Informer \/ Worker \/ Fail

Spec == Init /\ [][Next]_vars

\* The worker and the informer do not stop.
FairSpec == Spec /\ WF_vars(Worker) /\ WF_vars(Informer)

-----------------------------------------------------------------------------
(* Properties.                                                             *)

AtRest == queue = {} /\ w.pc = "idle" /\ stale = {}

\* At rest there is exactly one Store for every place that tenants want one for, as
\* one of them sees it, annotated with the tenants that have it now, and no other:
\* second Stores that a list behind the API server makes go, users' Stores too.
\* Excepted are Stores of which a change came to no tenant with a Service, and
\* tenants that went, or lost their Service, and left no reconcile behind.
Kept ==
    AtRest /\ ~missed =>
        \E view \in Views :
            /\ \A n \in Names \ unseen : store[n] # Absent =>
                  /\ store[n].place \in view
                  /\ store[n].hash = GetTenantHash(store[n].place)
                  /\ \A m \in Names \ unseen : store[m] # Absent /\ store[m].place = store[n].place => m = n
            /\ gone \/ \A p \in view : \E n \in Names : store[n] # Absent /\ store[n].place = p

\* Tenants of two Services do not agree on the places of the default storage.
Contended == Cardinality(Views) > 1

ListsBehind == List /\ stale # {}

\* The Stores come to rest, unless tenants of two Services exchange them for ever or
\* reconciles meet a list behind the last ones' writes again and again, and each
\* deletes the Store of a place that the other has kept.
Arrives == []<><<ListsBehind>>_vars \/ <>[]Contended \/ <>[]AtRest
=============================================================================
