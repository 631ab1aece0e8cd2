-------------------------- MODULE TenantCompactor --------------------------
(***************************************************************************)
(* Tenant.compactor(): the assignment of tenants to compactors             *)
(* (pkg/controllers/resources/tenant/compactor.go).                        *)
(*                                                                         *)
(* Compactors are read from the informer's cache (ccomp) and written to    *)
(* the API server (comp); those whose cache entry is behind are in stale.  *)
(* The cached Tenant is current, as TenantIngester treats its lag: a write *)
(* of a Tenant is refused only when a user changed it since it was read.   *)
(* The worker reads all that it decides on in one step, writes a compactor *)
(* in the next, if it has to, and the Tenant in the last.                  *)
(***************************************************************************)
EXTENDS Naturals, FiniteSets

CONSTANTS
    Tenants,            \* names of Tenant objects
    SpecTenant,         \* Tenant name -> spec.tenant
    Services,
    Storages,
    Local,              \* constants.LocalStorage
    Default,            \* constants.DefaultStorage
    Labelings,          \* the labels users put on a Tenant: [svc, stg, excl]
    ServiceStorages,    \* the default storages users give a Service
    None,               \* a nil ObjectReference
    Unnamed,            \* a reference with the name ""
    Absent,             \* no such object
    Cap,                \* CompactorTemplateSpec.DefaultTenantsPerCompactor
    MaxMade,            \* bound: compactors with a generated name
    MaxUserOps,         \* bound: edits made by users
    MaxFailures,        \* bound: failed API calls
    MaxStale            \* bound: cache entries behind at once

ASSUME CompactorAssumption ==
    /\ IsFiniteSet(Tenants)
    /\ DOMAIN SpecTenant = Tenants
    /\ Labelings \subseteq [svc : Services, stg : Storages \cup {Local, Default}, excl : BOOLEAN]
    /\ ServiceStorages \subseteq Storages \cup {Local}
    /\ Cap \in Nat /\ MaxMade \in Nat /\ MaxUserOps \in Nat /\ MaxFailures \in Nat /\ MaxStale \in Nat

Ids == Tenants \cup {SpecTenant[t] : t \in Tenants}
Generated == {<<"generated", i>> : i \in 1..MaxMade}
Own(t) == <<"own", t>>
Names == Generated \cup {Own(t) : t \in Tenants}
New == <<"new", 0>>

ASSUME NoneAssumption == None # Unnamed /\ None \notin Names \cup {New}

CompactorObject ==
    [tenants : SUBSET Ids, svc : Services, stg : Storages \cup {Local}, excl : BOOLEAN]
TenantObject ==
    [svc : Services, stg : Storages \cup {Local, Default}, excl : BOOLEAN, deleting : BOOLEAN,
     fin : BOOLEAN, status : Names \cup {None, Unnamed}]

ASSUME AbsentAssumption == Absent \notin CompactorObject /\ Absent \notin TenantObject

VARIABLES
    tenant,             \* Tenants
    comp, ccomp, stale, \* Compactors: stored, cached, cache entry behind
    svcStorage,         \* Service -> its spec.storage (Local: none)
    queue, w,           \* work queue and worker of the tenant controller
    made,               \* generated names given out
    userOps, failures,
    strays              \* history: the ids of tenants that may be listed by a
                        \* compactor that nobody knows of

objects == <<tenant, comp, ccomp, stale, svcStorage, made>>
vars == <<objects, queue, w, userOps, failures, strays>>

\* The worker: cp is t.tenant, fresh whether its resourceVersion is current;
\* target and des are the compactor to write, Absent to delete it, and rv
\* whether des was listed and so carries a resourceVersion.
Idle == [pc |-> "idle", t |-> None, cp |-> Absent, fresh |-> FALSE,
         target |-> None, des |-> Absent, rv |-> FALSE]

WorkerRecord ==
    [pc : {"idle", "compactor", "tenant"}, t : Tenants \cup {None}, cp : TenantObject \cup {Absent},
     fresh : BOOLEAN, target : Names \cup {New, None}, des : CompactorObject \cup {Absent}, rv : BOOLEAN]

TypeOK ==
    /\ tenant \in [Tenants -> TenantObject \cup {Absent}]
    /\ comp \in [Names -> CompactorObject \cup {Absent}]
    /\ ccomp \in [Names -> CompactorObject \cup {Absent}]
    /\ stale \subseteq Names
    /\ svcStorage \in [Services -> Storages \cup {Local}]
    /\ queue \subseteq Tenants
    /\ w \in WorkerRecord
    /\ w.pc # "idle" => w.t \in Tenants /\ w.cp \in TenantObject
    /\ w.pc = "compactor" => w.target # None
    /\ w.target = New => w.des \in CompactorObject
    /\ made \in 0..MaxMade /\ userOps \in 0..MaxUserOps /\ failures \in 0..MaxFailures
    /\ strays \subseteq Ids

Init ==
    /\ tenant = [t \in Tenants |-> Absent]
    /\ comp = [n \in Names |-> Absent] /\ ccomp = comp /\ stale = {}
    /\ svcStorage = [s \in Services |-> Local]
    /\ queue = {} /\ w = Idle
    /\ made = 0 /\ userOps = 0 /\ failures = 0 /\ strays = {}

CaughtUp == Cardinality(stale) <= MaxStale

-----------------------------------------------------------------------------
(* Users.                                                                  *)

\* A compactor lists the tenant, or is about to, and the status does not name it.
Unadopted(t) ==
    \/ w.t = t /\ w.pc = "compactor"
    \/ \E n \in Names : comp[n] # Absent /\ SpecTenant[t] \in comp[n].tenants /\ tenant[t].status # n

UserEdit(edited) ==
    /\ CaughtUp /\ userOps < MaxUserOps
    /\ userOps' = userOps + 1
    /\ strays' = strays \cup {SpecTenant[t] : t \in {u \in edited : tenant[u] # Absent /\ Unadopted(u)}}
    /\ queue' = queue \cup edited
    /\ UNCHANGED <<comp, ccomp, stale, made, failures>>

\* The Tenant gets a new version; the worker's copy of it is out of date.
TenantEdit(t, obj) ==
    /\ UserEdit({t})
    /\ tenant' = [tenant EXCEPT ![t] = obj]
    /\ w' = IF w.t = t THEN [w EXCEPT !.fresh = FALSE] ELSE w
    /\ UNCHANGED svcStorage

CreateTenant(t, l) ==
    /\ tenant[t] = Absent
    /\ TenantEdit(t, [svc |-> l.svc, stg |-> l.stg, excl |-> l.excl,
                      deleting |-> FALSE, fin |-> FALSE, status |-> None])

RelabelTenant(t, l) ==
    /\ tenant[t] # Absent
    /\ l # [svc |-> tenant[t].svc, stg |-> tenant[t].stg, excl |-> tenant[t].excl]
    /\ TenantEdit(t, [tenant[t] EXCEPT !.svc = l.svc, !.stg = l.stg, !.excl = l.excl])

\* An object marked for deletion goes away with its finalizer.
Stored(obj) == IF obj.deleting /\ ~obj.fin THEN Absent ELSE obj

DeleteTenant(t) ==
    /\ tenant[t] # Absent /\ ~tenant[t].deleting
    /\ TenantEdit(t, Stored([tenant[t] EXCEPT !.deleting = TRUE]))

\* The tenants of the default storage are reconciled.
SetServiceStorage(s, g) ==
    /\ svcStorage[s] # g
    /\ UserEdit({t \in Tenants : tenant[t] # Absent /\ tenant[t].svc = s /\ tenant[t].stg = Default})
    /\ svcStorage' = [svcStorage EXCEPT ![s] = g]
    /\ UNCHANGED <<tenant, w>>

Put(n, obj) ==
    /\ comp' = [comp EXCEPT ![n] = obj]
    /\ stale' = IF obj = comp[n] THEN stale ELSE stale \cup {n}

DeleteCompactor(n) ==
    /\ CaughtUp /\ userOps < MaxUserOps
    /\ comp[n] # Absent
    /\ userOps' = userOps + 1
    /\ Put(n, Absent)
    /\ UNCHANGED <<tenant, ccomp, svcStorage, queue, w, made, failures, strays>>

\* The informer catches up; tenants of the old and the new version are queued.
TenantsListedBy(obj) == {t \in Tenants : obj # Absent /\ tenant[t] # Absent /\ SpecTenant[t] \in obj.tenants}

Sync(n) ==
    /\ n \in stale
    /\ ccomp' = [ccomp EXCEPT ![n] = comp[n]]
    /\ stale' = stale \ {n}
    /\ queue' = queue \cup TenantsListedBy(ccomp[n]) \cup TenantsListedBy(comp[n])
    /\ UNCHANGED <<tenant, comp, svcStorage, w, made, userOps, failures, strays>>

-----------------------------------------------------------------------------
(* What Tenant.compactor() decides.                                        *)

GetStorage(obj) == IF obj.stg = Default THEN svcStorage[obj.svc] ELSE obj.stg

NewCompactor(t, obj) ==
    [tenants |-> {SpecTenant[t]}, svc |-> obj.svc, stg |-> GetStorage(obj), excl |-> obj.excl]

\* Mutant: the storage of the compactor is not compared.
FitsAnywhere(t, obj, n) ==
    /\ n \in Names /\ ccomp[n] # Absent
    /\ SpecTenant[t] \in ccomp[n].tenants
    /\ ccomp[n].svc = obj.svc
    /\ IF obj.excl THEN ccomp[n].excl /\ n = Own(t) ELSE ~(ccomp[n].excl /\ n = Own(t))

\* needResetCompactor is the negation of this, for a status that is set.
Fits(t, obj, n) ==
    /\ n \in Names /\ ccomp[n] # Absent
    /\ SpecTenant[t] \in ccomp[n].tenants
    /\ ccomp[n].svc = obj.svc
    /\ ccomp[n].stg = GetStorage(obj)
    /\ IF obj.excl THEN ccomp[n].excl /\ n = Own(t) ELSE ~(ccomp[n].excl /\ n = Own(t))

\* Mutant: the compactor is looked up in the wrong namespace and never found.
needResetCompactorLost(t, obj) == obj.status # None

needResetCompactor(t, obj) == obj.status # None /\ ~Fits(t, obj, obj.status)

Working(t, cp) ==
    [Idle EXCEPT !.pc = "tenant", !.t = t, !.cp = cp, !.fresh = TRUE]

\* Mutant: a compactor left without tenants is kept.
removeTenantFromCompactorByNameKept(t, cp, n) ==
    IF n \notin Names \/ ccomp[n] = Absent THEN Working(t, cp)
    ELSE [Working(t, cp) EXCEPT !.pc = "compactor", !.target = n, !.rv = TRUE,
                                !.des = [ccomp[n] EXCEPT !.tenants = @ \ {t}]]

\* Mutant: the compactor that is named is deleted unread.
removeTenantFromCompactorByNameUnread(t, cp, n) ==
    [Working(t, cp) EXCEPT !.pc = "compactor", !.target = n, !.rv = TRUE]

\* The compactor that is named, if there is one, without the tenant; it is
\* deleted when no tenant is left.
removeTenantFromCompactorByName(t, cp, n) ==
    IF n \notin Names \/ ccomp[n] = Absent THEN Working(t, cp)
    ELSE LET rest == ccomp[n].tenants \ {SpecTenant[t]}
         IN  [Working(t, cp) EXCEPT !.pc = "compactor", !.target = n, !.rv = TRUE,
                !.des = IF rest = {} THEN Absent ELSE [ccomp[n] EXCEPT !.tenants = rest]]

\* Compactors of the tenant's service and storage, exclusive ones included.
Listed(obj) == {n \in Names : ccomp[n] # Absent /\ ccomp[n].svc = obj.svc /\ ccomp[n].stg = GetStorage(obj)}
Having(t, obj) == {n \in Listed(obj) : SpecTenant[t] \in ccomp[n].tenants}
WithRoom(obj) == {n \in Listed(obj) : Cardinality(ccomp[n].tenants) < Cap}

\* The tenant's name, not its spec.tenant, is appended to a listed compactor;
\* the status refers to a new one by the name it has before it is created.
Shared(t, obj) ==
    IF Having(t, obj) # {} THEN {Working(t, [obj EXCEPT !.status = n]) : n \in Having(t, obj)}
    ELSE IF WithRoom(obj) # {}
    THEN {[Working(t, [obj EXCEPT !.status = n]) EXCEPT
              !.pc = "compactor", !.target = n, !.rv = TRUE,
              !.des = [ccomp[n] EXCEPT !.tenants = @ \cup {t}]] : n \in WithRoom(obj)}
    ELSE {[Working(t, [obj EXCEPT !.status = Unnamed]) EXCEPT
              !.pc = "compactor", !.target = New, !.des = NewCompactor(t, obj)]}

Exclusive(t, obj) ==
    [Working(t, [obj EXCEPT !.status = Own(t)]) EXCEPT
        !.pc = "compactor", !.target = Own(t), !.des = NewCompactor(t, obj)]

\* What the worker may do for a Tenant, the choice being that of the list order.
Plans(t, obj) ==
    IF ~obj.deleting /\ ~obj.fin THEN {Working(t, [obj EXCEPT !.fin = TRUE])}
    ELSE IF obj.deleting
    THEN {removeTenantFromCompactorByName(t, [obj EXCEPT !.fin = FALSE, !.status = None], obj.status)}
    ELSE IF needResetCompactor(t, obj)
    THEN {removeTenantFromCompactorByName(t, [obj EXCEPT !.status = None], obj.status)}
    ELSE IF GetStorage(obj) = Local THEN {Idle}
    ELSE IF obj.excl THEN {Exclusive(t, obj)}
    ELSE Shared(t, obj)

-----------------------------------------------------------------------------
(* The worker.                                                             *)

\* The cache does not show a compactor that lists the tenant.
Missed(t) ==
    \E n \in stale : /\ comp[n] # Absent /\ SpecTenant[t] \in comp[n].tenants
                     /\ ccomp[n] = Absent \/ SpecTenant[t] \notin ccomp[n].tenants

Start(t) ==
    /\ CaughtUp /\ w.pc = "idle" /\ t \in queue
    /\ queue' = queue \ {t}
    /\ w' \in IF tenant[t] = Absent THEN {Idle} ELSE Plans(t, tenant[t])
    /\ strays' = IF Missed(t) THEN strays \cup {SpecTenant[t]} ELSE strays
    /\ UNCHANGED <<objects, userOps, failures>>

\* Other tenants that the copy the worker decided on lists, and the compactor
\* does not any more.
WrittenBack ==
    IF w.des = Absent \/ comp[w.target] = Absent THEN {}
    ELSE w.des.tenants \ (comp[w.target].tenants \cup {w.t, SpecTenant[w.t]})

\* The retries of CreateOrUpdate read the cache again: when they find it up to
\* date what was decided on an older copy is written.
WriteCompactor ==
    LET n == w.target
    IN  /\ CaughtUp /\ w.pc = "compactor"
        /\ n # New
        /\ \/ w.des = Absent /\ Put(n, Absent)
           \/ w.des # Absent /\ w.des = ccomp[n] /\ UNCHANGED <<comp, stale>>
           \/ w.des # Absent /\ ccomp[n] \notin {Absent, w.des} /\ n \notin stale /\ Put(n, w.des)
           \/ w.des # Absent /\ ccomp[n] = Absent /\ ~w.rv /\ comp[n] = Absent /\ Put(n, w.des)
        /\ w' = [w EXCEPT !.pc = "tenant", !.target = None, !.des = Absent, !.rv = FALSE]
        /\ strays' = strays \cup WrittenBack
        /\ UNCHANGED <<tenant, ccomp, svcStorage, queue, made, userOps, failures>>

\* The API server gives the new compactor a name.
CreateCompactor ==
    /\ CaughtUp /\ w.pc = "compactor"
    /\ w.target = New /\ made < MaxMade
    /\ Put(<<"generated", made + 1>>, w.des)
    /\ made' = made + 1
    /\ w' = [w EXCEPT !.pc = "tenant", !.target = None, !.des = Absent]
    /\ UNCHANGED <<tenant, ccomp, svcStorage, queue, userOps, failures, strays>>

Requeue ==
    /\ w' = Idle
    /\ queue' = queue \cup {w.t}

\* The write is refused, the retries included.
CompactorRefused ==
    /\ CaughtUp /\ w.pc = "compactor" /\ w.target # New /\ w.des # Absent
    /\ \/ ccomp[w.target] \notin {Absent, w.des} /\ w.target \in stale
       \/ ccomp[w.target] = Absent /\ (w.rv \/ comp[w.target] # Absent)
    /\ Requeue
    /\ UNCHANGED <<objects, userOps, failures, strays>>

WriteTenant ==
    /\ CaughtUp /\ w.pc = "tenant" /\ w.fresh
    /\ tenant' = [tenant EXCEPT ![w.t] = Stored(w.cp)]
    /\ queue' = IF tenant' = tenant THEN queue ELSE queue \cup {w.t}
    /\ w' = Idle
    /\ UNCHANGED <<comp, ccomp, stale, svcStorage, made, userOps, failures, strays>>

TenantRefused ==
    /\ CaughtUp /\ w.pc = "tenant" /\ ~w.fresh
    /\ Requeue
    /\ UNCHANGED <<objects, userOps, failures, strays>>

\* A call fails; what was written before it stays.
Fail ==
    /\ CaughtUp /\ w.pc # "idle" /\ failures < MaxFailures
    /\ failures' = failures + 1
    /\ Requeue
    /\ UNCHANGED <<objects, userOps, strays>>

-----------------------------------------------------------------------------
(* The specification.                                                      *)

Worker == (\E t \in Tenants : Start(t)) \/ WriteCompactor \/ CreateCompactor \/ CompactorRefused
          \/ WriteTenant \/ TenantRefused
Informer == \E n \in Names : Sync(n)

Next ==
    \/ \E t \in Tenants, l \in Labelings : CreateTenant(t, l) \/ RelabelTenant(t, l)
    \/ \E t \in Tenants : DeleteTenant(t)
    \/ \E s \in Services, g \in ServiceStorages : SetServiceStorage(s, g)
    \/ \E n \in Names : DeleteCompactor(n)
    \/ Informer \/ Worker \/ Fail

Spec == Init /\ [][Next]_vars

\* The worker and the informer do not stop.
FairSpec == Spec /\ WF_vars(Worker) /\ WF_vars(Informer)

-----------------------------------------------------------------------------
(* Properties.                                                             *)

AtRest == queue = {} /\ w.pc = "idle" /\ stale = {}

Wants(t) == tenant[t] # Absent /\ GetStorage(tenant[t]) # Local

\* At rest every tenant with a storage names a compactor of its service and
\* storage, exclusive if asked for, that lists it, and no other tenant names one.
Bound ==
    AtRest => \A t \in Tenants :
        LET n == tenant[t].status
        IN  /\ Wants(t) =>
                  /\ n \in Names /\ comp[n] # Absent
                  /\ SpecTenant[t] \in comp[n].tenants
                  /\ comp[n].svc = tenant[t].svc /\ comp[n].stg = GetStorage(tenant[t])
                  /\ tenant[t].excl <=> (comp[n].excl /\ n = Own(t))
            /\ tenant[t] # Absent /\ ~Wants(t) => n = None

\* At rest a compactor lists no tenant but those whose status names it: data is
\* compacted by one compactor, and by none once the tenant is gone.  Only a cache
\* that lacks it, an edit of the tenant before its adoption or a retry that writes
\* an older list of tenants back makes the controller lose track of it.
Accounted ==
    AtRest => \A n \in Names :
        comp[n] # Absent =>
            /\ comp[n].tenants # {}
            /\ \A id \in comp[n].tenants \ strays :
                  \E t \in Tenants : SpecTenant[t] = id /\ tenant[t] # Absent /\ tenant[t].status = n

\* However old the lists are that tenants are added to and written back from, a
\* compactor has no more tenants than DefaultTenantsPerCompactor, or one.
Limited ==
    \A n \in Names : comp[n] # Absent => Cardinality(comp[n].tenants) <= Cap \/ Cardinality(comp[n].tenants) <= 1

\* After the last edit and failure the assignment comes to rest, unless it has lost
\* track of a compactor: of two that list a tenant any may be adopted each time,
\* and two tenants may take turns to write an older list back over the other.
Assigned == <>[]AtRest \/ <>(strays # {})
=============================================================================
