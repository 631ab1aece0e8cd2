--------------------------- MODULE TenantIngester ---------------------------
(***************************************************************************)
(* Placement of tenants on ingesters: Tenant.ingester() as the tenant      *)
(* controller runs it (pkg/controllers/resources/tenant/ingestor.go,       *)
(* pkg/controllers/tenant_controller.go) beside the ingester controller,   *)
(* which keeps status.tenants and recycles ingesters left empty            *)
(* (pkg/controllers/ingestor_controller.go).                               *)
(*                                                                         *)
(* Every read of the manager's client is served by an informer cache and   *)
(* every write goes to the API server, so each object is held twice: the   *)
(* stored object (tenant, ing) and the cached one (ctenant, cing).  An     *)
(* object whose cache entry is behind is in staleT or staleI; that is what *)
(* a resourceVersion tells the API server, which refuses a write made from *)
(* a stale copy.  Refreshing a cache entry fires the watch events of both  *)
(* controllers.                                                            *)
(*                                                                         *)
(* The tenant controller has one worker.  Between two of its API writes    *)
(* everything else may move, so one action is one write (or the reads that *)
(* lead to the next one): reads of caches commute to the left of the steps *)
(* before them, a write does not.                                          *)
(***************************************************************************)
EXTENDS Naturals, FiniteSets

CONSTANTS
    Tenants,            \* names of Tenant objects
    SpecTenant,         \* Tenant name -> spec.tenant (defaulted to the name)
    Services,           \* Service objects, "namespace.name"
    NamespaceOf,        \* Service -> its namespace
    Storages,           \* Storage objects, "namespace.name"
    StorageName,        \* Storage -> its name, the namespace dropped
    Local,              \* constants.LocalStorage
    Default,            \* constants.DefaultStorage
    NoLabel,            \* a label that is absent or ""
    None,               \* a nil ObjectReference
    Absent,             \* no such object
    Labelings,          \* the labels users put on a Tenant: [svc, stg, excl]
    Cap,                \* IngesterTemplateSpec.DefaultTenantsPerIngester
    MaxSlot,            \* bound: largest suffix of a shared ingester's name
    MaxUserOps,         \* bound: edits made by users
    MaxFailures,        \* bound: failed API calls and manager restarts
    MaxStale            \* bound: cache entries behind at once (0: reads are fresh)

StorageRefs == Storages \cup {Local}
StorageLabels == StorageRefs \cup {Default, NoLabel}
ServiceLabels == Services \cup {NoLabel}
LabelSets == [svc : ServiceLabels, stg : StorageLabels, excl : BOOLEAN]

ASSUME ConstantsAssumption ==
    /\ IsFiniteSet(Tenants) /\ IsFiniteSet(Services) /\ IsFiniteSet(Storages)
    /\ DOMAIN SpecTenant = Tenants
    /\ DOMAIN NamespaceOf = Services
    /\ DOMAIN StorageName = StorageRefs
    /\ Labelings \subseteq LabelSets
    /\ NoLabel \notin Services
    /\ Cap \in Nat \ {0}
    /\ MaxSlot \in Nat /\ MaxUserOps \in Nat /\ MaxFailures \in Nat
    /\ MaxStale \in Nat

\* Names and spec.tenant values are strings of one kind: status.tenants is
\* filled with the latter and searched for the former.
Ids == Tenants \cup {SpecTenant[t] : t \in Tenants}
Slots == 0..MaxSlot

\* createIngesterInstanceName: "<service>-<storage>-auto-<slot>" in the
\* service's namespace; an exclusive ingester has its tenant's name.
AutoName(svc, stg, slot) == <<"auto", svc, StorageName[stg], slot>>
OwnName(svc, t) == <<"own", NamespaceOf[svc], t, 0>>
AutoNames == {AutoName(s, g, i) : s \in Services, g \in StorageRefs, i \in Slots}
OwnNames == {OwnName(s, t) : s \in Services, t \in Tenants}
Names == AutoNames \cup OwnNames

\* The state and deleting-time annotations: "pending" and "due" are state
\* deleting with a deleting-time still to come, and one that has come.
Annotations == {"unset", "running", "pending", "due"}

IngesterObject ==
    [tenants : SUBSET Ids, svc : Services, stg : StorageRefs, excl : BOOLEAN,
     ann : Annotations]

TenantObject ==
    [svc : ServiceLabels, stg : StorageLabels, excl : BOOLEAN,
     deleting : BOOLEAN, finI : BOOLEAN, finC : BOOLEAN,
     status : Names \cup {None}]

\* A nil reference names no ingester, and an absent object has no contents.
ASSUME NothingAssumption ==
    /\ None \notin Names
    /\ Absent \notin IngesterObject /\ Absent \notin TenantObject

VARIABLES
    tenant, ctenant, staleT,    \* Tenants: stored, cached, cache entry behind
    ing, cing, staleI,          \* Ingesters: the same
    svcStorage,                 \* Service -> its spec.storage (Local: none)
    queue,                      \* work queue of the tenant controller
    w,                          \* the reconcile its worker is in the middle of
    recycling,                  \* the ingester the ingester controller deletes
    userOps, failures

tvars == <<tenant, ctenant, staleT>>
ivars == <<ing, cing, staleI>>
bounds == <<userOps, failures>>
others == <<tvars, ivars, svcStorage, recycling, bounds>>
vars == <<others, queue, w>>

-----------------------------------------------------------------------------
(* The worker of the tenant controller.                                    *)
(*   cp, fresh     t.tenant, and whether its resourceVersion is current     *)
(*   target, des   the ingester to write and its desired contents           *)
(*   hasRV         desired carries a resourceVersion (it was listed)        *)
(*   ret           what follows the write                                   *)
(*   missed        history: the removal found nothing in an entry behind    *)
PCs == {"idle", "addfin", "remove", "write", "clean", "unfinal", "status", "rest"}

Idle == [pc |-> "idle", t |-> None, cp |-> Absent, fresh |-> FALSE,
         target |-> None, des |-> Absent, hasRV |-> FALSE, ret |-> "idle",
         missed |-> FALSE]

WorkerRecord ==
    [pc : PCs, t : Tenants \cup {None}, cp : TenantObject \cup {Absent},
     fresh : BOOLEAN, target : Names \cup {None},
     des : IngesterObject \cup {Absent}, hasRV : BOOLEAN,
     ret : {"idle", "clean", "status"}, missed : BOOLEAN]

TypeOK ==
    /\ tenant \in [Tenants -> TenantObject \cup {Absent}]
    /\ ctenant \in [Tenants -> TenantObject \cup {Absent}]
    /\ staleT \subseteq Tenants
    /\ ing \in [Names -> IngesterObject \cup {Absent}]
    /\ cing \in [Names -> IngesterObject \cup {Absent}]
    /\ staleI \subseteq Names
    /\ svcStorage \in [Services -> StorageRefs]
    /\ queue \subseteq Tenants
    /\ w \in WorkerRecord
    /\ w.pc # "idle" => w.t \in Tenants /\ w.cp \in TenantObject
    /\ w.pc \in {"remove", "write"} => w.target \in Names /\ w.ret # "idle"
    /\ w.pc = "write" => w.des \in IngesterObject
    /\ recycling \in Names \cup {None}
    /\ userOps \in 0..MaxUserOps
    /\ failures \in 0..MaxFailures

Init ==
    /\ tenant = [t \in Tenants |-> Absent] /\ ctenant = tenant /\ staleT = {}
    /\ ing = [n \in Names |-> Absent] /\ cing = ing /\ staleI = {}
    /\ svcStorage = [s \in Services |-> Local]
    /\ queue = {} /\ w = Idle
    /\ recycling = None
    /\ userOps = 0 /\ failures = 0

-----------------------------------------------------------------------------
\* How far the caches may fall behind; every step but their refresh waits.
CaughtUp == Cardinality(staleT) + Cardinality(staleI) <= MaxStale

At(pc) == CaughtUp /\ w.pc = pc

(* The API server.                                                         *)

\* A write that changes nothing keeps the resourceVersion.
WriteTenant(t, obj) ==
    /\ tenant' = [tenant EXCEPT ![t] = obj]
    /\ staleT' = IF obj = tenant[t] THEN staleT ELSE staleT \cup {t}

WriteIngester(n, obj) ==
    /\ ing' = [ing EXCEPT ![n] = obj]
    /\ staleI' = IF obj = ing[n] THEN staleI ELSE staleI \cup {n}

\* An object marked for deletion goes away with its last finalizer.
Stored(obj) ==
    IF obj.deleting /\ ~obj.finI /\ ~obj.finC THEN Absent ELSE obj

-----------------------------------------------------------------------------
(* Users edit Tenants and the default storage of a Service.                 *)

\* The worker's copy of an edited Tenant is now out of date.
UserEdit(t, obj) ==
    /\ CaughtUp /\ userOps < MaxUserOps
    /\ userOps' = userOps + 1
    /\ WriteTenant(t, obj)
    /\ w' = IF w.t = t THEN [w EXCEPT !.fresh = FALSE] ELSE w
    /\ UNCHANGED <<ctenant, ivars, recycling, failures, svcStorage, queue>>

CreateTenant(t, l) ==
    /\ tenant[t] = Absent
    /\ UserEdit(t, [svc |-> l.svc, stg |-> l.stg, excl |-> l.excl,
                    deleting |-> FALSE, finI |-> FALSE, finC |-> FALSE,
                    status |-> None])

RelabelTenant(t, l) ==
    /\ tenant[t] # Absent
    /\ l # [svc |-> tenant[t].svc, stg |-> tenant[t].stg, excl |-> tenant[t].excl]
    /\ UserEdit(t, [tenant[t] EXCEPT !.svc = l.svc, !.stg = l.stg, !.excl = l.excl])

DeleteTenant(t) ==
    /\ tenant[t] # Absent
    /\ ~tenant[t].deleting
    /\ UserEdit(t, Stored([tenant[t] EXCEPT !.deleting = TRUE]))

\* mapToTenantByService wakes the service's tenants whose storage label is
\* literally "default".  Only the cached Service is ever read, so its one
\* copy here is the cached one.
WokenByService(s) ==
    {t \in Tenants : /\ ctenant[t] # Absent
                     /\ ctenant[t].svc = s /\ ctenant[t].stg = Default}

SetServiceStorage(s, g) ==
    /\ CaughtUp /\ userOps < MaxUserOps
    /\ svcStorage[s] # g
    /\ userOps' = userOps + 1
    /\ svcStorage' = [svcStorage EXCEPT ![s] = g]
    /\ queue' = queue \cup WokenByService(s)
    /\ UNCHANGED <<tvars, ivars, recycling, failures, w>>

-----------------------------------------------------------------------------
(* The informers.                                                          *)

\* mapToTenantbyObjectSpecFunc, on the tenants of one version of an ingester.
TenantsListedBy(obj) ==
    {t \in Tenants : /\ obj # Absent /\ ctenant[t] # Absent
                     /\ SpecTenant[t] \in obj.tenants}

\* The cache may skip versions (a relist does), which only loses wake-ups.
SyncTenant(t) ==
    /\ t \in staleT
    /\ ctenant' = [ctenant EXCEPT ![t] = tenant[t]]
    /\ staleT' = staleT \ {t}
    /\ queue' = queue \cup {t}
    /\ UNCHANGED <<tenant, ivars, recycling, bounds, svcStorage, w>>

SyncIngester(n) ==
    /\ n \in staleI
    /\ cing' = [cing EXCEPT ![n] = ing[n]]
    /\ staleI' = staleI \ {n}
    /\ queue' = queue \cup TenantsListedBy(cing[n]) \cup TenantsListedBy(ing[n])
    /\ UNCHANGED <<tvars, ing, recycling, bounds, svcStorage, w>>

-----------------------------------------------------------------------------
(* TenantReconciler.Reconcile, up to the first write of Tenant.ingester().  *)

GetStorage(obj) ==
    IF obj.stg \in {Default, NoLabel} THEN svcStorage[obj.svc] ELSE obj.stg

\* ingester.Name = t.tenant.Name, whatever the namespace.
NamedAfter(n, t) == n[1] = "own" /\ n[3] = t

\* Mutant: the exclusive label is compared for exclusive tenants only.
FitsOneWay(t, obj, n) ==
    /\ cing[n] # Absent
    /\ SpecTenant[t] \in cing[n].tenants
    /\ cing[n].svc = obj.svc
    /\ cing[n].stg = GetStorage(obj)
    /\ obj.excl => cing[n].excl /\ NamedAfter(n, t)

\* Mutant: the storage is compared with the label before it is resolved.
FitsRawLabel(t, obj, n) ==
    /\ cing[n] # Absent
    /\ SpecTenant[t] \in cing[n].tenants
    /\ cing[n].svc = obj.svc
    /\ cing[n].stg = obj.stg
    /\ obj.excl = (cing[n].excl /\ NamedAfter(n, t))

\* needResetIngester is the negation of this, for a status that is set.
Fits(t, obj, n) ==
    /\ cing[n] # Absent
    /\ SpecTenant[t] \in cing[n].tenants
    /\ cing[n].svc = obj.svc
    /\ cing[n].stg = GetStorage(obj)
    /\ obj.excl = (cing[n].excl /\ NamedAfter(n, t))

NeedResetIngester(t, obj) == obj.status # None /\ ~Fits(t, obj, obj.status)

\* The ingesters listed by the service and storage labels of a tenant.
IngesterMapping(obj) ==
    {n \in Names : /\ cing[n] # Absent
                   /\ cing[n].svc = obj.svc
                   /\ cing[n].stg = GetStorage(obj)}

\* Mutant: the exclusive label is forgotten.
NewIngesterUnlabelled(t, obj) ==
    [tenants |-> {SpecTenant[t]}, svc |-> obj.svc, stg |-> GetStorage(obj),
     excl |-> FALSE, ann |-> "unset"]

NewIngester(t, obj) ==
    [tenants |-> {SpecTenant[t]}, svc |-> obj.svc, stg |-> GetStorage(obj),
     excl |-> obj.excl, ann |-> "unset"]

AddTenantToIngester(t, i) ==
    [i EXCEPT !.tenants = @ \cup {SpecTenant[t]},
              !.ann = IF @ \in {"pending", "due"} THEN "running" ELSE @]

\* Mutant: <= for <.
SlotFreeOffByOne(obj, i) ==
    LET n == AutoName(obj.svc, GetStorage(obj), i)
    IN  n \in IngesterMapping(obj) => Cardinality(cing[n].tenants) <= Cap

\* Slot i ends the search: no such ingester is listed, or it has room.
SlotFree(obj, i) ==
    LET n == AutoName(obj.svc, GetStorage(obj), i)
    IN  n \in IngesterMapping(obj) => Cardinality(cing[n].tenants) < Cap

\* The slots tried, in order, are 0 .. len(ingesterMapping).
FirstFreeSlot(obj, i) ==
    /\ i <= Cardinality(IngesterMapping(obj))
    /\ SlotFree(obj, i)
    /\ \A j \in Slots : j < i => ~SlotFree(obj, j)

\* Reconcile returns at once when the Tenant is gone or has no service.
HasWork(t) == ctenant[t] # Absent /\ ctenant[t].svc # NoLabel

\* Reconcile takes t from the queue, reads the Tenant and its Service.
Take(t) ==
    /\ At("idle")
    /\ t \in queue
    /\ queue' = queue \ {t}
    /\ HasWork(t)
    /\ UNCHANGED others

Working(t, pc) ==
    [Idle EXCEPT !.pc = pc, !.t = t, !.cp = ctenant[t], !.fresh = t \notin staleT]

Ignore(t) ==
    /\ At("idle")
    /\ t \in queue
    /\ ~HasWork(t)
    /\ queue' = queue \ {t}
    /\ UNCHANGED <<others, w>>

StartAddFinalizer(t) ==
    /\ Take(t)
    /\ ~ctenant[t].deleting /\ ~ctenant[t].finI
    /\ w' = Working(t, "addfin")

\* Mutant: a nil status is not looked at.
StartDeletionUnchecked(t) ==
    /\ Take(t)
    /\ ctenant[t].deleting /\ ctenant[t].finI
    /\ w' = [Working(t, "remove") EXCEPT !.target = ctenant[t].status,
                                         !.cp.status = None,
                                         !.ret = "clean"]

\* Mutant: the finalizer comes off first, the ingester is left to a reset.
StartDeletionReleasing(t) ==
    /\ Take(t)
    /\ ctenant[t].deleting /\ ctenant[t].finI
    /\ w' = Working(t, "unfinal")

StartDeletion(t) ==
    /\ Take(t)
    /\ ctenant[t].deleting /\ ctenant[t].finI
    /\ w' = IF ctenant[t].status = None
            THEN Working(t, "clean")
            ELSE [Working(t, "remove") EXCEPT !.target = ctenant[t].status,
                                              !.cp.status = None,
                                              !.ret = "clean"]

\* Past the finalizer checks: a deleting Tenant whose finalizer is already
\* gone goes on like a live one.
Placing(t) == ctenant[t].deleting = ~ctenant[t].finI

StartReset(t) ==
    /\ Take(t)
    /\ Placing(t)
    /\ NeedResetIngester(t, ctenant[t])
    /\ w' = [Working(t, "remove") EXCEPT !.target = ctenant[t].status,
                                         !.cp.status = None,
                                         !.ret = "status"]

PlaceExclusive(t) ==
    /\ Take(t)
    /\ Placing(t)
    /\ ~NeedResetIngester(t, ctenant[t])
    /\ ctenant[t].excl
    /\ LET n == OwnName(ctenant[t].svc, t)
       IN  w' = [Working(t, "write") EXCEPT !.target = n,
                                            !.cp.status = n,
                                            !.des = NewIngester(t, ctenant[t]),
                                            !.ret = "status"]

\* "Check duplicates" over a map: any listed ingester that has the tenant.
AdoptListed(t) ==
    /\ Take(t)
    /\ Placing(t)
    /\ ~NeedResetIngester(t, ctenant[t])
    /\ ~ctenant[t].excl
    /\ \E n \in IngesterMapping(ctenant[t]) :
          /\ SpecTenant[t] \in cing[n].tenants
          /\ w' = [Working(t, "status") EXCEPT !.cp.status = n]

PlaceShared(t) ==
    /\ Take(t)
    /\ Placing(t)
    /\ ~NeedResetIngester(t, ctenant[t])
    /\ ~ctenant[t].excl
    /\ \A n \in IngesterMapping(ctenant[t]) : SpecTenant[t] \notin cing[n].tenants
    /\ \E i \in Slots :
          /\ FirstFreeSlot(ctenant[t], i)
          /\ LET n == AutoName(ctenant[t].svc, GetStorage(ctenant[t]), i)
                 listed == n \in IngesterMapping(ctenant[t])
             IN  w' = [Working(t, "write") EXCEPT
                         !.target = n,
                         !.cp.status = n,
                         !.des = IF listed THEN AddTenantToIngester(t, cing[n])
                                           ELSE NewIngester(t, ctenant[t]),
                         !.hasRV = listed,
                         !.ret = "status"]

-----------------------------------------------------------------------------
(* The writes.                                                             *)

\* An error ends the reconcile; its key is queued again.
Fail ==
    /\ queue' = queue \cup {w.t}
    /\ w' = Idle

\* Mutant: the deleting state is not set on an ingester left empty.
RemoveTenantUnmarked(t, i) == [i EXCEPT !.tenants = @ \ {SpecTenant[t]}]

\* removeTenantFromIngesterbyName up to its CreateOrUpdate.
RemoveTenant(t, i) ==
    [i EXCEPT !.tenants = @ \ {SpecTenant[t]},
              !.ann = IF i.tenants \ {SpecTenant[t]} = {} THEN "pending" ELSE @]

RemoveFromIngester ==
    /\ At("remove")
    /\ LET cur == cing[w.target]
       IN  w' = IF cur # Absent /\ SpecTenant[w.t] \in cur.tenants
                THEN [w EXCEPT !.pc = "write", !.des = RemoveTenant(w.t, cur),
                               !.hasRV = TRUE]
                ELSE [w EXCEPT !.pc = w.ret, !.target = None, !.ret = "idle",
                               !.missed = w.target \in staleI]
    /\ UNCHANGED <<others, queue>>

\* util.CreateOrUpdate: labels and annotations are merged, desired winning;
\* the spec is replaced; the status is a subresource and stays.
Merge(cur, des) ==
    [des EXCEPT !.ann = IF @ = "unset" THEN cur.ann ELSE @,
                !.excl = @ \/ cur.excl]

WriteDone ==
    w' = [w EXCEPT !.pc = w.ret, !.target = None, !.des = Absent,
                   !.hasRV = FALSE, !.ret = "idle"]

CreateIngester ==
    /\ At("write")
    /\ cing[w.target] = Absent /\ ing[w.target] = Absent
    /\ ~w.hasRV
    /\ WriteIngester(w.target, w.des)
    /\ WriteDone
    /\ UNCHANGED <<tvars, cing, recycling, bounds, svcStorage, queue>>

UpdateIngester ==
    /\ At("write")
    /\ cing[w.target] # Absent /\ w.target \notin staleI
    /\ WriteIngester(w.target, Merge(cing[w.target], w.des))
    /\ WriteDone
    /\ UNCHANGED <<tvars, cing, recycling, bounds, svcStorage, queue>>

\* RetryOnConflict: desired keeps what it merged from the stale read.  The
\* retries are few, and an ingester that is gone is no conflict.
ConflictIngester ==
    /\ At("write")
    /\ cing[w.target] # Absent /\ w.target \in staleI
    /\ \/ /\ ing[w.target] # Absent
          /\ w' = [w EXCEPT !.des = Merge(cing[w.target], w.des), !.hasRV = TRUE]
          /\ UNCHANGED queue
       \/ Fail
    /\ UNCHANGED others

\* Create of an object that exists, or with a resourceVersion: refused.
RefusedIngester ==
    /\ At("write")
    /\ cing[w.target] = Absent
    /\ ing[w.target] # Absent \/ w.hasRV
    /\ Fail
    /\ UNCHANGED others

\* The Tenant is written from a current copy; the answer is the next copy.
WriteOwnCopy(obj, pc) ==
    /\ w.fresh
    /\ WriteTenant(w.t, Stored(obj))
    /\ w' = IF Stored(obj) = Absent
            THEN [w EXCEPT !.pc = pc, !.fresh = FALSE]
            ELSE [w EXCEPT !.pc = pc, !.cp = obj]
    /\ UNCHANGED <<ctenant, ivars, recycling, bounds, svcStorage, queue>>

AddFinalizer ==
    /\ At("addfin")
    /\ WriteOwnCopy([w.cp EXCEPT !.finI = TRUE], "rest")

UpdateStatus ==
    /\ At("status")
    /\ WriteOwnCopy(w.cp, "rest")

\* Update leaves the stored status alone and answers with it.
RemoveFinalizer ==
    /\ At("unfinal")
    /\ WriteOwnCopy([w.cp EXCEPT !.finI = FALSE, !.status = tenant[w.t].status], "rest")

\* Status updates of the service's ingesters whose status.tenants has the
\* Tenant's name, one by one from the cached copies; a refused one ends the
\* reconcile and leaves those before it done.
CleanStatus ==
    /\ At("clean")
    /\ LET listed == {n \in Names : cing[n] # Absent /\ cing[n].svc = w.cp.svc}
       IN  \E done \in SUBSET (listed \ staleI) : staleI' = staleI \cup done
    /\ \/ w' = [w EXCEPT !.pc = "unfinal"] /\ UNCHANGED queue
       \/ staleI # {} /\ Fail
    /\ UNCHANGED <<tvars, ing, cing, svcStorage, recycling, bounds>>

\* ruler(), compactor() and store() as far as ingester() can tell: they write
\* the Tenant from the same copy, and compactor() keeps its own finalizer.
Rest ==
    /\ At("rest")
    /\ w.fresh
    /\ WriteTenant(w.t, Stored([w.cp EXCEPT !.finC = ~w.cp.deleting]))
    /\ w' = Idle
    /\ UNCHANGED <<ctenant, ivars, recycling, bounds, svcStorage, queue>>

\* A write of the Tenant from an old copy: conflict, or not found.
ConflictTenant ==
    /\ CaughtUp /\ w.pc \in {"addfin", "status", "unfinal", "rest"}
    /\ ~w.fresh
    /\ Fail
    /\ UNCHANGED others

\* Any other failure of an API call.
TransientError ==
    /\ CaughtUp /\ w.pc # "idle"
    /\ failures < MaxFailures
    /\ failures' = failures + 1
    /\ Fail
    /\ UNCHANGED <<tvars, ivars, recycling, userOps, svcStorage>>

\* The manager restarts: caches are listed anew, every object is queued.
Restart ==
    /\ CaughtUp
    /\ failures < MaxFailures
    /\ failures' = failures + 1
    /\ w' = Idle /\ recycling' = None
    /\ ctenant' = tenant /\ staleT' = {}
    /\ cing' = ing /\ staleI' = {}
    /\ queue' = {t \in Tenants : tenant[t] # Absent}
    /\ UNCHANGED <<tenant, ing, svcStorage, userOps>>

-----------------------------------------------------------------------------
(* IngesterReconciler.Reconcile, as far as it writes Ingester objects.      *)

\* An ingester seen empty after its deleting-time is deleted: a call that
\* names the object and carries no precondition.
DecideRecycle(n) ==
    /\ CaughtUp /\ recycling = None
    /\ cing[n] # Absent
    /\ cing[n].tenants = {} /\ cing[n].ann = "due"
    /\ recycling' = n
    /\ UNCHANGED <<tvars, ivars, svcStorage, queue, w, bounds>>

RecycleIngester ==
    /\ CaughtUp /\ recycling # None
    /\ WriteIngester(recycling, Absent)
    /\ recycling' = None
    /\ UNCHANGED <<tvars, cing, svcStorage, queue, w, bounds>>

\* The deleting-time of n comes.  A stored one differs from the cached one
\* only by being later.
Due(i) == [i EXCEPT !.ann = "due"]
IsPending(i) == i # Absent /\ i.ann = "pending"

Elapse(n) ==
    /\ CaughtUp
    /\ IsPending(cing[n]) \/ IsPending(ing[n])
    /\ cing' = IF IsPending(cing[n]) THEN [cing EXCEPT ![n] = Due(@)] ELSE cing
    /\ \/ /\ IsPending(ing[n])
          /\ ing' = [ing EXCEPT ![n] = Due(@)]
       \/ /\ IsPending(cing[n]) /\ n \in staleI
          /\ UNCHANGED ing
    /\ UNCHANGED <<tvars, staleI, svcStorage, queue, w, recycling, bounds>>

-----------------------------------------------------------------------------
TakeStep(t) ==
    \/ Ignore(t)
    \/ StartAddFinalizer(t)
    \/ StartDeletion(t)
    \/ StartReset(t)
    \/ PlaceExclusive(t)
    \/ AdoptListed(t)
    \/ PlaceShared(t)

WorkerStep ==
    \/ RemoveFromIngester
    \/ CreateIngester
    \/ UpdateIngester
    \/ ConflictIngester
    \/ RefusedIngester
    \/ AddFinalizer
    \/ UpdateStatus
    \/ RemoveFinalizer
    \/ CleanStatus
    \/ Rest
    \/ ConflictTenant

UserStep ==
    \/ \E t \in Tenants, l \in Labelings : CreateTenant(t, l)
    \/ \E t \in Tenants, l \in Labelings : RelabelTenant(t, l)
    \/ \E t \in Tenants : DeleteTenant(t)
    \/ \E s \in Services, g \in StorageRefs : SetServiceStorage(s, g)

Next ==
    \/ \E t \in Tenants : SyncTenant(t) \/ TakeStep(t)
    \/ \E n \in Names : SyncIngester(n) \/ DecideRecycle(n) \/ Elapse(n)
    \/ WorkerStep
    \/ TransientError
    \/ Restart
    \/ RecycleIngester
    \/ UserStep

Spec == Init /\ [][Next]_vars

\* The work queue is first in, first out: a queued key gets its turn (SF).
\* Watches deliver, time passes, a started reconcile goes on (WF).  Nothing is
\* assumed of users, failures and restarts, which the bounds end.
Fairness ==
    /\ \A t \in Tenants : SF_vars(TakeStep(t))
    /\ WF_vars(WorkerStep)
    /\ \A t \in Tenants : WF_vars(SyncTenant(t))
    /\ \A n \in Names : WF_vars(SyncIngester(n))
    /\ WF_vars(\E n \in Names : Elapse(n))
    /\ WF_vars(\E n \in Names : DecideRecycle(n))
    /\ WF_vars(RecycleIngester)

FairSpec == Spec /\ Fairness

-----------------------------------------------------------------------------
(* Properties.                                                             *)

\* A shared ingester never serves more than DefaultTenantsPerIngester tenants,
\* although placement counts the tenants of a cached copy and the write that
\* follows replaces the whole list.
Capacity ==
    \A n \in AutoNames : ing[n] # Absent => Cardinality(ing[n].tenants) <= Cap

\* The ingester of an exclusive tenant serves that tenant or nobody: no
\* placement, merge or lost update ever puts another tenant on it.
ExclusiveIsolation ==
    \A s \in Services, t \in Tenants :
        LET n == OwnName(s, t)
        IN  ing[n] # Absent => ing[n].excl /\ ing[n].tenants \subseteq {SpecTenant[t]}

\* Nothing is queued, running or on its way to a cache in the tenant controller.
Quiet == w.pc = "idle" /\ queue = {} /\ staleT = {} /\ staleI = {}

Placed(t) ==
    LET obj == tenant[t]
        n == obj.status
    IN  /\ n # None
        /\ ing[n] # Absent
        /\ SpecTenant[t] \in ing[n].tenants
        /\ ing[n].svc = obj.svc
        /\ obj.stg # NoLabel => ing[n].stg = GetStorage(obj)
        /\ obj.excl = (ing[n].excl /\ NamedAfter(n, t))

\* The controller never falls silent too early: when it has nothing left to
\* do, every Tenant with a service is bound to an ingester that exists, lists
\* it and has its service, storage and exclusiveness, and no Tenant is still
\* waiting to be deleted.  Wake-ups come from watches only, so each conflict,
\* lost update, recycled ingester and relabelling must lead to one.  (A Tenant
\* without a storage label is exempt from the storage: see README.)
Settled ==
    Quiet => \A t \in Tenants :
                tenant[t] # Absent /\ tenant[t].svc # NoLabel =>
                    ~tenant[t].deleting /\ Placed(t)

\* When the ingester finalizer comes off a Tenant, the ingester its status
\* names has dropped it: the binding is undone before the Tenant can go, but for
\* a removal that looked for the tenant in a cache entry that was behind.
UnboundBeforeRelease ==
    [][\A t \in Tenants :
          (/\ tenant[t] # Absent /\ tenant[t].finI /\ tenant[t].status # None
           /\ (tenant'[t] = Absent \/ ~tenant'[t].finI)) =>
              \/ w.missed
              \/ ing[tenant[t].status] = Absent
              \/ SpecTenant[t] \notin ing[tenant[t].status].tenants]_vars

\* A reconcile takes a key while the cache of a Tenant or an Ingester is behind.
TakesBehind == w.pc = "idle" /\ w'.pc # "idle" /\ staleT \cup staleI # {}

\* A tenant that two ingesters list is moved from one to the other, by the order
\* in which a map is gone through.
ChangesMind ==
    /\ w.pc = "idle" /\ w'.pc = "status"
    /\ ctenant[w'.t].status \notin {None, w'.cp.status}

\* When users stop, the tenant controller stops: two tenants never undo each
\* other for ever, nor a tenant the placement it just made, unless time and again
\* reconciles start before the caches hold what was written, or a tenant that a
\* late cache has left on two ingesters changes between them.
Quiesces == []<><<TakesBehind \/ ChangesMind>>_vars \/ <>[]Quiet

\* Ingesters left without tenants do not pile up: each is taken into use again
\* or deleted after its retention period.
Reclaimed == []<>(\A n \in Names : ing[n] # Absent => ing[n].tenants # {})

\* docs/proposals/2022-07-auto-scaling.md: a deleted tenant is removed from
\* its ingester.  An ingester lists only tenants that exist.
NoOrphan ==
    \A n \in Names : ing[n] # Absent =>
        \A x \in ing[n].tenants :
            \E t \in Tenants : SpecTenant[t] = x /\ tenant[t] # Absent

\* The same document: an ingester is deleted if it is not in use after its
\* retention period.
RecycleOnlyUnused ==
    [][\A n \in Names : ing[n] # Absent /\ ing'[n] = Absent => ing[n].tenants = {}]_vars

\* mapToTenantByService wakes "the tenant that use the default storage"; its
\* storage label may also be absent.  Such a Tenant follows its service's
\* storage too.
DefaultStorageFollowed ==
    Quiet => \A t \in Tenants :
                (tenant[t] # Absent /\ tenant[t].svc # NoLabel /\ Placed(t)) =>
                    ing[tenant[t].status].stg = GetStorage(tenant[t])
=============================================================================
