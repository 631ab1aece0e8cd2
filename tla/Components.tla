----------------------------- MODULE Components -----------------------------
(***************************************************************************)
(* The controllers of the components as an instance of Reconcilers: which  *)
(* resource functions each of them calls, what it reads first, what it     *)
(* watches, and what the components must agree on.                         *)
(*                                                                         *)
(* The key of a Tenant stands for the part of its reconcile that removes   *)
(* the last finalizer and keeps the Stores; placement in an ingester and a *)
(* compactor are the subject of TenantIngester and TenantCompactor, rule   *)
(* files that of Ruler.                                                    *)
(***************************************************************************)
EXTENDS Workloads

CONSTANTS
    Places,             \* sequence of [name, place]: the Stores of tenants
    MaxParts            \* bound: partitions of a Store, shards of a Ruler

Kinds ==
    {"Service", "Tenant", "Storage", "Secret", "Ingester", "Router", "Query", "QueryFrontend",
     "Gateway", "Store", "Ruler", "Compactor"}
Templated == Kinds \ {"Service", "Tenant", "Storage", "Secret"}

ASSUME ObjectsAssumption ==
    /\ IsFiniteSet(Objects) /\ KindOf \in [Objects -> Kinds] /\ Nil \notin Objects
    /\ Users \in Objects /\ KindOf[Users] = "Secret"
    /\ MaxParts \in Nat \ {0}
    /\ Places \in Seq([name : Objects, place : Objects \X Objects])
    /\ \A i \in DOMAIN Places :
          /\ KindOf[Places[i].name] = "Store" /\ KindOf[Places[i].place[1]] = "Service"
          /\ KindOf[Places[i].place[2]] = "Storage"
          /\ \A j \in DOMAIN Places : i # j => Places[i].name # Places[j].name
    /\ {"default", "local", "external"} \cap Objects = {} /\ Nil \notin {"default", "local"}
    /\ Absent \notin [of : Objects] \cup [partition : Nat] \cup [shard : Nat] \cup [user : {"random"}]

-----------------------------------------------------------------------------
(* The custom resources: what a user may set of what the functions read.   *)

Count == Nat \cup {Nil}
FlagList == Seq(STRING \X STRING)

\* CommonSpec: of a component, and in the template of a Service.
CommonSpec(v) ==
    /\ {"replicas", "parts", "web", "flags"} \subseteq DOMAIN v
    /\ v.replicas \in Count /\ v.parts \in Count
    /\ v.web \in {Nil} \cup SUBSET {"tls", "users"}
    /\ v.flags \in FlagList

ServiceObjects == {o \in Objects : KindOf[o] = "Service"}
SecretObjects == {o \in Objects : KindOf[o] = "Secret"}
StorageObjects == {o \in Objects : KindOf[o] = "Storage"}

\* The label names a Service, or is not set.
LabelSpec(v) == "of" \in DOMAIN v /\ v.of \in ServiceObjects \cup {Nil}

ComponentSpec(v) == LabelSpec(v) /\ CommonSpec(v)

\* The label of a storage names a Storage, or is not set.
StorageLabel(v) == "storage" \in DOMAIN v /\ v.storage \in StorageObjects \cup {Nil}

IngesterSpec(v) ==
    /\ ComponentSpec(v) /\ StorageLabel(v)
    /\ {"tenants", "soft", "status", "volume", "retire", "attrs"} \subseteq DOMAIN v
    /\ v.tenants \subseteq STRING /\ v.soft \in BOOLEAN
    /\ v.status \subseteq STRING \X BOOLEAN
    /\ v.volume \in {"claim", "own"}
    /\ v.retire \in {"no", "waiting", "due"} /\ v.attrs \in Seq(STRING)
RulerSpec(v) == ComponentSpec(v) /\ "labels" \in DOMAIN v /\ v.labels \in Seq(STRING)
QuerySpec(v) == ComponentSpec(v) /\ v.stores \in Seq([address : STRING, ca : STRING \cup {Nil}])
GatewaySpec(v) == ComponentSpec(v) /\ v.admission \in BOOLEAN
CompactorSpec(v) == ComponentSpec(v) /\ StorageLabel(v) /\ "tenants" \in DOMAIN v /\ v.tenants \subseteq STRING
StoreSpec(v) == ComponentSpec(v) /\ StorageLabel(v) /\ "hashes" \in DOMAIN v
\* Credentials are taken from a Secret.
SecretSpec(v) == "secret" \in DOMAIN v /\ v.secret \in SecretObjects \cup {Nil}
StorageSpec(v) ==
    /\ {"bucket", "hash", "manager"} \subseteq DOMAIN v
    /\ v.bucket \in STRING /\ SecretSpec(v)
    /\ v.manager \in {Nil} \cup [replicas : Nat, gc : BOOLEAN]
RemoteSpec == [scheme : {"http", "https"}, auth : SUBSET {"basic", "bearer"}]
ServiceSpec(v) ==
    /\ StorageLabel(v) /\ v.cleanup \in BOOLEAN
    /\ v.remote \in {Nil} \cup RemoteSpec /\ v.writes \subseteq RemoteSpec
    /\ "tmpl" \in DOMAIN v /\ \A kind \in Templated : CommonSpec(v.tmpl[kind])
TenantSpec(v) ==
    /\ LabelSpec(v) /\ {"storage", "id", "deleting"} \subseteq DOMAIN v
    /\ v.storage \in StorageObjects \cup {Nil, "default", "local"}
    /\ v.id \in STRING /\ v.deleting \in BOOLEAN

Specified(o, v) ==
    CASE KindOf[o] = "Ingester" -> IngesterSpec(v)
      [] KindOf[o] = "Ruler" -> RulerSpec(v)
      [] KindOf[o] = "Query" -> QuerySpec(v)
      [] KindOf[o] = "Gateway" -> GatewaySpec(v)
      [] KindOf[o] = "Compactor" -> CompactorSpec(v)
      [] KindOf[o] = "Store" -> StoreSpec(v)
      [] KindOf[o] = "Storage" -> StorageSpec(v)
      [] KindOf[o] = "Service" -> ServiceSpec(v)
      [] KindOf[o] = "Tenant" -> TenantSpec(v)
      [] KindOf[o] = "Secret" -> "value" \in DOMAIN v /\ v.value \in Nat
      [] OTHER -> ComponentSpec(v)

ASSUME ScenesAssumption ==
    \A s \in Scenes :
        /\ s.world = [o \in Objects |-> s.world[o]]
        /\ \A o \in Objects : s.world[o] = Absent \/ (Specified(o, s.world[o]) /\ s.world[o] # Error)

\* An edit is of one object; what it sets is what the API server lets pass.
ASSUME EditsAssumption ==
    \A s \in Scenes : \A e \in s.edits :
        /\ e.on \in Objects
        /\ e.does = "create" => Specified(e.on, e.set) /\ e.set \notin {Absent, Error}
        /\ e.does = "delete" => e.set = Absent
        /\ e.does \notin {"create", "delete"} =>
              /\ e.does = "change"
              /\ "flags" \in DOMAIN e.set => e.set.flags \in FlagList
              /\ "attrs" \in DOMAIN e.set => e.set.attrs \in Seq(STRING)
              /\ "labels" \in DOMAIN e.set => e.set.labels \in Seq(STRING)
              /\ "parts" \in DOMAIN e.set => e.set.parts \in Count
              /\ "of" \in DOMAIN e.set => LabelSpec(e.set)
              /\ "secret" \in DOMAIN e.set => SecretSpec(e.set)
              /\ "value" \in DOMAIN e.set => e.set.value \in Nat
              /\ "storage" \in DOMAIN e.set /\ KindOf[e.on] # "Tenant" => StorageLabel(e.set)
              /\ "tmpl" \in DOMAIN e.set => \A kind \in Templated : CommonSpec(e.set.tmpl[kind])

\* Shards, time ranges and TLS are set on custom resources and not in templates,
\* endpoints, addresses and the tenants to keep are not given as flags, Stores name
\* their storage, and there are no more than MaxParts parts; an ingester is not
\* scaled to 0, which the merge takes for unset: what components must agree on is
\* stated for such worlds.
OwnArgs ==
    {"--endpoint", "--query.address", "--query.config", "--rules-query.address", "--rules-query.config",
     "--selector.relabel-config",
     "--query-frontend.downstream-url", "--query-frontend.downstream-tripper-config"}
OtherFlags(flags) == \A i \in DOMAIN flags : flags[i][1] \notin OwnArgs
FewParts(n) == n \in (0..MaxParts) \cup {Nil}
PlainTemplates(tmpl) ==
    \A kind \in Templated : tmpl[kind].parts = Nil /\ tmpl[kind].web = Nil /\ OtherFlags(tmpl[kind].flags)

Plain(o, v) ==
    /\ KindOf[o] \in Templated => FewParts(v.parts) /\ OtherFlags(v.flags)
    /\ KindOf[o] = "Ingester" => v.replicas # 0
    /\ KindOf[o] = "Store" => "storage" \in DOMAIN v /\ v.storage # Nil
    /\ KindOf[o] = "Service" => PlainTemplates(v.tmpl)

PlainEdit(e) ==
    /\ e.does = "create" => Plain(e.on, e.set)
    /\ e.does = "change" =>
          /\ "parts" \in DOMAIN e.set => FewParts(e.set.parts)
          /\ "flags" \in DOMAIN e.set => OtherFlags(e.set.flags)
          /\ "replicas" \in DOMAIN e.set /\ KindOf[e.on] = "Ingester" => e.set.replicas # 0
          /\ "storage" \in DOMAIN e.set /\ KindOf[e.on] = "Store" => e.set.storage # Nil
          /\ "tmpl" \in DOMAIN e.set => PlainTemplates(e.set.tmpl)

PlainScenes ==
    \A s \in Scenes :
        /\ \A o \in Objects : s.world[o] = Absent \/ Plain(o, s.world[o])
        /\ \A e \in s.edits : PlainEdit(e)

\* No controller watches the users' Secret: what follows from the watches is
\* stated for edits that may create it and then leave it as it is.
UsersLast == \A s \in Scenes : \A e \in s.edits : e.on = Users => e.does = "create"

\* A change of a Store queues one tenant, whichever it is, and the names of the
\* tenants are compared with those in the Store's annotation: what follows from
\* that is stated for tenants that have a Service, name their storage and stay,
\* Services that are not deleted and Stores that nobody else moves or annotates.
StayingTenant(v) == v.of # Nil /\ v.storage \in StorageObjects \cup {"local"} /\ ~v.deleting
PlacedStore(o, v) ==
    /\ v.hashes = Nil
    /\ \E j \in DOMAIN Places : Places[j].name = o /\ Places[j].place = <<v.of, v.storage>>

TenantsStay(scenes) ==
    \A s \in scenes :
        /\ \A o \in Objects : s.world[o] # Absent =>
              /\ KindOf[o] = "Tenant" => StayingTenant(s.world[o])
              /\ KindOf[o] = "Store" => PlacedStore(o, s.world[o])
        /\ \A e \in s.edits :
              /\ KindOf[e.on] = "Tenant" => e.does = "create" /\ StayingTenant(e.set)
              /\ KindOf[e.on] = "Service" => e.does # "delete"
              /\ KindOf[e.on] = "Store" =>
                    /\ e.does = "create" => PlacedStore(e.on, e.set)
                    /\ e.does = "change" => DOMAIN e.set \cap {"of", "storage", "hashes"} = {}

\* There is a name for the Store of every Service and storage.
EveryPlace == \A svc \in ServiceObjects : \A st \in StorageObjects : \E j \in DOMAIN Places : Places[j].place = <<svc, st>>

\* Credentials reach the workloads as a hash in an annotation of the Storage, and a
\* value that returns is not noticed: Storages stay, with the Secret they name and
\* the annotation left to the controller, and the values of Secrets only rise.
StoragesStay(scenes) ==
    \A s \in scenes :
        /\ \A o \in StorageObjects : s.world[o] # Absent => s.world[o].hash = Nil
        /\ \A e \in s.edits : KindOf[e.on] = "Storage" =>
              /\ e.does # "delete"
              /\ e.does = "create" => e.set.hash = Nil
              /\ e.does = "change" => DOMAIN e.set \cap {"secret", "hash"} = {}
SecretsRise ==
    [][\A o \in SecretObjects :
          world[o] # Absent => world'[o] # Absent /\ world[o].value <= world'[o].value]_world

-----------------------------------------------------------------------------
(* The resource functions.                                                 *)

\* <<name, which partition, shard or Store it is for>>
Each(name, n) == [p \in 1..n |-> <<name, p - 1>>]
One(names) == [i \in DOMAIN names |-> <<names[i], 0>>]

\* The lists that the Reconcile methods give to ReconcileResources, with the
\* writes that come before: the ingester's status and its end, the gateway's
\* built-in user and the finalizer of a tenant.
ResourceFunctions(kind) ==
    CASE kind = "Router" -> One(<<"hashringsConfigMap", "webConfigSecret", "deployment", "service">>)
      [] kind = "Ingester" -> One(<<"status", "recycle", "statefulSet", "service">>)
      [] kind = "Query" -> One(<<"proxyConfigMap", "storesConfigMap", "webConfigSecret", "deployment", "service">>)
      [] kind = "QueryFrontend" -> One(<<"cacheConfigConfigMap", "webConfigSecret", "deployment", "service">>)
      [] kind = "Gateway" -> One(<<"builtInUser", "deployment", "service", "admission", "webConfigSecret">>)
      [] kind \in {"Store", "Ruler"} -> Each("statefulSet", MaxParts) \o Each("service", MaxParts)
      [] kind = "Compactor" -> One(<<"statefulSet">>)
      [] kind = "Storage" -> One(<<"hash", "deployment", "service">>)
      [] kind = "Tenant" -> <<<<"finalizer", 0>>>> \o Each("update", Len(Places)) \o Each("create", Len(Places))

ComponentKeys == {o \in Objects : KindOf[o] \notin {"Service", "Secret"}}

\* SetupWithManager leaves MaxConcurrentReconciles at 1.
ComponentWorker(k) == KindOf[k]

FunctionTable == [k \in ComponentKeys |-> ResourceFunctions(KindOf[k])]
Function(k, i) == FunctionTable[k][i][1]
Part(k, i) == FunctionTable[k][i][2]
ComponentSize(k) == Len(FunctionTable[k])

ComponentTarget(k, i) ==
    CASE Function(k, i) \in {"status", "recycle", "hash", "finalizer"} -> k
      [] Function(k, i) \in {"update", "create"} -> Places[Part(k, i) + 1].name
      [] OTHER -> Owned

\* Secrets are owned and no controller Owns them but that of Storage.
ComponentWatched(k, i) == Function(k, i) \notin {"webConfigSecret", "builtInUser"}

\* A changed status ends the reconcile of an ingester, and so does its deletion.
ComponentReturns(k, i) == Function(k, i) \in {"status", "recycle"}

\* What reads no more than its controller watches.  A StatefulSet with a storage
\* configuration reads the Secrets behind it, which reach it as a new hash of
\* the Storage; a Ruler's reads the Gateway; a web configuration is a Secret.
ComponentDirect(k, i) ==
    /\ KindOf[k] # "Tenant"
    /\ Function(k, i) \notin {"statefulSet", "webConfigSecret", "builtInUser", "admission"}

-----------------------------------------------------------------------------
(* What a reconcile reads first.                                           *)

\* BaseReconciler.SetService: the Service that the label names.
SetService(k, w) == IF w[w[k].of] = Absent THEN Error ELSE w[w[k].of]

\* Resources without the labels they need are left alone.
Skipped(k, w) ==
    /\ KindOf[k] # "Storage"
    /\ \/ w[k].of = Nil
       \/ KindOf[k] \in {"Store", "Compactor"} /\ w[k].storage = Nil

TenantBegin(k, svc, w) ==
    [raw |-> w[k], expected |-> sortTenantsByStorageAndService(svc, w),
     listed |-> [i \in DOMAIN Places |-> w[Places[i].name]]]

\* The custom resource, merged with the template of its Service, and the Service.
TemplatedBegin(k, svc, w) ==
    [raw |-> w[k], svc |-> svc, cr |-> Merge(w[k], ApplyDefaults(svc.tmpl[KindOf[k]], KindOf[k]))]

\* A compactor without tenants is left as it is.
CompactorBegin(k, svc, w) == IF w[k].tenants = {} THEN Nothing ELSE TemplatedBegin(k, svc, w)

ComponentBegin(k, w) ==
    IF w[k] = Absent THEN Nothing
    ELSE IF Skipped(k, w) THEN Nothing
    ELSE IF KindOf[k] = "Storage" THEN [raw |-> w[k]]
    ELSE IF SetService(k, w) = Error THEN Error
    ELSE CASE KindOf[k] = "Tenant" -> TenantBegin(k, SetService(k, w), w)
           [] KindOf[k] = "Compactor" -> CompactorBegin(k, SetService(k, w), w)
           [] OTHER -> TemplatedBegin(k, SetService(k, w), w)

-----------------------------------------------------------------------------
(* What the resource functions build.                                      *)

\* Removing the finalizer is refused when the Tenant was changed meanwhile.
RemoveFinalizer(raw, c) == IF ~raw.deleting THEN c ELSE IF c # raw THEN Error ELSE Absent

\* An ingester that is retiring keeps what it owns as it is.
ComponentBuild(k, i, s, w, c) ==
    LET kind == KindOf[k]
        f == Function(k, i)
        p == Part(k, i)
    IN  CASE f = "webConfigSecret" -> webConfigSecret(s.cr, w)
          [] f = "hashringsConfigMap" -> hashringsConfigMap(s.cr, w)
          [] f = "proxyConfigMap" -> proxyConfigMap(s.cr)
          [] f = "storesConfigMap" -> storesConfigMap(s.cr)
          [] f = "cacheConfigConfigMap" -> cacheConfigConfigMap
          [] f = "builtInUser" -> generateBuiltInBasicAuthUserSecret(s.cr, c)
          [] f = "admission" -> tenantsAdmissionConfigMap(s.cr, w)
          [] f = "status" -> IngesterStatus(s.cr, s.raw, c)
          [] f = "recycle" -> RecycleIngester(s.raw, c)
          [] f = "hash" -> updateHashAnnotation(k, s.raw, w, c)
          [] f = "finalizer" -> RemoveFinalizer(s.raw, c)
          [] f = "update" -> UpdateStore(s.listed[p + 1], s.expected, w, c)
          [] f = "create" -> CreateStore(Places[p + 1].place, s.listed[p + 1], s.expected, w, c)
          [] f = "deployment" ->
               (CASE kind = "Router" -> RouterDeployment(s.cr, w)
                  [] kind = "Query" -> QueryDeployment(s.cr, w)
                  [] kind = "QueryFrontend" -> QueryFrontendDeployment(s.cr, w)
                  [] kind = "Gateway" -> GatewayDeployment(s.cr, s.svc, w)
                  [] kind = "Storage" -> BlockManagerDeployment(k, s.raw, w, c))
          [] f = "statefulSet" ->
               (CASE kind = "Ingester" -> IF Retiring(s.raw) THEN c ELSE IngesterStatefulSet(s.cr, s.svc, w)
                  [] kind = "Store" -> StoreStatefulSet(s.cr, p, w, c)
                  [] kind = "Compactor" -> CompactorStatefulSet(s.cr, w)
                  [] kind = "Ruler" -> RulerStatefulSet(s.cr, p, w))
          [] f = "service" ->
               (CASE kind = "Store" -> StoreService(s.cr, p)
                  [] kind = "Ruler" -> RulerService(s.cr, p)
                  [] kind = "Storage" -> BlockManagerService(s.raw)
                  [] kind = "Ingester" -> IF Retiring(s.raw) THEN c ELSE PlainService(s.cr)
                  [] OTHER -> PlainService(s.cr))

-----------------------------------------------------------------------------
(* Watches.                                                                *)

\* What each controller watches of the components of the same Service, with
\* ManagedLabelBySameService; all but Tenant and Storage watch the Service too.
RouterWatches == {"Ingester"}
QueryWatches == {"Ingester", "Store", "Ruler"}

\* Mutant: a query frontend does not watch the Query.
QueryFrontendWatchesFew == {"Tenant"}

QueryFrontendWatches == {"Query", "Tenant"}
GatewayWatches == {"Query", "QueryFrontend", "Router", "Tenant"}
RulerWatches == {"Query", "QueryFrontend", "Router"}

Watches ==
    [Router |-> RouterWatches, Query |-> QueryWatches, QueryFrontend |-> QueryFrontendWatches,
     Gateway |-> GatewayWatches, Ruler |-> RulerWatches]
Watchers(kind) == {k \in DOMAIN Watches : kind \in Watches[k]}

\* An update is mapped for the old and the new object.
Versions(o, w, w2) == {v \in {w[o], w2[o]} : v # Absent}

\* Updates of Tenants are kept from the gateway by a predicate.
Filtered(o, w, w2) ==
    IF KindOf[o] = "Tenant" /\ w[o] # Absent /\ w2[o] # Absent THEN {"Gateway"} ELSE {}

SameService(o, w, w2) ==
    {k \in ComponentKeys :
        /\ KindOf[k] \in Watchers(KindOf[o]) \ Filtered(o, w, w2)
        /\ w2[k] # Absent
        /\ \E v \in Versions(o, w, w2) : v.of # Nil /\ w2[k].of = v.of}

TenantList(w) == {t \in ComponentKeys : KindOf[t] = "Tenant" /\ w[t] # Absent}

\* Tenants that a component lists, and those with the default storage for their
\* Service.
TenantsOf(o, w, w2) ==
    LET tenants == TenantList(w2)
    IN  CASE KindOf[o] \in {"Ingester", "Compactor"} ->
                {t \in tenants : \E v \in Versions(o, w, w2) : w2[t].id \in v.tenants}
          [] KindOf[o] = "Service" -> {t \in tenants : w2[t].of = o /\ w2[t].storage = "default"}
          [] OTHER -> {}

\* Components of a Service, users of a Storage, Storages of a Secret.
Dependents(o, w2) ==
    {k \in ComponentKeys :
        /\ w2[k] # Absent
        /\ CASE KindOf[o] = "Service" -> KindOf[k] \notin {"Storage", "Tenant"} /\ w2[k].of = o
             [] KindOf[o] = "Storage" -> KindOf[k] \in {"Ingester", "Store", "Compactor"} /\ w2[k].storage = o
             [] KindOf[o] = "Secret" -> KindOf[k] = "Storage" /\ w2[k].secret = o
             [] OTHER -> FALSE}

ComponentWakes(o, w, w2) ==
    ({o} \cap ComponentKeys) \cup SameService(o, w, w2) \cup TenantsOf(o, w, w2) \cup Dependents(o, w2)

\* A Store queues the first tenant of a list that has no order.
ComponentFirsts(o, w, w2) ==
    IF KindOf[o] = "Store" /\ TenantList(w2) # {} THEN TenantList(w2) ELSE {o}

\* Files that are written in the order of a list: the hashrings, the endpoints of
\* soft tenants and the tenants that are admitted.
ComponentShuffles(k, i, c) ==
    \/ /\ Function(k, i) = "hashringsConfigMap"
       /\ Cardinality(c.rings) > 1 \/ Cardinality({e[1] : e \in c.softs}) > 1
    \/ Function(k, i) = "admission" /\ c # Absent /\ Cardinality(c.tenants) > 1

-----------------------------------------------------------------------------
(* Edits from outside: some fields are set, an object created or deleted.  *)
(* The end of an ingester's retention is one too, with the event of the    *)
(* RequeueAfter that its reconcile asked for.                              *)

ComponentMay(e, v) == (v = Absent) <=> e.does = "create"

ComponentChange(e, v) ==
    IF e.does = "change" THEN [f \in DOMAIN v |-> IF f \in DOMAIN e.set THEN e.set[f] ELSE v[f]]
    ELSE e.set

-----------------------------------------------------------------------------
(* Properties.                                                             *)

Live(kind) == {k \in Keys : KindOf[k] = kind /\ Begin(k, world) \notin {Nothing, Error}}

\* What function f of k for part p has written.
Deployed(k, f, p) == owned[k][CHOOSE i \in Functions(k) : Function(k, i) = f /\ Part(k, i) = p]

Arguments(k) == DOMAIN Deployed(k, "deployment", 0).args

\* Every tenant of a default storage is sorted under the Service of the tenant that
\* is reconciled: tenants of two Services delete each other's Stores.
Contended == \E t, u \in Live("Tenant") : Begin(t, world).expected # Begin(u, world).expected

\* Functions whose reads no watch keeps current: the gateway's admission file
\* when a Tenant is updated, the Ruler's StatefulSet when the Gateway is, that
\* of the Service's default Store when a tenant of the default storage comes or
\* goes, the storage hash that a Tenant writes to its Store, and the Stores that
\* tenants of two Services do not agree on.
Lagging(k, i) ==
    \/ Function(k, i) \in {"admission", "update"}
    \/ Function(k, i) = "create" /\ Contended
    \/ Function(k, i) = "statefulSet" /\ KindOf[k] = "Ruler"
    \/ Function(k, i) = "statefulSet" /\ KindOf[k] = "Store" /\ world[world[k].of].storage = world[k].storage

\* When all controllers have come to rest every object is what its function would
\* build now, those included whose inputs reach them by way of other controllers.
Built ==
    AtRest =>
        \A k \in Keys : Begin(k, world) # Nothing =>
            /\ Begin(k, world) # Error
            /\ \A i \in Functions(k) : Lagging(k, i) \/ Fine(k, i, Begin(k, world))

\* An ingester for which nothing is built, perhaps for good.
Withheld(k) == k \in Live("Ingester") /\ Retiring(world[k])

\* At rest the hashrings of a router are the tenants of each ingester with the
\* pods that the ingester's own StatefulSet runs, and no pod deletes the data of
\* a tenant that is routed to it when it starts; the pods of an ingester that is
\* retiring are left out, whose StatefulSet may be older than the hashrings.
Routed ==
    AtRest => \A r \in Live("Router") :
        LET ingesters == {i \in Live("Ingester") : world[i].of = world[r].of}
            pods(i) == {<<i, p>> : p \in 0..(Deployed(i, "statefulSet", 0).replicas - 1)}
            tenanted == {i \in ingesters : world[i].tenants # {}}
            file == Deployed(r, "hashringsConfigMap", 0)
        IN  /\ file.rings = {[tenants |-> world[i].tenants, endpoints |-> pods(i)] : i \in tenanted}
            /\ {e \in file.softs : ~Withheld(e[1])} =
                  UNION {pods(i) : i \in {j \in ingesters \ tenanted : world[j].soft /\ ~Withheld(j)}}
            /\ \A i \in tenanted :
                  LET keep == Deployed(i, "statefulSet", 0).keep
                  IN  keep # Nil => world[i].tenants \subseteq keep

\* At rest a Query asks the Services that the ingesters, Stores and Rulers of its
\* Service own, every partition and shard of them and no other but those of
\* ingesters that are retiring.
Queried ==
    AtRest => \A q \in Live("Query") :
        {e \in {a[2] : a \in {b \in Arguments(q) : b[1] = "--endpoint"}} : ~Withheld(e[1])} =
            UNION {{<<k, p>> : p \in {n \in 0..(MaxParts - 1) :
                                        \E i \in Functions(k) : /\ Function(k, i) = "service" /\ Part(k, i) = n
                                                                /\ owned[k][i] # Absent}} :
                      k \in {j \in Live("Ingester") \cup Live("Store") \cup Live("Ruler") :
                                world[j].of = world[q].of /\ ~Withheld(j)}}

\* The client configuration that goes with an address.
ClientArg ==
    [address \in {"--query.address", "--rules-query.address", "--query-frontend.downstream-url"} |->
        CASE address = "--query.address" -> "--query.config"
          [] address = "--rules-query.address" -> "--rules-query.config"
          [] OTHER -> "--query-frontend.downstream-tripper-config"]

\* What needs one: https, and the credentials of a remote query.
Secured(k, url) ==
    url.scheme = "https" \/ (url.to = "external" /\ world[world[k].of].remote.auth # {})

\* The configuration for the rules is that for the frontend, whatever the Query serves.
MixedSchemes(svc) ==
    \E f \in Listing(world, "QueryFrontend", svc) : \E q \in Listing(world, "Query", svc) :
        Scheme(world[f].web) # Scheme(world[q].web)

\* At rest the addresses where a query frontend and a gateway send queries, and a
\* gateway asks for rules, have the scheme that the component's own Deployment
\* serves, and a client configuration exactly when that is https or a remote query
\* has credentials; but for the rules of a Query whose frontend has another scheme.
Addressed ==
    AtRest =>
        \A k \in Live("QueryFrontend") \cup Live("Gateway") : \A a \in Arguments(k) :
            a[1] \in DOMAIN ClientArg /\ a[2] # Nil =>
                /\ a[2].to # "external" => a[2].scheme = Deployed(a[2].to, "deployment", 0).probe
                /\ \/ a[1] = "--rules-query.address" /\ MixedSchemes(world[k].of)
                   \/ Secured(k, a[2]) <=> \E b \in Arguments(k) : b[1] = ClientArg[a[1]]

\* At rest the blocks of every tenant that names a storage are served: there is a
\* Store for it whose StatefulSet keeps the tenant.
Served ==
    AtRest => \A t \in Live("Tenant") :
        world[t].storage \in {Nil, "default", "local"} \/
        \E s \in Live("Store") :
            /\ world[s].of = world[t].of /\ world[s].storage = world[t].storage
            /\ \E a \in DOMAIN Deployed(s, "statefulSet", 0).args :
                  a[1] = "--selector.relabel-config" /\ world[t].id \in a[2]

\* At rest the file of a gateway with tenants' admission lists the tenants of its
\* Service that are not being deleted.
AdmitsKnown ==
    AtRest => \A g \in Live("Gateway") :
        world[g].admission =>
            Deployed(g, "admission", 0).tenants =
                {world[t].id : t \in {u \in Listing(world, "Tenant", world[g].of) : ~world[u].deleting}}

\* Whatever flags the user sets, no argument of a workload that may not be repeated
\* is, but for those that the function itself gives for each of a list; the block
\* manager of a Storage takes no flags.
FlagsOnce ==
    \A k \in Keys : \A i \in Functions(k) :
        LET c == owned[k][i]
        IN  /\ Function(k, i) \in {"deployment", "statefulSet"} /\ KindOf[k] # "Storage"
            /\ c # Absent
            => \A a, b \in DOMAIN c.args :
                  a[1] = b[1] => a[1] \in Repeated(KindOf[k]) \/ (a = b /\ c.args[a] = 1)

\* The controllers come to rest, unless tenants of two Services want different Stores.
ComponentsSettle == Settles \/ []<>Contended
=============================================================================
