# Whizard in TLA+

Whizard runs Thanos for many tenants on Kubernetes. A controller manager turns
`Tenant`, `Service` and `Storage` objects into `Ingester`, `Compactor`, `Ruler`,
`Store`, `Router`, `Query` and `Gateway` objects and these into Deployments,
StatefulSets and ConfigMaps; a gateway admits and labels requests; a block manager
deletes the blocks of tenants that are gone. This directory models the parts with
state and concurrency, checks them with TLC and proves the main ones with TLAPS.

## Inventory

| Part | State | Operations | Talks to | What is hard | Correct when |
|---|---|---|---|---|---|
| Tenant controller, `resources/tenant/ingestor.go` | Tenant labels, finalizers, `status.ingester`; Ingester `spec.tenants`, labels, annotations | add/remove finalizer, reset, place exclusive/shared, remove, status update | API server through a cache; ingester controller through Ingester objects | stale reads, whole-list writes, writes of two objects in sequence, wake-ups by watch only | capacity, isolation of exclusive tenants, every tenant placed when at rest, nothing left behind by a deleted one |
| Tenant controller, `compactor.go` | Compactor `spec.tenants`, `status.compactor` | as above with generated names; delete when empty | same | a created object that is not listed yet | one compactor per tenant and storage |
| Tenant controller, `store.go` | the Stores of all tenants, with hashes in their annotations | delete second ones, annotate, delete, create under generated names | same; a Store's event queues any one tenant | every tenant's reconcile looks after all Stores on a list that may be behind, and with its own Service's default storage | one Store for each Service and storage in use, which knows its tenants |
| Tenant controller, `ruler.go` | one Ruler per tenant | create, update | same | nothing races with it | one Ruler per tenant |
| Ingester controller | `status.tenants`, deleting annotations, requeue timers | merge status, wait, delete, build StatefulSet | tenant controller | delete without precondition | an ingester in use is kept, an unused one goes |
| Ruler controller, `resources/ruler` | rule ConfigMaps, shards | select, pack, shard, write, delete surplus | PrometheusRules, Tenants | sizes at the limit, surplus files | every rule in exactly one file and one shard |
| Resource reconciliation, `resources/base.go`, `util/k8s.go` | owned objects | CreateOrUpdate per kind, delete, PVC finalizer | API server | conflicts, partial failure in a list of resources | desired state reached, foreign fields kept |
| Router, Query, QueryFrontend, Gateway, Store, Compactor controllers | owned Deployments, StatefulSets, Services, ConfigMaps, Secrets | one resource function per object, called in order | each other: a function reads other custom resources and a watch wakes the controller when they change | a read without its watch, an address or endpoint list computed from what another controller only intends | at rest every object is what its function would build now, and components agree on addresses, endpoints, tenants |
| Storage controller | hash annotation of the Storage, block manager Deployment | hash the Secrets, annotate, build | Secrets; the users of a Storage see the annotation | a chain of three controllers between a credential and a pod | a changed credential reaches every workload |
| Gateway admission | config file, watcher, channels, admission map | reload, forward, apply, shut down | Gateway controller's ConfigMap | goroutines and channels at shutdown, a map changed key by key | the admitted set follows the file, the process ends |
| Gateway requests | none kept | inject tenant matcher, fan out remote writes | Query, Router, external endpoints | partial failure | a request sees only its tenant |
| Block manager | bucket blocks, deletion marks | list, mark, delete | object storage, Tenants | cut off by timeout, tenants deleted meanwhile | only blocks of deleted tenants go |

PROJECT.json lists the components with their sources, and the hazards with the
line where each one bites.

## Plan

In the order in which it was followed:

1. `TenantIngester`: placement, the core of the controller manager, with
   `TenantIngesterProofs`.
2. `GatewayAdmission`: watcher, forwarder, applier, shutdown, with the abstract
   `AdmissionRegister` and `GatewayAdmissionProofs`.
3. `Resources`: `ReconcileResources` and the CreateOrUpdate family for any controller against
   a lagging cache, with `ResourcesProofs`; `RuleFiles` and `Ruler`: selection, sharding and
   packing of rules, and the Ruler controller as an instance of `Resources`.
4. `Reconcilers`: all controllers side by side, with `ReconcilersProofs`; `Workloads`: what their
   resource functions build; `Components`: their lists, watches, and what they must agree on.
5. `TenantCompactor`: the assignment of tenants to compactors, with `TenantCompactorProofs`.
6. `TenantStores`: the Stores that tenants share, with a cache that is behind.
7. The safety properties of the runs for all values of the constants: placement and assignment in
   the proof modules above, rule files in `RulerProofs`, arguments, watches, endpoints, addresses, hashrings,
   Stores and what else is built from other controllers' writes in `ComponentsProofs`, both on `Induction`, the one lemma about numbers that recursive functions need.

Left: `Tenant.ruler()`, the request path of the gateway, the block manager (see "Not
modelled"); a composition of placement with the ingester's `status.tenants`.

## TenantIngester

`Tenant.ingester()` as the tenant controller runs it, beside the recycling part of
the ingester controller.

State. `tenant` and `ing` are the stored objects, `ctenant` and `cing` the manager's
cache, `staleT` and `staleI` the entries that are behind: a resourceVersion is modelled
by what it decides, whether a write from a copy is accepted. `queue` and `w` are
the work queue and its one worker (MaxConcurrentReconciles is 1): the record `w`
holds the copy of the Tenant being reconciled, whether it is still current
(`fresh`), and the ingester about to be written. `recycling` is the ingester the
other controller has decided to delete.

Actions. A reconcile starts with one of `Ignore`, `StartAddFinalizer`,
`StartDeletion`, `StartReset`, `PlaceExclusive`, `AdoptListed`, `PlaceShared`, the branches of
`ingester()`, each with the reads up to its first write, and goes on one API call
per action: `RemoveFromIngester`, then `CreateIngester`, `UpdateIngester`,
`ConflictIngester` or `RefusedIngester` (the outcomes of `util.CreateOrUpdate`), then
`UpdateStatus`, `CleanStatus`, `RemoveFinalizer`, `AddFinalizer`, `ConflictTenant`. `Rest` stands for
ruler(), compactor() and store(), of which ingester() sees the finalizer that
compactor() keeps. Users create, relabel and delete Tenants and change a Service's
default storage; `SyncTenant` and `SyncIngester` refresh a cache entry and queue
what the watches queue; `TransientError` and `Restart` may strike anywhere.
`DecideRecycle` and `RecycleIngester` are the check and the call of the ingester
controller's delete, `Elapse` the passing of a retention period. `w.missed` is history: the
removal under way found nothing in a cache entry that was behind.

Abstractions. A name is a tuple of what it is built from; an ingester's list of
tenants is a set (`removeString` drops every occurrence, `containsString` precedes
every append, and only its size and members are read). The deleting-time is
`pending` or `due`. Services exist and have valid templates. The contents of
`status.tenants` are left to `Components`: here the clean-up on deletion only
makes entries stale. A cache may skip versions, as a relist does.

### Runs

| Run | Instance | Shows |
|---|---|---|
| `placement_lag` | 2 tenants, 1 service, shared or exclusive, capacity 2, 1 slot, 2 user edits, one cache entry behind at a time | `TypeOK`; `ExclusiveIsolation`; `Settled`: whenever the controller is at rest, each tenant is on an ingester that exists, lists it and matches its labels, and no deletion is pending; `UnboundBeforeRelease`: the binding is undone before the finalizer comes off; with fairness `Quiesces` |
| `placement_fresh` | 2 tenants, 2 services, 2 storages, capacity 1, 3 edits, 1 failed call or restart, caches never behind when a step is taken | `Capacity`; with fairness `Reclaimed` |
| `orphan` | 1 tenant | violated: `NoOrphan` |
| `recycle` | 1 tenant | violated: `RecycleOnlyUnused` |
| `default_storage` | 1 tenant | violated: `DefaultStorageFollowed` |

These three violations are disagreements with a document or a comment, quoted in
PROJECT.json "findings".

Bounds. Two tenants are enough for one to take the place another frees and for a
whole-list write to drop the other. In `placement_fresh` three edits reach place, relabel, delete and
their overlap, and `MaxSlot` 1 gives each of two tenants an ingester of its own at
capacity 1. In `placement_lag` two edits are two tenants that come, shared or
exclusive, or one that comes and is relabelled or deleted, while an entry is behind: the
temporal check grows too fast for more with both labelings. `Quiesces` was also checked,
without error, for two shared tenants with three edits (111,578 states) and for one tenant,
shared or exclusive, with four (515,299 states); the safety properties of this run are
proved for any number of tenants, edits and entries behind.
`MaxStale` bounds how many cache entries are behind at once, which also
bounds the interleavings: with 0 every event is delivered before the next step,
with 1 one Tenant or Ingester lags arbitrarily long. Deadlock checking is off: when
the users have stopped the controllers do come to rest.

Fairness (`FairSpec`). The work queue is first in, first out and rate-limited retries
come back, so a key that is queued again and again gets its turn: strong fairness of
taking each key. Watches deliver, a reconcile goes on, time passes, the ingester
controller acts on what it saw: weak fairness. Users, failures and restarts have
none; their number is bounded.

What does not hold, and is therefore excepted in the properties.

* `UnboundBeforeRelease` excepts a removal that itself looked for the tenant in an entry
  behind (`w.missed`): the entry is without the tenant, nothing is removed and the finalizer is
  released all the same. An entry behind at any other moment does not matter.
* `Quiesces` excepts behaviours in which reconciles start on a cache behind again and again
  (`TakesBehind`): the Tenant's event can overtake the Ingester's, `needResetIngester` then reads
  an ingester without the tenant, by the time of the removal the cache has it, and the
  placement just made is undone; nothing bounds how often. It also excepts a tenant that a
  cache behind has left on two ingesters and that moves from one to the other by the
  order in which a map is gone through (`ChangesMind`). Without the first exception TLC finds
  the loop in `placement_lag`; the second loop needs capacity 1 and a second slot, and TLC finds
  it there.
* `Settled` exempts the storage of a Tenant without a storage label, which is the finding
  `default_storage`.
* A Tenant whose service label is removed is not looked at by `Settled`: `TenantReconciler.Reconcile`
  returns before anything else (`tenant_controller.go:72`). The branch at `ingestor.go:86` whose comment says
  "when tenant.Labels don't contain Service, remove the bindings to ingester and ruler" is therefore
  never reached, and against `docs/proposals/2022-07-tenant.md:42` the tenant stays bound. This is
  read off the code (a listed hazard) and needs no run.

## GatewayAdmission and AdmissionRegister

The gateway with admission control enabled and a configuration file. The file's past
contents are the sequence `hist`, and a configuration in flight is an index into it, so
that it is told apart from an equal one loaded later. A content is a set of tenants or
`Bad`, whatever `loadConfig` fails on; two files that list the same tenants in another
order or layout are one content here (in the code the second is carried through and
changes no key).

Three goroutines take turns at the granularity of their channel operations. `Refresh` is
one read of the file in `ConfigWatcher.Run` with the hash check; the send that
follows is `HandOver` (it meets the forwarder's receive) or `AbandonSend` (ctx is done).
`Forward` is the forwarder's send to `updates`, a buffer of one. `Receive` is the
applier's receive and the read of the list under `/-/`; `AddKey` and `RemoveKey` change
one key of the `sync.Map` each, since requests read it in between; `Applied` stores the
list and signals readiness. `Terminate` stands for the first actor that returns;
`run.Group` then interrupts the actors in the order they were added
(`InterruptForwarder`, `InterruptApplier`), and `WatcherStop`, `ForwarderStop`, `ApplierStop` are
the returns that this permits.

`AdmissionRegister` is what this promises: the configuration in force is always a valid
one that the file has held, and moves to later ones only. The mapping takes the list
being replaced for the one in force until the last key is written (`InForce`).

| Run | Instance | Shows |
|---|---|---|
| `admission` | 2 tenants, 3 changes of the file, a shutdown at any moment | `TypeOK`: nothing invalid travels; `AdmissionSteady`: no tenant of both lists is refused and none of neither admitted while keys change; `ImplementsRegister`; with fairness `Follows`: a file that settles is what is admitted; `Terminates`: after the first return all actors return, or the forwarder is stranded |

Bounds. Four contents fill every stage at once: one being applied, one in `updates`, one
in the forwarder's hand, one at the watcher; two tenants give every pair of an added,
a removed and a kept tenant. Deadlock checking is off because the process ends.

Fairness. Goroutines run on and the ticker fires: weak fairness of each step. Between a
receive and ctx.Done() the select chooses at random; as the file changes finitely often,
weak fairness of the stopping step is all this needs. Nothing makes the file change or
the process stop.

`Terminates` names one exception, `Stranded`: the send `updates <- cfg` of
`ConfigFromWatcher` does not wait for ctx, so a forwarder with a second configuration
in hand when the applier returns blocks for ever and `run.Group.Run` with it. The process
is then ended by the caller's kill, which is why this is a listed hazard and no finding:
no document promises otherwise.

## Resources, RuleFiles and Ruler

`Resources` is the part that the controllers share: an event queues the key of a custom
resource, the worker computes a list of objects to write and to delete, and
`ReconcileResources` works it off. What a controller wants is a parameter, `Plans(i)`: the
states of the owned objects that it may compute from the input `i`. There is more than
one where the code ranges over a map and none where it fails before the list is
complete. `RuleFiles` is that parameter for the Ruler controller, `Ruler` composes the two
(the cfg gives the constants of `Resources` the operators of `RuleFiles`) and says
what the rulers evaluate in the end.

State. `input` is what the informers of the watched objects hold; `store` and `cache` are the
owned objects, `stale` the names whose last event has not been delivered; `work` is the
reconcile under way, with what it wants and what is left of the list.

Actions. `ChangeInput` and `DeleteByOther` are events from outside, `Deliver` the watch of an
owned object (`Owns`). `Start` is `RulerReconciler.Reconcile` up to the call of
`ReconcileResources`. Then one action per API call: `Delete`, `Create`, `Update`, `Recreate`
(a forbidden update of a StatefulSet, answered by a deletion that counts as success),
`Refused` (the cached object is gone, new, or has another resourceVersion through all
attempts of `RetryOnConflict`), `Fail`. `Restart` lists everything anew. The `DeepEqual`
in `CreateOrUpdate` never holds here: the desired object has no UID.

Abstractions. A PrometheusRule is the size of each of its groups, or `Invalid`, or
`Unselected`, which stands for absent too; the size of a file is the sum of its groups,
without the YAML around them. Files are numbered in the order of their names, so a name
collision is a function `FileOf` that is not injective. Of a StatefulSet only the order of its
mounted ConfigMaps is kept, of a Service only its presence. `Shards` is taken as set (the
CRD defaults it, and `statefulSets` dereferences it). The comment of
`makeRulesConfigMaps` calls the packing first-fit; the code never goes back to an
earlier ConfigMap, and `Buckets` follows the code. The Gateway and the labels of namespaces are read
by a reconcile but not watched: they are not part of `input`, and this is a listed hazard
(the Gateway is in `Components`).

| Run | Instance | Shows |
|---|---|---|
| `ruler` | 2 rules with 2 groups each, 1 or 2 shards, limit 3, 2 edits, 1 failure, one name behind | `TypeOK`; `Reconciled`: at rest the owned objects are what the input wants; `EveryGroupOnce`: and then each group of each selected rule is evaluated by exactly one shard and nothing else is; `SizeBound`; with fairness `Converges` and `Quiet` |
| `rule_names` | the same, both rules claiming one file name | violated: `SelectedMounted`, a finding |

Bounds. The rule sizes are chosen for the edges: rule 1 (1 + 2) fills a ConfigMap exactly,
rule 2 (2 + 2) is too large for one unless it is sharded, and a shard of both needs two
ConfigMaps. Two edits reach scaling after a change of rules and the removal of what
became surplus; a failure may strike at every position of the list. All inputs are
initial, so the edits are not needed to get to any one of them. Deadlock checking is off:
a controller at rest after the last edit has nothing to do.

Fairness. The worker goes on and rate-limited keys come back (weak fairness of `Start` and
`Step`), watches deliver (weak fairness of `Deliver`). Edits, failures and restarts have none.

`Quiet` is limited to inputs with one desired state. With two ConfigMaps in a shard the
volumes of the StatefulSet come in the iteration order of a Go map, so a reconcile may
write another order, and that write's own event starts the next reconcile.

## Reconcilers, Workloads and Components

All controllers at once, on one set of custom resources. `Reconcilers` is the machine and
knows no kind of object; `Workloads` holds one operator per resource function of
`pkg/controllers/resources`; `Components` gives the machine its parameters: which functions a
controller calls and in which order (`ResourceFunctions`), what a reconcile reads before them
(`ComponentBegin`: the resource, its Service, the merge with the Service's template), what
each function builds (`ComponentBuild`) and which keys an event queues (`ComponentWakes`, the
mapping functions and predicates of the watches).

State. `world` holds the custom resources and Secrets, `owned` what each function of each key
has written; `queued`, `at` and `snap` are the work queues, the function each reconcile has
come to and what it read at its start. `open`, `failures` and `losses` are the edits, failures
and deletions still to come.

Actions. `Start`, then one `Write` per resource function, each reading the world at that
moment: between two of them the other controllers and the users go on. A controller has one
worker (`Worker`): two keys of a kind are never under way together. A function may
write an owned object, its own custom resource (an ingester's status, a Storage's hash) or
another's (a Tenant its Store). `Stop` is a function that returns an error, `Fail` a failed
call; both requeue the key. What a function writes in the order of an informer's list (`Shuffles`: the
hashrings, the admitted tenants) may be rewritten although it says the same, and the event queues its
owner. A Store's event queues one tenant, any (`Firsts`). An ingester that is to be deleted and has no tenants
returns before its StatefulSet (`Retiring`), and is deleted when its time has come. `Edit` is a user, `Lose` the deletion of an owned object by
somebody else, `Collect` the garbage collector, `Restart` a restart of the manager.

Abstractions. Informers are current: what a lagging cache does to a controller is the
subject of `Resources`, proved there for all of them. An argument is a pair of name and value; a
base URL is a scheme and a component; a hash is what it is taken over. Labels, ports,
images, probes, resources and mounts that depend on the owner alone are constant and left
out. The random built-in user of a gateway is one value. A Ruler's Gateway has no basic
auth. Each pair of Service and storage has one name for its Store here: generated names, second
Stores and lists behind are in `TenantStores`.

Initial states and edits come in scenes (`MCScenes`), each a small world with the edits that
make its case: twenty-two of them, for routing and scaling, two rings in any order, an ingester that is about to be
deleted, soft tenants, flags, TLS below a frontend and below a gateway, a frontend that comes late, remote targets
with and without TLS and credentials, rules beside a remote query, admitted tenants in any order, partitions, external stores,
credentials under an ingester, a compactor and a Store, tenants that join and leave, a deleted Store, tenants of
two Services with a storage they name and with the default one, shards, and components that are there before their Service. One world with all edits would
show the same pairs of a reader and a changed object beside many that do not meet.

| Run | Instance | Shows |
|---|---|---|
| `components` | the scenes, up to 3 edits, 1 failure or restart, 1 lost object each | `TypeOK`; `Prompt`: a controller at rest has left every object of a direct function as the world wants it, whatever the others do; `WatchesCover`: no such read is without its watch; `Built`: when all rest, the same for functions whose inputs pass through other controllers; `Routed`: hashrings are the pods that run and none of them deletes data of a routed tenant; `Queried`: the endpoints of a Query are the Services that exist; `Addressed`: the addresses for queries and rules have the scheme the component serves, with a client configuration exactly for https or a remote query's credentials; `Served`: the blocks of a tenant that names its storage, and not `local`, are kept by a Store; `FlagsOnce`: no argument is given twice that may not be; with fairness `ComponentsSettle` |
| `gateway_tenants` | a tenant leaves the Service of a gateway with admission | violated: `AdmitsKnown`, a finding |

Fairness. Each controller has its own worker and failed keys come back: weak fairness of
`Work(k)`, written out with `Ready(k)`, which is when `Work(k)` is enabled. Deadlock checking
is off: controllers rest.

What does not hold. `Lagging` names the functions that `Built` leaves out because no watch
keeps their reads current: the admission file (updates of Tenants are filtered, the
finding), a Ruler's StatefulSet (the Gateway is not watched), the Store of a Service's
default storage (its hash covers explicit tenants only), and the storage hash that a
Tenant writes to its Store; and the Stores of tenants that are `Contended`. These are tenants of two Services of which
one at least leaves the storage to its Service: `sortTenantsByStorageAndService` takes the default storage of the tenant
being reconciled for all of them, so each deletes the Stores that the other creates. `ComponentsSettle` excepts them
(the scene `Defaults` shows the exchange when the exception is removed), and, by way of `Settles`, objects that are rewritten in another order again and
again. `Addressed` excepts the rules of a Query whose frontend has another scheme (`MixedSchemes`): the configuration for
`--rules-query.address`, which is the Query's, follows the frontend's scheme, so a Query with TLS below a plain frontend is
asked without one. `FlagsOnce` excepts arguments that a function itself gives for each of a list although they are not among the
repeatable ones (`Itemized`: `--receive.otlp-promote-resource-attributes` of an ingester, `--label` of a Ruler), of which
a flag of the user replaces the first. `Routed` and `Queried` leave out the pods of an ingester that is `Retiring`: nothing is built
for it any more, while routers and Queries still list it. Addresses and endpoints are computed from custom
resources before the merge with a template, so the scenes leave shards, time ranges and TLS
out of templates, and do not give endpoints, addresses or the tenants to keep as flags: with them `Queried`,
`Addressed` and `Served` fail (a listed hazard). An ingester is not scaled to 0, which the merge takes for unset while
the hashrings take it as it is. `PlainScenes` says all this. `UsersLast` leaves out a change of the users' Secret
after its creation, which nobody watches.

Three more conditions are those under which `Built` and `Served` are proved.

* `TenantsStay`: tenants have a Service, name their storage and are not deleted, Services are not
  deleted, and nobody but the Tenant controller moves or annotates a Store. A change of a Store
  queues one tenant, whichever comes first in the list; a tenant without a Service, or one that is
  gone when its turn comes, does nothing for the others and the wake-up is lost. A tenant without a storage
  label is sorted under the default storage of the Service being reconciled, which may be another than
  its own. A tenant that is deleted and made again with another `spec.tenant` between two reconciles of its Store has
  the same name in the annotation, so the Store is not told. Deleting a Service wakes no tenant that names its storage.
* `StoragesStay`: Storages are not deleted or given another Secret, and the annotation is left to its controller.
  The controller writes back the whole Storage as it read it, so another Secret named meanwhile would be undone.
* `SecretsRise`: the value of a Secret does not return to an earlier one (and a Secret stays). A value that changes and changes back
  before the annotation is written gives the same hash, and a StatefulSet built in between keeps the value in the middle.

TLC evaluates them on the scenes (`ScenesPlain` and `ScenesStay` in `MCComponents`); the scenes `Frontend`, `Admitted`, `Leaving` and `Defaults`,
with tenants without a storage and one that is deleted, do not satisfy `TenantsStay`, and `Built` and `Served` are
checked there all the same. `EveryPlace` says that `Places` has a name for the Store of every pair.

## TenantCompactor

`Tenant.compactor()`. Compactors have generated names, so a Tenant learns the name of its own in a
later reconcile than the one that creates it: first the compactor is written and the status
set to an empty reference, then the tenant is found in a listed compactor and the name adopted.

State. `comp` and `ccomp` are the stored and the cached Compactors, `stale` the names whose cache
entry is behind; `tenant` the Tenants, whose cache is current here (its lag is in
`TenantIngester`); `queue` and `w` the work queue and the worker with its copy of the Tenant and the
compactor it is about to write. `strays` is a history variable: tenants of which the controller
may have lost track.

Actions. `Start` reads all that a reconcile decides on (`Plans`: `Exclusive`, `Shared`, the removal
from a compactor that no longer fits, the finalizer). `WriteCompactor`, `CreateCompactor` and
`CompactorRefused` are the outcomes of the write, `WriteTenant` and `TenantRefused` those of the update
that follows, `Fail` a failed call. Users create, relabel and delete Tenants, change a Service's
storage and delete Compactors; `Sync` is the informer.

| Run | Instance | Shows |
|---|---|---|
| `tenant_compactor` | 2 tenants, 1 service, 2 storages, capacity 2, 3 edits, 1 failure, 1 cache entry behind | `TypeOK`; `Bound`: at rest every tenant with a storage names a compactor of its service and storage that lists it; `Accounted`: a compactor lists no tenant but those that name it, and none is left empty; with fairness `Assigned` |

`Accounted` and `Assigned` except tenants in `strays`, that is three ways to lose track of a
compactor, each a few steps of two actors: a cache that lacks the compactor just created
(`Missed`, a second one is made), an edit before the name is adopted (`Unadopted`, the old one is
never looked for again), and a retry of `CreateOrUpdate` that writes a list decided on an older copy
(`WrittenBack`). With the exceptions removed TLC finds each.

Bounds. Two tenants and capacity 2 share, part and rejoin; three edits reach create, create,
delete and relabel before adoption. `MaxMade` 3 is one name more than two tenants need, for
a compactor that was lost; a worker that waits for a fourth would break `Assigned`, so the bound is
felt at most by behaviours that have lost track already. Exclusive and shared tenants use different storages (`MCLabelings`):
on one storage a shared tenant may join an exclusive compactor that has room, whose own
tenant writes the list back to itself alone at its next reconcile, and TLC finds the two
undoing each other without end, which is a listed hazard. `SpecTenant` is the Tenant's name: the
code adds a tenant by the one and searches for it by the other. Where they differ `Bound` still holds
(it is proved for both), while `Accounted` and `Assigned` fail: the name is added and never found.

Fairness. The worker goes on and watches deliver (weak fairness of `Worker` and `Informer`).

## TenantStores

`Tenant.store()`. Stores belong to no tenant: every tenant's reconcile lists them all from the cache, deletes all
but one of each Service and storage, annotates those that tenants want with the hash of their tenants, deletes the others and
creates the missing ones under generated names. A Store's event queues whichever tenant comes first in a list.

State. `store` and `cstore` are the stored and the cached Stores, `stale` the names whose event is on its way; `tenant` the
Tenants, `svcStorage` the default storages; `queue` and `w` the work queue and the worker with the Stores it listed (`w.seen`),
those of them that were behind (`w.old`) and what is left to do. `unseen`, `gone` and `missed` are history: Stores of which a change,
and that a deletion of one, came to no tenant that is reconciled; and that a tenant changed with no reconcile to follow.

Actions. `Start` is `Reconcile` up to `store()`, `List` the list with the choice of the Stores to drop, then one action per
API call: `Drop`, `Update`, `Delete`, `Create`, in the order of the code, with `Sort` between, which lists the tenants. `Refused` is a conflict
or the deletion of a Store that is gone, `Fail` a failed call; both end the reconcile and requeue the tenant. Users create,
relabel and delete Tenants, change a Service's storage, create and delete Stores; `Sync` is the informer with `mapToTenantByStore`.

Abstractions. The cache of Tenants is current (its lag is in `TenantIngester`). Of `ingester()`, `ruler()` and `compactor()` there are
the finalizers. The storage's hash is in `Components`. Services stay, and users' Stores have both labels. A generated name
is the lowest free number.

| Run | Instance | Shows |
|---|---|---|
| `tenant_stores` | 2 tenants, each absent, of `s1` with the default storage, of `s2` with a storage of its own, or without a Service; 1 storage, Services with it or `local`; 1 user edit, 1 failed call, 1 cache entry behind | `TypeOK`; `Kept`: at rest each place that tenants want has one Store, with the hash of the tenants it has now, and there is no other; with fairness `Arrives`: the Stores come to rest |

What does not hold, and is therefore excepted. With any one exception removed TLC finds a behaviour that needs it.

* `Kept` excepts Stores whose change (`unseen`) or loss (`gone`) queued a tenant without a Service, which does nothing; and tenants that were
  deleted before their first reconcile or lost their Service, or whose last reconcile failed after the finalizers were
  gone (`missed`): nobody looks at their Stores until another tenant is reconciled.
* `Arrives` excepts tenants of two Services that do not agree on the places (`Contended`), which exchange Stores without end; and reconciles that meet
  lists behind again and again (`ListsBehind`): each may delete the Store that the other has kept.

Bounds. All sets of tenants are initial, so one edit is a tenant that comes, moves or goes, another default storage, or a Store made or deleted by
somebody, on top of the Stores that lag makes. Three names are the two places and a second Store; only tenants that contend can want more,
and then the worker waits, which `Arrives` excepts. TLC agrees with four names and no failure. Deadlock checking is off: the controller rests.

Fairness. The worker goes on and watches deliver (weak fairness of `Worker` and `Informer`).

## Proofs

`TenantIngesterProofs` proves, for all values of the constants (any number of tenants,
services, storages; any lag, any bounds):

* `TypeCorrect`: `Spec => []TypeOK`. Not inductive alone: `RemoveFinalizer` reads the
  status of the stored Tenant, which must exist. `TypeInv` adds `CopiesCurrent`: a cache
  entry that is not behind equals the stored Tenant, and a copy with a current
  resourceVersion differs from it in its status only.
* `CapacityHolds` and `ExclusiveHolds`: `Spec => []Capacity`, `Spec => []ExclusiveIsolation`. Both
  follow from `SoundInv`: an ingester is sound for its name (`Sound`) in the store, in the
  cache, and in the worker's hands. Soundness has to be carried by all three because
  placement counts a cached list and writes it later, over whatever is stored. It is
  kept because every list written derives from a sound one by removing a tenant or by
  adding one below the capacity, and because shared and exclusive names never
  coincide (`NamesApart`).

* `SettledHolds`: `Spec => []Settled`. At rest nothing is left that would explain why a tenant is
  where it should be, so `BoundInv` accounts for every tenant that is not. `Owed`: a Tenant with a service
  is queued, has an undelivered event, is the worker's, or is bound as far as the caches show; caches,
  because the reconcile decides on them and only an event of the cache queues a key. `Effective` is
  about the Tenant in the worker's hands: unless it is woken, the reconcile's last write will change
  the Tenant, and so wake it, or the Tenant is bound already. Without it a reconcile that ends with a
  status equal to the stored one could leave a tenant that nobody wakes.
* `UnboundHolds`: `Spec => UnboundBeforeRelease`, for any lag. `Releasing` follows the worker from the removal to the release:
  while its copy of the Tenant is current, what it writes is an update of the ingester that the status names, to a list
  without the tenant, and afterwards that ingester is gone or lists the tenant no more, since nobody else adds one
  (`OthersRelease`), unless the removal read an entry behind (`w.missed`). If the copy is out of date the release is refused.

The assumptions (`ConstantsAssumption`, `NothingAssumption`) are that tenants, services and storages
are finite sets, the maps have the right domains, the capacity is positive, the bounds are naturals
and the value for an absent object is no object.

`GatewayAdmissionProofs` proves, for any set of tenants and any number of changes:

* `GatewayTypeCorrect`: `Spec => []TypeOK`, inductive as it stands; the step that matters is
  that a history that grows keeps every index valid (`FileGrows`).
* `SteadyHolds`: `Spec => []AdmissionSteady`, inductive together with `TypeOK`.
* `RegisterImplemented`: `Spec => Register!Spec`. The strengthening is `Chain`: from the list
  being replaced over the one being applied, the one in `updates`, the one in the
  forwarder's hand to the last one loaded, indices grow strictly wherever a stage is
  occupied. It is needed because only `Applied` moves the register, and whether that
  is forward was decided by the watcher's hash check several hops earlier
  (`LoadsNewer`).

The only assumption is that `MaxEdits` is a natural number.

`ResourcesProofs` proves, for any controller of this form: any set of owned objects, any
`Plans`, any order of the list, any lag, any number of edits and failures:

* `ResourcesTypeCorrect`: `Spec => []TypeOK`.
* `ReconciledHolds`: `Spec => []Reconciled`. At rest nothing is left to show why the objects
  are right, so the invariant accounts for every difference while there is one. `Owed`:
  unless the key is queued, some desired state `p` of the present input is such that
  every object is as `p` wants it, is still in the list of a reconcile for `p`, or has an
  event on its way that will queue the key (`Accounts`). `CacheCurrent`, that a name
  without an undelivered event is cached as stored, is what makes it safe to leave out of
  the list what looks right in the cache. A forbidden update is covered because the
  deletion of the StatefulSet is itself such an event.

The assumptions (`ParametersAssumption`) are that inputs and desired states have their types
and that the bounds are naturals.

`ReconcilersProofs` proves, for any set of controllers, resource functions, watches and edits:

* `ReconcilersTypeCorrect`: `Spec => []TypeOK`.
* `PromptHolds`: `Spec /\ WatchesCover => []Prompt`. The invariant (`Kept`) says of every key that is
  not queued: what its reconcile read at its start is what it would read now, and each direct
  function that the reconcile has passed, or any when there is none under way, would change
  nothing (`Current`). It is needed because a reconcile reads at different moments and
  its earlier results may be out of date before it ends; the event that makes them so
  queues the key. A function that changes its object queues the key by that very write,
  which is why owned objects of direct functions have to be watched.

Assumed (`KeysAssumption`) are the types of the parameters, and that direct functions write
watched objects. That the watches of this repository cover their reads is the hypothesis
`WatchesCover`, which TLC checks in the run `components` and `WatchesCoverHolds` below proves.

`TenantCompactorProofs` proves, for any tenants, labels, bounds and lag:

* `CompactorTypeCorrect`: `Spec => []TypeOK`.
* `LimitedHolds`: `Spec => []Limited`, no compactor has more tenants than
  `DefaultTenantsPerCompactor`, or one where that is 0. As for ingesters the invariant
  (`SmallInv`) speaks of the stored lists, the cached ones and the one in the worker's hands:
  a retry writes a list decided on an older copy over a newer one, and either is small.
  Two tenants at capacity 2 cannot exceed it, so the run does not list `Limited`;
  TLC agrees at capacity 1.
* `BoundHolds`: `Spec => []Bound`. As for `Settled`, `BoundInv` says of each Tenant that is not bound why
  something will wake it: its key is queued, it is the worker's, or a compactor that listed it has
  an event on the way.
* `AccountedHolds`: `SelfNamed => (Spec => []Accounted)`, where `SelfNamed` says that Tenants are called as their
  `spec.tenant`. `AccountInv` adds to `BoundInv` that compactors in the store, the cache and the worker's hands
  have tenants and names of their form (`Formed`), that a listed tenant outside `strays` names its
  compactor or will adopt it (`Held`), and what the worker is about to write derives from what the
  cache held when it decided (`Rewrites`, `Intends`). The hypothesis is needed, see above.

The assumptions are that the set of tenants is finite, labels and bounds have their types,
`None` is no name and `Absent` no object.

`RulerProofs` proves, for any rules, groups, sizes, shards, limit, edits and failures:

* `SizeBoundHolds`: `Spec => []SizeBound`. Inductive is `Planned`: whatever is stored, or in a list still to
  be written, is part of some plan of some input. That every plan fits is a fact about `Buckets`:
  the packing closes a ConfigMap before a file that would exceed the limit, and a file that exceeds
  it alone makes the plan fail. Sums over files are handled by `SumsExist` and `SumsAdd`.
* `EveryGroupOnceHolds`: `OwnFile => (Spec => []EveryGroupOnce)`, from `ReconciledHolds`: at rest the store is a plan of the
  present input, and in a plan sharding puts each group in one shard and packing each file in one
  ConfigMap. `OwnFile` says that no two rules claim one file name; without it the property fails, which
  is the finding of `rule_names`.

The assumptions are those of `Resources`, that the sets of rules and groups are finite (`RuleFilesAssumption`),
and that the parameters of `Resources` are those of the Ruler (`RulerAssumption`), which TLC evaluates.

`ComponentsProofs` proves, for any components, Services, templates, flags and edits:

* `FlagsOnceHolds`: `Instance => (Spec => []FlagsOnce)`. `ArgsOnce` is the heart: a list of arguments in which only
  repeatable ones are repeated stays so under any list of flags, by induction over the flags. The
  lemmas `RulerOnce` to `GatewayOnce` say that each resource function starts from such a list; `Repeated` is what may be repeated, or is by the function itself. `FlagInv` carries
  what they need through the reconciles: custom resources are well formed (`WorldFormed`), also those
  that controllers write, the edits still to come are (`OpenEdits`), and so is what a reconcile under way
  has read and merged (`SnapRead`).
* `WatchesCoverHolds`: `Instance /\ UsersLast => (Spec => WatchesCover)`. The lemmas start from `Unwoken`, that a change of one object
  does not queue a key, and derive what it cannot have touched: the key's own object (`UnwokenSelf`), the
  Service it is labelled with, before and after (`UnwokenService`), the objects its watches list
  (`UnwokenListing`); the `...Kept` lemmas then take each function that is direct and show that it builds the same
  from both worlds, or failed before. The only read without a watch is the users' Secret of a web configuration,
  which is why `UsersLast` is there: its creation turns a failure, which stays queued, into a success.
  `StorageSecrets`, that a Storage names a Secret, is the invariant the Storage controller needs besides `FlagInv`.
* `ComponentsPrompt`: `Instance /\ UsersLast => (Spec => []Prompt)`, from it and `PromptHolds`: for the controllers of this repository
  nothing about the watches is left to assume.
* `QueriedHolds` and `AddressedHolds`: `Instance /\ PlainScenes /\ UsersLast => (Spec => []Queried)`, and the same for `Addressed`. In a
  world at rest (`Calm`) `Prompt` says that each Deployment, StatefulSet and Service is what its function builds, so
  both sides of an agreement can be computed from the same custom resources: `ListedLive`, that
  what a Query lists has a controller that created its Services, `IngesterParts` and `ShardedParts`, how many, and
  `CalmScheme`, the scheme served. For a remote query the Service that the gateway read is the present one, credentials included. What a workload has of an argument survives the flags and the merge with
  a template by `ArgsKeep` and the `...With` lemmas, as long as no flag sets it, which `WorldPlain` carries through edits and
  controllers' writes. `PlainScenes` is needed, see "What does not hold" of `Components`; `Plain` also asks a Store to name its storage, as
  the only writer of Stores in this code does, and parts to be at most `MaxParts`, the bound of the model.
* `RoutedHolds`: `Instance /\ PlainScenes /\ UsersLast => (Spec => []Routed)`. The hashrings file is direct, the StatefulSet of an ingester is not, since
  it reads a storage. `Sound` and `Passed` (in `ReconcilersProofs`) replace `Current` for such functions: a key that is not queued
  would read first what it has read, and a function counts as passed when it was called since then. `IngestersBuilt` is the
  invariant: the replicas and the list of kept directories of a passed StatefulSet are those of the custom resource as it is now,
  whatever the storage was. A status that changes ends the reconcile before the StatefulSet is built, and queues the key again (`Followed`).
  The status itself is direct, so at rest `status.tenants` includes `spec.tenants` (`CalmStatus`), and the init container that is built from
  it deletes nothing that is routed.
* `ServedHolds`: `Instance /\ PlainScenes /\ TenantsStay(Scenes) /\ EveryPlace => (Spec => []Served)`. Two things have to be found out without a watch: that a
  Store is needed, and that it has a new tenant. `StayInv` says that tenants, Services and Stores stay what
  `TenantsStay` says, what a reconcile of a tenant has read included. `TenantsTold` accounts for every place whose Store is missing or
  whose annotation lists other tenants than it has now: some tenant is queued, or under way and about to write (`Telling`), and any tenant
  will do, since each one looks after all places. `StoresKept` says of a passed StatefulSet that it was built in some world `w0`
  in which the Service was the present one and the tenants of the place were among those there are now, with all that the
  annotation lists (`TenantsNear`); at rest `TenantsTold` says that it lists all, so `w0` agrees with the world where it matters.
* `BuiltHolds`: `Instance /\ UsersLast /\ TenantsStay(Scenes) /\ StoragesStay(Scenes) => (Spec /\ SecretsRise => []Built)`. `SetsKept` is the same for all StatefulSets with a storage, whose
  `w0` also has the present Storage, with credentials no newer than the present ones and no older than those in its annotation
  (`StorageNear`). `SteadyInv` says that an annotation holds the hash of a value the Secret had and that
  a Storage under way still names its Secret. That the Storage controller itself is direct closes the circle: at rest the annotation
  is the hash of the present value (`RestHash`), so the value in `w0` lies between two equal ones (`RestConfig`). `SecretsBuilt` covers web configurations
  and the built-in user, whose Secrets no event of their own queues. `CalmTenants` shows that tenants have nothing to do but what `Lagging` excepts.

`Instance` says that the parameters of `Reconcilers` are the operators of `Components`, as the cfg gives them,
and that `Absent`, `Nil`, `Error` and `Nothing` are no records (so that what a reconcile has read is none of them); it ranges over all worlds, so it is a hypothesis rather than an assumption TLC could evaluate.
`ObjectsAssumption`, `ScenesAssumption` and `EditsAssumption` say what objects, initial worlds and edits are;
TLC evaluates them.

What a recursive function computes is proved with `Induction`: its lemma `UpTo` (from `Least`) is induction over
a set of numbers, not over a predicate, so that the provers can apply it. Existence of the function
on each initial segment is such a set, and its value then follows from the definition.

Only model-checked: the liveness properties (`Quiesces`, `Reclaimed`, `Follows`, `Terminates`, `Converges`, `Quiet`, `ComponentsSettle`,
`Assigned`, `Arrives`), which are out of the prover's reach, `Built` and `Served` beyond the conditions above, and `TenantStores` as a whole.

## Not modelled

* `Tenant.ruler()`: one Ruler named after the tenant, written by `CreateOrUpdate` on every round
  from the Service's templates; no other writer to race with.
* The request path of the gateway (matcher injection, proxying, the fan-out of remote
  writes): functions of one request, with no state that another request changes but
  the admission map, which is in `GatewayAdmission`. What the endpoints of a fan-out received before
  an error is not in this code's state.
* The block manager: one goroutine on a bucket, whose state and failures are those of
  Thanos libraries. Its Deployment is in `Workloads`.
* The configuration of the gateway given as a flag value (sent once), admission switched off, and the other
  actors of its group; the agent proxy, a stateless reverse proxy.
* Of the workloads: volumes and images, user supplied container patches, a Ruler's write
  proxy and its basic auth, the deletion of volume claims and of a compactor's volumes by
  finalizer.
* Flag parsing and start-up; generated clients, deep copies, CRDs and charts.
