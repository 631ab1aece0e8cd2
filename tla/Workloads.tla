----------------------------- MODULE Workloads -----------------------------
(***************************************************************************)
(* What the resource functions of the controllers build.  Each operator    *)
(* stands for one function of pkg/controllers/resources and takes what the *)
(* reconcile read first, cr the custom resource after the merge with the   *)
(* Service's template and svc the Service as stored, and the world w that  *)
(* the function itself reads.  The result is the content of the object,    *)
(* Absent for OperationDelete or Error.                                    *)
(*                                                                         *)
(* An argument is <<name, value>>, a Kubernetes Service <<owner, n>>, a    *)
(* base URL [scheme, to]; names, labels, ports, images, probes, resources  *)
(* and mounts that depend on the owner's name only are left out.           *)
(***************************************************************************)
EXTENDS Reconcilers, Sequences, SequencesExt

CONSTANTS
    KindOf,             \* of each object
    Nil,                \* a field that is not set
    Users,              \* the Secret of the basic auth users
    NoPort              \* addresses that SplitHostPort refuses

Listing(w, kind, svc) == {o \in Objects : KindOf[o] = kind /\ w[o] # Absent /\ w[o].of = svc}

-----------------------------------------------------------------------------
(* Defaults, templates and arguments.                                      *)

DefaultReplicas(kind) ==
    CASE kind = "Query" -> 3 [] kind \in {"Compactor", "Ruler"} -> 1 [] OTHER -> 2

ApplyDefaults(t, kind) ==
    [t EXCEPT !.replicas = IF @ = Nil THEN DefaultReplicas(kind) ELSE @]

\* mergo.Merge fills what is empty, and a pointer to zero is empty.
Overlay(a, b) == IF a \in {Nil, 0} THEN b ELSE a

Merge(cr, t) ==
    [cr EXCEPT !.replicas = Overlay(@, t.replicas),
               !.parts = Overlay(@, t.parts),
               !.web = IF Nil \in {@, t.web} THEN (IF @ = Nil THEN t.web ELSE @) ELSE @ \cup t.web,
               !.flags = IF @ = <<>> THEN t.flags ELSE @]

\* Arguments that may be repeated, and those a user may not set.
Repeatable(kind) ==
    CASE kind = "Query" -> {"--query.replica-label", "--selector-label", "--endpoint",
                            "--endpoint-strict", "--store.sd-files", "--enable-feature"}
      [] kind = "Compactor" -> {"--deduplication.replica-label"}
      [] kind \in {"Router", "Ingester"} -> {"--label"}
      [] kind = "QueryFrontend" -> {"--query-frontend.forward-header", "--query-frontend.org-id-header"}
      [] kind = "Ruler" -> {"--query", "--query.sd-files", "--rule-file", "--alertmanagers.url", "--alert.label-drop"}
      [] OTHER -> {}

\* Arguments that the functions give several times themselves though they are not
\* among those: one for each resource attribute, or for each external label.
Itemized(kind) ==
    CASE kind = "Ingester" -> {"--receive.otlp-promote-resource-attributes"}
      [] kind = "Ruler" -> {"--label"}
      [] OTHER -> {}

Repeated(kind) == Repeatable(kind) \cup Itemized(kind)

Unsupported(kind) ==
    CASE kind \in {"Router", "Ruler"} -> {"--receive.local-endpoint", "--http-address", "--grpc-address"}
      [] kind = "Ingester" -> {"--receive.hashrings", "--receive.hashrings-file", "--http-address", "--grpc-address"}
      [] kind = "Query" -> {"--log.request.decision", "--metadata", "--rule", "--store", "--exemplar", "--target",
                            "--store-strict", "--grpc-address", "--http-address"}
      [] kind = "QueryFrontend" -> {"--log.request.decision", "--http-address"}
      [] kind = "Store" -> {"--http-address", "--grpc-address"}
      [] kind = "Compactor" -> {"--http-address", "--retention.resolution-raw", "--retention.resolution-5m",
                                "--retention.resolution-1h"}

\* Mutant: a flag never takes the place of an argument.
FlagAppended(kind, args, flag) ==
    IF flag[1] \in Unsupported(kind) THEN args ELSE Append(args, flag)

\* One flag of the user: ignored, added, or in place of the first of its name.
Flag(kind, args, flag) ==
    LET same == {i \in DOMAIN args : args[i][1] = flag[1]}
    IN  CASE flag[1] \in Unsupported(kind) -> args
          [] flag[1] \notin Unsupported(kind) /\ (flag[1] \in Repeatable(kind) \/ same = {}) -> Append(args, flag)
          [] OTHER -> [args EXCEPT ![CHOOSE i \in same : \A j \in same : i <= j] = flag]

\* An argument for each of a list.
Items(name, values) == [i \in DOMAIN values |-> <<name, values[i]>>]

\* The arguments are sorted at the end: what is left is how often each occurs.
Args(kind, args, flags) ==
    LET with[n \in 0..Len(flags)] == IF n = 0 THEN args ELSE Flag(kind, with[n - 1], flags[n])
        all == with[Len(flags)]
    IN  [a \in {all[i] : i \in DOMAIN all} |-> Cardinality({i \in DOMAIN all : all[i] = a})]

-----------------------------------------------------------------------------
(* Web configuration, storage configuration and hashes.                    *)

CreateWebConfig(web, w) ==
    IF "users" \in web /\ w[Users] = Absent THEN Error
    ELSE [tls |-> "tls" \in web, users |-> IF "users" \in web THEN w[Users].value ELSE Nil]

webConfigSecret(cr, w) == IF cr.web = Nil THEN Absent ELSE CreateWebConfig(cr.web, w)

\* The scheme of the probes, and of the address that other components are given.
Scheme(web) == IF web # Nil /\ "tls" \in web THEN "https" ELSE "http"

\* A workload with its argument for the web configuration, the hash of that
\* configuration as an annotation and probes that know of TLS.
WebWorkload(kind, cr, w, args, rest) ==
    LET config == webConfigSecret(cr, w)
        web == IF cr.web = Nil THEN <<>> ELSE <<<<"--http.config", "file">>>>
    IN  IF config = Error THEN Error
        ELSE [replicas |-> cr.replicas, config |-> config, probe |-> Scheme(cr.web),
              args |-> Args(kind, web \o args, cr.flags), rest |-> rest]

\* The bucket with the values of the Secret in place of references to it.
GetStorageConfig(s, w) ==
    IF w[s] = Absent \/ (w[s].secret # Nil /\ w[w[s].secret] = Absent) THEN Error
    ELSE [bucket |-> w[s].bucket, secret |-> IF w[s].secret = Nil THEN Nil ELSE w[w[s].secret].value]

\* An md5 over the configuration, taken for the configuration itself.
GetStorageHash(s, w) == GetStorageConfig(s, w)

\* Likewise over the names of those tenants that stay.
GetTenantHash(tenants, w) == {t \in tenants : ~w[t].deleting}

OfStorage(kind, svc, s, w) == {o \in Listing(w, kind, svc) : w[o].storage = s}

-----------------------------------------------------------------------------
(* Ingester.                                                               *)

\* Ingester.Address: of the custom resource as listed, before any merge.
Address(i, w) ==
    LET template == w[w[i].of].tmpl["Ingester"].replicas
        n == IF w[i].replicas # Nil THEN w[i].replicas ELSE IF template # Nil THEN template ELSE 2
    IN  {<<i, p>> : p \in 0..(n - 1)}

\* status.tenants holds every tenant ever configured, obsolete when it left.
\* The update is refused when the custom resource was changed since it was read.
IngesterStatus(cr, raw, c) ==
    LET kept == {s[1] : s \in raw.status}
        desired == {<<t, t \notin cr.tenants>> : t \in kept \cup cr.tenants}
    IN  IF desired = raw.status THEN c
        ELSE IF c # raw THEN Error ELSE [c EXCEPT !.status = desired]

\* Data directories that the init container keeps; Nil when there is none.
generateInitContainer(cr, svc) ==
    IF svc.cleanup /\ cr.volume # "own" /\ ~cr.soft
    THEN {s[1] : s \in cr.status} \cup {"default"} ELSE Nil

IngesterStatefulSet(cr, svc, w) ==
    LET config == IF cr.storage = Nil THEN Nil ELSE GetStorageConfig(cr.storage, w)
        tsdb == IF config = Nil THEN <<"--tsdb.max-block-duration", "retention/10">>
                                ELSE <<"--objstore.config", config>>
    IN  IF config = Error THEN Error
        ELSE [replicas |-> cr.replicas, volume |-> cr.volume,
              keep |-> generateInitContainer(cr, svc),
              args |-> Args("Ingester",
                            <<<<"--log.level", "info">>, <<"--label", "pod">>, tsdb>>
                            \o Items("--receive.otlp-promote-resource-attributes", cr.attrs), cr.flags)]

\* An ingester that is to be deleted, which TenantIngester marks with the time,
\* and has no tenants: nothing is built for it before its time has come, and then
\* it is deleted whatever was written to it since it was read.
Retiring(raw) == raw.retire # "no" /\ raw.tenants = {}

RecycleIngester(raw, c) ==
    IF ~Retiring(raw) \/ raw.retire = "waiting" THEN c ELSE IF c = Absent THEN Error ELSE Absent

\* A headless Service; the same for every controller.
PlainService(cr) == [of |-> cr.of]

-----------------------------------------------------------------------------
(* Router.                                                                 *)

\* Mutant: the hashrings are those of the merged ingesters' default replicas.
hashringsConfigMapDefault(cr, w) ==
    LET ingesters == Listing(w, "Ingester", cr.of)
        pods(i) == {<<i, p>> : p \in 0..(DefaultReplicas("Ingester") - 1)}
    IN  [rings |-> {[tenants |-> w[i].tenants, endpoints |-> pods(i)] :
                       i \in {j \in ingesters : w[j].tenants # {}}},
         softs |-> {}]

\* A hashring for every ingester with tenants, and one for the ingesters of soft
\* tenants that have none; the file has them in the order of the list.
hashringsConfigMap(cr, w) ==
    LET ingesters == Listing(w, "Ingester", cr.of)
    IN  IF ingesters # {} /\ w[cr.of] = Absent THEN Error
        ELSE [rings |-> {[tenants |-> w[i].tenants, endpoints |-> Address(i, w)] :
                            i \in {j \in ingesters : w[j].tenants # {}}},
              softs |-> UNION {Address(i, w) : i \in {j \in ingesters : w[j].tenants = {} /\ w[j].soft}}]

RouterDeployment(cr, w) ==
    WebWorkload("Router", cr, w,
        <<<<"--log.level", "info">>, <<"--label", "pod">>, <<"--receive.hashrings-file", "file">>>>, Nil)

-----------------------------------------------------------------------------
(* Query.                                                                  *)

\* External stores are queried directly, or with a CA through the Envoy sidecar.
QueryStores(cr) ==
    LET direct == SelectSeq(cr.stores, LAMBDA s : s.ca = Nil)
        proxied == SelectSeq(cr.stores, LAMBDA s : s.ca # Nil)
    IN  IF \E i \in DOMAIN proxied : proxied[i].address \in NoPort THEN Error
        ELSE [direct |-> direct, proxied |-> proxied]

\* Proxy j listens on port 11000 + j - 1.
proxyConfigMap(cr) ==
    IF QueryStores(cr) = Error THEN Error ELSE [listeners |-> QueryStores(cr).proxied]

storesConfigMap(cr) ==
    LET s == QueryStores(cr)
    IN  IF s = Error THEN Error
        ELSE [targets |-> [i \in DOMAIN s.direct |-> s.direct[i].address]
                          \o [j \in DOMAIN s.proxied |-> 11000 + j - 1]]

\* The partitions of a Store and the shards of a Ruler, of which there is at
\* least one, as they are set on the custom resource.
Partitions(o, w) == 0..((IF w[o].parts \in {Nil, 0} THEN 1 ELSE w[o].parts) - 1)

\* Mutant: only the first partition or shard is queried.
EndpointsFirst(svc, w) ==
    {<<o, 0>> : o \in UNION {Listing(w, kind, svc) : kind \in {"Ingester", "Store", "Ruler"}}}

Endpoints(svc, w) ==
    {<<i, 0>> : i \in Listing(w, "Ingester", svc)} \cup
    UNION {{<<o, p>> : p \in Partitions(o, w)} :
              o \in Listing(w, "Store", svc) \cup Listing(w, "Ruler", svc)}

\* Every Store entry with a CA adds a volume named after its Secret; the API
\* server refuses two volumes of one name.
CAVolumes(cr) ==
    LET cas == SelectSeq(cr.stores, LAMBDA s : s.ca # Nil)
    IN  IF \E i, j \in DOMAIN cas : i # j /\ cas[i].ca = cas[j].ca THEN Error
        ELSE {cas[i].ca : i \in DOMAIN cas}

QueryDeployment(cr, w) ==
    LET endpoints == SetToSeq({<<"--endpoint", e>> : e \in Endpoints(cr.of, w)})
    IN  IF \/ Listing(w, "Ingester", cr.of) # {} /\ w[cr.of] = Absent
           \/ CAVolumes(cr) = Error
        THEN Error
        ELSE WebWorkload("Query", cr, w,
                <<<<"--log.level", "info">>, <<"--store.sd-files", "file">>>> \o endpoints, CAVolumes(cr))

-----------------------------------------------------------------------------
(* Query frontend.                                                         *)

\* The base URL of component o, with the scheme that its own custom resource
\* asks for.
BaseURL(o, w) ==
    [scheme |-> Scheme(w[o].web), to |-> o]

\* The address of the one component of a kind: Error for more than one.
AddressOf(kind, svc, w) ==
    LET all == Listing(w, kind, svc)
    IN  CASE all = {} -> Nil
          [] all # {} /\ (Cardinality(all) > 1 \/ w[svc] = Absent) -> Error
          [] OTHER -> BaseURL(CHOOSE o \in all : TRUE, w)

queryAddress(svc, w) == AddressOf("Query", svc, w)

\* The TLS configuration that goes with an address.
ClientConfig(name, url) == IF url.scheme = "https" THEN <<<<name, "skip-verify">>>> ELSE <<>>

\* Only the in-memory cache is supported; every other type falls back to it.
cacheConfigConfigMap == [cache |-> "in-memory"]

QueryFrontendDeployment(cr, w) ==
    LET addr == queryAddress(cr.of, w)
    IN  IF addr \in {Nil, Error} THEN Error
        ELSE WebWorkload("QueryFrontend", cr, w,
                ClientConfig("--query-frontend.downstream-tripper-config", addr)
                \o <<<<"--query-frontend.downstream-url", addr>>, <<"--log.level", "info">>>>,
                GetTenantHash(Listing(w, "Tenant", cr.of), w))

-----------------------------------------------------------------------------
(* Gateway.                                                                *)

\* Basic auth of the gateway gets a random user of its own, which is generated
\* once, when the deployment or the Secret is first built.
generateBuiltInBasicAuthUserSecret(cr, c) ==
    IF c = Absent /\ cr.web # Nil /\ "users" \in cr.web THEN [user |-> "random"] ELSE c

\* An external target with the user it refers to, and a bearer token; Error
\* without the user's Secret.
ExternalTarget(t, w) ==
    IF "basic" \in t.auth /\ w[Users] = Absent THEN Error
    ELSE [scheme |-> t.scheme, user |-> IF "basic" \in t.auth THEN w[Users].value ELSE Nil, auth |-> t.auth]

\* Its address, and the client configuration for TLS and for credentials.
RemoteArgs(remote) ==
    <<<<"--query.address", [scheme |-> remote.scheme, to |-> "external"]>>>>
    \o (IF remote.scheme = "https" \/ remote.auth # {} THEN <<<<"--query.config", remote>>>> ELSE <<>>)

queryfrontendAddress(svc, w) == AddressOf("QueryFrontend", svc, w)

\* The port for remote writes is a plain one, whatever the router's web is.
remoteWriteAddress(svc, w) ==
    LET router == AddressOf("Router", svc, w)
    IN  IF router \in {Nil, Error} THEN Error ELSE [router EXCEPT !.scheme = "http"]

\* Mutant: the address of the Query is not checked for TLS.
QueryArgsPlain(cr, svc, w) ==
    LET frontend == queryfrontendAddress(cr.of, w)
        query == queryAddress(cr.of, w)
        addr == IF frontend = Nil THEN query ELSE frontend
    IN  IF Error \in {frontend, query} \/ addr = Nil THEN Error
        ELSE <<<<"--query.address", [addr EXCEPT !.scheme = "http"]>>>>

\* Queries go to the frontend, or else to the Query; with a remote query they go
\* there and only rules are asked of the Query, with the frontend's TLS setting.
QueryArgs(cr, svc, w) ==
    LET frontend == queryfrontendAddress(cr.of, w)
        query == queryAddress(cr.of, w)
        addr == IF frontend = Nil THEN query ELSE frontend
        remote == ExternalTarget(svc.remote, w)
    IN  IF \/ Error \in {frontend, query} \/ addr = Nil
           \/ svc.remote # Nil /\ remote = Error
        THEN Error
        ELSE IF svc.remote # Nil
             THEN RemoteArgs(remote)
                  \o <<<<"--rules-query.address", query>>>> \o ClientConfig("--rules-query.config", addr)
             ELSE <<<<"--query.address", addr>>>> \o ClientConfig("--query.config", addr)

\* Remote writes go to the router and to the external targets.
WriteArgs(cr, svc, w) ==
    LET router == remoteWriteAddress(cr.of, w)
        targets == {ExternalTarget(t, w) : t \in svc.writes}
    IN  IF router = Error \/ Error \in targets THEN Error
        ELSE <<<<"--remote-write.address", router>>,
               <<"--external-remote-writes.config", targets>>>>

GatewayDeployment(cr, svc, w) ==
    LET query == QueryArgs(cr, svc, w)
        write == WriteArgs(cr, svc, w)
        admission == IF cr.admission THEN <<<<"--tenant.admission-control-config-file", "file">>>> ELSE <<>>
    IN  IF Error \in {query, write} THEN Error
        ELSE WebWorkload("Gateway", [cr EXCEPT !.flags = <<>>], w,
                <<<<"--log.level", "info">>>> \o admission \o query \o write, Nil)

\* The tenants that are admitted, in the order of the list.
tenantsAdmissionConfigMap(cr, w) ==
    IF ~cr.admission THEN Absent
    ELSE [tenants |-> {w[t].id : t \in {u \in Listing(w, "Tenant", cr.of) : ~w[u].deleting}}]

-----------------------------------------------------------------------------
(* Store.                                                                  *)

\* Mutant: of the Service's own storage only the default tenants are kept.
StoreRelabelConfigEither(cr, w) ==
    LET storage == IF w[cr.of].storage = cr.storage THEN "default" ELSE cr.storage
    IN  {w[t].id : t \in GetTenantHash(OfStorage("Tenant", cr.of, storage, w), w)}

\* The tenants whose blocks are served: those of the storage and, where it is
\* the Service's, those of the default storage.
StoreRelabelConfig(cr, w) ==
    LET svc == w[cr.of]
        explicit == OfStorage("Tenant", cr.of, cr.storage, w)
        default == IF svc.storage = cr.storage THEN OfStorage("Tenant", cr.of, "default", w) ELSE {}
    IN  {w[t].id : t \in GetTenantHash(explicit \cup default, w)}

StoreArgs(cr, p, w) ==
    Args("Store", <<<<"--objstore.config", GetStorageConfig(cr.storage, w)>>, <<"--min-time", p>>,
                    <<"--selector.relabel-config", StoreRelabelConfig(cr, w)>>>>, cr.flags)

\* The StatefulSet of partition p, deleted when there are fewer; the replicas
\* of one that exists are left to an autoscaler.
StoreStatefulSet(cr, p, w, c) ==
    IF p >= Overlay(cr.parts, 1) THEN Absent
    ELSE IF GetStorageConfig(cr.storage, w) = Error \/ w[cr.of] = Absent THEN Error
    ELSE [replicas |-> IF c = Absent \/ c.replicas = 0 THEN cr.replicas ELSE c.replicas,
          storageHash |-> GetStorageHash(cr.storage, w),
          tenantHash |-> GetTenantHash(OfStorage("Tenant", cr.of, cr.storage, w), w),
          args |-> StoreArgs(cr, p, w)]

StoreService(cr, p) == IF p >= Overlay(cr.parts, 1) THEN Absent ELSE [partition |-> p]

-----------------------------------------------------------------------------
(* Compactor.                                                              *)

\* Blocks of the tenants it lists are kept.
CompactorRelabelConfig(cr, w) == IF w[cr.of] = Absent THEN Error ELSE cr.tenants

CompactorArgs(cr, w) ==
    Args("Compactor",
         <<<<"--objstore.config", GetStorageConfig(cr.storage, w)>>,
           <<"--selector.relabel-config", CompactorRelabelConfig(cr, w)>>,
           <<"--deduplication.replica-label", "receive">>,
           <<"--deduplication.replica-label", "ruler">>>>, cr.flags)

CompactorStatefulSet(cr, w) ==
    IF Error \in {GetStorageConfig(cr.storage, w), CompactorRelabelConfig(cr, w)} THEN Error
    ELSE [replicas |-> cr.replicas, storageHash |-> GetStorageHash(cr.storage, w),
          args |-> CompactorArgs(cr, w)]

-----------------------------------------------------------------------------
(* Storage.                                                                *)

\* Mutant: the hash is written once.
updateHashAnnotationOnce(k, raw, w, c) ==
    IF GetStorageHash(k, w) = Error THEN Error
    ELSE IF raw.hash # Nil THEN c
    ELSE IF c = Absent THEN Error ELSE [raw EXCEPT !.hash = GetStorageHash(k, w)]

\* Mutant: an annotation that is up to date is taken away.
updateHashAnnotationToggled(k, raw, w, c) ==
    IF GetStorageHash(k, w) = Error \/ c = Absent THEN Error
    ELSE [raw EXCEPT !.hash = IF @ = Nil THEN GetStorageHash(k, w) ELSE Nil]

\* The hash is written with all that was read of the Storage; one that was
\* deleted meanwhile is not created with an old resourceVersion.
updateHashAnnotation(k, raw, w, c) ==
    LET hash == GetStorageHash(k, w)
    IN  IF hash = Error THEN Error
        ELSE IF raw.hash = hash THEN c
        ELSE IF c = Absent THEN Error ELSE [raw EXCEPT !.hash = hash]

\* The block manager, with a container for garbage collection if enabled.
BlockManagerDeployment(k, raw, w, c) ==
    LET config == GetStorageConfig(k, w)
    IN  IF raw.manager = Nil THEN Absent
        ELSE IF config = Error THEN Error
        ELSE [replicas |-> IF c = Absent \/ c.replicas = 0 THEN raw.manager.replicas ELSE c.replicas,
              config |-> config, gc |-> raw.manager.gc]

BlockManagerService(raw) == IF raw.manager = Nil THEN Absent ELSE [of |-> "manager"]

-----------------------------------------------------------------------------
(* Tenant: the Stores.                                                     *)

GetStorage(svc, s) ==
    IF s \notin {Nil, "default"} THEN s ELSE IF svc.storage = Nil THEN "local" ELSE svc.storage

\* The pairs of Service and storage that tenants want a Store for, where svc is
\* the Service of the tenant being reconciled.
sortTenantsByStorageAndService(svc, w) ==
    {<<w[t].of, GetStorage(svc, w[t].storage)>> :
        t \in {u \in Objects : /\ KindOf[u] = "Tenant" /\ w[u] # Absent
                               /\ ~w[u].deleting /\ w[u].of # Nil
                               /\ GetStorage(svc, w[u].storage) # "local"}}

StoreHashes(of, s, w) ==
    [tenants |-> GetTenantHash(OfStorage("Tenant", of, s, w), w), storage |-> GetStorageHash(s, w)]

\* An existing Store is deleted, or gets new hashes in its annotations, which
\* is refused when it was changed since it was listed.  Each place has one name
\* here: what becomes of a second Store of a place is the subject of TenantStores.
UpdateStore(listed, expected, w, c) ==
    IF listed = Absent THEN c
    ELSE IF <<listed.of, listed.storage>> \notin expected THEN Absent
    ELSE LET hashes == StoreHashes(listed.of, listed.storage, w)
         IN  IF hashes.storage = Error THEN Error
             ELSE IF listed.hashes = hashes THEN c
             ELSE IF c # listed THEN Error ELSE [c EXCEPT !.hashes = hashes]

\* The Store of a pair that has none is created.
CreateStore(place, listed, expected, w, c) ==
    IF listed # Absent \/ place \notin expected \/ c # Absent THEN c
    ELSE IF GetStorageHash(place[2], w) = Error THEN Error
    ELSE [of |-> place[1], storage |-> place[2], replicas |-> Nil, web |-> Nil, flags |-> <<>>, parts |-> Nil,
          hashes |-> StoreHashes(place[1], place[2], w)]

-----------------------------------------------------------------------------
(* Ruler, but for the rule files.                                          *)

\* Each shard queries and writes through the one Gateway of the Service, by the
\* scheme that the Gateway's own custom resource asks for; one without basic
\* auth, whose built-in user the shard would need.
RulerStatefulSet(cr, p, w) ==
    LET gateways == Listing(w, "Gateway", cr.of)
    IN  IF p >= Overlay(cr.parts, 1) THEN Absent
        ELSE IF Cardinality(gateways) # 1 \/ w[cr.of] = Absent THEN Error
        ELSE LET gateway == BaseURL(CHOOSE g \in gateways : TRUE, w)
             IN  [replicas |-> cr.replicas,
                  args |-> Args("Ruler",
                                <<<<"--log.level", "info">>, <<"--query.config", gateway>>>>
                                \o Items("--label", <<"pod">> \o cr.labels), cr.flags)]

RulerService(cr, p) == IF p >= Overlay(cr.parts, 1) THEN Absent ELSE [shard |-> p]
=============================================================================
