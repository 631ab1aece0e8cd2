---------------------------- MODULE MCComponents ----------------------------
(* Small worlds of components for TLC, each with a few edits to come.      *)
EXTENDS Components

MCKinds ==
    [svc |-> "Service", svc2 |-> "Service", i1 |-> "Ingester", i2 |-> "Ingester", router |-> "Router", query |-> "Query",
     frontend |-> "QueryFrontend", gateway |-> "Gateway", store |-> "Store", store2 |-> "Store", ruler |-> "Ruler",
     compactor |-> "Compactor", st |-> "Storage", sec |-> "Secret", users |-> "Secret",
     t1 |-> "Tenant", t2 |-> "Tenant"]
MCObjects == DOMAIN MCKinds
MCPlaces ==
    <<[name |-> "store", place |-> <<"svc", "st">>], [name |-> "store2", place |-> <<"svc2", "st">>]>>

-----------------------------------------------------------------------------
(* Objects.                                                                *)

MCTemplate == [replicas |-> Nil, web |-> Nil, flags |-> <<>>, parts |-> Nil]
MCTemplates == [kind \in {MCKinds[o] : o \in MCObjects} \ {"Service", "Storage", "Secret", "Tenant"} |-> MCTemplate]
MCService == [storage |-> Nil, remote |-> Nil, writes |-> {}, cleanup |-> TRUE, tmpl |-> MCTemplates]
MCComponent == [of |-> "svc", replicas |-> Nil, web |-> Nil, flags |-> <<>>, parts |-> Nil]
MCIngester(tenants, soft, storage) ==
    [tenants |-> tenants, soft |-> soft, storage |-> storage, status |-> {}, volume |-> "claim",
     retire |-> "no", attrs |-> <<>>] @@ MCComponent
MCRuler ==
    [labels |-> <<"site">>] @@
    [MCComponent EXCEPT !.parts = 2, !.flags = <<<<"--label", "x">>, <<"--rule-file", "y">>, <<"--log.level", "debug">>>>]
MCQuery == [stores |-> <<>>] @@ MCComponent
MCGateway(admission) == [admission |-> admission] @@ MCComponent
MCCompactor == [storage |-> "st", tenants |-> {"t1"}] @@ MCComponent
MCStore == [storage |-> "st", hashes |-> Nil] @@ MCComponent
MCStorage == [bucket |-> "b1", secret |-> "sec", hash |-> Nil, manager |-> [replicas |-> 1, gc |-> FALSE]]
MCBucket == [MCStorage EXCEPT !.secret = Nil, !.manager = Nil]
MCTenant(id, storage) == [of |-> "svc", storage |-> storage, id |-> id, deleting |-> FALSE]
MCSecret(n) == [value |-> n]

MCWorld(present) == [o \in MCObjects |-> IF o \in DOMAIN present THEN present[o] ELSE Absent]
Amend(o, set) == [on |-> o, does |-> "change", set |-> set]
Create(o, v) == [on |-> o, does |-> "create", set |-> v]
Delete(o) == [on |-> o, does |-> "delete", set |-> Absent]
Scene(present, edits, f, l) ==
    [world |-> MCWorld(present), edits |-> edits, failures |-> f, losses |-> l]

-----------------------------------------------------------------------------
(* Scenes.                                                                 *)

\* An ingester whose tenants and replicas change, behind a router.
Routing ==
    Scene([svc |-> MCService, i1 |-> MCIngester({"t1"}, FALSE, Nil), router |-> MCComponent],
          {Amend("i1", [tenants |-> {"t1", "t2"}]), Amend("i1", [replicas |-> 1])}, 1, 0)

\* Two of them, which the router lists in any order.
Rings ==
    Scene([svc |-> MCService, i1 |-> MCIngester({"t1"}, FALSE, Nil), i2 |-> MCIngester({"t2"}, FALSE, Nil),
           router |-> MCComponent],
          {Amend("i1", [attrs |-> <<"a", "b">>])}, 0, 0)

\* An ingester that is to be deleted gets a tenant as its time comes, below a
\* router and a Query.
Retention ==
    Scene([svc |-> MCService, i1 |-> [MCIngester({}, TRUE, Nil) EXCEPT !.retire = "waiting"], router |-> MCComponent,
           query |-> MCQuery],
          {Amend("i1", [retire |-> "due"]), Amend("i1", [tenants |-> {"t1"}])}, 0, 0)

\* An ingester for soft tenants, scaled by the template, then removed.
SoftRouting ==
    Scene([svc |-> MCService, i2 |-> MCIngester({}, TRUE, Nil), router |-> MCComponent],
          {Amend("svc", [tmpl |-> [MCTemplates EXCEPT !["Ingester"].replicas = 3]]), Delete("i2")}, 0, 0)

\* Basic auth whose users come late, and flags of every sort.
Flags ==
    Scene([svc |-> MCService, router |-> [MCComponent EXCEPT !.web = {"users"}]],
          {Create("users", MCSecret(1)),
           Amend("router", [flags |-> <<<<"--label", "x">>, <<"--log.level", "debug">>, <<"--http-address", "y">>>>])},
          1, 1)

\* A Query that turns to TLS and loses an owned object, below a frontend that
\* also follows the tenants.
Frontend ==
    Scene([svc |-> MCService, query |-> MCQuery, frontend |-> MCComponent],
          {Amend("query", [web |-> {"tls"}]), Create("t1", MCTenant("t1", Nil))}, 0, 0)

\* A gateway without a frontend, on a Query that turns to TLS.
Frontdoor ==
    Scene([svc |-> MCService, router |-> MCComponent, query |-> MCQuery, gateway |-> MCGateway(FALSE)],
          {Amend("query", [web |-> {"tls"}])}, 0, 0)

\* The gateway turns to a frontend with TLS that comes late.
Fronted ==
    Scene([svc |-> MCService, router |-> MCComponent, query |-> MCQuery, gateway |-> MCGateway(FALSE)],
          {Create("frontend", [MCComponent EXCEPT !.web = {"tls"}])}, 0, 0)

\* A gateway with tenants' admission whose Service gets a remote query with
\* credentials and a remote write.
Remote ==
    Scene([svc |-> MCService, router |-> MCComponent, query |-> MCQuery, gateway |-> MCGateway(TRUE),
           users |-> MCSecret(1)],
          {Amend("svc", [remote |-> [scheme |-> "http", auth |-> {"basic"}],
                         writes |-> {[scheme |-> "http", auth |-> {}]}])},
          0, 0)

\* A remote query with TLS and a token, and rules of a Query that turns to TLS.
RemoteRules ==
    Scene([svc |-> [MCService EXCEPT !.remote = [scheme |-> "https", auth |-> {"bearer"}]],
           router |-> MCComponent, query |-> MCQuery, gateway |-> MCGateway(FALSE)],
          {Amend("query", [web |-> {"tls"}])}, 0, 0)

\* Two tenants that a gateway admits, listed in any order.
Admitted ==
    Scene([svc |-> MCService, router |-> MCComponent, query |-> MCQuery, gateway |-> MCGateway(TRUE),
           t1 |-> MCTenant("t1", Nil), t2 |-> MCTenant("t2", Nil)], {}, 0, 0)

\* A Query of an ingester and a Store that gets a second partition.
Reading ==
    Scene([svc |-> MCService, st |-> MCStorage, sec |-> MCSecret(1), store |-> MCStore, query |-> MCQuery],
          {Amend("store", [parts |-> 2]), Amend("store", [parts |-> 1])}, 0, 0)

\* A Query with stores of its own, one of them behind a CA.
Outside ==
    Scene([svc |-> MCService, query |-> MCQuery, i1 |-> MCIngester({"t1"}, FALSE, Nil)],
          {Amend("query", [stores |-> <<[address |-> "a", ca |-> Nil], [address |-> "b", ca |-> "c1"]>>]),
           Amend("query", [stores |-> <<[address |-> "noport", ca |-> "c1"]>>]), Delete("i1")}, 0, 0)

\* A bucket whose credentials change, under an ingester.
Bucket ==
    Scene([sec |-> MCSecret(1), st |-> MCStorage, svc |-> MCService, i1 |-> MCIngester({"t1"}, FALSE, "st")],
          {Amend("sec", [value |-> 2]), Amend("st", [manager |-> Nil])}, 0, 0)

\* Likewise under a compactor.
Compacting ==
    Scene([sec |-> MCSecret(1), st |-> MCStorage, svc |-> MCService, compactor |-> MCCompactor],
          {Amend("sec", [value |-> 2]), Amend("st", [bucket |-> "b2"]), Amend("compactor", [tenants |-> {}])}, 0, 0)

\* A second tenant of a storage, and the Store they share.
Joining ==
    Scene([st |-> MCBucket, svc |-> MCService, t1 |-> MCTenant("t1", "st")],
          {Create("t2", MCTenant("t2", "st"))}, 0, 0)

\* The last tenant of a storage leaves.
Leaving ==
    Scene([sec |-> MCSecret(1), st |-> [MCStorage EXCEPT !.manager = Nil], svc |-> MCService,
           t1 |-> MCTenant("t1", "st")],
          {Amend("t1", [deleting |-> TRUE])}, 0, 0)

\* A Store that somebody deletes.
Regained ==
    Scene([st |-> MCBucket, svc |-> MCService, t1 |-> MCTenant("t1", "st")],
          {Delete("store"), Amend("svc", [storage |-> "st"])}, 0, 0)

\* Tenants of two Services that name a storage.
Apart ==
    Scene([st |-> MCBucket, svc |-> MCService, svc2 |-> MCService, t1 |-> MCTenant("t1", "st")],
          {Create("t2", [MCTenant("t2", "st") EXCEPT !.of = "svc2"])}, 0, 0)

\* A tenant that leaves the storage to its Service, and one of a Service without,
\* whose reconcile takes the former's Store for one that nobody wants.
Defaults ==
    Scene([st |-> MCBucket, svc |-> [MCService EXCEPT !.storage = "st"], svc2 |-> MCService,
           t1 |-> MCTenant("t1", "default"), t2 |-> [MCTenant("t2", "local") EXCEPT !.of = "svc2"]], {}, 0, 0)

\* Shards of a Ruler behind its Gateway.
Ruling ==
    Scene([svc |-> MCService, router |-> MCComponent, query |-> MCQuery, gateway |-> MCGateway(FALSE),
           ruler |-> MCRuler], {}, 0, 0)

\* Components that are there before their Service, and one deleted.
Late ==
    Scene([i1 |-> MCIngester({"t1"}, FALSE, Nil), router |-> MCComponent],
          {Create("svc", MCService), Delete("router")}, 0, 1)

MCScenes ==
    {Routing, Rings, SoftRouting, Retention, Flags, Frontend, Frontdoor, Fronted, Remote, RemoteRules, Admitted,
     Reading, Outside, Bucket, Compacting, Joining, Leaving, Regained, Apart, Defaults, Ruling, Late}

\* A tenant leaves the Service of a gateway that admits known tenants only.
Departure ==
    Scene([svc |-> MCService, router |-> MCComponent, query |-> MCQuery, gateway |-> MCGateway(TRUE),
           t1 |-> MCTenant("t1", Nil)], {Amend("t1", [of |-> Nil])}, 0, 0)
MCDepartures == {Departure}

ASSUME ScenesPlain == PlainScenes /\ UsersLast
ASSUME ScenesStay ==
    EveryPlace /\ StoragesStay(MCScenes) /\ TenantsStay(MCScenes \ {Frontend, Admitted, Leaving, Defaults})
=============================================================================
