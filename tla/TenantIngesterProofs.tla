------------------------ MODULE TenantIngesterProofs ------------------------
(***************************************************************************)
(* What TenantIngester guarantees for any number of tenants, services and  *)
(* storages, any capacity, and caches that lag arbitrarily.                *)
(***************************************************************************)
EXTENDS TenantIngester, FiniteSetTheorems, TLAPS

\* What a resourceVersion stands for: a cache entry that is not behind equals
\* the stored Tenant, and a copy the API server would accept has the stored
\* labels and finalizers.
CopiesCurrent ==
    /\ \A t \in Tenants \ staleT : ctenant[t] = tenant[t]
    /\ w.fresh => /\ w.pc # "idle"
                  /\ tenant[w.t] # Absent
                  /\ w.cp = [tenant[w.t] EXCEPT !.status = w.cp.status]

TypeInv == TypeOK /\ CopiesCurrent

-----------------------------------------------------------------------------
(* The operators.                                                          *)

\* The names the placement computes are names of ingesters.
LEMMA NamesMade ==
    ASSUME NEW s \in Services, NEW t \in Tenants, NEW g \in StorageRefs,
           NEW i \in Slots
    PROVE  AutoName(s, g, i) \in Names /\ OwnName(s, t) \in Names
BY DEF Names, AutoNames, OwnNames

\* A tenant with a service resolves its storage label to a storage.
LEMMA StorageResolved ==
    ASSUME TypeOK, NEW obj \in TenantObject, obj.svc # NoLabel
    PROVE  obj.svc \in Services /\ GetStorage(obj) \in StorageRefs
BY DEF TypeOK, TenantObject, GetStorage, ServiceLabels, StorageLabels

LEMMA NewIngesterType ==
    ASSUME TypeOK, NEW t \in Tenants, NEW obj \in TenantObject, obj.svc # NoLabel
    PROVE  NewIngester(t, obj) \in IngesterObject
<1>1. obj.svc \in Services /\ GetStorage(obj) \in StorageRefs
  BY StorageResolved
<1>2. SpecTenant[t] \in Ids
  BY DEF Ids
<1>3. obj.excl \in BOOLEAN
  BY DEF TenantObject
<1> QED
  BY <1>1, <1>2, <1>3 DEF NewIngester, IngesterObject, Annotations

LEMMA IngesterEdits ==
    ASSUME NEW t \in Tenants, NEW i \in IngesterObject, NEW j \in IngesterObject
    PROVE  /\ AddTenantToIngester(t, i) \in IngesterObject
           /\ RemoveTenant(t, i) \in IngesterObject
           /\ Merge(i, j) \in IngesterObject
           /\ Due(i) \in IngesterObject
<1>1. SpecTenant[t] \in Ids
  BY DEF Ids
<1>2. AddTenantToIngester(t, i) \in IngesterObject
  BY <1>1 DEF AddTenantToIngester, IngesterObject, Annotations
<1>3. RemoveTenant(t, i) \in IngesterObject
  BY <1>1 DEF RemoveTenant, IngesterObject, Annotations
<1>4. Merge(i, j) \in IngesterObject
  BY DEF Merge, IngesterObject, Annotations
<1>5. Due(i) \in IngesterObject
  BY DEF Due, IngesterObject, Annotations
<1> QED
  BY <1>2, <1>3, <1>4, <1>5

-----------------------------------------------------------------------------
(* Type correctness.                                                       *)

LEMMA InitTypeInv == Init => TypeInv
BY ConstantsAssumption
   DEF Init, TypeInv, TypeOK, CopiesCurrent, Idle, WorkerRecord, PCs, StorageRefs

\* A reconcile starts from a well-formed copy of a cached Tenant.
LEMMA WorkStarts ==
    ASSUME TypeInv, NEW t \in Tenants, HasWork(t)
    PROVE  /\ ctenant[t] \in TenantObject
           /\ ctenant[t].svc # NoLabel
           /\ t \notin staleT => tenant[t] = ctenant[t] /\ tenant[t] # Absent
BY DEF TypeInv, TypeOK, CopiesCurrent, HasWork

\* Every way of taking a Tenant from the queue leaves the worker well formed.
LEMMA TakeTypeInv ==
    ASSUME TypeInv, NEW t \in Tenants, TakeStep(t)
    PROVE  TypeInv'
<1> USE DEF TypeInv
<1>1. CASE Ignore(t)
  BY <1>1 DEF Ignore, TypeOK, CopiesCurrent, others, tvars, ivars, bounds
<1>2. CASE ~Ignore(t)
  <2>1. /\ Take(t) /\ HasWork(t)
        /\ UNCHANGED others /\ queue' \subseteq Tenants
    BY <1>2 DEF TakeStep, StartAddFinalizer, StartDeletion, StartReset,
                PlaceExclusive, AdoptListed, PlaceShared, Take, TypeOK
  <2>2. /\ ctenant[t] \in TenantObject
        /\ ctenant[t].svc # NoLabel
        /\ t \notin staleT => tenant[t] = ctenant[t] /\ tenant[t] # Absent
    BY <2>1, WorkStarts
  <2>3. SUFFICES
          /\ w' \in WorkerRecord
          /\ w'.pc # "idle" => w'.t \in Tenants /\ w'.cp \in TenantObject
          /\ w'.pc \in {"remove", "write"} => w'.target \in Names /\ w'.ret # "idle"
          /\ w'.pc = "write" => w'.des \in IngesterObject
          /\ w'.fresh => /\ w'.pc # "idle"
                         /\ tenant[w'.t] # Absent
                         /\ w'.cp = [tenant[w'.t] EXCEPT !.status = w'.cp.status]
    BY <2>1 DEF TypeOK, CopiesCurrent, others, tvars, ivars, bounds
  <2>4. CASE StartAddFinalizer(t)
    BY <2>2, <2>4 DEF StartAddFinalizer, Working, Idle, WorkerRecord, PCs, TenantObject
  <2>5. CASE StartDeletion(t)
    BY <2>2, <2>5 DEF StartDeletion, Working, Idle, WorkerRecord, PCs, TenantObject
  <2>6. CASE StartReset(t)
    BY <2>2, <2>6 DEF StartReset, NeedResetIngester, Working, Idle, WorkerRecord,
                      PCs, TenantObject
  <2>7. CASE PlaceExclusive(t)
    <3>1. OwnName(ctenant[t].svc, t) \in Names
      BY <2>2, StorageResolved DEF Names, OwnNames
    <3>2. NewIngester(t, ctenant[t]) \in IngesterObject
      BY <2>2, NewIngesterType
    <3> QED
      BY <2>2, <2>7, <3>1, <3>2, ZenonT(60)
         DEF PlaceExclusive, Working, Idle, WorkerRecord, PCs, TenantObject
  <2>8. CASE AdoptListed(t)
    <3>1. PICK n \in IngesterMapping(ctenant[t]) :
                 w' = [Working(t, "status") EXCEPT !.cp.status = n]
      BY <2>8 DEF AdoptListed
    <3>2. n \in Names
      BY <3>1 DEF IngesterMapping
    <3> QED
      BY <2>2, <3>1, <3>2 DEF Working, Idle, WorkerRecord, PCs, TenantObject
  <2>9. CASE PlaceShared(t)
    <3>1. PICK i \in Slots :
            LET n == AutoName(ctenant[t].svc, GetStorage(ctenant[t]), i)
                listed == n \in IngesterMapping(ctenant[t])
            IN  w' = [Working(t, "write") EXCEPT
                        !.target = n,
                        !.cp.status = n,
                        !.des = IF listed THEN AddTenantToIngester(t, cing[n])
                                          ELSE NewIngester(t, ctenant[t]),
                        !.hasRV = listed,
                        !.ret = "status"]
      BY <2>9 DEF PlaceShared
    <3> DEFINE n == AutoName(ctenant[t].svc, GetStorage(ctenant[t]), i)
               listed == n \in IngesterMapping(ctenant[t])
               d == IF listed THEN AddTenantToIngester(t, cing[n])
                              ELSE NewIngester(t, ctenant[t])
    <3>2. n \in Names
      BY <2>2, StorageResolved DEF Names, AutoNames
    <3>3. listed => cing[n] \in IngesterObject
      BY <3>2 DEF IngesterMapping, TypeOK
    <3>4. d \in IngesterObject
      BY <2>2, <3>3, NewIngesterType, IngesterEdits
    <3>5. listed \in BOOLEAN
      OBVIOUS
    <3>6. w' = [Working(t, "write") EXCEPT !.target = n, !.cp.status = n, !.des = d,
                                           !.hasRV = listed, !.ret = "status"]
      BY <3>1
    <3> HIDE DEF n, listed, d
    <3> QED
      BY <2>2, <3>2, <3>4, <3>5, <3>6, ZenonT(60)
         DEF Working, Idle, WorkerRecord, PCs, TenantObject
  <2> QED
    BY <1>2, <2>4, <2>5, <2>6, <2>7, <2>8, <2>9 DEF TakeStep
<1> QED
  BY <1>1, <1>2

\* What a reconcile holds before its writes.
LEMMA WorkerHolds ==
    ASSUME TypeInv, w.pc # "idle"
    PROVE  /\ w \in WorkerRecord
           /\ w.t \in Tenants /\ w.cp \in TenantObject
           /\ w.fresh => tenant[w.t] \in TenantObject
           /\ w.pc \in {"remove", "write"} => w.target \in Names /\ w.ret # "idle"
           /\ w.pc = "write" => w.des \in IngesterObject
BY DEF TypeInv, TypeOK, CopiesCurrent

\* An error leaves an idle worker and a queued key.
LEMMA FailTypeInv ==
    ASSUME TypeInv, w.pc # "idle", Fail,
           UNCHANGED <<tvars, ivars, svcStorage, recycling, userOps>>,
           failures' \in 0..MaxFailures
    PROVE  TypeInv'
<1>1. w.t \in Tenants
  BY WorkerHolds
<1>2. w' = Idle /\ w' \in WorkerRecord /\ queue' \subseteq Tenants
  BY <1>1 DEF Fail, Idle, WorkerRecord, PCs, TypeInv, TypeOK
<1> QED
  BY <1>2 DEF TypeInv, TypeOK, CopiesCurrent, Idle, tvars, ivars

\* A step of the worker that writes at most an ingester, and goes on with the
\* same copy of its Tenant.
LEMMA IngesterWritten ==
    ASSUME TypeInv, w.pc # "idle",
           UNCHANGED <<tvars, cing, svcStorage, recycling, bounds, queue>>,
           ing' \in [Names -> IngesterObject \cup {Absent}],
           staleI' \subseteq Names,
           w' \in WorkerRecord,
           w'.pc # "idle", w'.t = w.t, w'.cp = w.cp, w'.fresh = w.fresh,
           w'.pc \in {"remove", "write"} => w'.target \in Names /\ w'.ret # "idle",
           w'.pc = "write" => w'.des \in IngesterObject
    PROVE  TypeInv'
<1>1. w'.t \in Tenants /\ w'.cp \in TenantObject
  BY WorkerHolds
<1>2. TypeOK'
  BY <1>1 DEF TypeInv, TypeOK, tvars, bounds
<1>3. CopiesCurrent'
  BY DEF TypeInv, CopiesCurrent, tvars
<1> QED
  BY <1>2, <1>3 DEF TypeInv

\* The steps between a removal or a placement and the end of its write.
LEMMA IngesterWritesTypeInv ==
    ASSUME TypeInv,
           \/ RemoveFromIngester \/ CreateIngester \/ UpdateIngester
           \/ ConflictIngester \/ RefusedIngester
    PROVE  TypeInv'
<1> USE DEF At
<1>1. CASE RemoveFromIngester
  <2> DEFINE cur == cing[w.target]
             r == RemoveTenant(w.t, cur)
             m == w.target \in staleI
  <2>1. w.pc = "remove" /\ UNCHANGED <<others, queue>>
    BY <1>1 DEF RemoveFromIngester
  <2>2. w \in WorkerRecord /\ w.t \in Tenants /\ w.target \in Names /\ w.ret # "idle"
    BY <2>1, WorkerHolds
  <2>3. cur # Absent => r \in IngesterObject
    BY <2>2, IngesterEdits DEF TypeInv, TypeOK
  <2>4. \/ /\ cur # Absent
           /\ w' = [w EXCEPT !.pc = "write", !.des = r, !.hasRV = TRUE]
        \/ w' = [w EXCEPT !.pc = w.ret, !.target = None, !.ret = "idle", !.missed = m]
    BY <1>1 DEF RemoveFromIngester
  <2>m. m \in BOOLEAN
    OBVIOUS
  <2> HIDE DEF cur, r, m
  <2>5. /\ w' \in WorkerRecord
        /\ w'.pc # "idle" /\ w'.t = w.t /\ w'.cp = w.cp /\ w'.fresh = w.fresh
        /\ w'.pc \in {"remove", "write"} => w'.target \in Names /\ w'.ret # "idle"
        /\ w'.pc = "write" => w'.des \in IngesterObject
    BY <2>2, <2>3, <2>4, <2>m DEF WorkerRecord, PCs
  <2> QED
    BY <2>1, <2>5, IngesterWritten
       DEF TypeInv, TypeOK, others, tvars, ivars, bounds
<1>2. CASE CreateIngester \/ UpdateIngester
  <2>1. w.pc = "write" /\ WriteDone
        /\ UNCHANGED <<tvars, cing, recycling, bounds, svcStorage, queue>>
    BY <1>2 DEF CreateIngester, UpdateIngester
  <2>2. /\ w \in WorkerRecord /\ w.target \in Names /\ w.ret # "idle"
        /\ w.des \in IngesterObject /\ w.t \in Tenants
    BY <2>1, WorkerHolds
  <2>3. cing[w.target] # Absent => Merge(cing[w.target], w.des) \in IngesterObject
    BY <2>2, IngesterEdits DEF TypeInv, TypeOK
  <2>4. PICK obj \in IngesterObject : WriteIngester(w.target, obj)
    BY <1>2, <2>2, <2>3 DEF CreateIngester, UpdateIngester
  <2>5. /\ ing' \in [Names -> IngesterObject \cup {Absent}]
        /\ staleI' \subseteq Names
    BY <2>2, <2>4 DEF WriteIngester, TypeInv, TypeOK
  <2>6. /\ w' \in WorkerRecord /\ w'.pc \in {"clean", "status"}
        /\ w'.t = w.t /\ w'.cp = w.cp /\ w'.fresh = w.fresh
    BY <2>1, <2>2 DEF WriteDone, WorkerRecord, PCs
  <2> QED
    BY <2>1, <2>5, <2>6, IngesterWritten
<1>3. CASE ConflictIngester
  <2>1. w.pc = "write" /\ cing[w.target] # Absent /\ UNCHANGED others
    BY <1>3 DEF ConflictIngester
  <2>2. /\ w \in WorkerRecord /\ w.target \in Names /\ w.ret # "idle"
        /\ w.des \in IngesterObject /\ w.t \in Tenants
    BY <2>1, WorkerHolds
  <2> DEFINE m == Merge(cing[w.target], w.des)
  <2>3. m \in IngesterObject
    BY <2>1, <2>2, IngesterEdits DEF TypeInv, TypeOK
  <2>4. CASE w' = [w EXCEPT !.des = m, !.hasRV = TRUE] /\ UNCHANGED queue
    <3> HIDE DEF m
    <3>1. /\ w' \in WorkerRecord /\ w'.pc = "write" /\ w'.ret # "idle"
          /\ w'.t = w.t /\ w'.cp = w.cp /\ w'.fresh = w.fresh
          /\ w'.target \in Names /\ w'.des \in IngesterObject
      BY <2>1, <2>2, <2>3, <2>4 DEF WorkerRecord, PCs
    <3> QED
      BY <2>1, <2>4, <3>1, IngesterWritten
         DEF TypeInv, TypeOK, others, tvars, ivars, bounds
  <2>5. CASE Fail
    BY <2>1, <2>5, FailTypeInv DEF TypeInv, TypeOK, others, tvars, ivars, bounds
  <2> QED
    BY <1>3, <2>4, <2>5 DEF ConflictIngester
<1>4. CASE RefusedIngester
  BY <1>4, FailTypeInv
     DEF RefusedIngester, TypeInv, TypeOK, others, tvars, ivars, bounds
<1> QED
  BY <1>1, <1>2, <1>3, <1>4

LEMMA StoredType ==
    ASSUME NEW obj \in TenantObject
    PROVE  Stored(obj) \in {obj, Absent}
BY DEF Stored

\* A write of one Tenant keeps the caches' account of what is behind.
LEMMA TenantWritten ==
    ASSUME TypeInv, NEW t \in Tenants, NEW obj \in TenantObject \cup {Absent},
           WriteTenant(t, obj), UNCHANGED ctenant
    PROVE  /\ tenant' \in [Tenants -> TenantObject \cup {Absent}]
           /\ tenant'[t] = obj
           /\ \A u \in Tenants : u # t => tenant'[u] = tenant[u]
           /\ staleT' \subseteq Tenants
           /\ \A u \in Tenants \ staleT' : ctenant'[u] = tenant'[u]
BY DEF TypeInv, TypeOK, CopiesCurrent, WriteTenant

LEMMA OwnCopyWritten ==
    ASSUME TypeInv, w.pc # "idle", NEW obj \in TenantObject,
           WriteOwnCopy(obj, "rest")
    PROVE  TypeInv'
<1>1. /\ w \in WorkerRecord /\ w.t \in Tenants /\ w.cp \in TenantObject
  BY WorkerHolds
<1>2. /\ WriteTenant(w.t, Stored(obj)) /\ Stored(obj) \in {obj, Absent}
      /\ UNCHANGED <<ctenant, ivars, recycling, bounds, svcStorage, queue>>
      /\ w' = IF Stored(obj) = Absent THEN [w EXCEPT !.pc = "rest", !.fresh = FALSE]
                                      ELSE [w EXCEPT !.pc = "rest", !.cp = obj]
  BY StoredType DEF WriteOwnCopy
<1>3. /\ tenant' \in [Tenants -> TenantObject \cup {Absent}]
      /\ tenant'[w.t] = Stored(obj)
      /\ staleT' \subseteq Tenants
      /\ \A u \in Tenants \ staleT' : ctenant'[u] = tenant'[u]
  BY <1>1, <1>2, TenantWritten
<1>4. /\ w' \in WorkerRecord /\ w'.pc = "rest"
      /\ w'.t \in Tenants /\ w'.cp \in TenantObject /\ w'.t = w.t
      /\ w'.fresh => Stored(obj) # Absent /\ w'.cp = obj
  BY <1>1, <1>2 DEF WorkerRecord, PCs
<1>5. TypeOK'
  BY <1>2, <1>3, <1>4 DEF TypeInv, TypeOK, ivars, bounds
<1>6. w'.fresh => w'.cp = [tenant'[w'.t] EXCEPT !.status = w'.cp.status]
  BY <1>2, <1>3, <1>4 DEF TenantObject
<1>7. CopiesCurrent'
  BY <1>2, <1>3, <1>4, <1>6 DEF CopiesCurrent
<1> QED
  BY <1>5, <1>7 DEF TypeInv

\* The writes of the worker's own Tenant, and its walk over status.tenants.
LEMMA TenantWritesTypeInv ==
    ASSUME TypeInv,
           \/ AddFinalizer \/ UpdateStatus \/ RemoveFinalizer
           \/ CleanStatus \/ Rest \/ ConflictTenant
    PROVE  TypeInv'
<1> USE DEF At
<1>1. CASE AddFinalizer
  <2>1. w.pc # "idle" /\ [w.cp EXCEPT !.finI = TRUE] \in TenantObject
    BY <1>1, WorkerHolds DEF AddFinalizer, TenantObject
  <2> QED
    BY <1>1, <2>1, OwnCopyWritten DEF AddFinalizer
<1>2. CASE UpdateStatus
  <2>1. w.pc # "idle" /\ w.cp \in TenantObject
    BY <1>2, WorkerHolds DEF UpdateStatus
  <2> QED
    BY <1>2, <2>1, OwnCopyWritten DEF UpdateStatus
<1>3. CASE RemoveFinalizer
  <2>1. w.pc # "idle" /\ w.fresh
    BY <1>3 DEF RemoveFinalizer, WriteOwnCopy
  <2>2. w.cp \in TenantObject /\ tenant[w.t] \in TenantObject
    BY <2>1, WorkerHolds
  <2>3. [w.cp EXCEPT !.finI = FALSE, !.status = tenant[w.t].status] \in TenantObject
    BY <2>2 DEF TenantObject
  <2> QED
    BY <1>3, <2>1, <2>3, OwnCopyWritten DEF RemoveFinalizer
<1>4. CASE CleanStatus
  <2>1. /\ w.pc = "clean" /\ staleI' \subseteq Names
        /\ UNCHANGED <<tvars, ing, cing, svcStorage, recycling, bounds>>
    BY <1>4 DEF CleanStatus, TypeInv, TypeOK
  <2>2. CASE w' = [w EXCEPT !.pc = "unfinal"] /\ UNCHANGED queue
    <3>1. w \in WorkerRecord
      BY <2>1, WorkerHolds
    <3>2. /\ w' \in WorkerRecord /\ w'.pc = "unfinal"
          /\ w'.t = w.t /\ w'.cp = w.cp /\ w'.fresh = w.fresh
      BY <2>2, <3>1 DEF WorkerRecord, PCs
    <3> QED
      BY <2>1, <2>2, <3>2, IngesterWritten DEF TypeInv, TypeOK
  <2>3. CASE Fail
    <3>1. w.t \in Tenants
      BY <2>1, WorkerHolds
    <3>2. w' = Idle /\ w' \in WorkerRecord /\ queue' \subseteq Tenants
      BY <2>3, <3>1 DEF Fail, Idle, WorkerRecord, PCs, TypeInv, TypeOK
    <3> QED
      BY <2>1, <3>2 DEF TypeInv, TypeOK, CopiesCurrent, Idle, tvars, bounds
  <2> QED
    BY <1>4, <2>2, <2>3 DEF CleanStatus
<1>5. CASE Rest
  <2> DEFINE obj == [w.cp EXCEPT !.finC = ~w.cp.deleting]
  <2>1. w.pc = "rest" /\ w.t \in Tenants /\ w.cp \in TenantObject
    BY <1>5, WorkerHolds DEF Rest
  <2>2. obj \in TenantObject
    BY <2>1 DEF TenantObject
  <2>3. Stored(obj) \in TenantObject \cup {Absent}
    BY <2>2, StoredType
  <2>4. /\ WriteTenant(w.t, Stored(obj)) /\ w' = Idle
        /\ UNCHANGED <<ctenant, ivars, recycling, bounds, svcStorage, queue>>
    BY <1>5 DEF Rest
  <2> HIDE DEF obj
  <2>5. /\ tenant' \in [Tenants -> TenantObject \cup {Absent}]
        /\ staleT' \subseteq Tenants
        /\ \A u \in Tenants \ staleT' : ctenant'[u] = tenant'[u]
    BY <2>1, <2>3, <2>4, TenantWritten
  <2>6. w' \in WorkerRecord
    BY <2>4 DEF Idle, WorkerRecord, PCs
  <2> QED
    BY <2>4, <2>5, <2>6 DEF TypeInv, TypeOK, CopiesCurrent, Idle, ivars, bounds
<1>6. CASE ConflictTenant
  BY <1>6, FailTypeInv
     DEF ConflictTenant, TypeInv, TypeOK, others, tvars, ivars, bounds
<1> QED
  BY <1>1, <1>2, <1>3, <1>4, <1>5, <1>6

\* An edit by a user makes the worker's copy of that Tenant unacceptable.
LEMMA UserEditTypeInv ==
    ASSUME TypeInv, NEW t \in Tenants, NEW obj \in TenantObject \cup {Absent},
           UserEdit(t, obj)
    PROVE  TypeInv'
<1>1. /\ tenant' \in [Tenants -> TenantObject \cup {Absent}]
      /\ \A u \in Tenants : u # t => tenant'[u] = tenant[u]
      /\ staleT' \subseteq Tenants
      /\ \A u \in Tenants \ staleT' : ctenant'[u] = tenant'[u]
  BY TenantWritten DEF UserEdit
<1>2. userOps' \in 0..MaxUserOps
  BY ConstantsAssumption DEF UserEdit, TypeInv, TypeOK
<1>3. /\ w' \in WorkerRecord
      /\ w'.pc = w.pc /\ w'.t = w.t /\ w'.cp = w.cp /\ w'.target = w.target
      /\ w'.des = w.des /\ w'.ret = w.ret
      /\ w'.fresh => w.fresh /\ w.t # t
  BY DEF UserEdit, TypeInv, TypeOK, WorkerRecord
<1>4. UNCHANGED <<ctenant, ivars, recycling, failures, svcStorage, queue>>
  BY DEF UserEdit
<1>5. TypeOK'
  BY <1>1, <1>2, <1>3, <1>4 DEF TypeInv, TypeOK, ivars
<1>6. CopiesCurrent'
  BY <1>1, <1>3, <1>4 DEF TypeInv, TypeOK, CopiesCurrent
<1> QED
  BY <1>5, <1>6 DEF TypeInv

LEMMA UserTypeInv ==
    ASSUME TypeInv, UserStep
    PROVE  TypeInv'
<1>1. CASE \E t \in Tenants, l \in Labelings : CreateTenant(t, l)
  <2>1. PICK t \in Tenants, l \in Labelings : CreateTenant(t, l)
    BY <1>1
  <2>2. l \in LabelSets
    BY ConstantsAssumption
  <2>3. [svc |-> l.svc, stg |-> l.stg, excl |-> l.excl, deleting |-> FALSE,
         finI |-> FALSE, finC |-> FALSE, status |-> None] \in TenantObject
    BY <2>2 DEF TenantObject, LabelSets
  <2> QED
    BY <2>1, <2>3, UserEditTypeInv DEF CreateTenant
<1>2. CASE \E t \in Tenants, l \in Labelings : RelabelTenant(t, l)
  <2>1. PICK t \in Tenants, l \in Labelings : RelabelTenant(t, l)
    BY <1>2
  <2>2. l \in LabelSets
    BY ConstantsAssumption
  <2>3. tenant[t] \in TenantObject
    BY <2>1 DEF RelabelTenant, TypeInv, TypeOK
  <2>4. [tenant[t] EXCEPT !.svc = l.svc, !.stg = l.stg, !.excl = l.excl]
          \in TenantObject
    BY <2>2, <2>3 DEF TenantObject, LabelSets
  <2> QED
    BY <2>1, <2>4, UserEditTypeInv DEF RelabelTenant
<1>3. CASE \E t \in Tenants : DeleteTenant(t)
  <2>1. PICK t \in Tenants : DeleteTenant(t)
    BY <1>3
  <2>2. tenant[t] \in TenantObject
    BY <2>1 DEF DeleteTenant, TypeInv, TypeOK
  <2>3. [tenant[t] EXCEPT !.deleting = TRUE] \in TenantObject
    BY <2>2 DEF TenantObject
  <2>4. Stored([tenant[t] EXCEPT !.deleting = TRUE]) \in TenantObject \cup {Absent}
    BY <2>3, StoredType
  <2> QED
    BY <2>1, <2>4, UserEditTypeInv DEF DeleteTenant
<1>4. CASE \E s \in Services, g \in StorageRefs : SetServiceStorage(s, g)
  <2>1. PICK s \in Services, g \in StorageRefs : SetServiceStorage(s, g)
    BY <1>4
  <2>2. /\ svcStorage' \in [Services -> StorageRefs] /\ queue' \subseteq Tenants
        /\ userOps' \in 0..MaxUserOps
        /\ UNCHANGED <<tvars, ivars, recycling, failures, w>>
    BY <2>1, ConstantsAssumption
       DEF SetServiceStorage, WokenByService, TypeInv, TypeOK
  <2> QED
    BY <2>2 DEF TypeInv, TypeOK, CopiesCurrent, tvars, ivars
<1> QED
  BY <1>1, <1>2, <1>3, <1>4 DEF UserStep

\* The informers, the ingester controller, failures and restarts.
LEMMA SystemTypeInv ==
    ASSUME TypeInv,
           \/ \E t \in Tenants : SyncTenant(t)
           \/ \E n \in Names : SyncIngester(n) \/ DecideRecycle(n) \/ Elapse(n)
           \/ TransientError \/ Restart \/ RecycleIngester
    PROVE  TypeInv'
<1>1. CASE \E t \in Tenants : SyncTenant(t)
  BY <1>1 DEF SyncTenant, TypeInv, TypeOK, CopiesCurrent, ivars, bounds
<1>2. CASE \E n \in Names : SyncIngester(n)
  BY <1>2 DEF SyncIngester, TenantsListedBy, TypeInv, TypeOK, CopiesCurrent,
              tvars, bounds
<1>3. CASE \E n \in Names : DecideRecycle(n)
  BY <1>3 DEF DecideRecycle, TypeInv, TypeOK, CopiesCurrent, tvars, ivars, bounds
<1>4. CASE \E n \in Names : Elapse(n)
  <2>1. PICK n \in Names : Elapse(n)
    BY <1>4
  <2>2. \A i \in IngesterObject : Due(i) \in IngesterObject
    BY DEF Due, IngesterObject, Annotations
  <2>3. /\ ing' \in [Names -> IngesterObject \cup {Absent}]
        /\ cing' \in [Names -> IngesterObject \cup {Absent}]
    BY <2>1, <2>2 DEF Elapse, IsPending, TypeInv, TypeOK
  <2> QED
    BY <2>1, <2>3 DEF Elapse, TypeInv, TypeOK, CopiesCurrent, tvars, bounds
<1>5. CASE TransientError
  <2>1. failures' \in 0..MaxFailures
    BY <1>5, ConstantsAssumption DEF TransientError, TypeInv, TypeOK
  <2> QED
    BY <1>5, <2>1, FailTypeInv DEF TransientError, TypeInv, TypeOK
<1>6. CASE Restart
  <2>1. failures' \in 0..MaxFailures /\ w' = Idle /\ w' \in WorkerRecord
    BY <1>6, ConstantsAssumption
       DEF Restart, TypeInv, TypeOK, Idle, WorkerRecord, PCs
  <2> QED
    BY <1>6, <2>1 DEF Restart, TypeInv, TypeOK, CopiesCurrent, Idle
<1>7. CASE RecycleIngester
  BY <1>7 DEF RecycleIngester, WriteIngester, TypeInv, TypeOK, CopiesCurrent,
              tvars, bounds
<1> QED
  BY <1>1, <1>2, <1>3, <1>4, <1>5, <1>6, <1>7

LEMMA NextTypeInv ==
    ASSUME TypeInv, [Next]_vars
    PROVE  TypeInv'
<1>1. CASE UNCHANGED vars
  BY <1>1 DEF vars, others, tvars, ivars, bounds, TypeInv, TypeOK, CopiesCurrent
<1>2. CASE Next
  BY <1>2, TakeTypeInv, IngesterWritesTypeInv, TenantWritesTypeInv, UserTypeInv,
     SystemTypeInv
     DEF Next, WorkerStep
<1> QED
  BY <1>1, <1>2

\* Stored and cached objects, the queue and the worker stay well formed through
\* every interleaving of users, informers, the worker, the ingester controller,
\* failures and restarts.
THEOREM TypeCorrect == Spec => []TypeOK
<1>1. Init => TypeInv
  BY InitTypeInv
<1>2. TypeInv /\ [Next]_vars => TypeInv'
  BY NextTypeInv
<1>3. TypeInv => TypeOK
  BY DEF TypeInv
<1> QED
  BY <1>1, <1>2, <1>3, PTL DEF Spec

-----------------------------------------------------------------------------
(* Capacity and exclusiveness.                                             *)

\* What an ingester called n may hold.
Sound(n, i) ==
    /\ n \in AutoNames => Cardinality(i.tenants) <= Cap
    /\ \A s \in Services, t \in Tenants :
          n = OwnName(s, t) => i.excl /\ i.tenants \subseteq {SpecTenant[t]}

\* Capacity and ExclusiveIsolation are not inductive: placement copies cached
\* ingesters and writes the copies later, so all three must be sound.
SoundInv ==
    /\ TypeInv
    /\ \A n \in Names : ing[n] # Absent => Sound(n, ing[n])
    /\ \A n \in Names : cing[n] # Absent => Sound(n, cing[n])
    /\ w.pc = "write" => Sound(w.target, w.des)

LEMMA FiniteIds ==
    /\ IsFiniteSet(Ids)
    /\ \A i \in IngesterObject : IsFiniteSet(i.tenants) /\ Cardinality(i.tenants) \in Nat
<1>1. IsFiniteSet(Tenants)
  BY ConstantsAssumption
<1>2. IsFiniteSet({SpecTenant[t] : t \in Tenants})
  <2> DEFINE f == [t \in Tenants |-> SpecTenant[t]]
             S == {SpecTenant[t] : t \in Tenants}
  <2>1. f \in Surjection(Tenants, S)
    BY DEF Surjection
  <2> HIDE DEF f, S
  <2>2. IsFiniteSet(S)
    BY <1>1, <2>1, FS_Surjection
  <2> QED
    BY <2>2 DEF S
<1>3. IsFiniteSet(Ids)
  BY <1>1, <1>2, FS_Union DEF Ids
<1>4. ASSUME NEW i \in IngesterObject
      PROVE  IsFiniteSet(i.tenants) /\ Cardinality(i.tenants) \in Nat
  <2>1. i.tenants \subseteq Ids
    BY DEF IngesterObject
  <2> QED
    BY <1>3, <2>1, FS_Subset, FS_CardinalityType
<1> QED
  BY <1>3, <1>4

\* Shared and exclusive ingesters never share a name, and a name tells whose
\* an exclusive ingester is.
LEMMA NamesApart ==
    /\ \A s \in Services, t \in Tenants : OwnName(s, t) \notin AutoNames
    /\ \A s1, s2 \in Services, t1, t2 \in Tenants :
          OwnName(s1, t1) = OwnName(s2, t2) => t1 = t2
BY DEF OwnName, AutoNames, AutoName

\* A removal, a merge and the passing of time keep an ingester sound.
LEMMA SoundKept ==
    ASSUME NEW n \in Names, NEW t \in Tenants,
           NEW i \in IngesterObject, NEW j \in IngesterObject, Sound(n, i)
    PROVE  /\ Sound(n, RemoveTenant(t, i))
           /\ Sound(n, Merge(j, i))
           /\ Sound(n, Due(i))
<1>1. /\ Merge(j, i).tenants = i.tenants /\ (i.excl => Merge(j, i).excl)
      /\ Due(i).tenants = i.tenants /\ Due(i).excl = i.excl
      /\ RemoveTenant(t, i).tenants = i.tenants \ {SpecTenant[t]}
      /\ RemoveTenant(t, i).excl = i.excl
  BY DEF Merge, Due, RemoveTenant, IngesterObject
<1>2. /\ IsFiniteSet(i.tenants) /\ Cardinality(i.tenants) \in Nat
  BY FiniteIds
<1>3. Cardinality(i.tenants \ {SpecTenant[t]}) <= Cardinality(i.tenants)
      /\ Cardinality(i.tenants \ {SpecTenant[t]}) \in Nat
  BY <1>2, FS_Subset, FS_CardinalityType
<1>4. Cap \in Nat
  BY ConstantsAssumption
<1>5. Sound(n, RemoveTenant(t, i))
  BY <1>1, <1>2, <1>3, <1>4 DEF Sound
<1>6. Sound(n, Merge(j, i))
  BY <1>1 DEF Sound
<1>7. Sound(n, Due(i))
  BY <1>1 DEF Sound
<1> QED
  BY <1>5, <1>6, <1>7

\* A placement makes a sound ingester.
LEMMA SoundPlaced ==
    ASSUME TypeInv, NEW t \in Tenants, NEW obj \in TenantObject, obj.svc # NoLabel
    PROVE  /\ obj.excl => Sound(OwnName(obj.svc, t), NewIngester(t, obj))
           /\ \A n \in AutoNames : Sound(n, NewIngester(t, obj))
           /\ \A n \in AutoNames, i \in IngesterObject :
                 Cardinality(i.tenants) < Cap => Sound(n, AddTenantToIngester(t, i))
<1>1. /\ NewIngester(t, obj).tenants = {SpecTenant[t]}
      /\ NewIngester(t, obj).excl = obj.excl
  BY DEF NewIngester
<1>2. Cap \in Nat /\ Cap >= 1 /\ Cardinality({SpecTenant[t]}) = 1
  <2>1. Cap \in Nat /\ Cap >= 1
    BY ConstantsAssumption
  <2>2. \A x : Cardinality({x}) = 1
    BY FS_Singleton
  <2> QED
    BY <2>1, <2>2
<1>3. obj.excl => Sound(OwnName(obj.svc, t), NewIngester(t, obj))
  <2>1. obj.svc \in Services
    BY StorageResolved DEF TypeInv
  <2> QED
    BY <1>1, <2>1, NamesApart DEF Sound
<1>4. \A n \in AutoNames : Sound(n, NewIngester(t, obj))
  BY <1>1, <1>2, NamesApart DEF Sound
<1>5. ASSUME NEW n \in AutoNames, NEW i \in IngesterObject,
             Cardinality(i.tenants) < Cap
      PROVE  Sound(n, AddTenantToIngester(t, i))
  <2>1. AddTenantToIngester(t, i).tenants = i.tenants \cup {SpecTenant[t]}
    BY DEF AddTenantToIngester, IngesterObject
  <2>2. IsFiniteSet(i.tenants) /\ Cardinality(i.tenants) \in Nat
    BY FiniteIds
  <2>3. Cardinality(i.tenants \cup {SpecTenant[t]}) <= Cardinality(i.tenants) + 1
    <3>1. Cardinality(i.tenants \cup {SpecTenant[t]}) =
            IF SpecTenant[t] \in i.tenants THEN Cardinality(i.tenants)
                                          ELSE Cardinality(i.tenants) + 1
      BY <2>2, FS_AddElement
    <3> QED
      BY <2>2, <3>1
  <2>4. \A s \in Services, u \in Tenants : n # OwnName(s, u)
    BY NamesApart
  <2>5. IsFiniteSet(i.tenants \cup {SpecTenant[t]})
        /\ Cardinality(i.tenants \cup {SpecTenant[t]}) \in Nat
    BY <2>2, FS_AddElement, FS_CardinalityType
  <2>6. Cardinality(AddTenantToIngester(t, i).tenants) <= Cap
    BY <1>2, <1>5, <2>1, <2>2, <2>3, <2>5
  <2> QED
    BY <2>4, <2>6 DEF Sound
<1> QED
  BY <1>3, <1>4, <1>5

LEMMA InitSoundInv == Init => SoundInv
BY InitTypeInv DEF Init, SoundInv, Idle

\* A placement chooses an ingester with room, or names a new one, in the cache
\* it read: what it is about to write is sound.
LEMMA TakeSound ==
    ASSUME SoundInv, NEW t \in Tenants, TakeStep(t)
    PROVE  SoundInv'
<1>1. TypeInv /\ TypeInv'
  BY TakeTypeInv DEF SoundInv
<1>2. UNCHANGED ivars
  BY DEF TakeStep, Ignore, StartAddFinalizer, StartDeletion, StartReset,
         PlaceExclusive, AdoptListed, PlaceShared, Take, others
<1>3. SUFFICES w'.pc = "write" => Sound(w'.target, w'.des)
  BY <1>1, <1>2 DEF SoundInv, ivars
<1>4. CASE Ignore(t)
  BY <1>4 DEF Ignore, At, SoundInv
<1>5. CASE \/ StartAddFinalizer(t) \/ StartDeletion(t)
           \/ StartReset(t) \/ AdoptListed(t)
  BY <1>5 DEF StartAddFinalizer, StartDeletion, StartReset, AdoptListed, Working, Idle
<1>6. CASE PlaceExclusive(t)
  <2>1. ctenant[t] \in TenantObject /\ ctenant[t].svc # NoLabel
    BY <1>1, <1>6, WorkStarts DEF PlaceExclusive, Take
  <2> DEFINE d == NewIngester(t, ctenant[t])
             n == OwnName(ctenant[t].svc, t)
  <2>2. Sound(n, d)
    BY <1>1, <1>6, <2>1, SoundPlaced DEF PlaceExclusive
  <2>3. w' = [Working(t, "write") EXCEPT !.target = n, !.cp.status = n, !.des = d,
                                         !.ret = "status"]
    BY <1>6 DEF PlaceExclusive
  <2> HIDE DEF d, n
  <2>4. w'.target = n /\ w'.des = d
    BY <2>3 DEF Working, Idle
  <2> QED
    BY <2>2, <2>4
<1>7. CASE PlaceShared(t)
  <2>1. ctenant[t] \in TenantObject /\ ctenant[t].svc # NoLabel
    BY <1>1, <1>7, WorkStarts DEF PlaceShared, Take
  <2>2. PICK k \in Slots :
          /\ SlotFree(ctenant[t], k)
          /\ LET n == AutoName(ctenant[t].svc, GetStorage(ctenant[t]), k)
                 listed == n \in IngesterMapping(ctenant[t])
             IN  w' = [Working(t, "write") EXCEPT
                        !.target = n,
                        !.cp.status = n,
                        !.des = IF listed THEN AddTenantToIngester(t, cing[n])
                                          ELSE NewIngester(t, ctenant[t]),
                        !.hasRV = listed,
                        !.ret = "status"]
    BY <1>7 DEF PlaceShared, FirstFreeSlot
  <2> DEFINE n == AutoName(ctenant[t].svc, GetStorage(ctenant[t]), k)
             listed == n \in IngesterMapping(ctenant[t])
             d == IF listed THEN AddTenantToIngester(t, cing[n])
                            ELSE NewIngester(t, ctenant[t])
  <2>3. n \in AutoNames
    BY <1>1, <2>1, StorageResolved DEF AutoNames, TypeInv
  <2>4. listed => cing[n] \in IngesterObject /\ Cardinality(cing[n].tenants) < Cap
    BY <1>1, <2>2, <2>3 DEF SlotFree, IngesterMapping, TypeInv, TypeOK, Names
  <2>5. Sound(n, d)
    BY <1>1, <2>1, <2>3, <2>4, SoundPlaced
  <2>6. w' = [Working(t, "write") EXCEPT !.target = n, !.cp.status = n, !.des = d,
                                         !.hasRV = listed, !.ret = "status"]
    BY <2>2
  <2> HIDE DEF n, listed, d
  <2>7. w'.target = n /\ w'.des = d
    BY <2>6 DEF Working, Idle
  <2> QED
    BY <2>5, <2>7
<1> QED
  BY <1>4, <1>5, <1>6, <1>7 DEF TakeStep

\* The write stores what the worker holds, merged with the copy it just read.
LEMMA WriteSound ==
    ASSUME SoundInv,
           \/ RemoveFromIngester \/ CreateIngester \/ UpdateIngester
           \/ ConflictIngester \/ RefusedIngester
    PROVE  SoundInv'
<1> USE DEF At
<1>1. TypeInv /\ TypeInv'
  BY IngesterWritesTypeInv DEF SoundInv
<1>2. /\ w.pc \in {"remove", "write"}
      /\ w \in WorkerRecord /\ w.t \in Tenants /\ w.target \in Names
      /\ w.pc = "write" => w.des \in IngesterObject /\ Sound(w.target, w.des)
      /\ cing[w.target] # Absent =>
            cing[w.target] \in IngesterObject /\ Sound(w.target, cing[w.target])
  <2>1. w.pc \in {"remove", "write"}
    BY DEF RemoveFromIngester, CreateIngester, UpdateIngester, ConflictIngester,
           RefusedIngester
  <2> QED
    BY <1>1, <2>1, WorkerHolds DEF SoundInv, TypeInv, TypeOK
<1>3. CASE RemoveFromIngester
  <2> DEFINE r == RemoveTenant(w.t, cing[w.target])
  <2>1. cing[w.target] # Absent => Sound(w.target, r)
    BY <1>2, SoundKept
  <2>2. \/ /\ cing[w.target] # Absent
           /\ w' = [w EXCEPT !.pc = "write", !.des = r, !.hasRV = TRUE]
        \/ w' = [w EXCEPT !.pc = w.ret, !.target = None, !.ret = "idle",
                          !.missed = w.target \in staleI]
    BY <1>3 DEF RemoveFromIngester
  <2> HIDE DEF r
  <2>3. w'.pc = "write" => Sound(w'.target, w'.des)
    BY <1>2, <2>1, <2>2 DEF WorkerRecord
  <2> QED
    BY <1>1, <1>3, <2>3 DEF RemoveFromIngester, others, ivars, SoundInv
<1>4. CASE CreateIngester \/ UpdateIngester
  <2>1. /\ w.pc = "write" /\ w'.pc # "write" /\ UNCHANGED cing
    BY <1>2, <1>4 DEF CreateIngester, UpdateIngester, WriteDone, WorkerRecord
  <2>2. cing[w.target] # Absent => Sound(w.target, Merge(cing[w.target], w.des))
    BY <1>2, <2>1, SoundKept
  <2>3. PICK obj : WriteIngester(w.target, obj) /\ Sound(w.target, obj)
    BY <1>2, <1>4, <2>1, <2>2 DEF CreateIngester, UpdateIngester
  <2>4. \A n \in Names : ing'[n] # Absent => Sound(n, ing'[n])
    BY <1>1, <1>2, <2>3 DEF WriteIngester, SoundInv, TypeInv, TypeOK
  <2> QED
    BY <1>1, <2>1, <2>4 DEF SoundInv
<1>5. CASE ConflictIngester
  <2> DEFINE m == Merge(cing[w.target], w.des)
  <2>1. Sound(w.target, m)
    BY <1>2, <1>5, SoundKept DEF ConflictIngester
  <2>2. \/ w' = [w EXCEPT !.des = m, !.hasRV = TRUE]
        \/ w' = Idle
    BY <1>5 DEF ConflictIngester, Fail
  <2> HIDE DEF m
  <2>3. w'.pc = "write" => Sound(w'.target, w'.des)
    <3>1. CASE w' = [w EXCEPT !.des = m, !.hasRV = TRUE]
      <4>1. w'.target = w.target /\ w'.des = m
        BY <1>2, <3>1 DEF WorkerRecord
      <4> QED
        BY <2>1, <4>1
    <3>2. CASE w' = Idle
      BY <3>2 DEF Idle
    <3> QED
      BY <2>2, <3>1, <3>2
  <2> QED
    BY <1>1, <1>5, <2>3 DEF ConflictIngester, others, ivars, SoundInv
<1>6. CASE RefusedIngester
  BY <1>1, <1>6 DEF RefusedIngester, Fail, Idle, others, ivars, SoundInv
<1> QED
  BY <1>3, <1>4, <1>5, <1>6

\* Nobody else writes an ingester's tenants.
LEMMA OtherSound ==
    ASSUME SoundInv, TypeInv',
           \/ AddFinalizer \/ UpdateStatus \/ RemoveFinalizer \/ CleanStatus
           \/ Rest \/ ConflictTenant \/ TransientError \/ UserStep
           \/ \E t \in Tenants : SyncTenant(t)
           \/ \E n \in Names : DecideRecycle(n)
           \/ UNCHANGED vars
    PROVE  SoundInv'
<1>1. UNCHANGED <<ing, cing>>
  BY DEF AddFinalizer, UpdateStatus, RemoveFinalizer, WriteOwnCopy, CleanStatus,
         Rest, ConflictTenant, TransientError, UserStep, CreateTenant,
         RelabelTenant, DeleteTenant, UserEdit, SetServiceStorage, SyncTenant,
         DecideRecycle, vars, others, ivars
<1>2. w'.pc = "write" => w.pc = "write" /\ w'.target = w.target /\ w'.des = w.des
  <2>1. w \in WorkerRecord
    BY DEF SoundInv, TypeInv, TypeOK
  <2>2. CASE AddFinalizer \/ UpdateStatus \/ RemoveFinalizer
    BY <2>1, <2>2 DEF AddFinalizer, UpdateStatus, RemoveFinalizer, WriteOwnCopy,
                      WorkerRecord
  <2>3. CASE CleanStatus \/ Rest \/ ConflictTenant \/ TransientError
    BY <2>1, <2>3 DEF CleanStatus, Rest, ConflictTenant, TransientError, Fail, Idle,
                      WorkerRecord
  <2>4. CASE UserStep
    BY <2>1, <2>4 DEF UserStep, CreateTenant, RelabelTenant, DeleteTenant, UserEdit,
                      SetServiceStorage, WorkerRecord
  <2>5. CASE \/ \E t \in Tenants : SyncTenant(t)
             \/ \E n \in Names : DecideRecycle(n)
             \/ UNCHANGED vars
    BY <2>5 DEF SyncTenant, DecideRecycle, vars
  <2> QED
    BY <2>2, <2>3, <2>4, <2>5
<1> QED
  BY <1>1, <1>2 DEF SoundInv

LEMMA NextSound ==
    ASSUME SoundInv, [Next]_vars
    PROVE  SoundInv'
<1>1. TypeInv'
  BY NextTypeInv DEF SoundInv
<1>2. CASE \E n \in Names : SyncIngester(n)
  BY <1>1, <1>2 DEF SyncIngester, SoundInv, TypeInv, TypeOK
<1>3. CASE \E n \in Names : Elapse(n)
  <2>1. PICK n \in Names : Elapse(n)
    BY <1>3
  <2>2. \A i \in IngesterObject : Sound(n, i) => Sound(n, Due(i))
    BY DEF Due, Sound, IngesterObject
  <2>3. /\ \A m \in Names : ing'[m] # Absent => Sound(m, ing'[m])
        /\ \A m \in Names : cing'[m] # Absent => Sound(m, cing'[m])
    BY <2>1, <2>2 DEF Elapse, IsPending, SoundInv, TypeInv, TypeOK
  <2> QED
    BY <1>1, <2>1, <2>3 DEF Elapse, SoundInv
<1>4. CASE Restart
  BY <1>1, <1>4 DEF Restart, Idle, SoundInv
<1>5. CASE RecycleIngester
  BY <1>1, <1>5 DEF RecycleIngester, WriteIngester, SoundInv, TypeInv, TypeOK
<1> QED
  BY <1>1, <1>2, <1>3, <1>4, <1>5, TakeSound, WriteSound, OtherSound
     DEF Next, WorkerStep

LEMMA Soundness == Spec => []SoundInv
<1>1. Init => SoundInv
  BY InitSoundInv
<1>2. SoundInv /\ [Next]_vars => SoundInv'
  BY NextSound
<1> QED
  BY <1>1, <1>2, PTL DEF Spec

\* However many tenants are placed, edited and deleted at once, and however old
\* the ingesters are that placement counts: a shared ingester is never given
\* more than DefaultTenantsPerIngester tenants.
THEOREM CapacityHolds == Spec => []Capacity
<1>1. SoundInv => Capacity
  BY DEF SoundInv, Sound, Capacity, Names
<1> QED
  BY <1>1, Soundness, PTL

\* No interleaving puts another tenant on an exclusive ingester, or drops its
\* exclusive label.
THEOREM ExclusiveHolds == Spec => []ExclusiveIsolation
<1>1. SoundInv => ExclusiveIsolation
  BY DEF SoundInv, Sound, ExclusiveIsolation, Names, OwnNames
<1> QED
  BY <1>1, Soundness, PTL

-----------------------------------------------------------------------------
(* Settled.  Whether anything is left to do is decided on caches, so the   *)
(* invariant speaks of caches, and only at rest of stored objects.          *)

\* Ingester i, called n, is one a Tenant with these labels may stay on.
Suits(t, obj, n, i) ==
    /\ i # Absent
    /\ SpecTenant[t] \in i.tenants
    /\ i.svc = obj.svc
    /\ obj.stg # NoLabel => i.stg = GetStorage(obj)
    /\ obj.excl = (i.excl /\ NamedAfter(n, t))

\* As far as the caches show, the Tenant needs no reconcile.
Bound(t) ==
    /\ ctenant[t] # Absent
    /\ ~ctenant[t].deleting
    /\ ctenant[t].status # None
    /\ Suits(t, ctenant[t], ctenant[t].status, cing[ctenant[t].status])

\* A reconcile of the Tenant will start: queued, or a watch event is to come.
Woken(t) == t \in queue \cup staleT

\* Every Tenant with a service is woken, in work, or bound.
Owed ==
    \A t \in Tenants : tenant[t] # Absent /\ tenant[t].svc # NoLabel =>
        Woken(t) \/ (w.pc # "idle" /\ w.t = t) \/ Bound(t)

\* What the reconcile knows when nothing has happened to its Tenant since it
\* started: its last write will change the Tenant, and so wake it, unless the
\* Tenant is bound.
Writing == w.pc \in {"remove", "write"}
Leaving == w.pc \in {"clean", "unfinal"} \/ (Writing /\ w.ret = "clean")
Placement == w.pc = "status" \/ (Writing /\ w.ret = "status")
Concluding == (w.cp.deleting /\ ~w.cp.finI) \/ Bound(w.t)

Effective ==
    w.pc # "idle" /\ w.fresh /\ ~Woken(w.t) =>
        /\ w.pc = "addfin" => ~w.cp.finI
        /\ Leaving => w.cp.finI
        /\ Placement => w.cp.status # tenant[w.t].status \/ Concluding
        /\ w.pc = "rest" => Concluding

IngestersCurrent == \A n \in Names \ staleI : cing[n] = ing[n]

BoundInv == TypeInv /\ IngestersCurrent /\ Owed /\ Effective

LEMMA InitBoundInv == Init => BoundInv
BY InitTypeInv DEF Init, BoundInv, IngestersCurrent, Owed, Effective, Idle

\* What an ingester must keep for the Tenants bound to it.
LEMMA SuitsKept ==
    ASSUME NEW t, NEW obj, NEW n, NEW i, NEW j, Suits(t, obj, n, i),
           j # Absent, j.tenants = i.tenants, j.svc = i.svc, j.stg = i.stg,
           j.excl = i.excl
    PROVE  Suits(t, obj, n, j)
BY DEF Suits

\* A Tenant stays bound as long as its cache entry, that of its ingester and
\* its service's storage are what they were.
LEMMA BoundKept ==
    ASSUME NEW t \in Tenants, Bound(t), UNCHANGED svcStorage,
           ctenant'[t] = ctenant[t],
           cing'[ctenant[t].status] = cing[ctenant[t].status]
    PROVE  Bound(t)'
BY DEF Bound, Suits, GetStorage

\* While the caches stand still, so do the bindings read from them.
LEMMA BoundStill ==
    ASSUME UNCHANGED <<ctenant, cing, svcStorage>>, NEW t \in Tenants
    PROVE  Bound(t)' = Bound(t)
BY DEF Bound, Suits, GetStorage

-----------------------------------------------------------------------------
(* The reconcile starts.                                                   *)

\* A Tenant that is not reset and has a status is on a suitable ingester.
LEMMA KeptIsBound ==
    ASSUME TypeInv, NEW t \in Tenants, HasWork(t),
           ~NeedResetIngester(t, ctenant[t]), ctenant[t].status # None,
           ~ctenant[t].deleting
    PROVE  Bound(t)
BY DEF NeedResetIngester, Fits, HasWork, Bound, Suits

\* Taking a Tenant from the queue settles nothing about the others.
LEMMA TakeOwed ==
    ASSUME BoundInv, NEW t \in Tenants, TakeStep(t)
    PROVE  IngestersCurrent' /\ Owed'
<1>1. /\ w.pc = "idle" /\ queue' = queue \ {t} /\ UNCHANGED others
      /\ Ignore(t) \/ (w'.pc # "idle" /\ w'.t = t)
  <2>1. CASE Ignore(t)
    BY <2>1 DEF Ignore, At
  <2>2. CASE StartAddFinalizer(t) \/ StartDeletion(t) \/ StartReset(t)
    BY <2>2 DEF StartAddFinalizer, StartDeletion, StartReset, Take, At, Working, Idle
  <2>3. CASE PlaceExclusive(t) \/ AdoptListed(t) \/ PlaceShared(t)
    BY <2>3 DEF PlaceExclusive, AdoptListed, PlaceShared, Take, At, Working, Idle
  <2> QED
    BY <2>1, <2>2, <2>3 DEF TakeStep
<1>2. UNCHANGED <<tenant, ctenant, staleT, ing, cing, staleI, svcStorage>>
  BY <1>1 DEF others, tvars, ivars
<1>3. IngestersCurrent'
  BY <1>2 DEF BoundInv, IngestersCurrent
<1>4. ASSUME NEW u \in Tenants, tenant[u] # Absent, tenant[u].svc # NoLabel
      PROVE  Woken(u)' \/ (w'.pc # "idle" /\ w'.t = u) \/ Bound(u)'
  <2>1. CASE u = t
    <3>1. CASE Ignore(t)
      <4>1. t \in staleT
        BY <1>4, <2>1, <3>1 DEF Ignore, HasWork, BoundInv, TypeInv, CopiesCurrent
      <4> QED
        BY <1>2, <2>1, <4>1 DEF Woken
    <3> QED
      BY <1>1, <2>1, <3>1
  <2>2. CASE u # t
    <3>1. Woken(u) \/ Bound(u)
      BY <1>1, <1>4 DEF BoundInv, Owed
    <3>2. Woken(u) => Woken(u)'
      BY <1>1, <1>2, <2>2 DEF Woken
    <3> QED
      BY <1>2, <3>1, <3>2, BoundStill
  <2> QED
    BY <2>1, <2>2
<1> QED
  BY <1>2, <1>3, <1>4 DEF Owed

\* A reconcile starts with something to write, or on a bound Tenant.
LEMMA TakeEffective ==
    ASSUME BoundInv, NEW t \in Tenants, TakeStep(t)
    PROVE  Effective'
<1>1. CASE Ignore(t)
  BY <1>1 DEF Ignore, At, Effective
<1>2. CASE ~Ignore(t)
  <2>1. Take(t) /\ HasWork(t) /\ UNCHANGED others
    BY <1>2 DEF TakeStep, StartAddFinalizer, StartDeletion, StartReset,
                PlaceExclusive, AdoptListed, PlaceShared, Take
  <2>2. /\ ctenant[t] \in TenantObject
        /\ t \notin staleT => tenant[t] = ctenant[t]
        /\ UNCHANGED <<tenant, ctenant, staleT, cing, svcStorage>>
    BY <2>1, WorkStarts DEF BoundInv, others, tvars, ivars
  <2>3. CASE StartAddFinalizer(t)
    <3>1. /\ w'.pc = "addfin" /\ w'.ret = "idle" /\ w'.cp = ctenant[t]
          /\ ~ctenant[t].finI
      BY <2>3 DEF StartAddFinalizer, Working, Idle
    <3> QED
      BY <3>1 DEF Effective, Leaving, Placement, Writing
  <2>4. CASE StartDeletion(t)
    <3>1. /\ w'.pc \in {"clean", "remove"} /\ w'.ret \in {"idle", "clean"}
          /\ w'.cp.finI
      BY <2>2, <2>4 DEF StartDeletion, Working, Idle, TenantObject
    <3> QED
      BY <3>1 DEF Effective, Leaving, Placement, Writing
  <2>5. CASE StartReset(t)
    <3>1. /\ w'.pc = "remove" /\ w'.ret = "status" /\ w'.t = t
          /\ w'.cp.status = None /\ ctenant[t].status # None
      BY <2>2, <2>5 DEF StartReset, NeedResetIngester, Working, Idle, TenantObject
    <3> QED
      BY <2>2, <3>1 DEF Effective, Leaving, Placement, Writing, Woken
  <2>6. CASE PlaceExclusive(t) \/ AdoptListed(t) \/ PlaceShared(t)
    <3>1. /\ w'.pc \in {"write", "status"} /\ w'.ret \in {"status", "idle"}
          /\ w'.t = t /\ w'.cp.status # None
          /\ w'.cp = [ctenant[t] EXCEPT !.status = w'.cp.status]
      <4>1. PICK n : /\ n \in Names
                     /\ w'.pc \in {"write", "status"} /\ w'.ret \in {"status", "idle"}
                     /\ w'.t = t /\ w'.cp = [ctenant[t] EXCEPT !.status = n]
        <5>1. CASE PlaceExclusive(t)
          <6>1. OwnName(ctenant[t].svc, t) \in Names
            BY <2>1, <2>2, StorageResolved DEF HasWork, Names, OwnNames, BoundInv, TypeInv
          <6> QED
            BY <5>1, <6>1 DEF PlaceExclusive, Working, Idle
        <5>2. CASE AdoptListed(t)
          BY <5>2 DEF AdoptListed, IngesterMapping, Working, Idle
        <5>3. CASE PlaceShared(t)
          <6>1. ctenant[t].svc \in Services /\ GetStorage(ctenant[t]) \in StorageRefs
            BY <2>1, <2>2, StorageResolved DEF HasWork, BoundInv, TypeInv
          <6>2. \A i \in Slots :
                  AutoName(ctenant[t].svc, GetStorage(ctenant[t]), i) \in Names
            BY <6>1 DEF Names, AutoNames
          <6> QED
            BY <5>3, <6>2 DEF PlaceShared, Working, Idle
        <5> QED
          BY <2>6, <5>1, <5>2, <5>3
      <4>2. w'.cp.status = n
        BY <2>2, <4>1 DEF TenantObject
      <4> QED
        BY <4>1, <4>2, NothingAssumption
    <3>2. /\ Placing(t) /\ ~NeedResetIngester(t, ctenant[t])
      BY <2>6 DEF PlaceExclusive, AdoptListed, PlaceShared
    <3>3. w'.cp.deleting = ctenant[t].deleting /\ w'.cp.finI = ctenant[t].finI
      BY <2>2, <3>1 DEF TenantObject
    <3>4. \/ w'.cp.status # ctenant[t].status
          \/ w'.cp.deleting /\ ~w'.cp.finI
          \/ Bound(t)
      <4>1. CASE ctenant[t].deleting
        BY <3>2, <3>3, <4>1 DEF Placing
      <4>2. CASE ~ctenant[t].deleting /\ ctenant[t].status # None
        BY <2>1, <3>2, <4>2, KeptIsBound DEF BoundInv
      <4> QED
        BY <3>1, <4>1, <4>2
    <3>5. Bound(t) = Bound(t)'
      BY <2>2, BoundStill
    <3> QED
      BY <2>2, <3>1, <3>4, <3>5 DEF Effective, Leaving, Placement, Writing, Concluding, Woken
  <2> QED
    BY <1>2, <2>3, <2>4, <2>5, <2>6 DEF TakeStep
<1> QED
  BY <1>1, <1>2

-----------------------------------------------------------------------------
(* The reconcile goes on, ends or fails.                                   *)

\* A step of the worker that leaves its Tenant and the caches alone.
LEMMA WorkGoesOn ==
    ASSUME BoundInv, w.pc # "idle",
           UNCHANGED <<tenant, ctenant, staleT, cing, svcStorage, queue>>,
           w'.pc \notin {"idle", "addfin", "rest"},
           w'.t = w.t, w'.cp = w.cp, w'.fresh = w.fresh,
           Leaving' => Leaving, Placement' => Placement
    PROVE  Owed' /\ Effective'
<1>1. w.t \in Tenants
  BY WorkerHolds DEF BoundInv
<1>2. Owed'
  BY BoundStill DEF BoundInv, Owed, Woken
<1>3. Concluding' = Concluding
  BY <1>1, BoundStill DEF Concluding
<1>4. Effective'
  BY <1>3 DEF BoundInv, Effective, Woken
<1> QED
  BY <1>2, <1>4

\* An error queues the Tenant, whatever had been found out about it.
LEMMA FailOwed ==
    ASSUME BoundInv, w.pc # "idle", Fail,
           UNCHANGED <<tenant, ctenant, staleT, cing, svcStorage>>
    PROVE  Owed' /\ Effective'
<1>1. ASSUME NEW u \in Tenants, tenant[u] # Absent, tenant[u].svc # NoLabel
      PROVE  Woken(u)' \/ Bound(u)'
  <2>1. Woken(u) \/ w.t = u \/ Bound(u)
    BY <1>1 DEF BoundInv, Owed
  <2>2. Woken(u) \/ w.t = u => Woken(u)'
    BY DEF Woken, Fail
  <2> QED
    BY <2>1, <2>2, BoundStill
<1>2. Owed'
  BY <1>1 DEF Owed
<1>3. w'.pc = "idle"
  BY DEF Fail, Idle
<1> QED
  BY <1>2, <1>3 DEF Effective

\* An ingester that is written is an ingester whose cache entry is behind.
LEMMA WriteBehind ==
    ASSUME BoundInv, NEW n \in Names, NEW obj, WriteIngester(n, obj), UNCHANGED cing
    PROVE  IngestersCurrent'
BY DEF BoundInv, TypeInv, TypeOK, IngestersCurrent, WriteIngester

\* Writes of ingesters leave to a later watch event what they change.
LEMMA IngesterWritesBound ==
    ASSUME BoundInv,
           \/ RemoveFromIngester \/ CreateIngester \/ UpdateIngester
           \/ ConflictIngester \/ RefusedIngester
    PROVE  IngestersCurrent' /\ Owed' /\ Effective'
<1> USE DEF At
<1>1. /\ w.pc \in {"remove", "write"}
      /\ w \in WorkerRecord /\ w.target \in Names /\ w.ret \in {"clean", "status"}
      /\ UNCHANGED <<tenant, ctenant, staleT, cing, svcStorage>>
  <2>1. w.pc \in {"remove", "write"}
    BY DEF RemoveFromIngester, CreateIngester, UpdateIngester, ConflictIngester,
           RefusedIngester
  <2>2. UNCHANGED <<tenant, ctenant, staleT, cing, svcStorage>>
    BY DEF RemoveFromIngester, CreateIngester, UpdateIngester, ConflictIngester,
           RefusedIngester, others, tvars, ivars
  <2> QED
    BY <2>1, <2>2, WorkerHolds DEF BoundInv, WorkerRecord
<1>2. IngestersCurrent'
  <2>1. CASE RemoveFromIngester \/ ConflictIngester \/ RefusedIngester
    BY <2>1 DEF RemoveFromIngester, ConflictIngester, RefusedIngester, others, ivars,
                BoundInv, IngestersCurrent
  <2>2. CASE CreateIngester \/ UpdateIngester
    BY <1>1, <2>2, WriteBehind DEF CreateIngester, UpdateIngester
  <2> QED
    BY <2>1, <2>2
<1>3. CASE Fail
  BY <1>1, <1>2, <1>3, FailOwed
<1>4. CASE ~Fail
  <2>1. UNCHANGED queue
    BY <1>4 DEF RemoveFromIngester, CreateIngester, UpdateIngester, ConflictIngester,
                RefusedIngester
  <2>2. /\ w'.pc \in {"write", "clean", "status"}
        /\ w'.t = w.t /\ w'.cp = w.cp /\ w'.fresh = w.fresh
        /\ \/ w'.pc = "write" /\ w'.ret = w.ret
           \/ w'.pc = w.ret /\ w'.ret = "idle"
    <3>1. CASE RemoveFromIngester
      BY <1>1, <3>1 DEF RemoveFromIngester, WorkerRecord
    <3>2. CASE CreateIngester \/ UpdateIngester
      BY <1>1, <3>2 DEF CreateIngester, UpdateIngester, WriteDone, WorkerRecord
    <3>3. CASE ConflictIngester
      <4>1. PICK d : w' = [w EXCEPT !.des = d, !.hasRV = TRUE]
        BY <1>4, <3>3 DEF ConflictIngester
      <4>2. w.pc = "write"
        BY <3>3 DEF ConflictIngester
      <4> QED
        BY <1>1, <4>1, <4>2 DEF WorkerRecord
    <3> QED
      BY <1>4, <3>1, <3>2, <3>3 DEF RefusedIngester
  <2>3. (Leaving' => Leaving) /\ (Placement' => Placement)
    BY <1>1, <2>2 DEF Leaving, Placement, Writing
  <2> QED
    BY <1>1, <1>2, <2>1, <2>2, <2>3, WorkGoesOn
<1> QED
  BY <1>3, <1>4

\* A write of the worker's own Tenant: either it changes the Tenant, and the
\* watch event will wake it, or the write left it as it was.
LEMMA OwnCopyBound ==
    ASSUME BoundInv, w.pc # "idle", NEW obj \in TenantObject,
           WriteOwnCopy(obj, "rest"),
           Stored(obj) = tenant[w.t] /\ ~Woken(w.t) =>
              (obj.deleting /\ ~obj.finI) \/ Bound(w.t)
    PROVE  IngestersCurrent' /\ Owed' /\ Effective'
<1>1. /\ w \in WorkerRecord /\ w.t \in Tenants
      /\ UNCHANGED <<ctenant, ing, cing, staleI, svcStorage, queue>>
      /\ WriteTenant(w.t, Stored(obj))
  BY WorkerHolds DEF BoundInv, WriteOwnCopy, ivars
<1>2. /\ \A u \in Tenants : u # w.t => tenant'[u] = tenant[u]
      /\ staleT \subseteq staleT'
      /\ Stored(obj) # tenant[w.t] => w.t \in staleT'
  BY <1>1 DEF WriteTenant, BoundInv, TypeInv, TypeOK
<1>3. /\ w'.pc = "rest" /\ w'.ret = w.ret /\ w'.t = w.t
      /\ w'.fresh => w'.cp = obj
  BY <1>1 DEF WriteOwnCopy, WorkerRecord
<1>4. IngestersCurrent'
  BY <1>1 DEF BoundInv, IngestersCurrent
<1>5. Owed'
  <2>1. ASSUME NEW u \in Tenants, u # w.t, tenant[u] # Absent, tenant[u].svc # NoLabel
        PROVE  Woken(u)' \/ Bound(u)'
    <3>1. Woken(u) \/ Bound(u)
      BY <2>1 DEF BoundInv, Owed
    <3> QED
      BY <1>1, <1>2, <3>1, BoundStill DEF Woken
  <2> QED
    BY <1>2, <1>3, <2>1 DEF Owed
<1>6. ASSUME w'.fresh, ~Woken(w.t)'
      PROVE  Concluding'
  <2>1. Stored(obj) = tenant[w.t] /\ ~Woken(w.t)
    BY <1>1, <1>2, <1>3, <1>6 DEF Woken
  <2>2. Bound(w.t)' = Bound(w.t)
    BY <1>1, <1>3, BoundStill
  <2> QED
    BY <1>3, <1>6, <2>1, <2>2 DEF Concluding
<1>7. Effective'
  BY <1>3, <1>6 DEF Effective, Leaving, Placement, Writing
<1> QED
  BY <1>4, <1>5, <1>7

\* Only a reconcile that changes its Tenant, or finds it bound, ends well.
LEMMA TenantWritesBound ==
    ASSUME BoundInv,
           \/ AddFinalizer \/ UpdateStatus \/ RemoveFinalizer
           \/ CleanStatus \/ Rest \/ ConflictTenant
    PROVE  IngestersCurrent' /\ Owed' /\ Effective'
<1> USE DEF At
<1>1. /\ w.pc # "idle" /\ w \in WorkerRecord /\ w.t \in Tenants
      /\ w.cp \in TenantObject
      /\ w.fresh => /\ tenant[w.t] \in TenantObject /\ tenant[w.t] # Absent
                    /\ w.cp = [tenant[w.t] EXCEPT !.status = w.cp.status]
  <2>1. w.pc # "idle"
    BY DEF AddFinalizer, UpdateStatus, RemoveFinalizer, CleanStatus, Rest, ConflictTenant
  <2> QED
    BY <2>1, WorkerHolds DEF BoundInv, TypeInv, CopiesCurrent
<1>2. w.fresh => /\ w.cp.finI = tenant[w.t].finI
                 /\ w.cp.deleting = tenant[w.t].deleting
  BY <1>1 DEF TenantObject
<1>3. CASE AddFinalizer
  <2> DEFINE obj == [w.cp EXCEPT !.finI = TRUE]
  <2>1. w.pc = "addfin" /\ WriteOwnCopy(obj, "rest") /\ w.fresh
    BY <1>3 DEF AddFinalizer, WriteOwnCopy
  <2>2. obj \in TenantObject /\ obj.finI
    BY <1>1 DEF TenantObject
  <2>3. ~Woken(w.t) => ~tenant[w.t].finI
    BY <1>1, <1>2, <2>1 DEF BoundInv, Effective
  <2>4. ~Woken(w.t) => Stored(obj) # tenant[w.t]
    BY <1>1, <2>1, <2>2, <2>3, StoredType
  <2> HIDE DEF obj
  <2> QED
    BY <1>1, <2>1, <2>2, <2>4, OwnCopyBound
<1>4. CASE UpdateStatus
  <2>1. w.pc = "status" /\ WriteOwnCopy(w.cp, "rest") /\ w.fresh
    BY <1>4 DEF UpdateStatus, WriteOwnCopy
  <2>2. ~Woken(w.t) => w.cp.status # tenant[w.t].status \/ Concluding
    BY <1>1, <2>1 DEF BoundInv, Effective, Placement
  <2>3. Stored(w.cp) = tenant[w.t] => w.cp.status = tenant[w.t].status
    BY <1>1, <2>1, StoredType
  <2> QED
    BY <1>1, <2>1, <2>2, <2>3, OwnCopyBound DEF Concluding
<1>5. CASE RemoveFinalizer
  <2> DEFINE obj == [w.cp EXCEPT !.finI = FALSE, !.status = tenant[w.t].status]
  <2>1. w.pc = "unfinal" /\ WriteOwnCopy(obj, "rest") /\ w.fresh
    BY <1>5 DEF RemoveFinalizer, WriteOwnCopy
  <2>2. obj \in TenantObject /\ ~obj.finI
    BY <1>1, <2>1 DEF TenantObject
  <2>3. ~Woken(w.t) => tenant[w.t].finI
    BY <1>1, <1>2, <2>1 DEF BoundInv, Effective, Leaving
  <2>4. ~Woken(w.t) => Stored(obj) # tenant[w.t]
    BY <1>1, <2>1, <2>2, <2>3, StoredType
  <2> HIDE DEF obj
  <2> QED
    BY <1>1, <2>1, <2>2, <2>4, OwnCopyBound
<1>6. CASE CleanStatus
  <2>1. /\ w.pc = "clean" /\ staleI \subseteq staleI'
        /\ UNCHANGED <<tenant, ctenant, staleT, ing, cing, svcStorage>>
    BY <1>6 DEF CleanStatus, tvars
  <2>2. IngestersCurrent'
    BY <2>1 DEF BoundInv, IngestersCurrent
  <2>3. CASE Fail
    BY <1>1, <2>1, <2>2, <2>3, FailOwed
  <2>4. CASE w' = [w EXCEPT !.pc = "unfinal"] /\ UNCHANGED queue
    <3>1. /\ w'.pc = "unfinal" /\ w'.t = w.t /\ w'.cp = w.cp /\ w'.fresh = w.fresh
          /\ Leaving /\ ~Placement'
      BY <1>1, <2>1, <2>4 DEF WorkerRecord, Leaving, Placement, Writing
    <3> QED
      BY <1>1, <2>1, <2>2, <2>4, <3>1, WorkGoesOn
  <2> QED
    BY <1>6, <2>3, <2>4 DEF CleanStatus
<1>7. CASE Rest
  <2> DEFINE obj == [w.cp EXCEPT !.finC = ~w.cp.deleting]
  <2>1. /\ w.pc = "rest" /\ w.fresh /\ WriteTenant(w.t, Stored(obj)) /\ w' = Idle
        /\ UNCHANGED <<ctenant, ing, cing, staleI, svcStorage, queue>>
    BY <1>7 DEF Rest, ivars
  <2>2. w.cp.deleting /\ ~w.cp.finI => Stored(obj) = Absent
    BY <1>1 DEF Stored, TenantObject
  <2>3. ~Woken(w.t) => (w.cp.deleting /\ ~w.cp.finI) \/ Bound(w.t)
    BY <1>1, <2>1 DEF BoundInv, Effective, Concluding
  <2> HIDE DEF obj
  <2>4. /\ \A u \in Tenants : u # w.t => tenant'[u] = tenant[u]
        /\ staleT \subseteq staleT'
        /\ Stored(obj) # tenant[w.t] => w.t \in staleT'
    BY <1>1, <2>1 DEF WriteTenant, BoundInv, TypeInv, TypeOK
  <2>5. Woken(w.t) \/ w.t \in staleT' \/ Bound(w.t)
    BY <1>1, <2>1, <2>2, <2>3, <2>4
  <2>6. ASSUME NEW u \in Tenants, tenant'[u] # Absent, tenant'[u].svc # NoLabel
        PROVE  Woken(u)' \/ Bound(u)'
    <3>1. Woken(u) \/ u \in staleT' \/ Bound(u)
      BY <2>4, <2>5, <2>6 DEF BoundInv, Owed
    <3> QED
      BY <2>1, <2>4, <3>1, BoundStill DEF Woken
  <2>7. IngestersCurrent'
    BY <2>1 DEF BoundInv, IngestersCurrent
  <2> QED
    BY <2>1, <2>6, <2>7 DEF Owed, Effective, Idle
<1>8. CASE ConflictTenant
  <2>1. Fail /\ UNCHANGED <<tenant, ctenant, staleT, ing, cing, staleI, svcStorage>>
    BY <1>8 DEF ConflictTenant, others, tvars, ivars
  <2> QED
    BY <1>1, <2>1, FailOwed DEF BoundInv, IngestersCurrent
<1> QED
  BY <1>3, <1>4, <1>5, <1>6, <1>7, <1>8

-----------------------------------------------------------------------------
(* Users, informers, the ingester controller, failures and restarts.       *)

\* An edit puts the cache entry behind, and the event that refreshes it wakes
\* the Tenant.
LEMMA UserEditBound ==
    ASSUME BoundInv, NEW t \in Tenants, NEW obj, UserEdit(t, obj)
    PROVE  IngestersCurrent' /\ Owed' /\ Effective'
<1>1. /\ UNCHANGED <<ctenant, ing, cing, staleI, svcStorage, queue>>
      /\ \A u \in Tenants : u # t => tenant'[u] = tenant[u]
      /\ staleT \subseteq staleT'
      /\ tenant'[t] # tenant[t] => t \in staleT'
  BY DEF UserEdit, WriteTenant, ivars, BoundInv, TypeInv, TypeOK
<1>2. /\ w'.pc = w.pc /\ w'.t = w.t /\ w'.cp = w.cp /\ w'.ret = w.ret
      /\ w'.fresh => w.fresh /\ w.t # t
  BY DEF UserEdit, BoundInv, TypeInv, TypeOK, WorkerRecord
<1>3. \A u \in Tenants : Woken(u) => Woken(u)'
  BY <1>1 DEF Woken
<1>4. IngestersCurrent'
  BY <1>1 DEF BoundInv, IngestersCurrent
<1>5. Owed'
  <2>1. ASSUME NEW u \in Tenants, tenant'[u] # Absent, tenant'[u].svc # NoLabel
        PROVE  Woken(u)' \/ (w.pc # "idle" /\ w.t = u) \/ Bound(u)'
    <3>1. tenant'[u] # tenant[u] => Woken(u)'
      BY <1>1 DEF Woken
    <3> QED
      BY <1>1, <1>3, <2>1, <3>1, BoundStill DEF BoundInv, Owed
  <2> QED
    BY <1>2, <2>1 DEF Owed
<1>6. Effective'
  <2>1. SUFFICES ASSUME w.pc # "idle", w'.fresh, ~Woken(w.t)'
                 PROVE  Effective'
    BY <1>2 DEF Effective
  <2>2. w.t \in Tenants
    BY <2>1, WorkerHolds DEF BoundInv
  <2>3. /\ w.fresh /\ ~Woken(w.t) /\ tenant'[w.t] = tenant[w.t]
    BY <1>1, <1>2, <1>3, <2>1, <2>2
  <2>4. Concluding' = Concluding /\ Leaving' = Leaving /\ Placement' = Placement
    BY <1>1, <1>2, <2>2, BoundStill DEF Concluding, Leaving, Placement, Writing
  <2> QED
    BY <1>2, <2>1, <2>3, <2>4 DEF BoundInv, Effective
<1> QED
  BY <1>4, <1>5, <1>6

\* Nothing that a bound Tenant rests on changes without waking it: neither the
\* storage of its service, nor its own cache entry, nor that of its ingester.
LEMMA UnboundIsWoken ==
    ASSUME BoundInv, NEW u \in Tenants, Bound(u),
           \/ \E s \in Services, g \in StorageRefs : SetServiceStorage(s, g)
           \/ \E t \in Tenants : SyncTenant(t)
           \/ \E n \in Names : SyncIngester(n)
           \/ \E n \in Names : Elapse(n)
    PROVE  Woken(u)' \/ Bound(u)'
<1>1. CASE \E s \in Services, g \in StorageRefs : SetServiceStorage(s, g)
  <2>1. PICK s \in Services, g \in StorageRefs : SetServiceStorage(s, g)
    BY <1>1
  <2>2. /\ UNCHANGED <<ctenant, cing>>
        /\ svcStorage' = [svcStorage EXCEPT ![s] = g]
        /\ queue' = queue \cup WokenByService(s)
    BY <2>1 DEF SetServiceStorage, tvars, ivars
  <2>3. CASE ctenant[u].svc = s /\ ctenant[u].stg = Default
    BY <2>2, <2>3 DEF Bound, WokenByService, Woken
  <2>4. CASE ~(ctenant[u].svc = s /\ ctenant[u].stg = Default)
    <3>1. svcStorage \in [Services -> StorageRefs]
      BY DEF BoundInv, TypeInv, TypeOK
    <3>2. \/ ctenant[u].stg = NoLabel
          \/ GetStorage(ctenant[u])' = GetStorage(ctenant[u])
      BY <2>2, <2>4, <3>1 DEF GetStorage
    <3> QED
      BY <2>2, <3>2 DEF Bound, Suits
  <2> QED
    BY <2>3, <2>4
<1>2. CASE \E t \in Tenants : SyncTenant(t)
  <2>1. PICK t \in Tenants : SyncTenant(t)
    BY <1>2
  <2>2. CASE u = t
    BY <2>1, <2>2 DEF SyncTenant, Woken
  <2>3. CASE u # t
    <3>1. ctenant'[u] = ctenant[u] /\ UNCHANGED <<cing, svcStorage>>
      BY <2>1, <2>3 DEF SyncTenant, ivars, BoundInv, TypeInv, TypeOK
    <3> QED
      BY <3>1, BoundKept
  <2> QED
    BY <2>2, <2>3
<1>3. CASE \E n \in Names : SyncIngester(n)
  <2>1. PICK n \in Names : SyncIngester(n)
    BY <1>3
  <2>2. /\ UNCHANGED <<ctenant, svcStorage>> /\ cing' = [cing EXCEPT ![n] = ing[n]]
        /\ queue' = queue \cup TenantsListedBy(cing[n]) \cup TenantsListedBy(ing[n])
    BY <2>1 DEF SyncIngester, tvars
  <2>3. CASE ctenant[u].status = n
    <3>1. u \in TenantsListedBy(cing[n])
      BY <2>3 DEF Bound, Suits, TenantsListedBy
    <3> QED
      BY <2>2, <3>1 DEF Woken
  <2>4. CASE ctenant[u].status # n
    <3>1. cing'[ctenant[u].status] = cing[ctenant[u].status]
      BY <2>2, <2>4 DEF BoundInv, TypeInv, TypeOK
    <3> QED
      BY <2>2, <3>1, BoundKept
  <2> QED
    BY <2>3, <2>4
<1>4. CASE \E n \in Names : Elapse(n)
  <2>1. PICK n \in Names : Elapse(n)
    BY <1>4
  <2> DEFINE m == ctenant[u].status
  <2>2. /\ UNCHANGED <<ctenant, svcStorage>>
        /\ m \in Names /\ cing[m] \in IngesterObject /\ cing[m] # Absent
    BY <2>1 DEF Elapse, tvars, Bound, Suits, BoundInv, TypeInv, TypeOK, TenantObject
  <2>3. cing'[m] = cing[m] \/ (IsPending(cing[m]) /\ cing'[m] = Due(cing[m]))
    BY <2>1, <2>2 DEF Elapse, BoundInv, TypeInv, TypeOK
  <2>4. CASE cing'[m] = cing[m]
    BY <2>2, <2>4, BoundKept
  <2>5. CASE IsPending(cing[m]) /\ cing'[m] = Due(cing[m])
    <3>1. /\ cing'[m].tenants = cing[m].tenants /\ cing'[m].svc = cing[m].svc
          /\ cing'[m].stg = cing[m].stg /\ cing'[m].excl = cing[m].excl
      BY <2>2, <2>5 DEF Due, IngesterObject
    <3>2. cing'[m] # Absent
      BY <2>2, <2>5, NothingAssumption DEF Due, IngesterObject, Annotations
    <3>3. Suits(u, ctenant[u], m, cing'[m])
      BY <3>1, <3>2, SuitsKept DEF Bound
    <3> QED
      BY <2>2, <3>3 DEF Bound, Suits, GetStorage
  <2> QED
    BY <2>3, <2>4, <2>5
<1> QED
  BY <1>1, <1>2, <1>3, <1>4

LEMMA EnvironmentBound ==
    ASSUME BoundInv,
           \/ UserStep \/ TransientError \/ Restart \/ RecycleIngester
           \/ \E t \in Tenants : SyncTenant(t)
           \/ \E n \in Names : SyncIngester(n) \/ DecideRecycle(n) \/ Elapse(n)
           \/ UNCHANGED vars
    PROVE  IngestersCurrent' /\ Owed' /\ Effective'
<1>1. CASE \/ \E t \in Tenants, l \in Labelings : CreateTenant(t, l)
           \/ \E t \in Tenants, l \in Labelings : RelabelTenant(t, l)
           \/ \E t \in Tenants : DeleteTenant(t)
  BY <1>1, UserEditBound DEF CreateTenant, RelabelTenant, DeleteTenant
<1>2. CASE \/ \E s \in Services, g \in StorageRefs : SetServiceStorage(s, g)
           \/ \E t \in Tenants : SyncTenant(t)
           \/ \E n \in Names : SyncIngester(n)
           \/ \E n \in Names : Elapse(n)
  <2>1. IngestersCurrent'
    <3>1. CASE \/ \E s \in Services, g \in StorageRefs : SetServiceStorage(s, g)
               \/ \E t \in Tenants : SyncTenant(t)
      BY <3>1 DEF SetServiceStorage, SyncTenant, ivars, BoundInv, IngestersCurrent
    <3>2. CASE \E n \in Names : SyncIngester(n)
      BY <3>2 DEF SyncIngester, BoundInv, TypeInv, TypeOK, IngestersCurrent
    <3>3. CASE \E n \in Names : Elapse(n)
      BY <3>3 DEF Elapse, BoundInv, TypeInv, TypeOK, IngestersCurrent
    <3> QED
      BY <1>2, <3>1, <3>2, <3>3
  <2>2. UNCHANGED <<tenant, w>>
    BY <1>2 DEF SetServiceStorage, SyncTenant, SyncIngester, Elapse, tvars
  <2>3. \A u \in Tenants : Woken(u) => Woken(u)'
    BY <1>2 DEF SetServiceStorage, SyncTenant, SyncIngester, Elapse, tvars, Woken
  <2>4. \A u \in Tenants : Bound(u) => Woken(u)' \/ Bound(u)'
    BY <1>2, UnboundIsWoken
  <2>5. Owed'
    BY <2>2, <2>3, <2>4 DEF BoundInv, Owed
  <2>6. Effective'
    <3>1. w.pc # "idle" => w.t \in Tenants
      BY WorkerHolds DEF BoundInv
    <3> QED
      BY <2>2, <2>3, <2>4, <3>1
         DEF BoundInv, Effective, Leaving, Placement, Writing, Concluding
  <2> QED
    BY <2>1, <2>5, <2>6
<1>3. CASE TransientError
  <2>1. /\ w.pc # "idle" /\ Fail
        /\ UNCHANGED <<tenant, ctenant, staleT, ing, cing, staleI, svcStorage>>
    BY <1>3 DEF TransientError, tvars, ivars
  <2> QED
    BY <2>1, FailOwed DEF BoundInv, IngestersCurrent
<1>4. CASE Restart
  <2>1. /\ w'.pc = "idle" /\ UNCHANGED tenant /\ cing' = ing /\ UNCHANGED ing
        /\ queue' = {t \in Tenants : tenant[t] # Absent}
    BY <1>4 DEF Restart, Idle
  <2> QED
    BY <2>1 DEF IngestersCurrent, Owed, Effective, Woken
<1>5. CASE RecycleIngester \/ (\E n \in Names : DecideRecycle(n)) \/ UNCHANGED vars
  <2>1. UNCHANGED <<tenant, ctenant, staleT, cing, svcStorage, queue, w>>
    BY <1>5 DEF RecycleIngester, DecideRecycle, vars, others, tvars, ivars
  <2>2. IngestersCurrent'
    <3>1. CASE RecycleIngester
      BY <3>1, WriteBehind DEF RecycleIngester, BoundInv, TypeInv, TypeOK
    <3> QED
      BY <1>5, <3>1 DEF DecideRecycle, vars, others, ivars, BoundInv, IngestersCurrent
  <2>3. Owed'
    BY <2>1, BoundStill DEF BoundInv, Owed, Woken
  <2>4. Effective'
    <3>1. w.pc # "idle" => w.t \in Tenants
      BY WorkerHolds DEF BoundInv
    <3> QED
      BY <2>1, <3>1, BoundStill
         DEF BoundInv, Effective, Woken, Leaving, Placement, Writing, Concluding
  <2> QED
    BY <2>2, <2>3, <2>4
<1> QED
  BY <1>1, <1>2, <1>3, <1>4, <1>5 DEF UserStep

LEMMA NextBound ==
    ASSUME BoundInv, [Next]_vars
    PROVE  BoundInv'
<1>1. TypeInv'
  BY NextTypeInv DEF BoundInv
<1>2. IngestersCurrent' /\ Owed' /\ Effective'
  BY TakeOwed, TakeEffective, IngesterWritesBound, TenantWritesBound, EnvironmentBound
     DEF Next, WorkerStep
<1> QED
  BY <1>1, <1>2 DEF BoundInv

\* When the tenant controller has nothing queued, running or on its way to a
\* cache, every Tenant with a service is bound to an ingester that exists, lists
\* it and fits its labels, and none waits to be deleted: no conflict, lost
\* update, recycled ingester, failed call or restart leaves a Tenant behind
\* that nothing will wake.
THEOREM SettledHolds == Spec => []Settled
<1>1. Init => BoundInv
  BY InitBoundInv
<1>2. BoundInv /\ [Next]_vars => BoundInv'
  BY NextBound
<1>3. BoundInv => Settled
  <2>1. SUFFICES ASSUME BoundInv, Quiet, NEW t \in Tenants,
                        tenant[t] # Absent, tenant[t].svc # NoLabel
                 PROVE  ~tenant[t].deleting /\ Placed(t)
    BY DEF Settled
  <2>2. Bound(t) /\ ctenant[t] = tenant[t]
    BY <2>1 DEF BoundInv, Owed, Woken, Quiet, TypeInv, CopiesCurrent
  <2>3. tenant[t].status \in Names
    BY <2>1, <2>2 DEF BoundInv, TypeInv, TypeOK, TenantObject, Bound
  <2>4. cing[tenant[t].status] = ing[tenant[t].status]
    BY <2>1, <2>3 DEF BoundInv, IngestersCurrent, Quiet
  <2> QED
    BY <2>2, <2>4 DEF Bound, Suits, Placed
<1> QED
  BY <1>1, <1>2, <1>3, PTL DEF Spec

-----------------------------------------------------------------------------
(* UnboundBeforeRelease.  The finalizer comes off at the end of a reconcile *)
(* whose removal from the ingester was decided on a cached copy.  A copy    *)
(* that lists the Tenant leads to a write, which the API server refuses     *)
(* while the copy is behind; one that does not leads to none, and is wrong  *)
(* only if it was behind.                                                   *)

\* The ingester of the status has dropped the Tenant.
Dropped(t) ==
    \/ ing[tenant[t].status] = Absent
    \/ SpecTenant[t] \notin ing[tenant[t].status].tenants

\* A reconcile that releases its Tenant removes it from the ingester of its
\* status, by an update and not by a creation, before it goes on.
Releasing ==
    w.fresh =>
        /\ Writing /\ w.ret = "clean" => w.target = tenant[w.t].status
        /\ w.pc = "write" /\ w.ret = "clean" =>
              w.hasRV /\ SpecTenant[w.t] \notin w.des.tenants
        /\ w.pc \in {"clean", "unfinal"} =>
              w.missed \/ tenant[w.t].status = None \/ Dropped(w.t)

ReleaseInv == BoundInv /\ Releasing

\* A step that leaves the worker alone, or makes its copy out of date, leaves
\* the release prepared: the others never add a tenant to an ingester.
LEMMA OthersRelease ==
    ASSUME Releasing,
           w'.fresh => w.fresh /\ w' = w /\ tenant'[w.t] = tenant[w.t],
           \A n \in Names : \/ ing'[n] = ing[n] \/ ing'[n] = Absent
                            \/ ing[n] # Absent /\ ing'[n].tenants = ing[n].tenants,
           w.fresh => tenant[w.t].status \in Names \cup {None}
    PROVE  Releasing'
BY DEF Releasing, Writing, Dropped

\* Steps that leave the ingesters alone and end the reconcile, or any of whose
\* next states is not about a release.
LEMMA NotReleasing ==
    ASSUME w'.pc \in {"idle", "addfin", "status", "rest"}
           \/ (w'.pc \in {"remove", "write"} /\ w'.ret = "status")
    PROVE  Releasing'
BY DEF Releasing, Writing

LEMMA TakeRelease ==
    ASSUME ReleaseInv, NEW t \in Tenants, TakeStep(t)
    PROVE  Releasing'
<1>1. CASE Ignore(t)
  BY <1>1 DEF Ignore, others, tvars, ivars, ReleaseInv, Releasing, Writing, Dropped
<1>2. CASE StartDeletion(t)
  <2>1. /\ HasWork(t) /\ UNCHANGED tenant
        /\ w'.fresh = (t \notin staleT)
    BY <1>2 DEF StartDeletion, Take, others, tvars, Working, Idle
  <2>2. w'.fresh => ctenant[t] = tenant[t]
    BY <2>1 DEF ReleaseInv, BoundInv, TypeInv, CopiesCurrent
  <2>3. \/ ctenant[t].status = None /\ w'.pc = "clean" /\ w'.t = t
        \/ /\ w'.pc = "remove" /\ w'.t = t /\ w'.ret = "clean"
           /\ w'.target = ctenant[t].status
    BY <1>2 DEF StartDeletion, Working, Idle
  <2> QED
    BY <2>1, <2>2, <2>3 DEF Releasing, Writing
<1>3. CASE StartAddFinalizer(t) \/ StartReset(t)
  BY <1>3, NotReleasing DEF StartAddFinalizer, StartReset, Working, Idle
<1>4. CASE PlaceExclusive(t) \/ AdoptListed(t) \/ PlaceShared(t)
  BY <1>4, NotReleasing DEF PlaceExclusive, AdoptListed, PlaceShared, Working, Idle
<1> QED
  BY <1>1, <1>2, <1>3, <1>4 DEF TakeStep

\* What the removal writes is what the Tenant's ingester holds afterwards, and
\* an entry that is current and has nothing to remove is the ingester stored.
LEMMA WriteRelease ==
    ASSUME ReleaseInv,
           \/ RemoveFromIngester \/ CreateIngester \/ UpdateIngester
           \/ ConflictIngester \/ RefusedIngester
    PROVE  Releasing'
<1> USE DEF At
<1>1. /\ Writing /\ w \in WorkerRecord /\ w.t \in Tenants /\ w.target \in Names
      /\ w.ret \in {"clean", "status"}
      /\ w.pc = "write" => w.des \in IngesterObject
      /\ UNCHANGED tenant
      /\ w.target \notin staleI => cing[w.target] = ing[w.target]
  <2>1. w.pc \in {"remove", "write"}
    BY DEF RemoveFromIngester, CreateIngester, UpdateIngester, ConflictIngester,
           RefusedIngester
  <2>2. UNCHANGED tenant
    BY DEF RemoveFromIngester, CreateIngester, UpdateIngester, ConflictIngester,
           RefusedIngester, others, tvars
  <2>3. /\ w \in WorkerRecord /\ w.t \in Tenants /\ w.target \in Names
        /\ w.ret # "idle"
        /\ w.pc = "write" => w.des \in IngesterObject
    BY <2>1, WorkerHolds DEF ReleaseInv, BoundInv
  <2> QED
    BY <2>1, <2>2, <2>3 DEF WorkerRecord, Writing, ReleaseInv, BoundInv, IngestersCurrent
<1>2. w.fresh /\ w.ret = "clean" =>
        /\ w.target = tenant[w.t].status
        /\ w.pc = "write" => w.hasRV /\ SpecTenant[w.t] \notin w.des.tenants
  BY <1>1 DEF ReleaseInv, Releasing
<1>3. CASE Fail
  BY <1>3, NotReleasing DEF Fail, Idle
<1>4. CASE RemoveFromIngester
  <2>1. w.pc = "remove" /\ UNCHANGED <<ing, cing>>
    BY <1>4 DEF RemoveFromIngester, others, ivars
  <2>2. CASE cing[w.target] # Absent /\ SpecTenant[w.t] \in cing[w.target].tenants
    <3> DEFINE r == RemoveTenant(w.t, cing[w.target])
    <3>1. SpecTenant[w.t] \notin r.tenants
      BY <1>1, <2>2 DEF RemoveTenant, ReleaseInv, BoundInv, TypeInv, TypeOK,
                        IngesterObject
    <3>2. w' = [w EXCEPT !.pc = "write", !.des = r, !.hasRV = TRUE]
      BY <1>1, <1>4, <2>2 DEF RemoveFromIngester
    <3> HIDE DEF r
    <3>3. /\ w'.pc = "write" /\ w'.des = r /\ w'.hasRV /\ w'.t = w.t
          /\ w'.fresh = w.fresh /\ w'.ret = w.ret /\ w'.target = w.target
      BY <1>1, <3>2 DEF WorkerRecord
    <3> QED
      BY <1>1, <1>2, <3>1, <3>3 DEF Releasing
  <2>3. CASE ~(cing[w.target] # Absent /\ SpecTenant[w.t] \in cing[w.target].tenants)
    <3>1. w' = [w EXCEPT !.pc = w.ret, !.target = None, !.ret = "idle",
                         !.missed = w.target \in staleI]
      BY <1>1, <1>4, <2>3 DEF RemoveFromIngester
    <3>2. /\ w'.pc = w.ret /\ w'.t = w.t /\ w'.fresh = w.fresh /\ w'.ret = "idle"
          /\ w'.missed = (w.target \in staleI)
      BY <1>1, <3>1 DEF WorkerRecord
    <3>3. CASE w.ret = "clean"
      BY <1>1, <1>2, <2>1, <2>3, <3>2, <3>3 DEF Releasing, Writing, Dropped
    <3> QED
      BY <1>1, <3>2, <3>3, NotReleasing
  <2> QED
    BY <2>2, <2>3
<1>5. CASE CreateIngester \/ UpdateIngester
  <2>1. /\ w.pc = "write" /\ w'.pc = w.ret /\ w'.t = w.t /\ w'.fresh = w.fresh
        /\ w'.ret = "idle"
    BY <1>1, <1>5 DEF CreateIngester, UpdateIngester, WriteDone, WorkerRecord
  <2>2. CASE w.ret = "clean" /\ w.fresh
    <3>1. UpdateIngester
      BY <1>2, <1>5, <2>1, <2>2 DEF CreateIngester
    <3>2. Merge(cing[w.target], w.des).tenants = w.des.tenants
      BY <1>1, <2>1 DEF Merge, IngesterObject
    <3>3. ing'[w.target] = Merge(cing[w.target], w.des)
      BY <1>1, <3>1 DEF UpdateIngester, WriteIngester, ReleaseInv, BoundInv, TypeInv,
                        TypeOK
    <3>4. Dropped(w.t)'
      BY <1>1, <1>2, <2>1, <2>2, <3>2, <3>3 DEF Dropped
    <3> QED
      BY <2>1, <2>2, <3>4 DEF Releasing, Writing
  <2>3. CASE ~w.fresh
    BY <2>1, <2>3 DEF Releasing
  <2> QED
    BY <1>1, <2>1, <2>2, <2>3, NotReleasing
<1>6. CASE ConflictIngester
  <2> DEFINE m == Merge(cing[w.target], w.des)
  <2>1. w.pc = "write" /\ (Fail \/ w' = [w EXCEPT !.des = m, !.hasRV = TRUE])
    BY <1>6 DEF ConflictIngester
  <2>2. m.tenants = w.des.tenants
    BY <1>1, <2>1 DEF Merge, IngesterObject
  <2> HIDE DEF m
  <2>3. CASE w' = [w EXCEPT !.des = m, !.hasRV = TRUE]
    <3>1. /\ w'.pc = "write" /\ w'.des = m /\ w'.hasRV /\ w'.t = w.t
          /\ w'.fresh = w.fresh /\ w'.ret = w.ret /\ w'.target = w.target
      BY <1>1, <2>1, <2>3 DEF WorkerRecord
    <3> QED
      BY <1>1, <1>2, <2>1, <2>2, <3>1 DEF Releasing
  <2> QED
    BY <1>3, <2>1, <2>3
<1>7. CASE RefusedIngester
  BY <1>3, <1>7 DEF RefusedIngester
<1> QED
  BY <1>4, <1>5, <1>6, <1>7

\* The rest of the system leaves a release prepared.
LEMMA NextReleasing ==
    ASSUME ReleaseInv, [Next]_vars
    PROVE  Releasing'
<1> USE DEF At
<1>1. w \in WorkerRecord /\ (w.fresh => tenant[w.t].status \in Names \cup {None})
  BY WorkerHolds DEF ReleaseInv, BoundInv, TypeInv, TypeOK, CopiesCurrent, TenantObject
<1>2. CASE AddFinalizer \/ UpdateStatus \/ RemoveFinalizer
  <2>1. w'.pc = "rest"
    BY <1>1, <1>2 DEF AddFinalizer, UpdateStatus, RemoveFinalizer, WriteOwnCopy,
                      WorkerRecord
  <2> QED
    BY <2>1, NotReleasing
<1>3. CASE Rest \/ ConflictTenant \/ TransientError \/ Restart
  BY <1>3, NotReleasing DEF Rest, ConflictTenant, TransientError, Restart, Fail, Idle
<1>4. CASE CleanStatus
  <2>1. CASE Fail
    BY <2>1, NotReleasing DEF Fail, Idle
  <2>2. CASE w' = [w EXCEPT !.pc = "unfinal"]
    <3>1. /\ w.pc = "clean" /\ w'.pc = "unfinal" /\ w'.t = w.t /\ w'.fresh = w.fresh
          /\ w'.missed = w.missed
          /\ UNCHANGED <<tenant, ing>>
      BY <1>1, <1>4, <2>2 DEF CleanStatus, WorkerRecord, tvars
    <3> QED
      BY <3>1 DEF ReleaseInv, Releasing, Writing, Dropped
  <2> QED
    BY <1>4, <2>1, <2>2 DEF CleanStatus
<1>5. CASE \/ \E t \in Tenants : SyncTenant(t)
           \/ \E n \in Names : SyncIngester(n) \/ DecideRecycle(n)
           \/ UNCHANGED vars
  <2>1. UNCHANGED <<tenant, ing, w>>
    BY <1>5 DEF SyncTenant, SyncIngester, DecideRecycle, vars, others, tvars, ivars
  <2> QED
    BY <1>1, <2>1, OthersRelease DEF ReleaseInv
<1>6. CASE RecycleIngester \/ \E n \in Names : Elapse(n)
  <2>1. UNCHANGED <<tenant, w>>
    BY <1>6 DEF RecycleIngester, Elapse, tvars
  <2>2. \A n \in Names : \/ ing'[n] = ing[n] \/ ing'[n] = Absent
                         \/ ing[n] # Absent /\ ing'[n].tenants = ing[n].tenants
    <3>1. \A i \in IngesterObject : Due(i).tenants = i.tenants
      BY DEF Due, IngesterObject
    <3> QED
      BY <1>6, <3>1 DEF RecycleIngester, WriteIngester, Elapse, IsPending, ReleaseInv,
                        BoundInv, TypeInv, TypeOK
  <2> QED
    BY <1>1, <2>1, <2>2, OthersRelease DEF ReleaseInv
<1>7. CASE UserStep
  <2>1. ASSUME NEW t \in Tenants, NEW obj, UserEdit(t, obj)
        PROVE  Releasing'
    <3>1. /\ UNCHANGED ing
          /\ w'.fresh => w.fresh /\ w' = w /\ tenant'[w.t] = tenant[w.t]
      BY <1>1, <2>1 DEF UserEdit, WriteTenant, ivars, ReleaseInv, BoundInv, TypeInv,
                        TypeOK, WorkerRecord, CopiesCurrent
    <3> QED
      BY <1>1, <3>1, OthersRelease DEF ReleaseInv
  <2>2. CASE \E s \in Services, g \in StorageRefs : SetServiceStorage(s, g)
    <3>1. UNCHANGED <<tenant, ing, w>>
      BY <2>2 DEF SetServiceStorage, tvars, ivars
    <3> QED
      BY <1>1, <3>1, OthersRelease DEF ReleaseInv
  <2> QED
    BY <1>7, <2>1, <2>2 DEF UserStep, CreateTenant, RelabelTenant, DeleteTenant
<1> QED
  BY <1>2, <1>3, <1>4, <1>5, <1>6, <1>7, TakeRelease, WriteRelease DEF Next, WorkerStep

\* The ingester finalizer of a Tenant is taken off in one place.
LEMMA OneReleases ==
    ASSUME BoundInv, [Next]_vars, NEW t \in Tenants,
           tenant[t] # Absent, tenant[t].finI,
           tenant'[t] = Absent \/ ~tenant'[t].finI
    PROVE  RemoveFinalizer /\ w.t = t
<1> USE DEF At
<1>1. tenant[t] \in TenantObject
  BY DEF BoundInv, TypeInv, TypeOK
<1>2. tenant'[t] # tenant[t]
  OBVIOUS
<1>3. \A obj \in TenantObject : obj.finI => Stored(obj) = obj
  BY DEF Stored
<1>4. ASSUME NEW obj \in TenantObject, obj.finI, WriteTenant(t, Stored(obj))
      PROVE  FALSE
  <2>1. tenant'[t] = obj
    BY <1>3, <1>4 DEF WriteTenant, BoundInv, TypeInv, TypeOK
  <2> QED
    BY <1>4, <2>1, NothingAssumption
<1>5. ASSUME NEW u \in Tenants, NEW obj, WriteTenant(u, obj)
      PROVE  u = t
  BY <1>2, <1>5 DEF WriteTenant, BoundInv, TypeInv, TypeOK
<1>6. ASSUME w.pc # "idle", w.fresh, w.t = t
      PROVE  w.cp \in TenantObject /\ w.cp.finI
  BY <1>1, <1>6, WorkerHolds DEF BoundInv, TypeInv, CopiesCurrent, TenantObject
<1>7. CASE UserStep
  <2>1. ASSUME NEW u \in Tenants, NEW l \in Labelings, CreateTenant(u, l)
        PROVE  FALSE
    BY <1>5, <2>1 DEF CreateTenant, UserEdit
  <2>2. ASSUME NEW u \in Tenants, NEW l \in Labelings, RelabelTenant(u, l)
        PROVE  FALSE
    <3> DEFINE obj == [tenant[t] EXCEPT !.svc = l.svc, !.stg = l.stg, !.excl = l.excl]
    <3>1. WriteTenant(t, obj)
      BY <1>5, <2>2 DEF RelabelTenant, UserEdit
    <3>2. l \in LabelSets
      BY ConstantsAssumption
    <3>3. obj \in TenantObject /\ obj.finI
      BY <1>1, <3>2 DEF TenantObject, LabelSets
    <3>4. Stored(obj) = obj
      BY <1>3, <3>3
    <3> HIDE DEF obj
    <3> QED
      BY <1>4, <3>1, <3>3, <3>4
  <2>3. ASSUME NEW u \in Tenants, DeleteTenant(u)
        PROVE  FALSE
    <3> DEFINE obj == [tenant[t] EXCEPT !.deleting = TRUE]
    <3>1. WriteTenant(t, Stored(obj))
      BY <1>5, <2>3 DEF DeleteTenant, UserEdit
    <3>2. obj \in TenantObject /\ obj.finI
      BY <1>1 DEF TenantObject
    <3> HIDE DEF obj
    <3> QED
      BY <1>4, <3>1, <3>2
  <2>4. ASSUME NEW s \in Services, NEW g \in StorageRefs, SetServiceStorage(s, g)
        PROVE  FALSE
    BY <1>2, <2>4 DEF SetServiceStorage, tvars
  <2> QED
    BY <1>7, <2>1, <2>2, <2>3, <2>4 DEF UserStep
<1>8. CASE AddFinalizer \/ UpdateStatus \/ RemoveFinalizer \/ Rest
  <2>1. w.pc # "idle" /\ w.fresh /\ \E obj : WriteTenant(w.t, obj)
    BY <1>8 DEF AddFinalizer, UpdateStatus, RemoveFinalizer, Rest, WriteOwnCopy
  <2>2. w.t = t /\ w.cp \in TenantObject /\ w.cp.finI
    BY <1>5, <1>6, <2>1, WorkerHolds DEF BoundInv
  <2>3. CASE AddFinalizer
    <3> DEFINE obj == [w.cp EXCEPT !.finI = TRUE]
    <3>1. WriteTenant(t, Stored(obj))
      BY <2>2, <2>3 DEF AddFinalizer, WriteOwnCopy
    <3>2. obj \in TenantObject /\ obj.finI
      BY <2>2 DEF TenantObject
    <3> HIDE DEF obj
    <3> QED
      BY <1>4, <3>1, <3>2
  <2>4. CASE UpdateStatus
    BY <1>4, <2>2, <2>4 DEF UpdateStatus, WriteOwnCopy
  <2>5. CASE Rest
    <3> DEFINE obj == [w.cp EXCEPT !.finC = ~w.cp.deleting]
    <3>1. WriteTenant(t, Stored(obj))
      BY <2>2, <2>5 DEF Rest
    <3>2. obj \in TenantObject /\ obj.finI
      BY <2>2 DEF TenantObject
    <3> HIDE DEF obj
    <3> QED
      BY <1>4, <3>1, <3>2
  <2> QED
    BY <1>8, <2>2, <2>3, <2>4, <2>5
<1>9. CASE \/ \E u \in Tenants : TakeStep(u)
           \/ RemoveFromIngester \/ CreateIngester \/ UpdateIngester
           \/ ConflictIngester \/ RefusedIngester
  <2>1. UNCHANGED tenant
    <3>1. CASE \E u \in Tenants : TakeStep(u)
      BY <3>1 DEF TakeStep, Ignore, StartAddFinalizer, StartDeletion, StartReset,
                  PlaceExclusive, AdoptListed, PlaceShared, Take, others, tvars
    <3> QED
      BY <1>9, <3>1 DEF RemoveFromIngester, CreateIngester, UpdateIngester,
                        ConflictIngester, RefusedIngester, others, tvars
  <2> QED
    BY <1>2, <2>1
<1>10. CASE \/ CleanStatus \/ ConflictTenant
            \/ \E u \in Tenants : SyncTenant(u)
            \/ \E n \in Names : SyncIngester(n) \/ DecideRecycle(n) \/ Elapse(n)
            \/ TransientError \/ Restart \/ RecycleIngester \/ UNCHANGED vars
  <2>1. UNCHANGED tenant
    BY <1>10 DEF CleanStatus, ConflictTenant, SyncTenant, SyncIngester, DecideRecycle,
                 Elapse, TransientError, Restart, RecycleIngester, vars, others, tvars
  <2> QED
    BY <1>2, <2>1
<1> QED
  BY <1>7, <1>8, <1>9, <1>10 DEF Next, WorkerStep

\* However far the caches are behind, the ingester finalizer of a Tenant comes
\* off only after the ingester its status names has dropped it, unless the
\* removal found nothing in an entry that was behind: edits, conflicts, retries,
\* recycling, failed calls and restarts between the removal and the release do
\* not bring the binding back.
THEOREM UnboundHolds == Spec => UnboundBeforeRelease
<1>1. Init => ReleaseInv
  <2>1. Init => Releasing
    BY DEF Init, Idle, Releasing
  <2> QED
    BY <2>1, InitBoundInv DEF ReleaseInv
<1>2. ReleaseInv /\ [Next]_vars => ReleaseInv'
  BY NextBound, NextReleasing DEF ReleaseInv
<1> DEFINE Release == \A t \in Tenants :
              (/\ tenant[t] # Absent /\ tenant[t].finI /\ tenant[t].status # None
               /\ (tenant'[t] = Absent \/ ~tenant'[t].finI)) =>
                  \/ w.missed
                  \/ ing[tenant[t].status] = Absent
                  \/ SpecTenant[t] \notin ing[tenant[t].status].tenants
<1>3. ReleaseInv /\ [Next]_vars => [Release]_vars
  <2>1. SUFFICES ASSUME ReleaseInv, [Next]_vars, NEW t \in Tenants,
                        tenant[t] # Absent, tenant[t].finI, tenant[t].status # None,
                        tenant'[t] = Absent \/ ~tenant'[t].finI
                 PROVE  \/ w.missed
                        \/ ing[tenant[t].status] = Absent
                        \/ SpecTenant[t] \notin ing[tenant[t].status].tenants
    OBVIOUS
  <2>2. RemoveFinalizer /\ w.t = t
    BY <2>1, OneReleases DEF ReleaseInv
  <2>3. w.pc = "unfinal" /\ w.fresh
    BY <2>2 DEF RemoveFinalizer, WriteOwnCopy, At
  <2> QED
    BY <2>1, <2>2, <2>3 DEF ReleaseInv, Releasing, Dropped
<1> QED
  BY <1>1, <1>2, <1>3, PTL DEF Spec, UnboundBeforeRelease
=============================================================================
