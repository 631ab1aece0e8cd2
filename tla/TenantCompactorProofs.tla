----------------------- MODULE TenantCompactorProofs -----------------------
(***************************************************************************)
(* The assignment of tenants to compactors, for all values of the          *)
(* constants.                                                              *)
(***************************************************************************)
EXTENDS TenantCompactor, FiniteSetTheorems, TLAPS

-----------------------------------------------------------------------------
(* Names.                                                                  *)

\* The name of an exclusive compactor is one, and no name is that of a compactor
\* still to be created.
LEMMA NamesTyped ==
    /\ \A t \in Tenants : Own(t) \in Names /\ SpecTenant[t] \in Ids /\ t \in Ids
    /\ \A n \in Names : n # New
    /\ \A i \in 1..MaxMade : <<"generated", i>> \in Names
<1>1. \A t \in Tenants : Own(t) \in Names /\ SpecTenant[t] \in Ids /\ t \in Ids
    BY DEF Names, Ids
<1>2. \A i \in 1..MaxMade : <<"generated", i>> \in Names
    BY DEF Names, Generated
<1>3. \A n \in Generated : n # New
    BY DEF Generated, New
<1>4. \A t \in Tenants : Own(t) # New
    BY DEF Own, New
<1> QED
    BY <1>1, <1>2, <1>3, <1>4 DEF Names

-----------------------------------------------------------------------------
(* The worker.                                                             *)

\* What the type invariant says of the worker.
WorkerTyped(v) ==
    /\ v \in WorkerRecord
    /\ v.pc # "idle" => v.t \in Tenants /\ v.cp \in TenantObject
    /\ v.pc = "compactor" => v.target # None
    /\ v.target = New => v.des \in CompactorObject

\* A worker at rest, and one that has only the Tenant left to write, is well formed.
LEMMA IdleTyped == WorkerTyped(Idle)
BY NoneAssumption DEF WorkerTyped, Idle, WorkerRecord

LEMMA WorkingTyped ==
    ASSUME NEW t \in Tenants, NEW cp \in TenantObject
    PROVE  WorkerTyped(Working(t, cp))
BY NoneAssumption DEF WorkerTyped, Working, Idle, WorkerRecord

\* A worker about to write compactor n, or to create or delete one.
LEMMA TargetTyped ==
    ASSUME NEW t \in Tenants, NEW cp \in TenantObject, NEW n \in Names \cup {New},
           NEW des \in CompactorObject \cup {Absent}, NEW rv \in BOOLEAN,
           n = New => des \in CompactorObject
    PROVE  WorkerTyped([Working(t, cp) EXCEPT !.pc = "compactor", !.target = n, !.des = des, !.rv = rv])
BY NoneAssumption DEF WorkerTyped, Working, Idle, WorkerRecord

\* Likewise for one that is not in the list.
LEMMA UnlistedTyped ==
    ASSUME NEW t \in Tenants, NEW cp \in TenantObject, NEW n \in Names \cup {New}, NEW des \in CompactorObject
    PROVE  WorkerTyped([Working(t, cp) EXCEPT !.pc = "compactor", !.target = n, !.des = des])
BY NoneAssumption DEF WorkerTyped, Working, Idle, WorkerRecord

\* Whatever the caches hold, the compactor that is wanted for a Tenant is one.
LEMMA StorageTyped ==
    ASSUME TypeOK, NEW obj \in TenantObject
    PROVE  GetStorage(obj) \in Storages \cup {Local}
BY DEF TypeOK, GetStorage, TenantObject

LEMMA NewTyped ==
    ASSUME TypeOK, NEW t \in Tenants, NEW obj \in TenantObject
    PROVE  NewCompactor(t, obj) \in CompactorObject
BY StorageTyped, NamesTyped DEF NewCompactor, CompactorObject, TenantObject

\* Removing a tenant writes a list without it, or deletes the compactor.
LEMMA RemovalTyped ==
    ASSUME TypeOK, NEW t \in Tenants, NEW cp \in TenantObject, NEW n
    PROVE  WorkerTyped(removeTenantFromCompactorByName(t, cp, n))
<1>1. CASE n \notin Names \/ ccomp[n] = Absent
    BY <1>1, WorkingTyped DEF removeTenantFromCompactorByName
<1>2. CASE n \in Names /\ ccomp[n] # Absent
    <2> DEFINE rest == ccomp[n].tenants \ {SpecTenant[t]}
               des == IF rest = {} THEN Absent ELSE [ccomp[n] EXCEPT !.tenants = rest]
    <2>1. ccomp[n] \in CompactorObject
        BY <1>2 DEF TypeOK
    <2>2. des \in CompactorObject \cup {Absent}
        BY <2>1 DEF CompactorObject
    <2>3. removeTenantFromCompactorByName(t, cp, n) =
             [Working(t, cp) EXCEPT !.pc = "compactor", !.target = n, !.des = des, !.rv = TRUE]
        BY <1>2 DEF removeTenantFromCompactorByName, Working, Idle
    <2> HIDE DEF des
    <2>4. n \in Names \cup {New} /\ n # New /\ TRUE \in BOOLEAN
        BY <1>2, NamesTyped
    <2>5. WorkerTyped([Working(t, cp) EXCEPT !.pc = "compactor", !.target = n, !.des = des, !.rv = TRUE])
        BY <2>2, <2>4, TargetTyped
    <2> QED
        BY <2>3, <2>5
<1> QED
    BY <1>1, <1>2

\* Adoption, a place in a listed compactor, or a new one.
LEMMA SharedTyped ==
    ASSUME TypeOK, NEW t \in Tenants, NEW obj \in TenantObject, NEW v \in Shared(t, obj)
    PROVE  WorkerTyped(v)
<1>1. \A n \in Names \cup {None, Unnamed} : [obj EXCEPT !.status = n] \in TenantObject
    BY DEF TenantObject
<1>2. ASSUME NEW n \in Having(t, obj), v = Working(t, [obj EXCEPT !.status = n]) PROVE WorkerTyped(v)
    BY <1>1, <1>2, WorkingTyped DEF Having, Listed
<1>3. ASSUME NEW n \in WithRoom(obj),
             v = [Working(t, [obj EXCEPT !.status = n]) EXCEPT
                    !.pc = "compactor", !.target = n, !.rv = TRUE,
                    !.des = [ccomp[n] EXCEPT !.tenants = @ \cup {t}]]
      PROVE  WorkerTyped(v)
    <2>1. n \in Names /\ ccomp[n] \in CompactorObject
        BY <1>3 DEF WithRoom, Listed, TypeOK
    <2>2. [ccomp[n] EXCEPT !.tenants = @ \cup {t}] \in CompactorObject
        BY <2>1, NamesTyped DEF CompactorObject
    <2>3. v = [Working(t, [obj EXCEPT !.status = n]) EXCEPT !.pc = "compactor", !.target = n,
                  !.des = [ccomp[n] EXCEPT !.tenants = @ \cup {t}], !.rv = TRUE]
        BY <1>3 DEF Working, Idle
    <2> QED
        BY <1>1, <2>1, <2>2, <2>3, TargetTyped, NamesTyped
<1>4. ASSUME v = [Working(t, [obj EXCEPT !.status = Unnamed]) EXCEPT
                    !.pc = "compactor", !.target = New, !.des = NewCompactor(t, obj)]
      PROVE  WorkerTyped(v)
    <2>1. [obj EXCEPT !.status = Unnamed] \in TenantObject /\ NewCompactor(t, obj) \in CompactorObject
        BY <1>1, NewTyped
    <2> QED
        BY <1>4, <2>1, UnlistedTyped
<1> QED
    BY <1>2, <1>3, <1>4 DEF Shared

LEMMA ExclusiveTyped ==
    ASSUME TypeOK, NEW t \in Tenants, NEW obj \in TenantObject
    PROVE  WorkerTyped(Exclusive(t, obj))
<1>1. [obj EXCEPT !.status = Own(t)] \in TenantObject
    BY NamesTyped DEF TenantObject
<1>2. Own(t) \in Names /\ NewCompactor(t, obj) \in CompactorObject
    BY NamesTyped, NewTyped
<1> QED
    BY <1>1, <1>2, UnlistedTyped DEF Exclusive

\* Whatever a reconcile decides on, its worker is well formed.
LEMMA PlansTyped ==
    ASSUME TypeOK, NEW t \in Tenants, NEW obj \in TenantObject, NEW v \in Plans(t, obj)
    PROVE  WorkerTyped(v)
<1>1. /\ [obj EXCEPT !.fin = TRUE] \in TenantObject
      /\ [obj EXCEPT !.fin = FALSE, !.status = None] \in TenantObject
      /\ [obj EXCEPT !.status = None] \in TenantObject
    BY DEF TenantObject
<1>2. WorkerTyped(Working(t, [obj EXCEPT !.fin = TRUE]))
    BY <1>1, WorkingTyped
<1>3. WorkerTyped(removeTenantFromCompactorByName(t, [obj EXCEPT !.fin = FALSE, !.status = None], obj.status))
    BY <1>1, RemovalTyped
<1>4. WorkerTyped(removeTenantFromCompactorByName(t, [obj EXCEPT !.status = None], obj.status))
    BY <1>1, RemovalTyped
<1> QED
    BY <1>2, <1>3, <1>4, IdleTyped, ExclusiveTyped, SharedTyped DEF Plans

-----------------------------------------------------------------------------
(* Type correctness.                                                       *)

\* What the type invariant says of the objects and the counters.
ObjectsTyped ==
    /\ tenant \in [Tenants -> TenantObject \cup {Absent}]
    /\ comp \in [Names -> CompactorObject \cup {Absent}]
    /\ ccomp \in [Names -> CompactorObject \cup {Absent}]
    /\ stale \subseteq Names
    /\ svcStorage \in [Services -> Storages \cup {Local}]
    /\ queue \subseteq Tenants
    /\ made \in 0..MaxMade /\ userOps \in 0..MaxUserOps /\ failures \in 0..MaxFailures
    /\ strays \subseteq Ids

LEMMA TypeParts == TypeOK <=> ObjectsTyped /\ WorkerTyped(w)
BY DEF TypeOK, ObjectsTyped, WorkerTyped

LEMMA InitTyped == Init => TypeOK
<1> SUFFICES ASSUME Init PROVE TypeOK
    OBVIOUS
<1>1. ObjectsTyped
    BY CompactorAssumption DEF Init, ObjectsTyped
<1> QED
    BY <1>1, IdleTyped, TypeParts DEF Init

\* An out of date copy is as well formed as a current one.
LEMMA UnfreshTyped == \A v : WorkerTyped(v) => WorkerTyped([v EXCEPT !.fresh = FALSE])
BY DEF WorkerTyped, WorkerRecord

\* A user's edit of a Tenant.
LEMMA TenantEditTyped ==
    ASSUME TypeOK, NEW t \in Tenants, NEW obj \in TenantObject \cup {Absent}, TenantEdit(t, obj)
    PROVE  TypeOK'
<1>1. ObjectsTyped /\ WorkerTyped(w)
    BY TypeParts
<1>2. strays' \subseteq Ids
    BY <1>1, NamesTyped DEF TenantEdit, UserEdit, ObjectsTyped
<1>3. ObjectsTyped'
    BY <1>1, <1>2, CompactorAssumption DEF TenantEdit, UserEdit, ObjectsTyped
<1>4. WorkerTyped(w')
    BY <1>1, UnfreshTyped DEF TenantEdit
<1> QED
    BY <1>3, <1>4, TypeParts DEF WorkerTyped, TypeOK, ObjectsTyped

LEMMA UsersTyped ==
    ASSUME TypeOK,
           \/ \E t \in Tenants, l \in Labelings : CreateTenant(t, l) \/ RelabelTenant(t, l)
           \/ \E t \in Tenants : DeleteTenant(t)
           \/ \E s \in Services, g \in ServiceStorages : SetServiceStorage(s, g)
           \/ \E n \in Names : DeleteCompactor(n)
    PROVE  TypeOK'
<1> USE CompactorAssumption
<1>1. ASSUME NEW t \in Tenants, NEW l \in Labelings, CreateTenant(t, l) PROVE TypeOK'
    <2>1. l \in [svc : Services, stg : Storages \cup {Local, Default}, excl : BOOLEAN]
        OBVIOUS
    <2>2. [svc |-> l.svc, stg |-> l.stg, excl |-> l.excl, deleting |-> FALSE, fin |-> FALSE, status |-> None]
             \in TenantObject
        BY <2>1 DEF TenantObject
    <2> QED
        BY <1>1, <2>2, TenantEditTyped DEF CreateTenant
<1>2. ASSUME NEW t \in Tenants, NEW l \in Labelings, RelabelTenant(t, l) PROVE TypeOK'
    <2>1. l \in [svc : Services, stg : Storages \cup {Local, Default}, excl : BOOLEAN]
        OBVIOUS
    <2>2. tenant[t] \in TenantObject
        BY <1>2 DEF RelabelTenant, TypeOK
    <2>3. [tenant[t] EXCEPT !.svc = l.svc, !.stg = l.stg, !.excl = l.excl] \in TenantObject
        BY <2>1, <2>2 DEF TenantObject
    <2> QED
        BY <1>2, <2>3, TenantEditTyped DEF RelabelTenant
<1>3. ASSUME NEW t \in Tenants, DeleteTenant(t) PROVE TypeOK'
    <2>1. tenant[t] \in TenantObject
        BY <1>3 DEF DeleteTenant, TypeOK
    <2>2. Stored([tenant[t] EXCEPT !.deleting = TRUE]) \in TenantObject \cup {Absent}
        BY <2>1 DEF Stored, TenantObject
    <2> QED
        BY <1>3, <2>2, TenantEditTyped DEF DeleteTenant
<1>4. ASSUME NEW s \in Services, NEW g \in ServiceStorages, SetServiceStorage(s, g) PROVE TypeOK'
    <2>1. strays' \subseteq Ids
        BY <1>4, NamesTyped DEF SetServiceStorage, UserEdit, TypeOK
    <2>2. svcStorage' \in [Services -> Storages \cup {Local}]
        BY <1>4 DEF SetServiceStorage, TypeOK
    <2>3. queue' \subseteq Tenants /\ userOps' \in 0..MaxUserOps
        BY <1>4 DEF SetServiceStorage, UserEdit, TypeOK
    <2> QED
        BY <1>4, <2>1, <2>2, <2>3 DEF SetServiceStorage, UserEdit, TypeOK
<1>5. ASSUME NEW n \in Names, DeleteCompactor(n) PROVE TypeOK'
    <2>1. comp' \in [Names -> CompactorObject \cup {Absent}] /\ stale' \subseteq Names
        BY <1>5 DEF DeleteCompactor, Put, TypeOK
    <2>2. userOps' \in 0..MaxUserOps
        BY <1>5 DEF DeleteCompactor, TypeOK
    <2> QED
        BY <1>5, <2>1, <2>2 DEF DeleteCompactor, TypeOK
<1> QED
    BY <1>1, <1>2, <1>3, <1>4, <1>5

\* The key of the worker goes back to the queue.
LEMMA RequeueTyped ==
    ASSUME TypeOK, Requeue, w.pc # "idle", UNCHANGED <<objects, userOps, strays>>,
           failures' \in 0..MaxFailures
    PROVE  TypeOK'
<1>1. queue' \subseteq Tenants /\ WorkerTyped(w')
    BY IdleTyped DEF Requeue, TypeOK
<1> QED
    BY <1>1 DEF objects, TypeOK, WorkerTyped

\* A worker that has written its compactor goes on to the Tenant.
LEMMA OnTyped ==
    \A v : WorkerTyped(v) /\ v.pc = "compactor" =>
        /\ WorkerTyped([v EXCEPT !.pc = "tenant", !.target = None, !.des = Absent, !.rv = FALSE])
        /\ WorkerTyped([v EXCEPT !.pc = "tenant", !.target = None, !.des = Absent])
BY NoneAssumption DEF WorkerTyped, WorkerRecord

LEMMA StartTyped ==
    ASSUME TypeOK, NEW t \in Tenants, Start(t)
    PROVE  TypeOK'
<1>1. WorkerTyped(w')
    <2>1. CASE tenant[t] = Absent
        BY <2>1, IdleTyped DEF Start
    <2>2. CASE tenant[t] # Absent
        <3>1. tenant[t] \in TenantObject
            BY <2>2 DEF TypeOK
        <3> QED
            BY <2>2, <3>1, PlansTyped DEF Start
    <2> QED
        BY <2>1, <2>2
<1>2. queue' \subseteq Tenants /\ strays' \subseteq Ids
    BY NamesTyped DEF Start, TypeOK
<1> QED
    BY <1>1, <1>2 DEF Start, objects, TypeOK, WorkerTyped

LEMMA WriteCompactorTyped ==
    ASSUME TypeOK, WriteCompactor
    PROVE  TypeOK'
<1>1. w \in WorkerRecord /\ w.pc = "compactor" /\ w.target \in Names
    BY DEF WriteCompactor, TypeOK, WorkerRecord
<1>2. w.des \in CompactorObject \cup {Absent}
    BY <1>1 DEF WorkerRecord
<1>3. comp' \in [Names -> CompactorObject \cup {Absent}] /\ stale' \subseteq Names
    BY <1>1, <1>2 DEF WriteCompactor, Put, TypeOK
<1>4. strays' \subseteq Ids
    <2>1. WrittenBack \subseteq Ids
        BY <1>1, <1>2 DEF WrittenBack, CompactorObject
    <2> QED
        BY <2>1 DEF WriteCompactor, TypeOK
<1>5. WorkerTyped(w')
    BY <1>1, OnTyped, TypeParts DEF WriteCompactor
<1> QED
    BY <1>3, <1>4, <1>5 DEF WriteCompactor, TypeOK, WorkerTyped

LEMMA CreateCompactorTyped ==
    ASSUME TypeOK, CreateCompactor
    PROVE  TypeOK'
<1>1. w.pc = "compactor" /\ w.des \in CompactorObject
    BY DEF CreateCompactor, TypeOK
<1>2. made' \in 0..MaxMade /\ made + 1 \in 1..MaxMade
    BY CompactorAssumption DEF CreateCompactor, TypeOK
<1>3. <<"generated", made + 1>> \in Names
    BY <1>2, NamesTyped
<1>4. comp' \in [Names -> CompactorObject \cup {Absent}] /\ stale' \subseteq Names
    BY <1>1, <1>3 DEF CreateCompactor, Put, TypeOK
<1>5. WorkerTyped(w')
    BY <1>1, OnTyped, TypeParts DEF CreateCompactor
<1> QED
    BY <1>2, <1>4, <1>5 DEF CreateCompactor, TypeOK, WorkerTyped

LEMMA WriteTenantTyped ==
    ASSUME TypeOK, WriteTenant
    PROVE  TypeOK'
<1>1. w.t \in Tenants /\ w.cp \in TenantObject
    BY DEF WriteTenant, TypeOK
<1>2. Stored(w.cp) \in TenantObject \cup {Absent}
    BY <1>1 DEF Stored
<1>3. tenant' \in [Tenants -> TenantObject \cup {Absent}] /\ queue' \subseteq Tenants
    BY <1>1, <1>2 DEF WriteTenant, TypeOK
<1>4. WorkerTyped(w')
    BY IdleTyped DEF WriteTenant
<1> QED
    BY <1>3, <1>4 DEF WriteTenant, TypeOK, WorkerTyped

LEMMA SyncTyped ==
    ASSUME TypeOK, NEW n \in Names, Sync(n)
    PROVE  TypeOK'
<1>1. queue' \subseteq Tenants
    BY DEF Sync, TenantsListedBy, TypeOK
<1> QED
    BY <1>1 DEF Sync, TypeOK

LEMMA StepTyped == TypeOK /\ [Next]_vars => TypeOK'
<1> SUFFICES ASSUME TypeOK, [Next]_vars PROVE TypeOK'
    OBVIOUS
<1>1. ASSUME CompactorRefused PROVE TypeOK'
    BY <1>1, RequeueTyped DEF CompactorRefused, TypeOK
<1>2. ASSUME TenantRefused PROVE TypeOK'
    BY <1>2, RequeueTyped DEF TenantRefused, TypeOK
<1>3. ASSUME Fail PROVE TypeOK'
    BY <1>3, RequeueTyped, CompactorAssumption DEF Fail, TypeOK
<1>4. ASSUME UNCHANGED vars PROVE TypeOK'
    BY <1>4 DEF vars, objects, TypeOK
<1>5. ASSUME Worker PROVE TypeOK'
    BY <1>5, <1>1, <1>2, StartTyped, WriteCompactorTyped, CreateCompactorTyped, WriteTenantTyped DEF Worker
<1>6. ASSUME Informer PROVE TypeOK'
    BY <1>6, SyncTyped DEF Informer
<1> QED
    BY <1>3, <1>4, <1>5, <1>6, UsersTyped DEF Next

\* Whatever the order of edits, late events, refused writes and failed calls, the
\* Tenants, Compactors and the worker's copies stay well formed: only a worker
\* with a compactor in hand writes one, and it has a name or is new.
THEOREM CompactorTypeCorrect == Spec => []TypeOK
BY InitTyped, StepTyped, PTL DEF Spec

-----------------------------------------------------------------------------
(* The limit.                                                              *)

\* A list that a compactor may have.
Small(tenants) == Cardinality(tenants) <= Cap \/ Cardinality(tenants) <= 1

\* The limit is counted on a cached list and written later: it has to hold of the
\* stored lists, of the cached ones and of the one in the worker's hands.
SmallInv ==
    /\ \A n \in Names : comp[n] # Absent => Small(comp[n].tenants)
    /\ \A n \in Names : ccomp[n] # Absent => Small(ccomp[n].tenants)
    /\ w.des # Absent => Small(w.des.tenants)

LEMMA IdsFinite == \A S \in SUBSET Ids : IsFiniteSet(S) /\ Cardinality(S) \in Nat
<1>1. IsFiniteSet({SpecTenant[t] : t \in Tenants})
    <2> DEFINE f == [t \in Tenants |-> SpecTenant[t]]
               S == {SpecTenant[t] : t \in Tenants}
    <2>1. f \in Surjection(Tenants, S)
        BY DEF Surjection
    <2> QED
        BY <2>1, CompactorAssumption, FS_Surjection
<1>2. IsFiniteSet(Ids)
    BY <1>1, CompactorAssumption, FS_Union DEF Ids
<1> QED
    BY <1>2, FS_Subset, FS_CardinalityType

\* A tenant less leaves a list small, a first one makes a small list, and one more
\* does where there was room.
LEMMA LessSmall ==
    ASSUME NEW S \in SUBSET Ids, NEW T \in SUBSET S, Small(S)
    PROVE  Small(T)
<1>1. Cardinality(T) <= Cardinality(S)
    BY IdsFinite, FS_Subset
<1>2. Cardinality(S) \in Nat /\ Cardinality(T) \in Nat
    BY IdsFinite
<1> QED
    BY <1>1, <1>2, CompactorAssumption DEF Small

LEMMA OneSmall == \A x : Small({x})
<1>1. \A x : Cardinality({x}) = 1
    BY FS_Singleton
<1>2. ASSUME NEW x PROVE Small({x})
    <2>1. Cardinality({x}) = 1
        BY <1>1
    <2> QED
        BY <2>1 DEF Small
<1> QED
    BY <1>2

LEMMA MoreSmall ==
    ASSUME NEW S \in SUBSET Ids, NEW x, Cardinality(S) < Cap
    PROVE  Small(S \cup {x})
<1>1. Cardinality(S \cup {x}) = IF x \in S THEN Cardinality(S) ELSE Cardinality(S) + 1
    BY IdsFinite, FS_AddElement
<1>2. Cardinality(S) \in Nat
    BY IdsFinite
<1> QED
    BY <1>1, <1>2, CompactorAssumption DEF Small

\* Whatever a reconcile decides on, the list it is about to write is small.
LEMMA PlansSmall ==
    ASSUME TypeOK, SmallInv, NEW t \in Tenants, NEW obj \in TenantObject, NEW v \in Plans(t, obj)
    PROVE  v.des # Absent => Small(v.des.tenants)
<1> DEFINE Goal(u) == u.des # Absent => Small(u.des.tenants)
<1>1. \A cp : Goal(Working(t, cp))
    BY DEF Working, Idle
<1>2. Goal(Idle)
    BY DEF Idle
<1>3. ASSUME NEW cp, NEW n PROVE Goal(removeTenantFromCompactorByName(t, cp, n))
    <2>1. CASE n \notin Names \/ ccomp[n] = Absent
        BY <1>1, <2>1 DEF removeTenantFromCompactorByName
    <2>2. CASE n \in Names /\ ccomp[n] # Absent
        <3>1. ccomp[n] \in CompactorObject /\ Small(ccomp[n].tenants)
            BY <2>2 DEF TypeOK, SmallInv
        <3>2. ccomp[n].tenants \in SUBSET Ids
            BY <3>1 DEF CompactorObject
        <3>3. Small(ccomp[n].tenants \ {SpecTenant[t]})
            BY <3>1, <3>2, LessSmall
        <3> QED
            BY <2>2, <3>1, <3>3 DEF removeTenantFromCompactorByName, Working, Idle, CompactorObject
    <2> QED
        BY <2>1, <2>2
<1>4. Small(NewCompactor(t, obj).tenants)
    BY OneSmall DEF NewCompactor
<1>5. Goal(Exclusive(t, obj))
    BY <1>4 DEF Exclusive, Working, Idle
<1>6. ASSUME NEW u \in Shared(t, obj) PROVE Goal(u)
    <2>1. ASSUME NEW n \in WithRoom(obj),
                 u = [Working(t, [obj EXCEPT !.status = n]) EXCEPT
                        !.pc = "compactor", !.target = n, !.rv = TRUE,
                        !.des = [ccomp[n] EXCEPT !.tenants = @ \cup {t}]]
          PROVE  Goal(u)
        <3>1. ccomp[n] \in CompactorObject /\ Cardinality(ccomp[n].tenants) < Cap
            BY <2>1 DEF WithRoom, Listed, TypeOK
        <3>2. ccomp[n].tenants \in SUBSET Ids
            BY <3>1 DEF CompactorObject
        <3>3. Small(ccomp[n].tenants \cup {t})
            BY <3>1, <3>2, MoreSmall
        <3> QED
            BY <2>1, <3>1, <3>3 DEF Working, Idle, CompactorObject
    <2>2. ASSUME u = [Working(t, [obj EXCEPT !.status = Unnamed]) EXCEPT
                        !.pc = "compactor", !.target = New, !.des = NewCompactor(t, obj)]
          PROVE  Goal(u)
        BY <1>4, <2>2 DEF Working, Idle
    <2> QED
        BY <1>1, <2>1, <2>2 DEF Shared
<1> HIDE DEF Goal
<1>7. Goal(v)
    BY <1>1, <1>2, <1>3, <1>5, <1>6 DEF Plans
<1> QED
    BY <1>7 DEF Goal

LEMMA StepSmall == TypeOK /\ SmallInv /\ [Next]_vars => SmallInv'
<1> SUFFICES ASSUME TypeOK, SmallInv, [Next]_vars PROVE SmallInv'
    OBVIOUS
<1>1. ASSUME NEW t \in Tenants, Start(t) PROVE SmallInv'
    <2>1. w'.des # Absent => Small(w'.des.tenants)
        <3>1. CASE tenant[t] = Absent
            BY <1>1, <3>1 DEF Start, Idle
        <3>2. CASE tenant[t] # Absent
            BY <1>1, <3>2, PlansSmall DEF Start, TypeOK
        <3> QED
            BY <3>1, <3>2
    <2> QED
        BY <1>1, <2>1 DEF Start, objects, SmallInv
<1>2. ASSUME WriteCompactor PROVE SmallInv'
    <2>1. w'.des = Absent
        BY <1>2 DEF WriteCompactor, TypeOK, WorkerRecord
    <2>2. \A n \in Names : comp'[n] # Absent => Small(comp'[n].tenants)
        BY <1>2 DEF WriteCompactor, Put, SmallInv, TypeOK
    <2> QED
        BY <1>2, <2>1, <2>2 DEF WriteCompactor, SmallInv
<1>3. ASSUME CreateCompactor PROVE SmallInv'
    <2>1. w'.des = Absent
        BY <1>3 DEF CreateCompactor, TypeOK, WorkerRecord
    <2>2. \A n \in Names : comp'[n] # Absent => Small(comp'[n].tenants)
        BY <1>3 DEF CreateCompactor, Put, SmallInv, TypeOK
    <2> QED
        BY <1>3, <2>1, <2>2 DEF CreateCompactor, SmallInv
<1>4. ASSUME CompactorRefused \/ TenantRefused \/ Fail PROVE SmallInv'
    BY <1>4 DEF CompactorRefused, TenantRefused, Fail, Requeue, Idle, objects, SmallInv
<1>5. ASSUME WriteTenant PROVE SmallInv'
    BY <1>5 DEF WriteTenant, Idle, SmallInv
<1>6. ASSUME NEW n \in Names, Sync(n) PROVE SmallInv'
    BY <1>6 DEF Sync, SmallInv, TypeOK
<1>7. ASSUME NEW t \in Tenants, NEW obj, TenantEdit(t, obj) PROVE SmallInv'
    <2>1. w'.des = w.des
        BY <1>7 DEF TenantEdit, TypeOK, WorkerRecord
    <2> QED
        BY <1>7, <2>1 DEF TenantEdit, UserEdit, SmallInv
<1>8. ASSUME NEW s \in Services, NEW g \in ServiceStorages, SetServiceStorage(s, g) PROVE SmallInv'
    BY <1>8 DEF SetServiceStorage, UserEdit, SmallInv
<1>9. ASSUME NEW n \in Names, DeleteCompactor(n) PROVE SmallInv'
    BY <1>9 DEF DeleteCompactor, Put, SmallInv, TypeOK
<1>10. ASSUME UNCHANGED vars PROVE SmallInv'
    BY <1>10 DEF vars, objects, SmallInv
<1>11. ASSUME Worker PROVE SmallInv'
    BY <1>1, <1>2, <1>3, <1>4, <1>5, <1>11 DEF Worker
<1> QED
    BY <1>4, <1>6, <1>7, <1>8, <1>9, <1>10, <1>11
       DEF Next, Informer, CreateTenant, RelabelTenant, DeleteTenant

\* However far the cache is behind, and although a retry may write a list that was
\* decided on an older copy, no compactor gets more tenants than
\* DefaultTenantsPerCompactor allows.
THEOREM LimitedHolds == Spec => []Limited
<1>1. Init => SmallInv
    BY DEF Init, Idle, SmallInv
<1>2. SmallInv => Limited
    BY DEF SmallInv, Small, Limited
<1> QED
    BY <1>1, <1>2, StepSmall, CompactorTypeCorrect, PTL DEF Spec
-----------------------------------------------------------------------------
(* What is at rest is bound.                                               *)

\* A Tenant that needs no reconcile, as far as the cache shows.
Fine(t) ==
    /\ tenant[t] # Absent /\ ~tenant[t].deleting
    /\ IF GetStorage(tenant[t]) = Local THEN tenant[t].status = None
                                        ELSE Fits(t, tenant[t], tenant[t].status)

\* Every Tenant is queued, in work or fine.
Owed ==
    \A t \in Tenants : tenant[t] # Absent =>
        t \in queue \/ (w.pc # "idle" /\ w.t = t) \/ Fine(t)

\* The write that ends a reconcile changes the Tenant, and so queues it, unless
\* it is fine: this is what makes the reconcile with nothing to do the last one.
Effective ==
    w.pc # "idle" /\ w.fresh /\ w.t \notin queue =>
        Stored(w.cp) # tenant[w.t] \/ Fine(w.t)

\* No compactor serves the local storage, so none fits a Tenant that has it.
Remote ==
    /\ \A n \in Names : comp[n] # Absent => comp[n].stg # Local
    /\ \A n \in Names : ccomp[n] # Absent => ccomp[n].stg # Local
    /\ w.des # Absent => w.des.stg # Local

CompactorsCurrent == \A n \in Names \ stale : ccomp[n] = comp[n]

BoundInv == TypeOK /\ CompactorsCurrent /\ Remote /\ Owed /\ Effective

\* A Tenant that is not reset and has a status is on a compactor that fits, and
\* that is then not for the local storage.
LEMMA KeptFine ==
    ASSUME BoundInv, NEW t \in Tenants, tenant[t] # Absent, ~tenant[t].deleting,
           ~needResetCompactor(t, tenant[t]), tenant[t].status # None
    PROVE  Fine(t) /\ GetStorage(tenant[t]) # Local
BY DEF needResetCompactor, Fits, Fine, BoundInv, Remote

\* Whatever a reconcile decides on, it has something to write or nothing to do.
LEMMA PlansEffective ==
    ASSUME BoundInv, NEW t \in Tenants, tenant[t] # Absent, NEW v \in Plans(t, tenant[t])
    PROVE  /\ v.pc = "idle" => Fine(t)
           /\ v.pc # "idle" => v.t = t /\ (Stored(v.cp) # tenant[t] \/ Fine(t))
           /\ v.des # Absent => v.des.stg # Local
<1> DEFINE obj == tenant[t]
           Goal(u, cp) == /\ u.pc # "idle" /\ u.t = t /\ u.cp = cp
                          /\ u.des # Absent => u.des.stg # Local
<1>1. obj \in TenantObject
    BY DEF BoundInv, TypeOK
<1>2. \A cp : Goal(Working(t, cp), cp)
    BY DEF Working, Idle
<1>3. ASSUME NEW cp, NEW n PROVE Goal(removeTenantFromCompactorByName(t, cp, n), cp)
    <2>1. CASE n \notin Names \/ ccomp[n] = Absent
        BY <1>2, <2>1 DEF removeTenantFromCompactorByName
    <2>2. CASE n \in Names /\ ccomp[n] # Absent
        <3>1. ccomp[n] \in CompactorObject /\ ccomp[n].stg # Local
            BY <2>2 DEF BoundInv, TypeOK, Remote
        <3> QED
            BY <2>2, <3>1 DEF removeTenantFromCompactorByName, Working, Idle, CompactorObject
    <2> QED
        BY <2>1, <2>2
<1>4. CASE ~obj.deleting /\ ~obj.fin
    <2>1. Goal(v, [obj EXCEPT !.fin = TRUE])
        BY <1>2, <1>4 DEF Plans
    <2>2. /\ Stored([obj EXCEPT !.fin = TRUE]) = [obj EXCEPT !.fin = TRUE]
          /\ [obj EXCEPT !.fin = TRUE].fin = TRUE
        BY <1>1, <1>4 DEF Stored, TenantObject
    <2> QED
        BY <1>4, <2>1, <2>2
<1>5. CASE obj.deleting
    <2>1. Goal(v, [obj EXCEPT !.fin = FALSE, !.status = None])
        BY <1>3, <1>5 DEF Plans
    <2>2. Stored([obj EXCEPT !.fin = FALSE, !.status = None]) = Absent
        BY <1>1, <1>5 DEF Stored, TenantObject
    <2> QED
        BY <2>1, <2>2
<1>6. CASE ~obj.deleting /\ obj.fin /\ needResetCompactor(t, obj)
    <2>1. Goal(v, [obj EXCEPT !.status = None])
        BY <1>3, <1>6 DEF Plans
    <2>2. /\ Stored([obj EXCEPT !.status = None]) = [obj EXCEPT !.status = None]
          /\ [obj EXCEPT !.status = None].status = None
        BY <1>1, <1>6 DEF Stored, TenantObject
    <2>3. obj.status # None
        BY <1>6 DEF needResetCompactor
    <2> QED
        BY <2>1, <2>2, <2>3
<1>7. CASE ~obj.deleting /\ obj.fin /\ ~needResetCompactor(t, obj)
    <2>1. obj.status # None => Fine(t) /\ GetStorage(obj) # Local
        BY <1>7, KeptFine
    <2>2. CASE GetStorage(obj) = Local
        <3>1. v = Idle
            BY <1>7, <2>2 DEF Plans
        <3> QED
            BY <1>7, <2>1, <2>2, <3>1 DEF Idle, Fine
    <2>3. CASE GetStorage(obj) # Local
        <3>1. \A n : /\ Stored([obj EXCEPT !.status = n]) = [obj EXCEPT !.status = n]
                     /\ [obj EXCEPT !.status = n].status = n
            BY <1>1, <1>7 DEF Stored, TenantObject
        <3>2. NewCompactor(t, obj).stg # Local
            BY <2>3 DEF NewCompactor
        <3>3. \A n \in Names : ccomp[n] # Absent =>
                 [ccomp[n] EXCEPT !.tenants = @ \cup {t}].stg # Local
            BY DEF BoundInv, TypeOK, Remote, CompactorObject
        <3>4. \E n : n # None /\ Goal(v, [obj EXCEPT !.status = n])
            <4>1. CASE obj.excl
                <5>1. v = Exclusive(t, obj)
                    BY <1>7, <2>3, <4>1 DEF Plans
                <5>2. Goal(v, [obj EXCEPT !.status = Own(t)])
                    BY <3>2, <5>1 DEF Exclusive, Working, Idle
                <5>3. Own(t) # None
                    BY NamesTyped, NoneAssumption
                <5> QED
                    BY <5>2, <5>3
            <4>2. CASE ~obj.excl
                <5>1. v \in Shared(t, obj)
                    BY <1>7, <2>3, <4>2 DEF Plans
                <5>2. ASSUME NEW n \in Having(t, obj), v = Working(t, [obj EXCEPT !.status = n])
                      PROVE  n # None /\ Goal(v, [obj EXCEPT !.status = n])
                    BY <1>2, <5>2, NoneAssumption DEF Having, Listed
                <5>3. ASSUME NEW n \in WithRoom(obj),
                             v = [Working(t, [obj EXCEPT !.status = n]) EXCEPT
                                    !.pc = "compactor", !.target = n, !.rv = TRUE,
                                    !.des = [ccomp[n] EXCEPT !.tenants = @ \cup {t}]]
                      PROVE  n # None /\ Goal(v, [obj EXCEPT !.status = n])
                    <6>1. n \in Names /\ ccomp[n] # Absent
                        BY DEF WithRoom, Listed
                    <6> DEFINE d == [ccomp[n] EXCEPT !.tenants = @ \cup {t}]
                               c == [obj EXCEPT !.status = n]
                    <6>2. d.stg # Local
                        BY <3>3, <6>1
                    <6>3. v = [Working(t, c) EXCEPT !.pc = "compactor", !.target = n, !.rv = TRUE, !.des = d]
                        BY <5>3
                    <6> HIDE DEF d, c
                    <6>4. Goal(v, c)
                        BY <6>2, <6>3 DEF Working, Idle
                    <6> QED
                        BY <6>1, <6>4, NoneAssumption DEF c
                <5>4. ASSUME v = [Working(t, [obj EXCEPT !.status = Unnamed]) EXCEPT
                                    !.pc = "compactor", !.target = New, !.des = NewCompactor(t, obj)]
                      PROVE  Unnamed # None /\ Goal(v, [obj EXCEPT !.status = Unnamed])
                    BY <3>2, <5>4, NoneAssumption DEF Working, Idle
                <5> QED
                    BY <5>1, <5>2, <5>3, <5>4 DEF Shared
            <4> QED
                BY <4>1, <4>2
        <3>5. PICK n : n # None /\ Goal(v, [obj EXCEPT !.status = n])
            BY <3>4
        <3>6. Stored(v.cp).status = n
            BY <3>1, <3>5
        <3>7. Stored(v.cp) # obj \/ Fine(t)
            BY <2>1, <3>5, <3>6
        <3> QED
            BY <3>5, <3>7
    <2> QED
        BY <2>2, <2>3
<1> QED
    BY <1>1, <1>4, <1>5, <1>6, <1>7 DEF TenantObject

LEMMA StartBound ==
    ASSUME BoundInv, NEW t \in Tenants, Start(t)
    PROVE  BoundInv'
<1>1. TypeOK'
    BY StartTyped DEF BoundInv
<1>2. /\ UNCHANGED <<tenant, comp, ccomp, stale, svcStorage>> /\ w.pc = "idle"
      /\ queue' = queue \ {t}
      /\ w' \in IF tenant[t] = Absent THEN {Idle} ELSE Plans(t, tenant[t])
    BY DEF Start, objects
<1>3. /\ tenant[t] # Absent /\ w'.pc = "idle" => Fine(t)
      /\ w'.pc # "idle" => w'.t = t /\ (Stored(w'.cp) # tenant[t] \/ Fine(t))
      /\ w'.des # Absent => w'.des.stg # Local
    BY <1>2, PlansEffective DEF Idle
<1>4. \A u : Fine(u)' <=> Fine(u)
    BY <1>2 DEF Fine, Fits, GetStorage
<1>5. Owed'
    BY <1>2, <1>3, <1>4 DEF BoundInv, Owed
<1>6. Effective'
    BY <1>2, <1>3, <1>4 DEF Effective
<1> QED
    BY <1>1, <1>2, <1>3, <1>5, <1>6 DEF BoundInv, CompactorsCurrent, Remote
\* A step of the worker, or of the users, that leaves the Tenants, their services
\* and the cache alone keeps what is owed.
LEMMA StillFine ==
    ASSUME UNCHANGED <<tenant, ccomp, svcStorage>>
    PROVE  \A u : Fine(u)' <=> Fine(u)
BY DEF Fine, Fits, GetStorage

\* A compactor that is written is one whose cache entry is behind.
LEMMA PutBehind ==
    ASSUME BoundInv, NEW n \in Names, NEW obj, Put(n, obj), UNCHANGED ccomp,
           obj # Absent => obj.stg # Local
    PROVE  /\ CompactorsCurrent'
           /\ \A m \in Names : comp'[m] # Absent => comp'[m].stg # Local
BY DEF BoundInv, TypeOK, CompactorsCurrent, Remote, Put

LEMMA CompactorWritesBound ==
    ASSUME BoundInv, WriteCompactor \/ CreateCompactor
    PROVE  BoundInv'
<1>1. TypeOK'
    BY WriteCompactorTyped, CreateCompactorTyped DEF BoundInv
<1>2. /\ w.pc = "compactor" /\ UNCHANGED <<tenant, ccomp, svcStorage, queue>>
      /\ w'.pc = "tenant" /\ w'.t = w.t /\ w'.cp = w.cp /\ w'.fresh = w.fresh /\ w'.des = Absent
    BY DEF WriteCompactor, CreateCompactor, BoundInv, TypeOK, WorkerRecord
<1>3. CompactorsCurrent' /\ \A m \in Names : comp'[m] # Absent => comp'[m].stg # Local
    <2>1. CASE WriteCompactor
        <3>1. w.target \in Names
            BY <2>1 DEF WriteCompactor, BoundInv, TypeOK, WorkerRecord
        <3>2. UNCHANGED <<comp, stale>> \/ Put(w.target, w.des)
            BY <2>1 DEF WriteCompactor
        <3>3. w.des # Absent => w.des.stg # Local
            BY DEF BoundInv, Remote
        <3>4. CASE Put(w.target, w.des)
            BY <1>2, <3>1, <3>3, <3>4, PutBehind
        <3> QED
            BY <1>2, <3>2, <3>4 DEF BoundInv, CompactorsCurrent, Remote
    <2>2. CASE CreateCompactor
        <3>1. <<"generated", made + 1>> \in Names
            BY <2>2, NamesTyped, CompactorAssumption DEF CreateCompactor, BoundInv, TypeOK
        <3>2. w.des # Absent => w.des.stg # Local
            BY DEF BoundInv, Remote
        <3> QED
            BY <1>2, <2>2, <3>1, <3>2, PutBehind DEF CreateCompactor
    <2> QED
        BY <2>1, <2>2
<1>4. Owed'
    BY <1>2, StillFine DEF BoundInv, Owed
<1>5. Effective'
    BY <1>2, StillFine DEF BoundInv, Effective
<1>6. Remote'
    BY <1>2, <1>3 DEF BoundInv, Remote
<1> QED
    BY <1>1, <1>3, <1>4, <1>5, <1>6 DEF BoundInv

\* A reconcile that ends by a refusal or an error is queued.
LEMMA RequeueBound ==
    ASSUME BoundInv, CompactorRefused \/ TenantRefused \/ Fail
    PROVE  BoundInv'
<1>1. TypeOK'
    BY StepTyped DEF BoundInv, Next, Worker
<1>2. /\ w' = Idle /\ queue' = queue \cup {w.t}
      /\ UNCHANGED <<tenant, comp, ccomp, stale, svcStorage>>
    BY DEF CompactorRefused, TenantRefused, Fail, Requeue, objects
<1>3. Owed'
    BY <1>2, StillFine DEF BoundInv, Owed
<1> QED
    BY <1>1, <1>2, <1>3 DEF BoundInv, CompactorsCurrent, Remote, Effective, Idle

LEMMA WriteTenantBound ==
    ASSUME BoundInv, WriteTenant
    PROVE  BoundInv'
<1>1. TypeOK'
    BY WriteTenantTyped DEF BoundInv
<1>2. /\ w.pc = "tenant" /\ w.fresh /\ w.t \in Tenants /\ w' = Idle
      /\ tenant' = [tenant EXCEPT ![w.t] = Stored(w.cp)]
      /\ queue' = IF tenant' = tenant THEN queue ELSE queue \cup {w.t}
      /\ UNCHANGED <<comp, ccomp, stale, svcStorage>>
    BY DEF WriteTenant, BoundInv, TypeOK
<1>3. /\ \A u \in Tenants : u # w.t => tenant'[u] = tenant[u]
      /\ tenant'[w.t] = Stored(w.cp)
      /\ tenant'[w.t] # tenant[w.t] => w.t \in queue'
      /\ queue \subseteq queue'
    BY <1>2 DEF BoundInv, TypeOK
<1>4. ASSUME NEW u \in Tenants, tenant'[u] # Absent
      PROVE  u \in queue' \/ Fine(u)'
    <2>1. CASE tenant'[u] = tenant[u]
        <3>1. u \in queue \/ Fine(u)
            BY <1>2, <1>3, <1>4, <2>1 DEF BoundInv, Owed, Effective
        <3>2. Fine(u)' <=> Fine(u)
            BY <1>2, <2>1 DEF Fine, Fits, GetStorage
        <3> QED
            BY <1>3, <3>1, <3>2
    <2>2. CASE tenant'[u] # tenant[u]
        BY <1>3, <2>2
    <2> QED
        BY <2>1, <2>2
<1> QED
    BY <1>1, <1>2, <1>4 DEF BoundInv, CompactorsCurrent, Remote, Owed, Effective, Idle

\* An edit queues the Tenants it is about.
LEMMA EditBound ==
    ASSUME BoundInv, TypeOK', NEW t \in Tenants, NEW obj, TenantEdit(t, obj)
    PROVE  BoundInv'
<1>1. /\ tenant' = [tenant EXCEPT ![t] = obj] /\ queue' = queue \cup {t}
      /\ UNCHANGED <<comp, ccomp, stale, svcStorage>>
    BY DEF TenantEdit, UserEdit
<1>2. /\ w'.pc = w.pc /\ w'.t = w.t /\ w'.cp = w.cp /\ w'.des = w.des
      /\ w'.fresh => w.fresh /\ w.t # t
    BY DEF TenantEdit, BoundInv, TypeOK, WorkerRecord
<1>3. \A u \in Tenants : u # t => tenant'[u] = tenant[u] /\ (Fine(u)' <=> Fine(u))
    BY <1>1 DEF Fine, Fits, GetStorage, BoundInv, TypeOK
<1>4. Owed'
    BY <1>1, <1>2, <1>3 DEF BoundInv, Owed
<1>5. Effective'
    BY <1>1, <1>2, <1>3 DEF BoundInv, Effective, TypeOK
<1> QED
    BY <1>1, <1>2, <1>4, <1>5 DEF BoundInv, CompactorsCurrent, Remote

\* Nothing a Tenant's assignment rests on changes without queueing it.
LEMMA ChangeQueues ==
    ASSUME BoundInv, NEW u \in Tenants, Fine(u),
           \/ \E s \in Services, g \in ServiceStorages : SetServiceStorage(s, g)
           \/ \E n \in Names : Sync(n)
    PROVE  u \in queue' \/ Fine(u)'
<1>1. ASSUME NEW s \in Services, NEW g \in ServiceStorages, SetServiceStorage(s, g)
      PROVE  u \in queue' \/ Fine(u)'
    <2>1. /\ UNCHANGED <<tenant, ccomp>> /\ svcStorage' = [svcStorage EXCEPT ![s] = g]
          /\ tenant[u].svc = s /\ tenant[u].stg = Default => u \in queue'
        BY <1>1 DEF SetServiceStorage, UserEdit, Fine
    <2>2. ~(tenant[u].svc = s /\ tenant[u].stg = Default) =>
             GetStorage(tenant[u])' = GetStorage(tenant[u])
        BY <2>1 DEF GetStorage, BoundInv, TypeOK
    <2> QED
        BY <2>1, <2>2 DEF Fine, Fits
<1>2. ASSUME NEW n \in Names, Sync(n)
      PROVE  u \in queue' \/ Fine(u)'
    <2>1. /\ UNCHANGED <<tenant, svcStorage>> /\ ccomp' = [ccomp EXCEPT ![n] = comp[n]]
          /\ TenantsListedBy(ccomp[n]) \subseteq queue'
        BY <1>2 DEF Sync
    <2>2. CASE Fits(u, tenant[u], n)
        BY <2>1, <2>2 DEF Fits, TenantsListedBy, Fine
    <2>3. CASE ~Fits(u, tenant[u], n)
        BY <2>1, <2>3 DEF Fine, Fits, GetStorage, BoundInv, TypeOK
    <2> QED
        BY <2>2, <2>3
<1> QED
    BY <1>1, <1>2

LEMMA ChangeBound ==
    ASSUME BoundInv,
           \/ \E s \in Services, g \in ServiceStorages : SetServiceStorage(s, g)
           \/ \E n \in Names : Sync(n)
    PROVE  BoundInv'
<1>1. TypeOK'
    BY UsersTyped, SyncTyped DEF BoundInv
<1>2. UNCHANGED <<tenant, comp, w>> /\ queue \subseteq queue'
    BY DEF SetServiceStorage, UserEdit, Sync
<1>3. \A u \in Tenants : Fine(u) => u \in queue' \/ Fine(u)'
    BY ChangeQueues
<1>4. CompactorsCurrent' /\ Remote'
    BY DEF SetServiceStorage, UserEdit, Sync, BoundInv, CompactorsCurrent, Remote, TypeOK
<1>5. Owed'
    BY <1>2, <1>3 DEF BoundInv, Owed
<1>6. Effective'
    BY <1>2, <1>3 DEF BoundInv, Effective, TypeOK
<1> QED
    BY <1>1, <1>4, <1>5, <1>6 DEF BoundInv

LEMMA StepBound == BoundInv /\ [Next]_vars => BoundInv'
<1> SUFFICES ASSUME BoundInv, [Next]_vars PROVE BoundInv'
    OBVIOUS
<1>1. TypeOK'
    BY StepTyped DEF BoundInv
<1>2. ASSUME NEW n \in Names, DeleteCompactor(n) PROVE BoundInv'
    <2>1. UNCHANGED <<tenant, ccomp, svcStorage, queue, w>> /\ Put(n, Absent)
        BY <1>2 DEF DeleteCompactor
    <2>2. CompactorsCurrent' /\ Remote'
        BY <2>1, PutBehind DEF BoundInv, Remote
    <2>3. Owed' /\ Effective'
        BY <2>1, StillFine DEF BoundInv, Owed, Effective
    <2> QED
        BY <1>1, <2>2, <2>3 DEF BoundInv
<1>3. ASSUME UNCHANGED vars PROVE BoundInv'
    <2>1. UNCHANGED <<tenant, comp, ccomp, stale, svcStorage, queue, w>>
        BY <1>3 DEF vars, objects
    <2>2. Owed' /\ Effective'
        BY <2>1, StillFine DEF BoundInv, Owed, Effective
    <2> QED
        BY <1>1, <2>1, <2>2 DEF BoundInv, CompactorsCurrent, Remote
<1>4. ASSUME Worker PROVE BoundInv'
    BY <1>4, StartBound, CompactorWritesBound, RequeueBound, WriteTenantBound DEF Worker
<1> QED
    BY <1>1, <1>2, <1>3, <1>4, RequeueBound, EditBound, ChangeBound
       DEF Next, Informer, CreateTenant, RelabelTenant, DeleteTenant

LEMMA BoundInvHolds == Spec => []BoundInv
<1>1. Init => BoundInv
    BY InitTyped DEF Init, BoundInv, CompactorsCurrent, Remote, Owed, Effective, Idle
<1> QED
    BY <1>1, StepBound, PTL DEF Spec

\* When nothing is queued, in work or on its way to the cache, every Tenant with a
\* storage names a compactor of its service, storage and exclusiveness that lists
\* it, and every other names none: no refusal, lost list, deleted compactor or
\* change of a service's storage leaves a Tenant that nothing will wake.
THEOREM BoundHolds == Spec => []Bound
<1>1. BoundInv => Bound
    <2>1. SUFFICES ASSUME BoundInv, AtRest, NEW t \in Tenants, tenant[t] # Absent
                   PROVE  LET n == tenant[t].status
                          IN  /\ Wants(t) =>
                                    /\ n \in Names /\ comp[n] # Absent
                                    /\ SpecTenant[t] \in comp[n].tenants
                                    /\ comp[n].svc = tenant[t].svc
                                    /\ comp[n].stg = GetStorage(tenant[t])
                                    /\ tenant[t].excl <=> (comp[n].excl /\ n = Own(t))
                              /\ ~Wants(t) => n = None
        BY DEF Bound, Wants
    <2>2. Fine(t)
        BY <2>1 DEF BoundInv, Owed, AtRest
    <2>3. \A n \in Names : ccomp[n] = comp[n]
        BY <2>1 DEF BoundInv, CompactorsCurrent, AtRest
    <2> QED
        BY <2>1, <2>2, <2>3 DEF Fine, Fits, Wants
<1> QED
    BY <1>1, BoundInvHolds, PTL

-----------------------------------------------------------------------------
(* At rest no compactor lists a tenant that does not know of it.           *)

\* Tenants are called as their spec.tenant: a listed compactor is given the name
\* of the Tenant and searched for its spec.tenant.
SelfNamed == \A t \in Tenants : SpecTenant[t] = t

-----------------------------------------------------------------------------
(* The inductive invariant.                                                *)

Lists(o, t) == o # Absent /\ t \in o.tenants
SameLabels(o, p) == o.svc = p.svc /\ o.stg = p.stg

\* A compactor n with the labels of o is one that the Tenant obj would have.
Match(t, obj, n, o) ==
    /\ ~obj.deleting
    /\ o.svc = obj.svc /\ o.stg = GetStorage(obj)
    /\ obj.excl => n = Own(t)

Known == Tenants \ strays

\* No compactor is without tenants, one that has the name of a tenant is exclusive,
\* and a generated name is used once.
WellFormed(n, o) == o # Absent => o.tenants # {} /\ \A t \in Tenants : n = Own(t) => o.excl

Formed ==
    /\ \A n \in Names : WellFormed(n, comp[n]) /\ WellFormed(n, ccomp[n])
    /\ WellFormed(w.target, w.des)
    /\ \A i \in 1..MaxMade :
          /\ i > made => comp[<<"generated", i>>] = Absent /\ ccomp[<<"generated", i>>] = Absent
          /\ w.target = <<"generated", i>> => i <= made

\* A compactor that lists a tenant is the only one; the Tenant is there, with its
\* finalizer, and its status names the compactor or the compactor is one that its
\* next reconcile adopts: the cache shows the labels it has and no other compactor
\* with these labels.
Held(t) ==
    \A n \in Names : Lists(comp[n], t) =>
        /\ \A m \in Names : Lists(comp[m], t) => m = n
        /\ tenant[t] # Absent /\ tenant[t].fin
        /\ tenant[t].status = n \/ Match(t, tenant[t], n, comp[n])
        /\ Lists(ccomp[n], t) => SameLabels(comp[n], ccomp[n])
        /\ n # Own(t) => \A m \in Names : m # n /\ Lists(ccomp[m], t) => ~SameLabels(comp[n], ccomp[m])

\* A list that the worker writes over another is one of the same compactor, or has
\* no other tenant.
Rewrites ==
    w.pc = "compactor" /\ w.des # Absent =>
        /\ w.target = New => ~w.rv
        /\ ~w.rv => w.des.tenants = {w.t}
        /\ w.target # New => \A v \in Known :
              v # w.t /\ v \in w.des.tenants /\ Lists(comp[w.target], v) => SameLabels(w.des, comp[w.target])

\* After the Tenant is written it knows of the compactor n.
Tracked(n) ==
    /\ ~w.cp.deleting /\ w.cp.fin
    /\ w.cp.status = n \/ (Match(w.t, w.cp, n, comp[n]) /\ tenant[w.t].status # n)

\* The worker adds its tenant to a compactor where no other lists it ...
Adding == w.des # Absent /\ w.t \in w.des.tenants
Add ==
    /\ tenant[w.t].fin /\ w.cp.fin
    /\ Match(w.t, tenant[w.t], w.target, w.des)
    /\ \A n \in Names : Lists(comp[n], w.t) => n = w.target /\ SameLabels(comp[n], w.des)
    /\ w.target # New => w.cp.status = w.target
    /\ w.target = New => tenant[w.t].status = None
    /\ w.target # Own(w.t) => \A m \in Names : m # w.target /\ Lists(ccomp[m], w.t) => ~SameLabels(w.des, ccomp[m])

\* ... or takes it off one that the cache shows to list it.
Remove ==
    /\ w.target # New
    /\ Lists(comp[w.target], w.t) => Lists(ccomp[w.target], w.t)
    /\ \A n \in Names : n # w.target /\ Lists(comp[n], w.t) => Tracked(n)

\* What the worker's copy says is true as long as its write is not refused.
Current ==
    /\ tenant[w.t] # Absent
    /\ w.cp.svc = tenant[w.t].svc /\ w.cp.stg = tenant[w.t].stg
    /\ w.cp.excl <=> tenant[w.t].excl
    /\ w.cp.deleting <=> tenant[w.t].deleting

Intends ==
    w.pc # "idle" /\ w.t \in Known =>
        /\ w.fresh => Current
        /\ w.pc = "compactor" => w.fresh /\ (IF Adding THEN Add ELSE Remove)
        /\ w.pc = "tenant" /\ w.fresh => \A n \in Names : Lists(comp[n], w.t) => Tracked(n)

AccountInv ==
    /\ SelfNamed
    /\ BoundInv
    /\ Formed
    /\ \A t \in Known : Held(t)
    /\ Rewrites
    /\ Intends

-----------------------------------------------------------------------------
(* What a reconcile decides.                                               *)

\* The names of compactors are of three kinds.
LEMMA NamesApart ==
    /\ \A t \in Tenants, i \in 1..MaxMade : Own(t) # <<"generated", i>>
    /\ \A t \in Tenants : Own(t) # New
    /\ \A i \in 1..MaxMade : <<"generated", i>> # New
    /\ \A t \in Tenants, u \in Tenants : Own(t) = Own(u) => t = u
    /\ None \notin Names /\ None # New
BY NoneAssumption DEF Own, New

\* The copy differs from the Tenant in finalizer and status only.
Copies(obj, v, fin, status) ==
    /\ v.cp.svc = obj.svc /\ v.cp.stg = obj.stg /\ v.cp.status = status
    /\ v.cp.excl <=> obj.excl
    /\ v.cp.deleting <=> obj.deleting
    /\ v.cp.fin <=> fin

\* The reconcile only writes the Tenant.
PlansTenant(t, obj, v, fin, status) ==
    v.pc = "tenant" /\ v.t = t /\ v.fresh /\ v.target = None /\ v.des = Absent /\ Copies(obj, v, fin, status)

\* The reconcile writes compactor n first.
PlansCompactor(t, obj, v, n, fin, status) ==
    v.pc = "compactor" /\ v.t = t /\ v.fresh /\ v.target = n /\ Copies(obj, v, fin, status)

LEMMA WorkingPlans ==
    ASSUME NEW t \in Tenants, NEW obj \in TenantObject
    PROVE  /\ PlansTenant(t, obj, Working(t, [obj EXCEPT !.fin = FALSE, !.status = None]), FALSE, None)
           /\ PlansTenant(t, obj, Working(t, [obj EXCEPT !.fin = TRUE]), TRUE, obj.status)
           /\ \A n : PlansTenant(t, obj, Working(t, [obj EXCEPT !.status = n]), obj.fin, n)
<1>1. \A cp : /\ Working(t, cp).pc = "tenant" /\ Working(t, cp).t = t /\ Working(t, cp).fresh
              /\ Working(t, cp).target = None /\ Working(t, cp).des = Absent /\ Working(t, cp).cp = cp
    BY DEF Working, Idle
<1>2. ASSUME NEW cp, cp = [obj EXCEPT !.fin = FALSE, !.status = None]
      PROVE  PlansTenant(t, obj, Working(t, cp), FALSE, None)
    <2>1. /\ cp.svc = obj.svc /\ cp.stg = obj.stg /\ cp.excl = obj.excl /\ cp.deleting = obj.deleting
          /\ cp.status = None
        BY <1>2 DEF TenantObject
    <2>2. ~cp.fin
        BY <1>2 DEF TenantObject
    <2> QED
        BY <1>1, <2>1, <2>2 DEF PlansTenant, Copies
<1>3. ASSUME NEW cp, cp = [obj EXCEPT !.fin = TRUE]
      PROVE  PlansTenant(t, obj, Working(t, cp), TRUE, obj.status)
    BY <1>1, <1>3 DEF PlansTenant, Copies, TenantObject
<1>4. ASSUME NEW n, NEW cp, cp = [obj EXCEPT !.status = n]
      PROVE  PlansTenant(t, obj, Working(t, cp), obj.fin, n)
    BY <1>1, <1>4 DEF PlansTenant, Copies, TenantObject
<1> QED
    BY <1>2, <1>3, <1>4

\* The kinds of reconciles: nothing to do, the finalizer is added, the tenant leaves
\* the compactor it names, and, when it needs one, it gets its own, adopts one, is
\* added to one or has one made.
PlansFinalizer(t, obj, v) ==
    ~obj.deleting /\ ~obj.fin /\ PlansTenant(t, obj, v, TRUE, obj.status)

Leaving(t, obj) == obj.deleting \/ (~obj.deleting /\ obj.fin /\ needResetCompactor(t, obj))

PlansToForget(t, obj, v) ==
    /\ Leaving(t, obj)
    /\ obj.status \notin Names \/ ccomp[obj.status] = Absent
    /\ PlansTenant(t, obj, v, obj.fin /\ ~obj.deleting, None)

PlansToLeave(t, obj, v) ==
    /\ Leaving(t, obj)
    /\ obj.status \in Names /\ ccomp[obj.status] # Absent
    /\ PlansCompactor(t, obj, v, obj.status, obj.fin /\ ~obj.deleting, None)
    /\ v.rv
    /\ v.des # Absent =>
          /\ v.des.tenants = ccomp[obj.status].tenants \ {SpecTenant[t]} /\ v.des.tenants # {}
          /\ SameLabels(v.des, ccomp[obj.status]) /\ v.des.excl = ccomp[obj.status].excl

Wanting(t, obj) ==
    ~obj.deleting /\ obj.fin /\ ~needResetCompactor(t, obj) /\ GetStorage(obj) # Local

PlansOwn(t, obj, v) ==
    /\ Wanting(t, obj) /\ obj.excl
    /\ PlansCompactor(t, obj, v, Own(t), obj.fin, Own(t))
    /\ v.des = NewCompactor(t, obj) /\ ~v.rv

PlansToAdopt(t, obj, v) ==
    /\ Wanting(t, obj) /\ ~obj.excl
    /\ \E n \in Having(t, obj) : PlansTenant(t, obj, v, obj.fin, n)

PlansToJoin(t, obj, v) ==
    /\ Wanting(t, obj) /\ ~obj.excl /\ Having(t, obj) = {}
    /\ v.target \in Listed(obj)
    /\ PlansCompactor(t, obj, v, v.target, obj.fin, v.target)
    /\ v.rv /\ v.des # Absent
    /\ v.des.tenants = ccomp[v.target].tenants \cup {t}
    /\ SameLabels(v.des, ccomp[v.target]) /\ v.des.excl = ccomp[v.target].excl

PlansNew(t, obj, v) ==
    /\ Wanting(t, obj) /\ ~obj.excl /\ Having(t, obj) = {}
    /\ PlansCompactor(t, obj, v, New, obj.fin, Unnamed)
    /\ v.des = NewCompactor(t, obj) /\ ~v.rv

LEMMA RemovalPlans ==
    ASSUME TypeOK, NEW t \in Tenants, NEW obj \in TenantObject, Leaving(t, obj),
           NEW cp, PlansTenant(t, obj, Working(t, cp), obj.fin /\ ~obj.deleting, None),
           NEW v, v = removeTenantFromCompactorByName(t, cp, obj.status)
    PROVE  PlansToForget(t, obj, v) \/ PlansToLeave(t, obj, v)
<1> DEFINE n == obj.status
<1>1. CASE n \notin Names \/ ccomp[n] = Absent
    BY <1>1 DEF removeTenantFromCompactorByName, PlansToForget
<1>2. CASE n \in Names /\ ccomp[n] # Absent
    <2> DEFINE rest == ccomp[n].tenants \ {SpecTenant[t]}
               des == IF rest = {} THEN Absent ELSE [ccomp[n] EXCEPT !.tenants = rest]
    <2>1. ccomp[n] \in CompactorObject
        BY <1>2 DEF TypeOK
    <2>2. des # Absent => /\ des.tenants = rest /\ rest # {}
                          /\ SameLabels(des, ccomp[n]) /\ des.excl = ccomp[n].excl
        BY <2>1 DEF CompactorObject, SameLabels
    <2>3. v = [Working(t, cp) EXCEPT !.pc = "compactor", !.target = n, !.des = des, !.rv = TRUE]
        BY <1>2 DEF removeTenantFromCompactorByName, Working, Idle
    <2> HIDE DEF des
    <2>4. PlansCompactor(t, obj, v, n, obj.fin /\ ~obj.deleting, None) /\ v.des = des /\ v.rv = TRUE
        BY <2>3 DEF PlansCompactor, PlansTenant, Copies, Working, Idle
    <2> QED
        BY <1>2, <2>2, <2>4 DEF PlansToLeave
<1> QED
    BY <1>1, <1>2

LEMMA SharedPlans ==
    ASSUME TypeOK, NEW t \in Tenants, NEW obj \in TenantObject, Wanting(t, obj), ~obj.excl,
           NEW v \in Shared(t, obj)
    PROVE  PlansToAdopt(t, obj, v) \/ PlansToJoin(t, obj, v) \/ PlansNew(t, obj, v)
<1>1. \A n : PlansTenant(t, obj, Working(t, [obj EXCEPT !.status = n]), obj.fin, n)
    BY WorkingPlans
<1>2. CASE Having(t, obj) # {}
    <2>1. PICK n \in Having(t, obj) : v = Working(t, [obj EXCEPT !.status = n])
        BY <1>2 DEF Shared
    <2> QED
        BY <1>1, <2>1 DEF PlansToAdopt
<1>3. CASE Having(t, obj) = {} /\ WithRoom(obj) # {}
    <2>1. PICK n \in WithRoom(obj) :
             v = [Working(t, [obj EXCEPT !.status = n]) EXCEPT
                    !.pc = "compactor", !.target = n, !.rv = TRUE,
                    !.des = [ccomp[n] EXCEPT !.tenants = @ \cup {t}]]
        BY <1>3 DEF Shared
    <2> DEFINE d == [ccomp[n] EXCEPT !.tenants = @ \cup {t}]
               c == [obj EXCEPT !.status = n]
    <2>2. v = [Working(t, c) EXCEPT !.pc = "compactor", !.target = n, !.des = d, !.rv = TRUE]
        BY <2>1 DEF Working, Idle
    <2>3. n \in Listed(obj) /\ ccomp[n] \in CompactorObject
        BY <2>1 DEF WithRoom, Listed, TypeOK
    <2>4. /\ d \in CompactorObject /\ d.tenants = ccomp[n].tenants \cup {t}
          /\ SameLabels(d, ccomp[n]) /\ d.excl = ccomp[n].excl
        BY <2>3, NamesTyped DEF CompactorObject, SameLabels
    <2>5. PlansTenant(t, obj, Working(t, c), obj.fin, n)
        BY <1>1
    <2> HIDE DEF d, c
    <2>6. PlansCompactor(t, obj, v, n, obj.fin, n) /\ v.des = d /\ v.rv = TRUE
        BY <2>2, <2>5 DEF PlansCompactor, PlansTenant, Copies, Working, Idle
    <2>7. v.target = n
        BY <2>6 DEF PlansCompactor
    <2> QED
        BY <1>3, <2>3, <2>4, <2>6, <2>7, AbsentAssumption DEF PlansToJoin
<1>4. CASE Having(t, obj) = {} /\ WithRoom(obj) = {}
    <2> DEFINE d == NewCompactor(t, obj)
               c == [obj EXCEPT !.status = Unnamed]
    <2>1. v = [Working(t, c) EXCEPT !.pc = "compactor", !.target = New, !.des = d, !.rv = FALSE]
        BY <1>4 DEF Shared, Working, Idle
    <2>2. PlansTenant(t, obj, Working(t, c), obj.fin, Unnamed)
        BY <1>1
    <2> HIDE DEF d, c
    <2>3. PlansCompactor(t, obj, v, New, obj.fin, Unnamed) /\ v.des = d /\ v.rv = FALSE
        BY <2>1, <2>2 DEF PlansCompactor, PlansTenant, Copies, Working, Idle
    <2> QED
        BY <1>4, <2>3 DEF PlansNew, d
<1> QED
    BY <1>2, <1>3, <1>4

LEMMA PlanKinds ==
    ASSUME TypeOK, NEW t \in Tenants, NEW obj \in TenantObject, NEW v \in Plans(t, obj)
    PROVE  \/ v = Idle
           \/ PlansFinalizer(t, obj, v)
           \/ PlansToForget(t, obj, v) \/ PlansToLeave(t, obj, v)
           \/ PlansOwn(t, obj, v)
           \/ PlansToAdopt(t, obj, v) \/ PlansToJoin(t, obj, v) \/ PlansNew(t, obj, v)
<1>1. CASE ~obj.deleting /\ ~obj.fin
    BY <1>1, WorkingPlans DEF Plans, PlansFinalizer
<1>2. CASE obj.deleting
    <2> DEFINE cp == [obj EXCEPT !.fin = FALSE, !.status = None]
    <2>1. v = removeTenantFromCompactorByName(t, cp, obj.status)
        BY <1>2 DEF Plans
    <2>2. PlansTenant(t, obj, Working(t, cp), FALSE, None)
        BY WorkingPlans
    <2>3. (obj.fin /\ ~obj.deleting) = FALSE
        BY <1>2
    <2>4. PlansTenant(t, obj, Working(t, cp), obj.fin /\ ~obj.deleting, None)
        BY <2>2, <2>3
    <2> HIDE DEF cp
    <2> QED
        BY <1>2, <2>1, <2>4, RemovalPlans DEF Leaving
<1>3. CASE ~obj.deleting /\ obj.fin /\ needResetCompactor(t, obj)
    <2> DEFINE cp == [obj EXCEPT !.status = None]
    <2>1. v = removeTenantFromCompactorByName(t, cp, obj.status)
        BY <1>3 DEF Plans
    <2>2. PlansTenant(t, obj, Working(t, cp), obj.fin, None)
        BY WorkingPlans
    <2>3. (obj.fin /\ ~obj.deleting) = obj.fin
        BY <1>3 DEF TenantObject
    <2>4. PlansTenant(t, obj, Working(t, cp), obj.fin /\ ~obj.deleting, None)
        BY <2>2, <2>3
    <2> HIDE DEF cp
    <2> QED
        BY <1>3, <2>1, <2>4, RemovalPlans DEF Leaving
<1>4. CASE ~obj.deleting /\ obj.fin /\ ~needResetCompactor(t, obj) /\ GetStorage(obj) = Local
    BY <1>4 DEF Plans
<1>5. CASE Wanting(t, obj) /\ obj.excl
    <2> DEFINE d == NewCompactor(t, obj)
               c == [obj EXCEPT !.status = Own(t)]
    <2>1. v = [Working(t, c) EXCEPT !.pc = "compactor", !.target = Own(t), !.des = d, !.rv = FALSE]
        BY <1>5 DEF Plans, Wanting, Exclusive, Working, Idle
    <2>2. PlansTenant(t, obj, Working(t, c), obj.fin, Own(t))
        BY WorkingPlans
    <2> HIDE DEF d, c
    <2>3. PlansCompactor(t, obj, v, Own(t), obj.fin, Own(t)) /\ v.des = d /\ v.rv = FALSE
        BY <2>1, <2>2 DEF PlansCompactor, PlansTenant, Copies, Working, Idle
    <2> QED
        BY <1>5, <2>3 DEF PlansOwn, d
<1>6. CASE Wanting(t, obj) /\ ~obj.excl
    BY <1>6, SharedPlans DEF Plans, Wanting
<1> QED
    BY <1>1, <1>2, <1>3, <1>4, <1>5, <1>6 DEF Wanting, TenantObject

-----------------------------------------------------------------------------
(* A reconcile starts.                                                     *)

\* A tenant that no compactor comes to list, and whose Tenant, service and cache are
\* as before, is held as before.
LEMMA StillHeld ==
    ASSUME NEW u \in Tenants, Held(u), tenant'[u] = tenant[u], UNCHANGED <<ccomp, svcStorage>>,
           \A m \in Names : Lists(comp'[m], u) => Lists(comp[m], u) /\ SameLabels(comp'[m], comp[m])
    PROVE  Held(u)'
<1>1. ASSUME NEW n \in Names, Lists(comp'[n], u), Match(u, tenant[u], n, comp[n])
      PROVE  Match(u, tenant[u], n, comp[n])'
    BY <1>1 DEF Match, SameLabels, GetStorage
<1> QED
    BY <1>1 DEF Held, SameLabels

\* The cache shows every compactor that lists a tenant, unless its id becomes a
\* stray.
Seen(t) ==
    \A n \in Names : Lists(comp[n], t) =>
        Lists(ccomp[n], t) /\ ccomp[n].svc = comp[n].svc /\ ccomp[n].stg = comp[n].stg

LEMMA KnownSeen ==
    ASSUME AccountInv, NEW t \in Known, ~Missed(t)
    PROVE  Seen(t)
<1>1. t \in Tenants /\ SpecTenant[t] = t
    BY DEF Known, AccountInv, SelfNamed
<1>2. ASSUME NEW n \in Names, Lists(comp[n], t) PROVE Lists(ccomp[n], t)
    BY <1>1, <1>2 DEF Missed, Lists, AccountInv, BoundInv, CompactorsCurrent
<1> QED
    BY <1>2 DEF Seen, AccountInv, Held, SameLabels

\* A Tenant that is not reset has a compactor of its labels, as the cache shows it.
LEMMA StatusFits ==
    ASSUME AccountInv, NEW t \in Known, Seen(t), tenant[t] # Absent, Wanting(t, tenant[t]),
           NEW n \in Names, Lists(comp[n], t)
    PROVE  /\ ccomp[n].svc = tenant[t].svc /\ ccomp[n].stg = GetStorage(tenant[t])
           /\ comp[n].svc = tenant[t].svc /\ comp[n].stg = GetStorage(tenant[t])
           /\ tenant[t].excl => n = Own(t)
           /\ ~tenant[t].excl /\ tenant[t].status = n => n # Own(t)
           /\ Match(t, tenant[t], n, comp[n])
<1>1. t \in Tenants /\ SpecTenant[t] = t /\ None \notin Names
    BY NoneAssumption DEF Known, AccountInv, SelfNamed
<1>2. Lists(ccomp[n], t) /\ ccomp[n].svc = comp[n].svc /\ ccomp[n].stg = comp[n].stg
    BY DEF Seen
<1>3. CASE tenant[t].status = n
    <2>1. Fits(t, tenant[t], n)
        BY <1>1, <1>3 DEF Wanting, needResetCompactor
    <2>2. n = Own(t) => ccomp[n].excl
        BY <1>1, <1>2 DEF AccountInv, Formed, WellFormed, Lists
    <2> QED
        BY <1>2, <2>1, <2>2 DEF Fits, Match, Wanting
<1>4. CASE tenant[t].status # n
    <2>1. Match(t, tenant[t], n, comp[n])
        BY <1>4 DEF AccountInv, Held
    <2> QED
        BY <1>2, <1>4, <2>1 DEF Match
<1> QED
    BY <1>3, <1>4

\* Whatever is decided for a tenant that the cache shows, it leads to a Tenant that
\* knows of every compactor that lists it.
LEMMA StartIntends ==
    ASSUME AccountInv, NEW t \in Known, Seen(t), tenant[t] # Absent, UNCHANGED objects,
           w' \in Plans(t, tenant[t])
    PROVE  Intends'
<1> DEFINE obj == tenant[t]
<1>1. /\ TypeOK /\ t \in Tenants /\ SpecTenant[t] = t /\ None \notin Names
      /\ UNCHANGED <<tenant, comp, ccomp, svcStorage>>
    BY NoneAssumption DEF Known, AccountInv, BoundInv, SelfNamed, objects
<1>2. obj \in TenantObject
    BY <1>1 DEF TypeOK
<1>3. /\ NewCompactor(t, obj) # Absent /\ NewCompactor(t, obj).tenants = {t}
      /\ NewCompactor(t, obj).svc = obj.svc /\ NewCompactor(t, obj).stg = GetStorage(obj)
    <2>1. NewCompactor(t, obj) # Absent
        BY <1>1, <1>2, NewTyped, AbsentAssumption
    <2> QED
        BY <1>1, <2>1 DEF NewCompactor
<1>4. ASSUME w' = Idle PROVE Intends'
    BY <1>4 DEF Intends, Idle
<1>5. ASSUME PlansFinalizer(t, obj, w') PROVE Intends'
    <2>1. \A n \in Names : ~Lists(comp[n], t)
        BY <1>5 DEF PlansFinalizer, AccountInv, Held
    <2> QED
        BY <1>1, <1>5, <2>1 DEF PlansFinalizer, PlansTenant, Copies, Intends, Current
<1>6. \A n \in Names : Lists(comp[n], t) /\ obj.status # n => Match(t, obj, n, comp[n]) /\ obj.fin
    BY DEF AccountInv, Held
<1>7. ASSUME Copies(obj, w', obj.fin /\ ~obj.deleting, None), w'.t = t, w'.fresh,
             NEW n \in Names, Lists(comp[n], t), obj.status # n
      PROVE  Tracked(n)'
    <2>1. Match(t, obj, n, comp[n]) /\ obj.fin
        BY <1>6, <1>7
    <2> QED
        BY <1>1, <1>7, <2>1 DEF Copies, Tracked, Match, GetStorage
<1>8. ASSUME PlansToForget(t, obj, w') PROVE Intends'
    <2>1. \A n \in Names : Lists(comp[n], t) => obj.status # n
        BY <1>8 DEF PlansToForget, Seen, Lists
    <2>2. \A n \in Names : Lists(comp[n], t) => Tracked(n)'
        BY <1>7, <1>8, <2>1 DEF PlansToForget, PlansTenant
    <2> QED
        BY <1>1, <1>8, <2>2 DEF PlansToForget, PlansTenant, Copies, Intends, Current
<1>9. ASSUME PlansToLeave(t, obj, w') PROVE Intends'
    <2>1. /\ w'.pc = "compactor" /\ w'.t = t /\ w'.fresh /\ w'.target = obj.status
          /\ Copies(obj, w', obj.fin /\ ~obj.deleting, None)
        BY <1>9 DEF PlansToLeave, PlansCompactor
    <2>2. ~Adding'
        BY <1>1, <1>9, <2>1 DEF PlansToLeave, Adding
    <2>3. \A n \in Names : n # obj.status /\ Lists(comp[n], t) => Tracked(n)'
        BY <1>7, <2>1
    <2>4. obj.status \in Names /\ obj.status # New
        BY <1>9, NamesTyped DEF PlansToLeave
    <2>5. Remove'
        BY <1>1, <2>1, <2>3, <2>4 DEF Remove, Seen
    <2> QED
        BY <1>1, <2>1, <2>2, <2>5 DEF Intends, Copies, Current
<1>10. ASSUME PlansOwn(t, obj, w') PROVE Intends'
    <2>1. /\ w'.pc = "compactor" /\ w'.t = t /\ w'.fresh /\ w'.target = Own(t)
          /\ Copies(obj, w', obj.fin, Own(t)) /\ w'.des = NewCompactor(t, obj)
          /\ Wanting(t, obj) /\ obj.excl
        BY <1>10 DEF PlansOwn, PlansCompactor
    <2>2. /\ w'.des # Absent /\ w'.des.tenants = {t} /\ w'.des.svc = obj.svc /\ w'.des.stg = GetStorage(obj)
        BY <1>3, <2>1
    <2>3. Own(t) # New
        BY <1>1, NamesApart
    <2>4. \A n \in Names : Lists(comp[n], t) => n = Own(t) /\ SameLabels(comp[n], w'.des)
        BY <2>1, <2>2, StatusFits DEF SameLabels
    <2>5. Match(t, obj, Own(t), w'.des) /\ obj.fin
        BY <2>1, <2>2 DEF Match, Wanting
    <2>6. Match(w.t, tenant[w.t], w.target, w.des)'
        BY <1>1, <2>1, <2>5 DEF Match, GetStorage
    <2>7. Add'
        BY <1>1, <2>1, <2>3, <2>4, <2>5, <2>6 DEF Add, Copies
    <2> QED
        BY <1>1, <2>1, <2>2, <2>7 DEF Intends, Adding, Copies, Current
<1>11. ASSUME PlansToAdopt(t, obj, w') PROVE Intends'
    <2>1. PICK n0 \in Having(t, obj) : PlansTenant(t, obj, w', obj.fin, n0)
        BY <1>11 DEF PlansToAdopt
    <2>2. /\ w'.pc = "tenant" /\ w'.t = t /\ w'.fresh /\ Copies(obj, w', obj.fin, n0)
          /\ Wanting(t, obj) /\ ~obj.excl
        BY <1>11, <2>1 DEF PlansToAdopt, PlansTenant
    <2>3. n0 \in Names /\ Lists(ccomp[n0], t) /\ ccomp[n0].svc = obj.svc /\ ccomp[n0].stg = GetStorage(obj)
        BY <1>1, <2>1 DEF Having, Listed, Lists
    <2>4. ASSUME NEW n \in Names, Lists(comp[n], t) PROVE Tracked(n)'
        <3>1. Match(t, obj, n, comp[n])
            BY <2>2, <2>4, StatusFits
        <3>2. n # n0 => n = Own(t)
            <4>1. SameLabels(comp[n], ccomp[n0])
                BY <2>3, <3>1 DEF SameLabels, Match
            <4> QED
                BY <2>3, <2>4, <4>1 DEF AccountInv, Held
        <3>3. n # n0 => obj.status # n
            BY <2>2, <2>4, <3>2, StatusFits
        <3>4. Match(w.t, w.cp, n, comp[n])'
            BY <1>1, <2>2, <3>1 DEF Match, GetStorage, Copies
        <3> QED
            BY <1>1, <2>2, <3>3, <3>4 DEF Tracked, Copies, Wanting
    <2> QED
        BY <1>1, <2>2, <2>4 DEF Intends, Copies, Current
<1>12. ASSUME PlansToJoin(t, obj, w') \/ PlansNew(t, obj, w') PROVE Intends'
    <2>1. /\ w'.pc = "compactor" /\ w'.t = t /\ w'.fresh
          /\ w'.target \in Names => Copies(obj, w', obj.fin, w'.target)
          /\ w'.target \notin Names => w'.target = New /\ Copies(obj, w', obj.fin, Unnamed)
          /\ Wanting(t, obj) /\ ~obj.excl /\ Having(t, obj) = {}
        BY <1>12, NamesTyped DEF PlansToJoin, PlansNew, PlansCompactor, Listed
    <2>2. w'.des # Absent /\ t \in w'.des.tenants /\ w'.des.svc = obj.svc /\ w'.des.stg = GetStorage(obj)
        <3>1. CASE PlansToJoin(t, obj, w')
            BY <3>1 DEF PlansToJoin, Listed, SameLabels
        <3>2. CASE PlansNew(t, obj, w')
            BY <1>3, <3>2 DEF PlansNew
        <3> QED
            BY <1>12, <3>1, <3>2
    <2>3. \A n \in Names : Lists(ccomp[n], t) => ~SameLabels(w'.des, ccomp[n])
        BY <1>1, <2>1, <2>2 DEF Having, Listed, Lists, SameLabels
    <2>4. \A n \in Names : ~Lists(comp[n], t)
        <3>1. SUFFICES ASSUME NEW n \in Names, Lists(comp[n], t) PROVE FALSE
            OBVIOUS
        <3>2. Lists(ccomp[n], t) /\ SameLabels(w'.des, ccomp[n])
            BY <2>1, <2>2, <3>1, StatusFits DEF Seen, SameLabels
        <3> QED
            BY <2>3, <3>2
    <2>5. w'.target = New => obj.status = None
        <3>1. SUFFICES ASSUME obj.status # None PROVE FALSE
            OBVIOUS
        <3>2. Fits(t, obj, obj.status)
            BY <2>1, <3>1 DEF Wanting, needResetCompactor
        <3> QED
            BY <1>1, <2>1, <3>2 DEF Fits, Having, Listed
    <2>6. Match(w.t, tenant[w.t], w.target, w.des)'
        BY <1>1, <2>1, <2>2 DEF Match, GetStorage, Wanting
    <2>7. Add'
        BY <1>1, <2>1, <2>3, <2>4, <2>5, <2>6 DEF Add, Copies, Wanting
    <2> QED
        BY <1>1, <2>1, <2>2, <2>7 DEF Intends, Adding, Copies, Current
<1> QED
    BY <1>1, <1>2, <1>4, <1>5, <1>8, <1>9, <1>10, <1>11, <1>12, PlanKinds

\* What is decided on is a well formed compactor, made of the one the cache shows.
LEMMA StartWrites ==
    ASSUME AccountInv, NEW t \in Tenants, tenant[t] # Absent, UNCHANGED objects, strays \subseteq strays',
           w' \in Plans(t, tenant[t])
    PROVE  /\ WellFormed(w'.target, w'.des)
           /\ \A i \in 1..MaxMade : w'.target = <<"generated", i>> => i <= made
           /\ Rewrites'
<1> DEFINE obj == tenant[t]
           Target(n) == \A i \in 1..MaxMade : n = <<"generated", i>> => i <= made
<1>1. /\ TypeOK /\ SpecTenant[t] = t /\ None \notin Names /\ New \notin Names
      /\ UNCHANGED <<tenant, comp, ccomp, svcStorage>> /\ Known' \subseteq Known
    BY NoneAssumption, NamesTyped DEF AccountInv, BoundInv, SelfNamed, objects, Known
<1>2. obj \in TenantObject /\ made \in Nat
    BY <1>1, CompactorAssumption DEF TypeOK
<1>3. CASE w'.des = Absent /\ w'.target = None
    <2>1. Target(None)
        BY <1>1, NamesTyped
    <2> QED
        BY <1>3, <2>1 DEF WellFormed, Rewrites
<1>4. CASE w'.des = NewCompactor(t, obj) /\ w'.t = t /\ ~w'.rv
           /\ (w'.target = New \/ (obj.excl /\ w'.target = Own(t)))
    <2>1. /\ w'.des.tenants = {t} /\ w'.des.excl = obj.excl
        BY <1>1, <1>4 DEF NewCompactor
    <2>2. Target(w'.target)
        BY <1>4, NamesApart
    <2>3. \A u \in Tenants : w'.target = Own(u) => w'.des.excl
        BY <1>4, <2>1, NamesApart
    <2> QED
        BY <1>4, <2>1, <2>2, <2>3 DEF WellFormed, Rewrites
<1>5. CASE /\ w'.target \in Names /\ ccomp[w'.target] # Absent /\ w'.t = t /\ w'.rv
           /\ w'.des # Absent =>
                 /\ w'.des.tenants # {} /\ w'.des.tenants \subseteq ccomp[w'.target].tenants \cup {t}
                 /\ SameLabels(w'.des, ccomp[w'.target]) /\ w'.des.excl = ccomp[w'.target].excl
    <2>1. WellFormed(w'.target, w'.des)
        BY <1>5 DEF AccountInv, Formed, WellFormed
    <2>2. Target(w'.target)
        BY <1>2, <1>5 DEF AccountInv, Formed
    <2>3. ASSUME NEW v \in Known', v # t, w'.des # Absent, v \in w'.des.tenants, Lists(comp[w'.target], v)
          PROVE  SameLabels(w'.des, comp[w'.target])
        <3>1. v \in Known /\ Lists(ccomp[w'.target], v)
            BY <1>1, <1>5, <2>3 DEF Lists
        <3>2. SameLabels(comp[w'.target], ccomp[w'.target])
            BY <1>5, <2>3, <3>1 DEF AccountInv, Held
        <3> QED
            BY <1>5, <2>3, <3>2 DEF SameLabels
    <2>4. Rewrites'
        BY <1>1, <1>5, <2>3 DEF Rewrites
    <2> QED
        BY <2>1, <2>2, <2>4
<1>6. CASE w' = Idle
    BY <1>3, <1>6 DEF Idle
<1>7. CASE PlansFinalizer(t, obj, w') \/ PlansToForget(t, obj, w') \/ PlansToAdopt(t, obj, w')
    BY <1>3, <1>7 DEF PlansFinalizer, PlansToForget, PlansToAdopt, PlansTenant
<1>8. CASE PlansToLeave(t, obj, w')
    BY <1>5, <1>8 DEF PlansToLeave, PlansCompactor
<1>9. CASE PlansToJoin(t, obj, w')
    <2>1. w'.target \in Names /\ ccomp[w'.target] # Absent
        BY <1>9 DEF PlansToJoin, Listed
    <2> QED
        BY <1>5, <1>9, <2>1 DEF PlansToJoin, PlansCompactor
<1>10. CASE PlansOwn(t, obj, w') \/ PlansNew(t, obj, w')
    BY <1>4, <1>10 DEF PlansOwn, PlansNew, PlansCompactor
<1> QED
    BY <1>1, <1>2, <1>6, <1>7, <1>8, <1>9, <1>10, PlanKinds

LEMMA StartAccount ==
    ASSUME AccountInv, NEW t \in Tenants, Start(t)
    PROVE  AccountInv'
<1>1. /\ UNCHANGED objects /\ UNCHANGED <<tenant, comp, ccomp, stale, svcStorage, made>>
      /\ w' \in IF tenant[t] = Absent THEN {Idle} ELSE Plans(t, tenant[t])
      /\ strays' = IF Missed(t) THEN strays \cup {SpecTenant[t]} ELSE strays
      /\ SpecTenant[t] = t
    BY DEF Start, objects, AccountInv, SelfNamed
<1>2. BoundInv' /\ SelfNamed'
    BY StartBound DEF AccountInv, SelfNamed
<1>3. /\ WellFormed(w'.target, w'.des) /\ Rewrites'
      /\ \A i \in 1..MaxMade : w'.target = <<"generated", i>> => i <= made
    <2>1. CASE tenant[t] = Absent
        <3>1. w' = Idle
            BY <1>1, <2>1
        <3>2. \A i \in 1..MaxMade : None # <<"generated", i>>
            BY NoneAssumption, NamesTyped
        <3> QED
            BY <3>1, <3>2 DEF Idle, WellFormed, Rewrites
    <2>2. CASE tenant[t] # Absent
        BY <1>1, <2>2, StartWrites
    <2> QED
        BY <2>1, <2>2
<1>4. Formed'
    BY <1>1, <1>3 DEF AccountInv, Formed
<1>5. ASSUME NEW u \in Known' PROVE Held(u)'
    <2>1. u \in Known /\ u \in Tenants
        BY <1>1 DEF Known
    <2> QED
        BY <1>1, <2>1, StillHeld DEF AccountInv, SameLabels
<1>6. Intends'
    <2>1. CASE w'.pc = "idle" \/ t \notin Known'
        <3>1. w'.pc # "idle" => w'.t = t
            <4>1. tenant[t] # Absent => (w'.pc # "idle" => w'.t = t)
                BY <1>1, PlansEffective DEF AccountInv
            <4> QED
                BY <1>1, <4>1 DEF Idle
        <3> QED
            BY <2>1, <3>1 DEF Intends
    <2>2. CASE w'.pc # "idle" /\ t \in Known'
        <3>1. t \in Known /\ ~Missed(t) /\ tenant[t] # Absent /\ w' \in Plans(t, tenant[t])
            BY <1>1, <2>2 DEF Known, Idle
        <3> QED
            BY <1>1, <3>1, KnownSeen, StartIntends
    <2> QED
        BY <2>1, <2>2
<1> QED
    BY <1>2, <1>3, <1>4, <1>5, <1>6 DEF AccountInv

-----------------------------------------------------------------------------
(* The compactor is written.                                               *)

\* A write leaves the other compactors alone and puts the tenants of the worker's
\* list in the place of what was there, of which it is a version, or there was
\* nothing.
LEMMA WriteEffect ==
    ASSUME AccountInv, WriteCompactor
    PROVE  /\ w.target \in Names /\ w.pc = "compactor" /\ w.t \in Tenants
           /\ \A m \in Names : m # w.target => comp'[m] = comp[m]
           /\ \/ w.des = Absent /\ comp'[w.target] = Absent
              \/ w.des # Absent /\ w.des = ccomp[w.target] /\ comp'[w.target] = comp[w.target]
              \/ /\ w.des # Absent /\ comp'[w.target] = w.des
                 /\ ccomp[w.target] = comp[w.target]
                 /\ comp[w.target] = Absent => ~w.rv
<1>1. w.target \in Names /\ w.pc = "compactor" /\ w.t \in Tenants
    BY DEF WriteCompactor, AccountInv, BoundInv, TypeOK, WorkerRecord
<1>2. comp \in [Names -> CompactorObject \cup {Absent}]
    BY DEF AccountInv, BoundInv, TypeOK
<1>3. w.target \notin stale => ccomp[w.target] = comp[w.target]
    BY <1>1 DEF AccountInv, BoundInv, CompactorsCurrent
<1> QED
    BY <1>1, <1>2, <1>3 DEF WriteCompactor, Put

\* A tenant other than the worker's, that is not written back, is listed where it
\* was, under the same labels.
LEMMA OthersKept ==
    ASSUME AccountInv, WriteCompactor, NEW v \in Known', v # w.t,
           NEW m \in Names, Lists(comp'[m], v)
    PROVE  Lists(comp[m], v) /\ SameLabels(comp'[m], comp[m])
<1>1. v \in Known /\ v \notin WrittenBack
    BY DEF WriteCompactor, Known
<1>2. CASE comp'[m] = comp[m]
    BY <1>2 DEF SameLabels
<1>3. CASE comp'[m] # comp[m]
    <2>1. m = w.target /\ w.des # Absent /\ comp'[m] = w.des /\ v \in w.des.tenants
        BY <1>3, WriteEffect DEF Lists
    <2>2. comp[m] # Absent
        BY <1>1, <1>3, <2>1, WriteEffect DEF AccountInv, Rewrites
    <2>3. v \in comp[m].tenants
        BY <1>1, <2>1, <2>2, WriteEffect DEF WrittenBack, AccountInv, SelfNamed
    <2>4. m # New
        BY NamesTyped
    <2> QED
        BY <1>1, <2>1, <2>2, <2>3, <2>4, WriteEffect DEF AccountInv, Rewrites, Lists
<1> QED
    BY <1>2, <1>3

\* What a write does for the worker's own tenant.
LEMMA OwnWritten ==
    ASSUME AccountInv, WriteCompactor, w.t \in Known
    PROVE  Held(w.t)' /\ \A n \in Names : Lists(comp'[n], w.t) => Tracked(n)'
<1>1. /\ w'.pc = "tenant" /\ w'.t = w.t /\ w'.cp = w.cp /\ w'.fresh = w.fresh
      /\ UNCHANGED <<tenant, ccomp, svcStorage>>
    BY DEF WriteCompactor, AccountInv, BoundInv, TypeOK, WorkerRecord
<1>2. w.fresh /\ Current /\ (IF Adding THEN Add ELSE Remove) /\ Held(w.t)
    BY WriteEffect DEF AccountInv, Intends
<1>3. w.target \in Names /\ w.target # New /\ \A m \in Names : m # w.target => comp'[m] = comp[m]
    BY WriteEffect, NamesTyped
<1>4. CASE Adding
    <2>1. \A n \in Names : Lists(comp'[n], w.t) => n = w.target /\ SameLabels(comp'[n], w.des)
        BY <1>2, <1>3, <1>4, WriteEffect DEF Add, Adding, SameLabels
    <2>2. Lists(comp'[w.target], w.t) /\ Lists(ccomp[w.target], w.t) =>
             SameLabels(comp'[w.target], ccomp[w.target])
        BY <1>2, <1>3, <1>4, WriteEffect DEF Add, Adding, SameLabels, Held
    <2>3. \A n \in Names : Lists(comp'[n], w.t) => Match(w.t, tenant[w.t], n, comp'[n])
        BY <1>2, <1>4, <2>1 DEF Add, Match, SameLabels
    <2>4. \A n \in Names : Lists(comp'[n], w.t) => Match(w.t, tenant[w.t], n, comp[n])'
        BY <1>1, <2>3 DEF Match, GetStorage
    <2>5. \A n \in Names : Lists(comp'[n], w.t) /\ n # Own(w.t) =>
             \A m \in Names : m # n /\ Lists(ccomp[m], w.t) => ~SameLabels(comp'[n], ccomp[m])
        BY <1>2, <1>4, <2>1 DEF Add, SameLabels
    <2>6. Held(w.t)'
        BY <1>1, <1>2, <1>4, <2>1, <2>2, <2>4, <2>5 DEF Held, Add, Current
    <2>7. \A n \in Names : Lists(comp'[n], w.t) => Tracked(n)'
        BY <1>1, <1>2, <1>3, <1>4, <2>1, <2>3 DEF Tracked, Add, Match, Current
    <2> QED
        BY <2>6, <2>7
<1>5. CASE ~Adding
    <2>1. ~Lists(comp'[w.target], w.t)
        BY <1>2, <1>5, WriteEffect DEF Adding, Remove, Lists
    <2>2. \A n \in Names : Lists(comp'[n], w.t) => n # w.target /\ comp'[n] = comp[n]
        BY <1>3, <2>1
    <2>3. Held(w.t)'
        BY <1>1, <1>2, <2>2, WriteEffect, StillHeld DEF SameLabels
    <2>4. \A n \in Names : Lists(comp'[n], w.t) => Tracked(n)
        BY <1>2, <1>5, <2>2 DEF Remove
    <2>5. \A n \in Names : Lists(comp'[n], w.t) => Tracked(n)'
        BY <1>1, <2>2, <2>4 DEF Tracked, Match, GetStorage
    <2> QED
        BY <2>3, <2>5
<1> QED
    BY <1>4, <1>5

LEMMA WriteAccount ==
    ASSUME AccountInv, WriteCompactor
    PROVE  AccountInv'
<1>1. /\ w'.pc = "tenant" /\ w'.t = w.t /\ w'.cp = w.cp /\ w'.fresh = w.fresh
      /\ w'.target = None /\ w'.des = Absent
      /\ UNCHANGED <<tenant, ccomp, svcStorage, made>> /\ Known' \subseteq Known
    BY DEF WriteCompactor, AccountInv, BoundInv, TypeOK, WorkerRecord, Known
<1>2. BoundInv' /\ SelfNamed'
    BY CompactorWritesBound DEF AccountInv, SelfNamed
<1>3. Formed'
    <2>1. \A n \in Names : WellFormed(n, comp'[n])
        BY WriteEffect DEF AccountInv, Formed, WellFormed
    <2>2. \A i \in 1..MaxMade : i > made => comp'[<<"generated", i>>] = Absent
        <3>1. SUFFICES ASSUME NEW i \in 1..MaxMade, i > made PROVE comp'[<<"generated", i>>] = Absent
            OBVIOUS
        <3>2. <<"generated", i>> # w.target /\ comp[<<"generated", i>>] = Absent
            BY <3>1, CompactorAssumption DEF AccountInv, Formed, BoundInv, TypeOK
        <3> QED
            BY <3>2, NamesTyped, WriteEffect
    <2>3. \A i \in 1..MaxMade : None # <<"generated", i>>
        BY NoneAssumption, NamesTyped
    <2>4. WellFormed(w'.target, w'.des)
        BY <1>1 DEF WellFormed
    <2> QED
        BY <1>1, <2>1, <2>2, <2>3, <2>4 DEF AccountInv, Formed
<1>4. ASSUME NEW u \in Known' PROVE Held(u)'
    <2>1. u \in Known /\ u \in Tenants
        BY <1>1 DEF Known
    <2>2. CASE u = w.t
        BY <1>1, <2>1, <2>2, OwnWritten DEF Held
    <2>3. CASE u # w.t
        BY <1>1, <1>4, <2>1, <2>3, OthersKept, StillHeld DEF AccountInv
    <2> QED
        BY <2>2, <2>3
<1>5. Rewrites'
    BY <1>1 DEF Rewrites
<1>6. Intends'
    <2>1. CASE w.t \notin Known'
        BY <1>1, <2>1 DEF Intends
    <2>2. CASE w.t \in Known'
        <3>1. w.t \in Known
            BY <1>1, <2>2
        <3>2. w.fresh => Current'
            BY <1>1, <3>1, WriteEffect DEF AccountInv, Intends, Current
        <3> QED
            BY <1>1, <3>1, <3>2, OwnWritten DEF Intends
    <2> QED
        BY <2>1, <2>2
<1> QED
    BY <1>2, <1>3, <1>4, <1>5, <1>6 DEF AccountInv

\* The new compactor has a name that was not used, and no other lists its tenant.
LEMMA CreateAccount ==
    ASSUME AccountInv, CreateCompactor
    PROVE  AccountInv'
<1> DEFINE n0 == <<"generated", made + 1>>
<1>1. /\ w.pc = "compactor" /\ w.target = New /\ w.des \in CompactorObject /\ w.t \in Tenants
      /\ w'.pc = "tenant" /\ w'.t = w.t /\ w'.cp = w.cp /\ w'.fresh = w.fresh
      /\ w'.target = None /\ w'.des = Absent
      /\ UNCHANGED <<tenant, ccomp, svcStorage, strays>> /\ made' = made + 1
    BY DEF CreateCompactor, AccountInv, BoundInv, TypeOK, WorkerRecord
<1>2. /\ made + 1 \in 1..MaxMade /\ n0 \in Names /\ n0 # New /\ made \in Nat
      /\ comp' = [comp EXCEPT ![n0] = w.des]
    BY NamesTyped, CompactorAssumption DEF CreateCompactor, Put, AccountInv, BoundInv, TypeOK
<1>3. comp'[n0] = w.des /\ \A m \in Names : m # n0 => comp'[m] = comp[m]
    BY <1>2 DEF AccountInv, BoundInv, TypeOK
<1>4. comp[n0] = Absent /\ ccomp[n0] = Absent
    BY <1>2 DEF AccountInv, Formed
<1>5. w.des # Absent /\ w.des.tenants = {w.t} /\ \A u \in Tenants : n0 # Own(u)
    BY <1>1, <1>2, AbsentAssumption, NamesApart DEF AccountInv, Rewrites
<1>6. BoundInv' /\ SelfNamed'
    BY CompactorWritesBound DEF AccountInv, SelfNamed
<1>7. Formed'
    <2>1. \A n \in Names : WellFormed(n, comp'[n])
        BY <1>3, <1>5 DEF AccountInv, Formed, WellFormed
    <2>2. \A i \in 1..MaxMade : i > made' => comp'[<<"generated", i>>] = Absent /\ ccomp[<<"generated", i>>] = Absent
        <3>1. SUFFICES ASSUME NEW i \in 1..MaxMade, i > made + 1
                       PROVE  comp'[<<"generated", i>>] = Absent /\ ccomp[<<"generated", i>>] = Absent
            BY <1>1
        <3>2. i > made /\ <<"generated", i>> # n0
            BY <1>2, <3>1
        <3> HIDE DEF n0
        <3> QED
            BY <1>3, <3>2, NamesTyped DEF AccountInv, Formed
    <2>3. \A i \in 1..MaxMade : None # <<"generated", i>>
        BY NoneAssumption, NamesTyped
    <2>4. WellFormed(w'.target, w'.des)
        BY <1>1 DEF WellFormed
    <2> QED
        BY <1>1, <2>1, <2>2, <2>3, <2>4 DEF AccountInv, Formed
<1> HIDE DEF n0
<1>8. ASSUME NEW u \in Known, u # w.t PROVE Held(u)'
    <2>1. u \in Tenants
        BY DEF Known
    <2>2. \A m \in Names : Lists(comp'[m], u) => Lists(comp[m], u) /\ SameLabels(comp'[m], comp[m])
        BY <1>3, <1>5, <1>8 DEF Lists, SameLabels
    <2> QED
        BY <1>1, <2>1, <2>2, StillHeld DEF AccountInv
<1>9. ASSUME w.t \in Known
      PROVE  /\ Held(w.t)' /\ Current' /\ w.fresh
             /\ \A n \in Names : Lists(comp'[n], w.t) => Tracked(n)'
    <2>1. w.fresh /\ Current /\ Add
        BY <1>1, <1>5, <1>9 DEF AccountInv, Intends, Adding
    <2>2. \A n \in Names : Lists(comp'[n], w.t) => n = n0 /\ comp'[n] = w.des
        BY <1>1, <1>3, <2>1, NamesTyped DEF Add
    <2>3. ~tenant[w.t].excl /\ tenant[w.t].status = None /\ None # n0
        BY <1>1, <1>2, <2>1, NamesApart DEF Add, Match
    <2>4. \A n \in Names : Lists(comp'[n], w.t) => Match(w.t, tenant[w.t], n, comp[n])'
        BY <1>1, <2>1, <2>2, <2>3 DEF Add, Match, GetStorage
    <2>5. \A m \in Names : Lists(ccomp[m], w.t) => ~SameLabels(w.des, ccomp[m])
        BY <1>1, <2>1, NamesApart, NamesTyped DEF Add
    <2>6. Held(w.t)'
        BY <1>1, <1>4, <2>1, <2>2, <2>4, <2>5 DEF Held, Add, Current, Lists
    <2>7. \A n \in Names : Lists(comp'[n], w.t) => Match(w.t, w.cp, n, comp[n])'
        BY <1>1, <2>1, <2>4 DEF Match, GetStorage, Current
    <2>8. \A n \in Names : Lists(comp'[n], w.t) => Tracked(n)'
        BY <1>1, <2>1, <2>2, <2>3, <2>7 DEF Tracked, Add, Match, Current
    <2> QED
        BY <1>1, <2>1, <2>6, <2>8 DEF Current
<1>10. ASSUME NEW u \in Known' PROVE Held(u)'
    <2>1. CASE u = w.t
        BY <1>1, <1>9, <1>10, <2>1 DEF Held, Known
    <2> QED
        BY <1>1, <1>8, <1>10, <2>1 DEF Known
<1>11. Rewrites'
    BY <1>1 DEF Rewrites
<1>12. Intends'
    BY <1>1, <1>9 DEF Intends, Known
<1> QED
    BY <1>6, <1>7, <1>10, <1>11, <1>12 DEF AccountInv

-----------------------------------------------------------------------------
(* The other steps.                                                        *)

\* A worker that gives up has nothing left to write.
LEMMA RequeueAccount ==
    ASSUME AccountInv, BoundInv', w' = Idle, UNCHANGED <<objects, strays>>
    PROVE  AccountInv'
<1>1. UNCHANGED <<tenant, comp, ccomp, stale, svcStorage, made, strays>>
    BY DEF objects
<1>2. Formed'
    <2>1. \A i \in 1..MaxMade : None # <<"generated", i>>
        BY NoneAssumption, NamesTyped
    <2>2. w'.target = None /\ WellFormed(w'.target, w'.des)
        BY DEF Idle, WellFormed
    <2> QED
        BY <1>1, <2>1, <2>2 DEF AccountInv, Formed
<1>3. ASSUME NEW u \in Known' PROVE Held(u)'
    <2>1. u \in Known /\ u \in Tenants
        BY <1>1 DEF Known
    <2> QED
        BY <1>1, <2>1, StillHeld DEF AccountInv, SameLabels
<1>4. Rewrites' /\ Intends'
    BY DEF Idle, Rewrites, Intends
<1> QED
    BY <1>2, <1>3, <1>4 DEF AccountInv, SelfNamed

\* The Tenant that is written knows of every compactor that lists it.
LEMMA WriteTenantAccount ==
    ASSUME AccountInv, WriteTenant
    PROVE  AccountInv'
<1>1. /\ w.pc = "tenant" /\ w.fresh /\ w.t \in Tenants /\ w.cp \in TenantObject /\ w' = Idle
      /\ tenant' = [tenant EXCEPT ![w.t] = Stored(w.cp)]
      /\ UNCHANGED <<comp, ccomp, svcStorage, made, strays>>
    BY DEF WriteTenant, AccountInv, BoundInv, TypeOK
<1>2. /\ \A u \in Tenants : u # w.t => tenant'[u] = tenant[u]
      /\ tenant'[w.t] = Stored(w.cp)
    BY <1>1 DEF AccountInv, BoundInv, TypeOK
<1>3. BoundInv' /\ SelfNamed'
    BY WriteTenantBound DEF AccountInv, SelfNamed
<1>4. Formed'
    <2>1. \A i \in 1..MaxMade : None # <<"generated", i>>
        BY NoneAssumption, NamesTyped
    <2>2. w'.target = None /\ WellFormed(w'.target, w'.des)
        BY <1>1 DEF Idle, WellFormed
    <2> QED
        BY <1>1, <2>1, <2>2 DEF AccountInv, Formed
<1>5. ASSUME NEW u \in Known' PROVE Held(u)'
    <2>1. u \in Known /\ u \in Tenants
        BY <1>1, <1>5 DEF Known
    <2>2. CASE u # w.t
        BY <1>1, <1>2, <2>1, <2>2, StillHeld DEF AccountInv, SameLabels
    <2>3. CASE u = w.t
        <3>1. \A n \in Names : Lists(comp[n], u) => Tracked(n)
            BY <1>1, <2>1, <2>3 DEF AccountInv, Intends
        <3>2. \A n \in Names : Lists(comp[n], u) =>
                 tenant'[u] = w.cp /\ w.cp.fin /\ (w.cp.status = n \/ Match(u, w.cp, n, comp[n]))
            BY <1>2, <2>3, <3>1 DEF Tracked, Stored
        <3>3. w.cp # Absent
            BY <1>1, AbsentAssumption
        <3>4. \A n \in Names : Lists(comp[n], u) =>
                 tenant'[u].status = n \/ Match(u, tenant[u], n, comp[n])'
            BY <1>1, <3>2 DEF Match, GetStorage
        <3> QED
            BY <1>1, <2>1, <3>2, <3>3, <3>4 DEF AccountInv, Held
    <2> QED
        BY <2>2, <2>3
<1>6. Rewrites' /\ Intends'
    BY <1>1 DEF Idle, Rewrites, Intends
<1> QED
    BY <1>3, <1>4, <1>5, <1>6 DEF AccountInv

\* A user's edit keeps finalizer and status, and a Tenant that a compactor lists
\* has its finalizer: unless the status already names the compactor, and none is
\* about to be written, the tenant's id becomes a stray.
LEMMA EditAccount ==
    ASSUME AccountInv, TypeOK', NEW t \in Tenants, NEW obj, TenantEdit(t, obj),
           tenant[t] # Absent /\ tenant[t].fin => obj # Absent /\ obj.fin /\ obj.status = tenant[t].status
    PROVE  AccountInv'
<1>1. /\ tenant' = [tenant EXCEPT ![t] = obj]
      /\ w' = IF w.t = t THEN [w EXCEPT !.fresh = FALSE] ELSE w
      /\ strays' = strays \cup {SpecTenant[u] : u \in {u \in {t} : tenant[u] # Absent /\ Unadopted(u)}}
      /\ UNCHANGED <<comp, ccomp, stale, svcStorage, made>>
    BY DEF TenantEdit, UserEdit
<1>2. /\ tenant'[t] = obj /\ \A u \in Tenants : u # t => tenant'[u] = tenant[u]
    BY <1>1 DEF AccountInv, BoundInv, TypeOK
<1>3. /\ Known' \subseteq Known /\ Known \subseteq Tenants
      /\ t \in Known' /\ tenant[t] # Absent => ~Unadopted(t)
    BY <1>1 DEF Known, AccountInv, SelfNamed
<1>4. /\ w'.pc = w.pc /\ w'.t = w.t /\ w'.cp = w.cp /\ w'.des = w.des /\ w'.target = w.target /\ w'.rv = w.rv
      /\ w.t = t => ~w'.fresh
      /\ w.t # t => w'.fresh = w.fresh
    BY <1>1 DEF AccountInv, BoundInv, TypeOK, WorkerRecord
<1>5. BoundInv' /\ SelfNamed'
    BY EditBound DEF AccountInv, SelfNamed
<1>6. Formed'
    BY <1>1, <1>4 DEF AccountInv, Formed
<1>7. ASSUME NEW u \in Known' PROVE Held(u)'
    <2>1. u \in Known /\ u \in Tenants
        BY <1>3
    <2>2. CASE u # t
        BY <1>1, <1>2, <2>1, <2>2, StillHeld DEF AccountInv, SameLabels
    <2>3. CASE u = t
        <3>1. \A n \in Names : Lists(comp[n], u) =>
                 obj # Absent /\ obj.fin /\ obj.status = n
            BY <1>3, <1>7, <2>1, <2>3 DEF AccountInv, SelfNamed, Held, Unadopted, Lists
        <3>2. \A n \in Names : Lists(comp[n], u) => tenant'[u] # Absent /\ tenant'[u].fin /\ tenant'[u].status = n
            BY <1>2, <2>3, <3>1
        <3> QED
            BY <1>1, <2>1, <3>2 DEF AccountInv, Held
    <2> QED
        BY <2>2, <2>3
<1>8. Rewrites'
    BY <1>1, <1>3, <1>4 DEF AccountInv, Rewrites
<1>9. Intends'
    <2>1. SUFFICES ASSUME w.pc # "idle", w.t \in Known' PROVE Intends'
        BY <1>4 DEF Intends
    <2>2. w.t \in Known /\ w.t \in Tenants
        BY <1>3, <2>1
    <2>3. CASE w.t = t
        <3>1. w.pc # "compactor"
            <4>1. w.pc = "compactor" => tenant[t] # Absent
                BY <2>1, <2>2, <2>3 DEF AccountInv, Intends, Current
            <4> QED
                BY <1>3, <2>1, <2>3, <4>1 DEF Unadopted
        <3> QED
            BY <1>4, <2>3, <3>1 DEF Intends
    <2>4. CASE w.t # t
        <3>1. w' = w /\ tenant'[w.t] = tenant[w.t]
            BY <1>1, <1>2, <2>2, <2>4
        <3>2. \A n \in Names : Tracked(n) => Tracked(n)'
            BY <1>1, <3>1 DEF Tracked, Match, GetStorage
        <3>3. (Add => Add') /\ (Remove => Remove') /\ (Current => Current') /\ (Adding <=> Adding')
            <4>1. Add => Add'
                BY <1>1, <3>1 DEF Add, Match, GetStorage
            <4>2. Remove => Remove'
                BY <1>1, <3>1, <3>2 DEF Remove
            <4> QED
                BY <3>1, <4>1, <4>2 DEF Current, Adding
        <3> QED
            BY <1>1, <2>1, <2>2, <3>1, <3>2, <3>3 DEF AccountInv, Intends
    <2> QED
        BY <2>3, <2>4
<1> QED
    BY <1>5, <1>6, <1>7, <1>8, <1>9 DEF AccountInv

\* The default storage of a service changes for Tenants whose status names the
\* compactors that list them, or whose ids become strays.
LEMMA ServiceAccount ==
    ASSUME AccountInv, NEW s \in Services, NEW g \in ServiceStorages, SetServiceStorage(s, g)
    PROVE  AccountInv'
<1> DEFINE Edited(u) == tenant[u] # Absent /\ tenant[u].svc = s /\ tenant[u].stg = Default
<1>1. /\ svcStorage' = [svcStorage EXCEPT ![s] = g]
      /\ strays' = strays \cup {SpecTenant[u] : u \in {u \in {t \in Tenants : Edited(t)} : tenant[u] # Absent /\ Unadopted(u)}}
      /\ UNCHANGED <<tenant, w, comp, ccomp, stale, made>>
    BY DEF SetServiceStorage, UserEdit
<1>2. /\ Known' \subseteq Known /\ Known \subseteq Tenants
      /\ \A u \in Known' : Edited(u) => ~Unadopted(u)
    BY <1>1 DEF Known, AccountInv, SelfNamed
<1>3. \A o \in TenantObject : ~(o.svc = s /\ o.stg = Default) => GetStorage(o)' = GetStorage(o)
    BY <1>1 DEF GetStorage, AccountInv, BoundInv, TypeOK
<1>4. \A u \in Tenants : tenant[u] # Absent => tenant[u] \in TenantObject
    BY DEF AccountInv, BoundInv, TypeOK
<1>5. BoundInv' /\ SelfNamed'
    BY ChangeBound DEF AccountInv, SelfNamed
<1>6. Formed'
    BY <1>1 DEF AccountInv, Formed
<1>7. ASSUME NEW u \in Known', Edited(u), NEW n \in Names, Lists(comp[n], u)
      PROVE  tenant[u].status = n
    BY <1>2, <1>7 DEF AccountInv, SelfNamed, Unadopted, Lists
<1>9. ASSUME NEW u \in Known' PROVE Held(u)'
    <2>1. u \in Known /\ u \in Tenants
        BY <1>2
    <2>2. ASSUME NEW n \in Names, Lists(comp[n], u)
          PROVE  tenant[u].status = n \/ Match(u, tenant[u], n, comp[n])'
        <3>1. CASE Edited(u)
            BY <1>7, <2>2, <3>1
        <3>2. CASE ~Edited(u)
            <4>1. tenant[u] # Absent /\ (tenant[u].status = n \/ Match(u, tenant[u], n, comp[n]))
                BY <2>1, <2>2 DEF AccountInv, Held
            <4> QED
                BY <1>1, <1>3, <1>4, <2>1, <3>2, <4>1 DEF Match
        <3> QED
            BY <3>1, <3>2
    <2> QED
        BY <1>1, <2>1, <2>2 DEF AccountInv, Held
<1>10. Rewrites'
    BY <1>1, <1>2 DEF AccountInv, Rewrites
<1>11. Intends'
    <2>1. SUFFICES ASSUME w.pc # "idle", w.t \in Known' PROVE Intends'
        BY <1>1 DEF Intends
    <2>2. w.t \in Known /\ w.t \in Tenants /\ w.cp \in TenantObject
        BY <1>2, <2>1 DEF AccountInv, BoundInv, TypeOK
    <2>3. Current => Current'
        BY <1>1 DEF Current
    <2>4. CASE Edited(w.t)
        <3>1. w.pc # "compactor"
            BY <1>2, <2>1, <2>4 DEF Unadopted
        <3>2. ASSUME NEW n \in Names, Lists(comp[n], w.t), Tracked(n) PROVE Tracked(n)'
            BY <1>1, <1>7, <2>1, <2>4, <3>2 DEF Tracked
        <3> QED
            BY <1>1, <2>1, <2>2, <2>3, <3>1, <3>2 DEF AccountInv, Intends
    <2>5. CASE ~Edited(w.t) /\ Current
        <3>1. GetStorage(tenant[w.t])' = GetStorage(tenant[w.t]) /\ GetStorage(w.cp)' = GetStorage(w.cp)
            BY <1>1, <1>3, <1>4, <2>2, <2>5 DEF Current
        <3>2. \A n \in Names : Tracked(n) => Tracked(n)'
            BY <1>1, <3>1 DEF Tracked, Match
        <3>3. Add => Add'
            BY <1>1, <3>1 DEF Add, Match
        <3>4. (Remove => Remove') /\ (Adding <=> Adding')
            BY <1>1, <3>2 DEF Remove, Adding
        <3> QED
            BY <1>1, <2>1, <2>2, <2>3, <3>2, <3>3, <3>4 DEF AccountInv, Intends
    <2>6. CASE ~Current
        BY <1>1, <2>1, <2>2, <2>6 DEF AccountInv, Intends
    <2> QED
        BY <2>4, <2>5, <2>6
<1> QED
    BY <1>5, <1>6, <1>9, <1>10, <1>11 DEF AccountInv

\* A compactor that is deleted lists nobody.
LEMMA DeleteAccount ==
    ASSUME AccountInv, BoundInv', NEW n0 \in Names, DeleteCompactor(n0)
    PROVE  AccountInv'
<1>1. /\ UNCHANGED <<tenant, ccomp, svcStorage, w, made, strays>>
      /\ comp' = [comp EXCEPT ![n0] = Absent]
    BY DEF DeleteCompactor, Put
<1>2. comp'[n0] = Absent /\ \A m \in Names : m # n0 => comp'[m] = comp[m]
    BY <1>1 DEF AccountInv, BoundInv, TypeOK
<1>3. \A m \in Names : \A u : Lists(comp'[m], u) => Lists(comp[m], u) /\ comp'[m] = comp[m]
    BY <1>2 DEF Lists
<1>4. Formed'
    BY <1>1, <1>2, NamesTyped DEF AccountInv, Formed, WellFormed
<1>5. ASSUME NEW u \in Known' PROVE Held(u)'
    <2>1. u \in Known /\ u \in Tenants
        BY <1>1 DEF Known
    <2> QED
        BY <1>1, <1>3, <2>1, StillHeld DEF AccountInv, SameLabels
<1>6. w.pc = "compactor" /\ w.target # New => w.target \in Names
    BY DEF AccountInv, BoundInv, TypeOK, WorkerRecord
<1>7. Rewrites'
    BY <1>1, <1>3, <1>6 DEF AccountInv, Rewrites, Known
<1>8. Intends'
    <2>1. \A n \in Names : Lists(comp'[n], w.t) /\ Tracked(n) => Tracked(n)'
        BY <1>1, <1>3 DEF Tracked, Match, GetStorage
    <2>2. Add => Add'
        BY <1>1, <1>3 DEF Add, Match, GetStorage
    <2>3. w.pc = "compactor" /\ Remove => Remove'
        BY <1>1, <1>3, <1>6, <2>1 DEF Remove
    <2>4. (Current <=> Current') /\ (Adding <=> Adding') /\ Known' = Known
        BY <1>1 DEF Current, Adding, Known
    <2> QED
        BY <1>1, <1>3, <2>1, <2>2, <2>3, <2>4 DEF AccountInv, Intends
<1> QED
    BY <1>4, <1>5, <1>7, <1>8 DEF AccountInv, SelfNamed

\* The cache comes to show a compactor as it is: it is the only one to list its
\* tenants.
LEMMA SyncAccount ==
    ASSUME AccountInv, BoundInv', NEW n0 \in Names, Sync(n0)
    PROVE  AccountInv'
<1>1. /\ UNCHANGED <<tenant, comp, svcStorage, w, made, strays>>
      /\ ccomp' = [ccomp EXCEPT ![n0] = comp[n0]]
    BY DEF Sync
<1>2. ccomp'[n0] = comp[n0] /\ \A m \in Names : m # n0 => ccomp'[m] = ccomp[m]
    BY <1>1 DEF AccountInv, BoundInv, TypeOK
<1>3. Formed'
    BY <1>1, <1>2, NamesTyped DEF AccountInv, Formed
<1>4. ASSUME NEW u \in Known' PROVE Held(u)'
    <2>1. u \in Known /\ u \in Tenants
        BY <1>1 DEF Known
    <2>2. \A n \in Names : Match(u, tenant[u], n, comp[n]) <=> Match(u, tenant[u], n, comp[n])'
        BY <1>1 DEF Match, GetStorage
    <2>3. Held(u)
        BY <2>1 DEF AccountInv
    <2>4. \A n \in Names : Lists(comp[n], u) /\ Lists(ccomp'[n], u) => SameLabels(comp[n], ccomp'[n])
        BY <1>2, <2>3 DEF Held, SameLabels
    <2>5. \A n \in Names : Lists(comp[n], u) /\ n # Own(u) =>
             \A m \in Names : m # n /\ Lists(ccomp'[m], u) => ~SameLabels(comp[n], ccomp'[m])
        BY <1>2, <2>3 DEF Held
    <2> QED
        BY <1>1, <2>2, <2>3, <2>4, <2>5 DEF Held
<1>5. w.pc = "compactor" /\ w.target # New => w.target \in Names
    BY DEF AccountInv, BoundInv, TypeOK, WorkerRecord
<1>6. Rewrites'
    BY <1>1 DEF AccountInv, Rewrites, Known
<1>7. Intends'
    <2>1. \A n \in Names : Tracked(n) => Tracked(n)'
        BY <1>1 DEF Tracked, Match, GetStorage
    <2>2. Add => Add'
        BY <1>1, <1>2 DEF Add, Match, GetStorage
    <2>3. w.pc = "compactor" /\ Remove => Remove'
        BY <1>1, <1>2, <1>5, <2>1 DEF Remove
    <2>4. (Current <=> Current') /\ (Adding <=> Adding') /\ Known' = Known
        BY <1>1 DEF Current, Adding, Known
    <2> QED
        BY <1>1, <2>1, <2>2, <2>3, <2>4 DEF AccountInv, Intends
<1> QED
    BY <1>3, <1>4, <1>6, <1>7 DEF AccountInv, SelfNamed

LEMMA UsersAccount ==
    ASSUME AccountInv, TypeOK', NEW t \in Tenants,
           (\E l \in Labelings : CreateTenant(t, l) \/ RelabelTenant(t, l)) \/ DeleteTenant(t)
    PROVE  AccountInv'
<1>1. tenant[t] # Absent => tenant[t] \in TenantObject
    BY DEF AccountInv, BoundInv, TypeOK
<1>2. ASSUME NEW l \in Labelings, CreateTenant(t, l) PROVE AccountInv'
    BY <1>2, EditAccount DEF CreateTenant
<1>3. ASSUME NEW l \in Labelings, RelabelTenant(t, l) PROVE AccountInv'
    <2> DEFINE obj == [tenant[t] EXCEPT !.svc = l.svc, !.stg = l.stg, !.excl = l.excl]
    <2>1. obj.fin = tenant[t].fin /\ obj.status = tenant[t].status
        BY <1>1, <1>3 DEF RelabelTenant, TenantObject
    <2>2. l \in [svc : Services, stg : Storages \cup {Local, Default}, excl : BOOLEAN]
        BY CompactorAssumption
    <2>3. obj \in TenantObject
        BY <1>1, <1>3, <2>2 DEF RelabelTenant, TenantObject
    <2>4. TenantEdit(t, obj) /\ obj # Absent
        BY <1>3, <2>3, AbsentAssumption DEF RelabelTenant
    <2> HIDE DEF obj
    <2> QED
        BY <2>1, <2>4, EditAccount
<1>4. ASSUME DeleteTenant(t) PROVE AccountInv'
    <2> DEFINE obj == [tenant[t] EXCEPT !.deleting = TRUE]
    <2>1. obj.fin = tenant[t].fin /\ obj.status = tenant[t].status /\ obj \in TenantObject
        BY <1>1, <1>4 DEF DeleteTenant, TenantObject
    <2>2. TenantEdit(t, Stored(obj)) /\ obj # Absent
        BY <1>4, <2>1, AbsentAssumption DEF DeleteTenant
    <2> HIDE DEF obj
    <2>3. tenant[t].fin => Stored(obj) = obj
        BY <2>1 DEF Stored
    <2> QED
        BY <2>1, <2>2, <2>3, EditAccount
<1> QED
    BY <1>2, <1>3, <1>4

LEMMA StepAccount == AccountInv /\ [Next]_vars => AccountInv'
<1> SUFFICES ASSUME AccountInv, [Next]_vars PROVE AccountInv'
    OBVIOUS
<1>1. BoundInv' /\ TypeOK'
    BY StepBound DEF AccountInv, BoundInv
<1>2. ASSUME CompactorRefused \/ TenantRefused \/ Fail PROVE AccountInv'
    BY <1>1, <1>2, RequeueAccount DEF CompactorRefused, TenantRefused, Fail, Requeue
<1>3. ASSUME UNCHANGED vars PROVE AccountInv'
    <2>1. UNCHANGED <<tenant, comp, ccomp, stale, svcStorage, made, w, strays>>
        BY <1>3 DEF vars, objects
    <2>2. Formed' /\ Rewrites'
        BY <2>1 DEF AccountInv, Formed, Rewrites, Known
    <2>3. ASSUME NEW u \in Known' PROVE Held(u)'
        BY <2>1, StillHeld DEF AccountInv, Known, SameLabels
    <2>4. Intends'
        BY <2>1 DEF AccountInv, Intends, Known, Current, Adding, Add, Remove, Tracked, Match, GetStorage
    <2> QED
        BY <1>1, <2>2, <2>3, <2>4 DEF AccountInv, SelfNamed
<1>4. ASSUME Worker PROVE AccountInv'
    BY <1>2, <1>4, StartAccount, WriteAccount, CreateAccount, WriteTenantAccount DEF Worker
<1>5. ASSUME Informer PROVE AccountInv'
    BY <1>1, <1>5, SyncAccount DEF Informer
<1>6. ASSUME NEW n \in Names, DeleteCompactor(n) PROVE AccountInv'
    BY <1>1, <1>6, DeleteAccount
<1> QED
    BY <1>1, <1>2, <1>3, <1>4, <1>5, <1>6, UsersAccount, ServiceAccount DEF Next

-----------------------------------------------------------------------------
(* The theorem.                                                            *)

\* When nothing is queued, in work or on its way to the cache, the one compactor
\* that lists a tenant is the one the Tenant's status names, so that no data is
\* compacted twice or after the tenant is gone, and no compactor is left without
\* tenants.  Only the tenants of strays are excepted: those whose compactor the cache
\* lacked, whose Tenant was edited before its status named the compactor, or that a
\* retry wrote back.  The names of Tenants have to be their spec.tenant, as where a
\* listed compactor is given one and is searched for the other.
THEOREM AccountedHolds == SelfNamed => (Spec => []Accounted)
<1>1. SelfNamed /\ Init => AccountInv
    <2>1. SUFFICES ASSUME SelfNamed, Init PROVE AccountInv
        OBVIOUS
    <2>2. BoundInv
        BY <2>1, InitTyped DEF Init, BoundInv, CompactorsCurrent, Remote, Owed, Effective, Idle
    <2>3. \A n \in Names : comp[n] = Absent /\ ccomp[n] = Absent
        BY <2>1 DEF Init
    <2>4. Formed
        <3>1. \A i \in 1..MaxMade : None # <<"generated", i>>
            BY NoneAssumption, NamesTyped
        <3> QED
            BY <2>1, <2>3, <3>1, NamesTyped DEF Init, Idle, Formed, WellFormed
    <2>5. Rewrites /\ Intends
        BY <2>1 DEF Init, Idle, Rewrites, Intends
    <2> QED
        BY <2>1, <2>2, <2>3, <2>4, <2>5 DEF AccountInv, Held, Lists
<1>2. AccountInv => Accounted
    <2>1. SUFFICES ASSUME AccountInv, AtRest, NEW n \in Names, comp[n] # Absent
                   PROVE  /\ comp[n].tenants # {}
                          /\ \A id \in comp[n].tenants \ strays :
                                \E t \in Tenants : SpecTenant[t] = id /\ tenant[t] # Absent /\ tenant[t].status = n
        BY DEF Accounted
    <2>2. comp[n].tenants # {}
        BY <2>1 DEF AccountInv, Formed, WellFormed
    <2>3. ASSUME NEW t \in comp[n].tenants \ strays
          PROVE  t \in Tenants /\ SpecTenant[t] = t /\ tenant[t] # Absent /\ tenant[t].status = n
        <3>1. t \in Tenants /\ SpecTenant[t] = t /\ t \in Known /\ Lists(comp[n], t)
            BY <2>1, <2>3 DEF AccountInv, BoundInv, TypeOK, CompactorObject, SelfNamed, Ids, Known, Lists
        <3>2. Held(t)
            BY <2>1, <3>1 DEF AccountInv
        <3>3. CASE Match(t, tenant[t], n, comp[n])
            <4>1. tenant[t] # Absent /\ Fine(t) /\ GetStorage(tenant[t]) # Local
                BY <2>1, <3>1, <3>2, <3>3 DEF AccountInv, BoundInv, Owed, Remote, AtRest, Held, Match
            <4>2. Fits(t, tenant[t], tenant[t].status)
                BY <4>1 DEF Fine
            <4>3. tenant[t].status \in Names /\ Lists(ccomp[tenant[t].status], t)
                BY <3>1, <4>2 DEF Fits, Lists
            <4>4. Lists(comp[tenant[t].status], t)
                BY <2>1, <4>3 DEF AccountInv, BoundInv, CompactorsCurrent, AtRest
            <4> QED
                BY <3>1, <3>2, <4>1, <4>3, <4>4 DEF Held
        <3> QED
            BY <2>1, <3>1, <3>2, <3>3 DEF Held
    <2> QED
        BY <2>2, <2>3
<1> QED
    BY <1>1, <1>2, StepAccount, PTL DEF Spec
=============================================================================
