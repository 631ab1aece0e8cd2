----------------------------- MODULE Resources -----------------------------
(***************************************************************************)
(* How a controller of the manager brings the objects that a custom        *)
(* resource owns to what it wants of them: BaseReconciler's                *)
(* ReconcileResources and the CreateOrUpdate family of pkg/util/k8s.go,    *)
(* called again for every event of a watched or owned object.              *)
(*                                                                         *)
(* The parameters say what one controller wants: Plans(i) are the states   *)
(* of the owned objects that it may compute from the input i, more than    *)
(* one where the code depends on the iteration order of a map, none where  *)
(* it returns an error.  Ruler gives them for the Ruler controller.        *)
(*                                                                         *)
(* The input is what the informers of the watched objects hold.  Of owned  *)
(* objects store is what the API server has and cache what the manager     *)
(* reads; stale holds the names whose last change has not been delivered,  *)
(* and with it those of which a copy has an old resourceVersion.           *)
(***************************************************************************)
EXTENDS Naturals, FiniteSets

CONSTANTS
    Names,          \* of the objects that may be owned
    Contents,       \* what they may contain
    Absent,         \* in place of a content: there is no such object
    Inputs,         \* what the desired objects are computed from
    Edits(_),       \* the inputs that one event can make of an input
    Plans(_),       \* the desired states of the owned objects
    Compared,       \* names left out when the cached content is the desired one
    Recreated,      \* StatefulSets: deleted when the API server forbids an update
    Rank(_, _),     \* place of an object's write (FALSE) or delete (TRUE) in the list
    MaxEdits,       \* bound: input events and deletions by others
    MaxFailures,    \* bound: failed calls, forbidden updates and restarts
    MaxStale        \* bound: names not delivered at one time

ASSUME ParametersAssumption ==
    /\ \A i \in Inputs : Edits(i) \subseteq Inputs
    /\ \A i \in Inputs : Plans(i) \subseteq [Names -> Contents \cup {Absent}]
    /\ Absent \notin Contents
    /\ MaxEdits \in Nat /\ MaxFailures \in Nat /\ MaxStale \in Nat \ {0}

VARIABLES
    input, store, cache, stale,
    queued,         \* the key of the custom resource is in the work queue
    work,           \* [pc, target, todo]: the reconcile under way
    edits, failures

vars == <<input, store, cache, stale, queued, work, edits, failures>>

States == [Names -> Contents \cup {Absent}]
Idle == [pc |-> "idle", target |-> [n \in Names |-> Absent], todo |-> {}]

TypeOK ==
    /\ input \in Inputs
    /\ store \in States /\ cache \in States
    /\ stale \subseteq Names
    /\ queued \in BOOLEAN
    /\ work \in [pc : {"idle", "busy"}, target : States, todo : SUBSET Names]
    /\ work.pc = "busy" <=> work.todo # {}
    /\ edits \in 0..MaxEdits /\ failures \in 0..MaxFailures

Init ==
    /\ input \in Inputs
    /\ store = [n \in Names |-> Absent] /\ cache = store /\ stale = {}
    /\ queued = TRUE
    /\ work = Idle
    /\ edits = 0 /\ failures = 0

-----------------------------------------------------------------------------
(* The API server, the watches and the environment.                        *)

\* A write that changes nothing has no event.
Put(n, c) ==
    /\ store' = [store EXCEPT ![n] = c]
    /\ stale' = IF store[n] = c THEN stale ELSE stale \cup {n}
    /\ Cardinality(stale') <= MaxStale

\* An event of the custom resource or of an object it watches.
ChangeInput(i) ==
    /\ edits < MaxEdits
    /\ input' = i
    /\ queued' = TRUE
    /\ edits' = edits + 1
    /\ UNCHANGED <<store, cache, stale, work, failures>>

\* Somebody deletes an owned object.
DeleteByOther(n) ==
    /\ edits < MaxEdits
    /\ store[n] # Absent
    /\ Put(n, Absent)
    /\ edits' = edits + 1
    /\ UNCHANGED <<input, cache, queued, work, failures>>

\* Mutant: the controller does not watch what it owns.
DeliverUnowned(n) ==
    /\ n \in stale
    /\ cache' = [cache EXCEPT ![n] = store[n]]
    /\ stale' = stale \ {n}
    /\ UNCHANGED <<input, store, queued, work, edits, failures>>

\* Owns: the event of an owned object queues its owner.
Deliver(n) ==
    /\ n \in stale
    /\ cache' = [cache EXCEPT ![n] = store[n]]
    /\ stale' = stale \ {n}
    /\ queued' = TRUE
    /\ UNCHANGED <<input, store, work, edits, failures>>

-----------------------------------------------------------------------------
(* A reconcile.                                                            *)

\* What is listed is deleted when it is not wanted, what is wanted is written.
Todo(p) ==
    {n \in Names : IF p[n] = Absent THEN cache[n] # Absent
                   ELSE n \in Compared => cache[n] # p[n]}

\* An error before the list is complete, as Plans(input) = {}, leaves the key
\* in the queue.
Start ==
    /\ work = Idle /\ queued
    /\ \E p \in Plans(input) :
          work' = IF Todo(p) = {} THEN Idle
                  ELSE [pc |-> "busy", target |-> p, todo |-> Todo(p)]
    /\ queued' = FALSE
    /\ UNCHANGED <<input, store, cache, stale, edits, failures>>

\* The list is worked off in its order.
IsNext(n) ==
    /\ n \in work.todo
    /\ \A m \in work.todo : Rank(n, work.target[n] = Absent) <= Rank(m, work.target[m] = Absent)

\* Mutant: the worker does not come back from the end of the list.
DoneNever(n) == work' = [work EXCEPT !.todo = @ \ {n}]

Done(n) == work' = IF work.todo = {n} THEN Idle ELSE [work EXCEPT !.todo = @ \ {n}]

\* Delete by name; not found is no error.
Delete(n) ==
    /\ IsNext(n)
    /\ work.target[n] = Absent
    /\ Put(n, Absent)
    /\ Done(n)
    /\ UNCHANGED <<input, cache, queued, edits, failures>>

Create(n) ==
    /\ IsNext(n)
    /\ work.target[n] # Absent
    /\ cache[n] = Absent /\ store[n] = Absent
    /\ Put(n, work.target[n])
    /\ Done(n)
    /\ UNCHANGED <<input, cache, queued, edits, failures>>

CanUpdate(n) ==
    /\ IsNext(n)
    /\ work.target[n] # Absent
    /\ cache[n] # Absent /\ n \notin stale

\* Mutant: what is written carries the time of the reconcile.
UpdateStamped(n) ==
    /\ CanUpdate(n)
    /\ store' = [store EXCEPT ![n] = work.target[n]]
    /\ stale' = stale \cup {n}
    /\ Cardinality(stale') <= MaxStale
    /\ Done(n)
    /\ UNCHANGED <<input, cache, queued, edits, failures>>

\* The metadata of the cached object, its resourceVersion with it, is merged in.
Update(n) ==
    /\ CanUpdate(n)
    /\ Put(n, work.target[n])
    /\ Done(n)
    /\ UNCHANGED <<input, cache, queued, edits, failures>>

\* The update of a StatefulSet is invalid: it is deleted, and that is no error.
Recreate(n) ==
    /\ CanUpdate(n) /\ n \in Recreated
    /\ failures < MaxFailures
    /\ Put(n, Absent)
    /\ Done(n)
    /\ failures' = failures + 1
    /\ UNCHANGED <<input, cache, queued, edits>>

\* The key goes back to the queue, rate limited.
Abort ==
    /\ work' = Idle
    /\ queued' = TRUE

\* The cache is behind: the object exists already, is gone, or has another
\* resourceVersion at every attempt of RetryOnConflict.
Refused(n) ==
    /\ IsNext(n)
    /\ work.target[n] # Absent
    /\ n \in stale
    /\ cache[n] # Absent \/ store[n] # Absent
    /\ Abort
    /\ UNCHANGED <<input, store, cache, stale, edits, failures>>

\* Mutant: the error of one resource is logged and the list goes on.
FailIgnored(n) ==
    /\ failures < MaxFailures
    /\ IsNext(n)
    /\ Done(n)
    /\ failures' = failures + 1
    /\ UNCHANGED <<input, store, cache, stale, queued, edits>>

\* A resource that cannot be built, or a call that fails, ends the reconcile.
Fail(n) ==
    /\ failures < MaxFailures
    /\ IsNext(n)
    /\ Abort
    /\ failures' = failures + 1
    /\ UNCHANGED <<input, store, cache, stale, edits>>

\* The manager is restarted: it lists everything and queues every key.
Restart ==
    /\ failures < MaxFailures
    /\ cache' = store /\ stale' = {}
    /\ Abort
    /\ failures' = failures + 1
    /\ UNCHANGED <<input, store, edits>>

-----------------------------------------------------------------------------
(* The specification.                                                      *)

Step == \E n \in Names : Delete(n) \/ Create(n) \/ Update(n) \/ Refused(n)

Next ==
    \/ \E i \in Edits(input) : ChangeInput(i)
    \/ \E n \in Names : DeleteByOther(n) \/ Deliver(n)
    \/ Start
    \/ Step
    \/ \E n \in Names : Recreate(n) \/ Fail(n)
    \/ Restart

Spec == Init /\ [][Next]_vars

\* The worker goes on, rate-limited keys come back, watches deliver.
FairSpec ==
    /\ Spec
    /\ WF_vars(Start)
    /\ WF_vars(Step)
    /\ WF_vars(\E n \in Names : Deliver(n))

-----------------------------------------------------------------------------
(* Properties.                                                             *)

\* No event is on its way, no key queued and no reconcile running.
AtRest == ~queued /\ work = Idle /\ stale = {}

\* However calls failed and caches lagged, a controller at rest has left the
\* owned objects as its input wants them: skipped writes, ignored NotFound
\* errors and deleted StatefulSets have all been made up for.
Reconciled == AtRest => store \in Plans(input)

\* The owned objects come to what the last input wants, and stay.
Converges == <>[](Plans(input) # {} => store \in Plans(input))

\* A controller whose input determines the desired objects comes to rest: its
\* own writes do not keep waking it.
Quiet == <>[](Cardinality(Plans(input)) = 1) => <>[]AtRest
=============================================================================
