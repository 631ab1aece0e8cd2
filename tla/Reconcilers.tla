---------------------------- MODULE Reconcilers ----------------------------
(***************************************************************************)
(* The controllers of the manager side by side: what each of them owns is  *)
(* built from objects that users, the other controllers and itself change. *)
(*                                                                         *)
(* A reconcile reads the custom resource and its Service once (Begin),     *)
(* then calls its resource functions in order; each reads what it needs at *)
(* that moment (Build) and its result is written before the next is        *)
(* called.  Most functions maintain an owned object, some the custom       *)
(* resource itself or one of another kind.  Every write and every edit has *)
(* an event, and the mapping functions of the watches (Wakes) say which    *)
(* keys it queues; an event that comes during a reconcile is kept.         *)
(*                                                                         *)
(* The world is what the informers hold: how a lagging cache and refused   *)
(* writes are made up for is the subject of Resources.  The parameters are *)
(* given by Components for the controllers of this repository.             *)
(***************************************************************************)
EXTENDS Naturals

CONSTANTS
    Objects,            \* custom resources and Secrets, by name
    Keys,               \* what the controllers reconcile
    Absent,             \* there is no such object
    Error,              \* of Begin and Build: an error is returned
    Nothing,            \* of Begin: the reconcile returns at once
    Owned,              \* of Target: an object that the key owns
    Worker(_),          \* the controller of the key, which runs one reconcile at a time
    Size(_),            \* how many resource functions the key has
    Target(_, _),       \* what function i of the key writes: Owned or an object
    Watched(_, _),      \* the owned object is of a kind the controller Owns
    Returns(_, _),      \* a change written by function i ends the reconcile
    Begin(_, _),        \* what key k reads first from world w
    Build(_, _, _, _, _), \* result of function i of k, after s was read, in w, on c
    Wakes(_, _, _),     \* the keys queued when object o changes w to w2
    Firsts(_, _, _),    \* keys of which one more is queued then, whichever is listed first
    Shuffles(_, _, _),  \* whether function i of k writes result c in the order of a list
    Direct(_, _),       \* all that function i reads is watched by its controller
    Scenes,             \* initial worlds, each with the edits to come and bounds
                        \* on failures and losses
    May(_, _),          \* whether edit e may be made of an object that is v
    Change(_, _)        \* what edit e, of object e.on, makes of v

Functions(k) == 1..Size(k)

ASSUME KeysAssumption ==
    /\ \A k \in Keys : Size(k) \in Nat \ {0}
    /\ \A k \in Keys : \A i \in Functions(k) :
          /\ Target(k, i) \in Objects \cup {Owned}
          /\ Watched(k, i) \in BOOLEAN /\ Returns(k, i) \in BOOLEAN /\ Direct(k, i) \in BOOLEAN
          /\ Direct(k, i) /\ Target(k, i) = Owned => Watched(k, i)
          /\ Returns(k, i) => Direct(k, i)
    /\ Owned \notin Objects /\ Nothing # Error
    /\ \A s \in Scenes : DOMAIN s.world = Objects /\ s.failures \in Nat /\ s.losses \in Nat

VARIABLES
    world,              \* [Objects -> specification or Absent]
    owned,              \* per key and function the owned object
    queued,
    at,                 \* the function a reconcile has come to, 0 when there is none
    snap,               \* what the reconcile under way read first
    open,               \* edits still to come
    failures,           \* failed calls and restarts still to come
    losses              \* deletions of owned objects by others still to come

vars == <<world, owned, queued, at, snap, open, failures, losses>>

\* The manager starts on a world whose objects nobody has reconciled yet; keys
\* that return at once are left out of the queue.
Listed == {k \in Keys : Begin(k, world) # Nothing}

Init ==
    /\ \E s \in Scenes :
          world = s.world /\ open = s.edits /\ failures = s.failures /\ losses = s.losses
    /\ owned = [k \in Keys |-> [i \in Functions(k) |-> Absent]]
    /\ queued = Listed
    /\ at = [k \in Keys |-> 0]
    /\ snap = [k \in Keys |-> Nothing]

-----------------------------------------------------------------------------
(* The environment.                                                        *)

\* An object is created, changed or deleted; no change, no event.
Put(o, v) ==
    /\ world' = [world EXCEPT ![o] = v]
    /\ IF world[o] = v THEN UNCHANGED queued
       ELSE \E first \in Firsts(o, world, world') :
               queued' = queued \cup (Keys \cap (Wakes(o, world, world') \cup {first}))

Edit(e) ==
    /\ e \in open
    /\ May(e, world[e.on])
    /\ Put(e.on, Change(e, world[e.on]))
    /\ open' = open \ {e}
    /\ UNCHANGED <<owned, at, snap, failures, losses>>

\* Somebody deletes an owned object.
Lose(k, i) ==
    /\ losses > 0
    /\ Target(k, i) = Owned /\ Watched(k, i)
    /\ owned[k][i] # Absent
    /\ owned' = [owned EXCEPT ![k][i] = Absent]
    /\ queued' = queued \cup {k}
    /\ losses' = losses - 1
    /\ UNCHANGED <<world, at, snap, open, failures>>

\* The garbage collector removes what an object that is gone has owned.
Collect(k) ==
    /\ k \in Objects /\ world[k] = Absent /\ Begin(k, world) = Nothing
    /\ \E i \in Functions(k) : owned[k][i] # Absent
    /\ owned' = [owned EXCEPT ![k] = [i \in Functions(k) |-> Absent]]
    /\ UNCHANGED <<world, queued, at, snap, open, failures, losses>>

-----------------------------------------------------------------------------
(* A reconcile.                                                            *)

\* An error leaves the key in the queue.
Start(k) ==
    /\ k \in queued
    /\ \A j \in Keys : Worker(j) = Worker(k) => at[j] = 0
    /\ queued' = queued \ {k}
    /\ \E s \in {Begin(k, world)} \ {Error} :
          IF s = Nothing THEN UNCHANGED <<at, snap>>
          ELSE at' = [at EXCEPT ![k] = 1] /\ snap' = [snap EXCEPT ![k] = s]
    /\ UNCHANGED <<world, owned, open, failures, losses>>

\* What function i maintains, and what it makes of it.
Content(k, i) == IF Target(k, i) = Owned THEN owned[k][i] ELSE world[Target(k, i)]
Result(k) == Build(k, at[k], snap[k], world, Content(k, at[k]))

Leave(k) ==
    /\ at' = [at EXCEPT ![k] = 0]
    /\ snap' = [snap EXCEPT ![k] = Nothing]

\* Mutant: one function too many.
AdvancePast(k) ==
    IF at[k] > Size(k) \/ (Returns(k, at[k]) /\ Result(k) # Content(k, at[k]))
    THEN Leave(k)
    ELSE at' = [at EXCEPT ![k] = @ + 1] /\ UNCHANGED snap

\* The next function is called, or the reconcile ends.
Advance(k) ==
    IF at[k] = Size(k) \/ (Returns(k, at[k]) /\ Result(k) # Content(k, at[k]))
    THEN Leave(k)
    ELSE at' = [at EXCEPT ![k] = @ + 1] /\ UNCHANGED snap

\* The owned object is created, updated or deleted; the event of a change
\* queues its owner again.  The list that a result is written from comes from the
\* cache in any order: the object may be rewritten though it says the same.
Store(k, result) ==
    /\ owned' = [owned EXCEPT ![k][at[k]] = result]
    /\ \/ /\ result # owned[k][at[k]] \/ Shuffles(k, at[k], result)
          /\ queued' = IF Watched(k, at[k]) THEN queued \cup {k} ELSE queued
       \/ result = owned[k][at[k]] /\ UNCHANGED queued
    /\ UNCHANGED world

\* A function is called and its result written: to an owned object, or to a
\* custom resource, whose event queues all that watch it.
Write(k) ==
    /\ at[k] > 0
    /\ Advance(k)
    /\ \E result \in {Result(k)} \ {Error} :
          \/ Target(k, at[k]) = Owned /\ Store(k, result)
          \/ Target(k, at[k]) # Owned /\ Put(Target(k, at[k]), result) /\ UNCHANGED owned
    /\ UNCHANGED <<open, failures, losses>>

\* Mutant: the error of a resource function is logged and the key forgotten.
StopQuietly(k) ==
    /\ at[k] > 0
    /\ Leave(k)
    /\ Result(k) = Error
    /\ UNCHANGED <<world, owned, queued, open, failures, losses>>

\* A function returns an error: the reconcile ends and the key comes back.
Stop(k) ==
    /\ at[k] > 0
    /\ Leave(k)
    /\ Result(k) = Error
    /\ queued' = queued \cup {k}
    /\ UNCHANGED <<world, owned, open, failures, losses>>

\* A call to the API server fails.
Fail(k) ==
    /\ at[k] > 0
    /\ failures > 0
    /\ Leave(k)
    /\ queued' = queued \cup {k}
    /\ failures' = failures - 1
    /\ UNCHANGED <<world, owned, open, losses>>

\* The manager is restarted.
Restart ==
    /\ failures > 0
    /\ queued' = Listed
    /\ at' = [k \in Keys |-> 0]
    /\ snap' = [k \in Keys |-> Nothing]
    /\ failures' = failures - 1
    /\ UNCHANGED <<world, owned, open, losses>>

-----------------------------------------------------------------------------
(* The specification.                                                      *)

Work(k) == Start(k) \/ Write(k) \/ Stop(k)

Next ==
    \/ \E e \in open : Edit(e)
    \/ \E k \in Keys : Work(k) \/ Fail(k) \/ Collect(k)
    \/ \E k \in Keys : \E i \in Functions(k) : Lose(k, i)
    \/ Restart

Spec == Init /\ [][Next]_vars

\* Every controller has a worker and a queue of its own, and rate-limited keys come
\* back: a key that is Ready, waiting for its turn or running, does not stay so
\* without work being done on it.
Ready(k) == at[k] > 0 \/ (k \in queued /\ Begin(k, world) # Error)
FairSpec == Spec /\ \A k \in Keys : []<>~Ready(k) \/ []<><<Work(k)>>_vars

-----------------------------------------------------------------------------
(* Properties.                                                             *)

TypeOK ==
    /\ DOMAIN world = Objects
    /\ DOMAIN owned = Keys
    /\ \A k \in Keys : DOMAIN owned[k] = Functions(k)
    /\ queued \subseteq Keys
    /\ at \in [Keys -> Nat]
    /\ \A k \in Keys : at[k] <= Size(k)
    /\ DOMAIN snap = Keys
    /\ \A k \in Keys : at[k] = 0 <=> snap[k] = Nothing
    /\ failures \in Nat /\ losses \in Nat

Resting(k) == at[k] = 0 /\ k \notin queued
AtRest == \A k \in Keys : Resting(k)

\* Function i, called again after s was read, would change nothing.
Fine(k, i, s) ==
    /\ Content(k, i) # Error
    /\ Build(k, i, s, world, Content(k, i)) = Content(k, i)

\* The keys that keep something current by their own watches.
DirectKeys == {k \in Keys : \E i \in Functions(k) : Direct(k, i)}

\* A change of the world that does not queue a key changes nothing that the
\* reconcile of the key reads at its start or its direct functions read later,
\* but for what a function returned an error without: no such read is without
\* the watch that keeps it current.
WatchesCover ==
    [][world' # world =>
       \A k \in DirectKeys \ queued' :
          /\ Begin(k, world') = Begin(k, world)
          /\ \A i \in Functions(k) :
                Direct(k, i) /\ Begin(k, world) \notin {Nothing, Error} =>
                    /\ Target(k, i) # Owned => world'[Target(k, i)] = world[Target(k, i)]
                    /\ LET before == Build(k, i, Begin(k, world), world, Content(k, i))
                       IN  before \in {Error, Build(k, i, Begin(k, world), world', Content(k, i))}]_world

\* Whatever the other controllers are doing, a controller that is neither queued
\* nor running has left each object of a direct function as the world wants it.
Prompt ==
    \A k \in DirectKeys :
        Resting(k) /\ Begin(k, world) # Nothing =>
            /\ Begin(k, world) # Error
            /\ \A i \in Functions(k) : Direct(k, i) => Fine(k, i, Begin(k, world))

\* No function has anything left to do that would not fail.
InError(k) ==
    LET s == Begin(k, world)
    IN  \/ s = Error
        \/ s # Nothing /\ \E i \in Functions(k) : Build(k, i, s, world, Content(k, i)) = Error

\* An owned object is rewritten in another order only, which queues its owner.
Reordered(k) == Write(k) /\ UNCHANGED <<world, owned>> /\ queued' # queued

\* Controllers that write what others watch, and themselves, come to rest: after
\* the last edit and failure each is idle or held up by an error that it retries,
\* unless lists keep coming in another order.
Settles ==
    \/ []<><<\E k \in Keys : Reordered(k)>>_vars
    \/ <>[](\A k \in Keys : Resting(k) \/ InError(k))
=============================================================================
