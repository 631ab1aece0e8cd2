-------------------------- MODULE ResourcesProofs --------------------------
(***************************************************************************)
(* What Resources guarantees for every controller that works this way: any *)
(* owned objects, any desired states, any order of the list, caches that   *)
(* lag arbitrarily, any number of failures and restarts.                   *)
(***************************************************************************)
EXTENDS Resources, TLAPS

\* A cached object that is not behind is the stored one.
CacheCurrent == \A n \in Names \ stale : cache[n] = store[n]

\* p accounts for every object: it is as p wants it, about to be written for p,
\* or has an event on its way that will queue the key.
Accounts(p) ==
    /\ work.pc = "busy" => work.target = p
    /\ \A n \in Names : n \in work.todo \/ n \in stale \/ store[n] = p[n]

\* As long as nothing is queued, a desired state of the present input accounts
\* for every object.
Owed == ~queued => \E p \in Plans(input) : Accounts(p)

Inv == TypeOK /\ CacheCurrent /\ Owed

-----------------------------------------------------------------------------
(* Steps of the actions.                                                   *)

LEMMA IdleType == Idle \in [pc : {"idle", "busy"}, target : States, todo : SUBSET Names]
BY DEF Idle, States

LEMMA PutType ==
    ASSUME TypeOK, NEW n \in Names, NEW c \in Contents \cup {Absent}, Put(n, c)
    PROVE  store' \in States /\ stale' \subseteq Names
BY DEF TypeOK, Put, States

LEMMA DoneType ==
    ASSUME TypeOK, NEW n \in Names, IsNext(n), Done(n)
    PROVE  /\ work' \in [pc : {"idle", "busy"}, target : States, todo : SUBSET Names]
           /\ work'.pc = "busy" <=> work'.todo # {}
<1>1. CASE work.todo = {n}
  BY <1>1, IdleType DEF Done, Idle
<1>2. CASE work.todo # {n}
  <2>1. work' = [work EXCEPT !.todo = @ \ {n}]
    BY <1>2 DEF Done
  <2>2. n \in work.todo /\ work.todo \ {n} # {} /\ work.pc = "busy"
    BY <1>2 DEF IsNext, TypeOK
  <2> QED
    BY <2>1, <2>2 DEF TypeOK
<1> QED
  BY <1>1, <1>2

\* After a write of what p wants, p accounts for every object again.
LEMMA WriteAccounts ==
    ASSUME TypeOK, NEW n \in Names, IsNext(n), Done(n), NEW p \in States, Accounts(p),
           \/ store' = [store EXCEPT ![n] = p[n]] /\ stale \subseteq stale'
           \/ n \in stale' /\ stale \subseteq stale'
              /\ \A m \in Names \ {n} : store'[m] = store[m]
    PROVE  Accounts(p)'
<1>1. \A m \in Names : m # n => store'[m] = store[m]
  BY DEF TypeOK, States
<1>2. store'[n] = p[n] \/ n \in stale'
  BY DEF TypeOK, States
<1>3. n \in work.todo /\ work.pc = "busy" /\ work.target = p
  BY DEF IsNext, TypeOK, Accounts
<1>4. /\ work'.pc = "busy" => work'.target = p
      /\ \A m \in Names : m \in work.todo /\ m # n => m \in work'.todo
  BY <1>3 DEF Done, Idle, TypeOK
<1>5. \A m \in Names : m \in work'.todo \/ m \in stale' \/ store'[m] = p[m]
  BY <1>1, <1>2, <1>4 DEF Accounts
<1> QED
  BY <1>4, <1>5 DEF Accounts

-----------------------------------------------------------------------------
(* The invariant.                                                          *)

LEMMA InitInv == Init => Inv
<1> SUFFICES ASSUME Init PROVE Inv
  OBVIOUS
<1>1. work \in [pc : {"idle", "busy"}, target : States, todo : SUBSET Names]
  BY IdleType DEF Init
<1>2. store \in States
  BY DEF Init, States
<1>3. TypeOK
  BY <1>1, <1>2, ParametersAssumption DEF Init, TypeOK, Idle
<1> QED
  BY <1>3 DEF Init, Inv, CacheCurrent, Owed

LEMMA NextType == Inv /\ [Next]_vars => TypeOK'
<1> SUFFICES ASSUME TypeOK, [Next]_vars PROVE TypeOK'
  BY DEF Inv
<1> USE ParametersAssumption
<1>1. ASSUME NEW i \in Edits(input), ChangeInput(i) PROVE TypeOK'
  BY <1>1 DEF ChangeInput, TypeOK
<1>2. ASSUME NEW n \in Names, DeleteByOther(n) PROVE TypeOK'
  BY <1>2, PutType DEF DeleteByOther, TypeOK
<1>3. ASSUME NEW n \in Names, Deliver(n) PROVE TypeOK'
  BY <1>3 DEF Deliver, TypeOK, States
<1>4. CASE Start
  <2>1. PICK p \in Plans(input) :
           work' = IF Todo(p) = {} THEN Idle
                   ELSE [pc |-> "busy", target |-> p, todo |-> Todo(p)]
    BY <1>4 DEF Start
  <2>2. p \in States /\ Todo(p) \subseteq Names
    BY DEF TypeOK, States, Todo
  <2>3. /\ work' \in [pc : {"idle", "busy"}, target : States, todo : SUBSET Names]
        /\ work'.pc = "busy" <=> work'.todo # {}
    BY <2>1, <2>2, IdleType DEF Idle
  <2> QED
    BY <1>4, <2>3 DEF Start, TypeOK
<1>5. ASSUME NEW n \in Names, Delete(n) PROVE TypeOK'
  BY <1>5, PutType, DoneType DEF Delete, TypeOK
<1>6. ASSUME NEW n \in Names, Create(n) PROVE TypeOK'
  <2>1. work.target[n] \in Contents \cup {Absent}
    BY DEF TypeOK, States
  <2> QED
    BY <1>6, <2>1, PutType, DoneType DEF Create, TypeOK
<1>7. ASSUME NEW n \in Names, Update(n) PROVE TypeOK'
  <2>1. work.target[n] \in Contents \cup {Absent}
    BY DEF TypeOK, States
  <2> QED
    BY <1>7, <2>1, PutType, DoneType DEF Update, CanUpdate, TypeOK
<1>8. ASSUME NEW n \in Names, Recreate(n) PROVE TypeOK'
  BY <1>8, PutType, DoneType DEF Recreate, CanUpdate, TypeOK
<1>9. ASSUME NEW n \in Names, Refused(n) PROVE TypeOK'
  BY <1>9, IdleType DEF Refused, Abort, Idle, TypeOK
<1>10. ASSUME NEW n \in Names, Fail(n) PROVE TypeOK'
  BY <1>10, IdleType DEF Fail, Abort, Idle, TypeOK
<1>11. CASE Restart
  BY <1>11, IdleType DEF Restart, Abort, Idle, TypeOK
<1>12. CASE UNCHANGED vars
  BY <1>12 DEF vars, TypeOK
<1> QED
  BY <1>1, <1>2, <1>3, <1>4, <1>5, <1>6, <1>7, <1>8, <1>9, <1>10, <1>11, <1>12
     DEF Next, Step

\* Whatever changes a stored object puts its name among the stale ones.
LEMMA NextCache == Inv /\ [Next]_vars => CacheCurrent'
<1> SUFFICES ASSUME TypeOK, CacheCurrent, [Next]_vars PROVE CacheCurrent'
  BY DEF Inv
<1>1. ASSUME NEW n \in Names, NEW c, Put(n, c), cache' = cache PROVE CacheCurrent'
  BY <1>1 DEF Put, CacheCurrent, TypeOK, States
<1>2. ASSUME NEW n \in Names, Deliver(n) PROVE CacheCurrent'
  BY <1>2 DEF Deliver, CacheCurrent, TypeOK, States
<1>3. CASE Restart
  BY <1>3 DEF Restart, CacheCurrent
<1>4. CASE UNCHANGED <<store, cache, stale>>
  BY <1>4 DEF CacheCurrent
<1> QED
  BY <1>1, <1>2, <1>3, <1>4
     DEF Next, Step, ChangeInput, DeleteByOther, Start, Delete, Create, Update, Recreate,
         Refused, Fail, vars

LEMMA NextOwed == Inv /\ [Next]_vars => Owed'
<1> SUFFICES ASSUME TypeOK, CacheCurrent, Owed, [Next]_vars, ~queued'
             PROVE  \E p \in Plans(input') : Accounts(p)'
  BY DEF Inv, Owed
<1> USE ParametersAssumption
<1>1. ~(\E i \in Edits(input) : ChangeInput(i)) /\ ~Restart /\ input' = input
  BY DEF ChangeInput, Restart, Abort, Next, Step, DeleteByOther, Deliver, Start, Delete,
         Create, Update, Recreate, Refused, Fail, vars
<1>2. CASE Start
  <2>1. PICK p \in Plans(input) :
           work' = IF Todo(p) = {} THEN Idle
                   ELSE [pc |-> "busy", target |-> p, todo |-> Todo(p)]
    BY <1>2 DEF Start
  <2>2. /\ work'.pc = "busy" => work'.target = p
        /\ work'.todo = Todo(p)
    BY <2>1 DEF Idle
  <2>3. \A n \in Names : n \notin Todo(p) /\ n \notin stale => store[n] = p[n]
    BY DEF Todo, CacheCurrent
  <2>4. Accounts(p)'
    BY <1>2, <2>2, <2>3 DEF Start, Accounts
  <2> QED
    BY <1>1, <2>1, <2>4
<1>3. CASE ~queued
  <2>1. PICK p \in Plans(input) : Accounts(p)
    BY <1>3 DEF Owed
  <2>2. p \in States
    BY DEF TypeOK, States
  <2> SUFFICES ~Start => Accounts(p)'
    BY <1>1, <1>2, <2>1
  <2>3. ASSUME NEW n \in Names, DeleteByOther(n) PROVE Accounts(p)'
    <3>1. /\ work' = work /\ stale \subseteq stale' /\ n \in stale'
          /\ \A m \in Names : m # n => store'[m] = store[m]
      BY <2>3 DEF DeleteByOther, Put, TypeOK, States
    <3> QED
      BY <2>1, <3>1 DEF Accounts
  <2>4. ASSUME NEW n \in Names, Delete(n) PROVE Accounts(p)'
    <3>1. p[n] = Absent
      BY <2>1, <2>4 DEF Delete, Accounts, IsNext, TypeOK
    <3>2. store' = [store EXCEPT ![n] = p[n]] /\ stale \subseteq stale'
      BY <2>4, <3>1 DEF Delete, Put
    <3> QED
      BY <2>1, <2>2, <2>4, <3>2, WriteAccounts DEF Delete
  <2>5. ASSUME NEW n \in Names, Create(n) \/ Update(n) PROVE Accounts(p)'
    <3>1. work.target = p /\ IsNext(n) /\ Done(n) /\ Put(n, p[n])
      BY <2>1, <2>5 DEF Create, Update, CanUpdate, Accounts, IsNext, TypeOK
    <3>2. store' = [store EXCEPT ![n] = p[n]] /\ stale \subseteq stale'
      BY <3>1 DEF Put
    <3> QED
      BY <2>1, <2>2, <3>1, <3>2, WriteAccounts
  <2>6. ASSUME NEW n \in Names, Recreate(n) PROVE Accounts(p)'
    <3>1. store[n] # Absent
      BY <2>6 DEF Recreate, CanUpdate, CacheCurrent
    <3>2. /\ IsNext(n) /\ Done(n)
          /\ n \in stale' /\ stale \subseteq stale'
          /\ \A m \in Names \ {n} : store'[m] = store[m]
      BY <2>6, <3>1 DEF Recreate, CanUpdate, Put, TypeOK, States
    <3> QED
      BY <2>1, <2>2, <3>2, WriteAccounts
  <2>7. ASSUME NEW n \in Names, Deliver(n) \/ Refused(n) \/ Fail(n) PROVE FALSE
    BY <2>7 DEF Deliver, Refused, Fail, Abort
  <2>8. CASE UNCHANGED vars
    BY <2>1, <2>8 DEF vars, Accounts
  <2> QED
    BY <1>1, <2>3, <2>4, <2>5, <2>6, <2>7, <2>8 DEF Next, Step
<1>4. CASE queued /\ ~Start
  BY <1>1, <1>4 DEF Next, Step, DeleteByOther, Deliver, Delete, Create, Update, Recreate,
                Refused, Fail, Abort, vars
<1> QED
  BY <1>2, <1>3, <1>4

LEMMA Invariance == Spec => []Inv
<1>1. Inv /\ [Next]_vars => Inv'
  BY NextType, NextCache, NextOwed DEF Inv
<1> QED
  BY InitInv, <1>1, PTL DEF Spec

-----------------------------------------------------------------------------
(* The theorems.                                                           *)

\* Objects, cache and list stay well formed, and a worker that is busy has
\* something left to write.
THEOREM ResourcesTypeCorrect == Spec => []TypeOK
<1>1. Inv => TypeOK
  BY DEF Inv
<1> QED
  BY <1>1, Invariance, PTL

\* Whatever a controller wants and however often its calls fail, its caches lag
\* or it is restarted: when it is at rest the owned objects are as its input
\* wants them.
THEOREM ReconciledHolds == Spec => []Reconciled
<1>1. Inv => Reconciled
  <2> SUFFICES ASSUME Inv, AtRest PROVE store \in Plans(input)
    BY DEF Reconciled
  <2>1. PICK p \in Plans(input) : Accounts(p)
    BY DEF Inv, Owed, AtRest
  <2>2. \A n \in Names : store[n] = p[n]
    BY <2>1 DEF Accounts, AtRest, Idle
  <2>3. p \in States /\ store \in States
    BY ParametersAssumption DEF Inv, TypeOK, States
  <2>4. store = p
    BY <2>2, <2>3 DEF States
  <2> QED
    BY <2>4
<1> QED
  BY <1>1, Invariance, PTL
=============================================================================
