------------------------- MODULE ReconcilersProofs -------------------------
(***************************************************************************)
(* For any set of controllers, resource functions, watches and edits:      *)
(* types, and that complete watches keep every direct object current.      *)
(***************************************************************************)
EXTENDS Reconcilers, TLAPS

-----------------------------------------------------------------------------
(* Types.                                                                  *)

\* The manager starts well typed.
LEMMA InitTyped == Init => TypeOK
BY KeysAssumption, SMTT(30) DEF Init, TypeOK, Listed, Functions

\* An edit or a write of an object keeps the domain of the world and queues keys.
LEMMA PutTyped ==
    ASSUME TypeOK, NEW o, NEW v, Put(o, v)
    PROVE  DOMAIN world' = Objects /\ queued' \subseteq Keys
BY DEF Put, TypeOK

\* Each step of the environment, a reconcile or the manager keeps the types.
LEMMA StepTyped == TypeOK /\ [Next]_vars => TypeOK'
<1> SUFFICES ASSUME TypeOK, [Next]_vars PROVE TypeOK'
    OBVIOUS
<1> USE KeysAssumption
<1>1. ASSUME NEW e \in open, Edit(e) PROVE TypeOK'
    <2>1. DOMAIN world' = Objects /\ queued' \subseteq Keys
        BY <1>1, PutTyped DEF Edit
    <2> QED
        BY <1>1, <2>1 DEF Edit, TypeOK
<1>2. ASSUME NEW k \in Keys, NEW i \in Functions(k), Lose(k, i) PROVE TypeOK'
    BY <1>2 DEF Lose, TypeOK
<1>3. ASSUME NEW k \in Keys, Collect(k) PROVE TypeOK'
    BY <1>3 DEF Collect, TypeOK
<1>4. ASSUME NEW k \in Keys, Start(k) PROVE TypeOK'
    BY <1>4, SMTT(30) DEF Start, TypeOK
<1>5. ASSUME NEW k \in Keys, Write(k) PROVE TypeOK'
    <2>1. at' \in [Keys -> Nat] /\ \A j \in Keys : at'[j] <= Size(j)
        BY <1>5, SMTT(30) DEF Write, Advance, Leave, TypeOK
    <2>2. DOMAIN snap' = Keys /\ \A j \in Keys : at'[j] = 0 <=> snap'[j] = Nothing
        BY <1>5, SMTT(30) DEF Write, Advance, Leave, TypeOK
    <2>3. /\ DOMAIN world' = Objects
          /\ queued' \subseteq Keys
          /\ DOMAIN owned' = Keys
          /\ \A j \in Keys : DOMAIN owned'[j] = Functions(j)
        <3>1. PICK result : \/ Target(k, at[k]) = Owned /\ Store(k, result)
                            \/ Put(Target(k, at[k]), result) /\ UNCHANGED owned
            BY <1>5 DEF Write
        <3>2. CASE Store(k, result)
            BY <3>2 DEF Store, TypeOK
        <3>3. CASE Put(Target(k, at[k]), result) /\ UNCHANGED owned
            BY <3>3, PutTyped DEF TypeOK
        <3> QED
            BY <3>1, <3>2, <3>3
    <2> QED
        BY <1>5, <2>1, <2>2, <2>3 DEF Write, TypeOK
<1>6. ASSUME NEW k \in Keys, Stop(k) PROVE TypeOK'
    BY <1>6 DEF Stop, Leave, TypeOK
<1>7. ASSUME NEW k \in Keys, Fail(k) PROVE TypeOK'
    BY <1>7 DEF Fail, Leave, TypeOK
<1>8. ASSUME Restart PROVE TypeOK'
    BY <1>8 DEF Restart, Listed, TypeOK
<1>9. ASSUME UNCHANGED vars PROVE TypeOK'
    BY <1>9 DEF vars, TypeOK
<1> QED
    BY <1>1, <1>2, <1>3, <1>4, <1>5, <1>6, <1>7, <1>8, <1>9 DEF Next, Work

\* The queue, the reconciles under way and what each of them has read first stay
\* well formed: no reconcile goes past its last resource function.
THEOREM ReconcilersTypeCorrect == Spec => []TypeOK
BY InitTyped, StepTyped, PTL DEF Spec

-----------------------------------------------------------------------------
(* Complete watches.                                                       *)

\* The action of WatchesCover.
Covered ==
    \A k \in DirectKeys \ queued' :
        /\ Begin(k, world') = Begin(k, world)
        /\ \A i \in Functions(k) :
              Direct(k, i) /\ Begin(k, world) \notin {Nothing, Error} =>
                  /\ Target(k, i) # Owned => world'[Target(k, i)] = world[Target(k, i)]
                  /\ LET before == Build(k, i, Begin(k, world), world, Content(k, i))
                     IN  before \in {Error, Build(k, i, Begin(k, world), world', Content(k, i))}

\* A key that is not queued has read what it would read now, and the direct
\* functions it has called, all of them when it is idle, left nothing to do.
Current(k) ==
    LET s == Begin(k, world)
    IN  /\ at[k] = 0 /\ s # Nothing =>
              s # Error /\ \A i \in Functions(k) : Direct(k, i) => Fine(k, i, s)
        /\ at[k] > 0 =>
              /\ snap[k] = s /\ s \notin {Nothing, Error}
              /\ \A i \in Functions(k) : i < at[k] /\ Direct(k, i) => Fine(k, i, s)

\* Every direct key that is not queued is current.
Kept == \A k \in DirectKeys \ queued : Current(k)

\* At the start a key that is not queued has nothing to do.
LEMMA InitKept == Init => Kept
BY SMTT(30) DEF Init, Listed, Kept, Current, DirectKeys

\* A step that leaves the reconcile of a key and what it owns alone keeps the key
\* current: the world changes only as the watches allow.
LEMMA OthersKept ==
    ASSUME TypeOK, NEW k \in DirectKeys \ queued', k \notin queued, Current(k), [Covered]_world,
           at'[k] = at[k], snap'[k] = snap[k], owned'[k] = owned[k]
    PROVE  Current(k)'
<1> USE KeysAssumption
<1> k \in Keys
    BY DEF DirectKeys
<1>1. Begin(k, world') = Begin(k, world)
    BY DEF Covered
<1>2. ASSUME NEW i \in Functions(k), Direct(k, i), Begin(k, world) \notin {Nothing, Error},
             Fine(k, i, Begin(k, world))
      PROVE  Fine(k, i, Begin(k, world))'
    <2>1. Target(k, i) # Owned => world'[Target(k, i)] = world[Target(k, i)]
        BY <1>2 DEF Covered
    <2>2. Content(k, i)' = Content(k, i)
        BY <2>1 DEF Content
    <2>3. Build(k, i, Begin(k, world), world', Content(k, i)) = Content(k, i)
        BY <1>2 DEF Covered, Fine
    <2> QED
        BY <1>1, <1>2, <2>2, <2>3 DEF Fine
<1> QED
    BY <1>1, <1>2, SMTT(30) DEF Current

\* A function that has been called and is direct has nothing left to do, unless
\* its key was queued again; those called before it are as they were.
LEMMA WriteKept ==
    ASSUME TypeOK, NEW k \in DirectKeys \ queued', k \notin queued, Current(k), [Covered]_world, Write(k)
    PROVE  Current(k)'
<1> USE KeysAssumption
<1> k \in Keys
    BY DEF DirectKeys
<1>0. PICK n, s : n = at[k] /\ s = Begin(k, world)
    OBVIOUS
<1>1. n > 0 /\ n \in Functions(k) /\ snap[k] = s /\ s \notin {Nothing, Error}
    BY <1>0, SMTT(30) DEF Write, Current, Functions, TypeOK
<1>2. PICK result : /\ result = Result(k) /\ result # Error
                    /\ \/ Target(k, n) = Owned /\ Store(k, result)
                       \/ Target(k, n) # Owned /\ Put(Target(k, n), result) /\ UNCHANGED owned
    BY <1>0 DEF Write
<1>3. result = Build(k, n, s, world, Content(k, n))
    BY <1>0, <1>1, <1>2 DEF Result
<1>4. Begin(k, world') = s
    BY <1>0 DEF Covered
<1>5. Direct(k, n) => result = Content(k, n) /\ Content(k, n)' = Content(k, n)
    <2> HAVE Direct(k, n)
    <2>1. CASE Target(k, n) = Owned /\ Store(k, result)
        BY <1>0, <1>1, <1>2, <2>1 DEF Store, Content, TypeOK
    <2>2. CASE Target(k, n) # Owned /\ Put(Target(k, n), result)
        <3>1. world'[Target(k, n)] = world[Target(k, n)]
            BY <1>0, <1>1, <2>2 DEF Covered
        <3>2. world'[Target(k, n)] = result
            BY <1>0, <1>1, <2>2 DEF Put, TypeOK
        <3> QED
            BY <3>1, <3>2, <2>2 DEF Content
    <2> QED
        BY <1>0, <1>2, <2>1, <2>2
<1>6. ASSUME NEW i \in Functions(k), Direct(k, i) PROVE Content(k, i)' = Content(k, i)
    <2>1. CASE i = n
        BY <1>0, <1>5, <1>6, <2>1
    <2>2. CASE i # n
        <3>1. Target(k, i) # Owned => world'[Target(k, i)] = world[Target(k, i)]
            BY <1>0, <1>1, <1>6 DEF Covered
        <3>2. owned'[k][i] = owned[k][i]
            BY <1>0, <1>2, <2>2 DEF Store, TypeOK
        <3> QED
            BY <3>1, <3>2 DEF Content
    <2> QED
        BY <2>1, <2>2
<1>7. ASSUME NEW i \in Functions(k), Direct(k, i), i <= n PROVE Fine(k, i, s)
    <2>1. CASE i = n
        BY <1>0, <1>2, <1>3, <1>5, <1>7, <2>1 DEF Fine
    <2>2. CASE i < n
        BY <1>0, <1>1, <1>7, <2>2 DEF Current
    <2> QED
        BY <1>0, <1>1, <1>7, <2>1, <2>2 DEF Functions, TypeOK
<1>8. ASSUME NEW i \in Functions(k), Direct(k, i), i <= n PROVE Fine(k, i, s)'
    <2>1. Build(k, i, s, world', Content(k, i)) = Content(k, i)
        BY <1>0, <1>1, <1>7, <1>8 DEF Covered, Fine
    <2> QED
        BY <1>0, <1>4, <1>6, <1>7, <1>8, <2>1 DEF Fine
<1>9. CASE n = Size(k)
    <2>1. at'[k] = 0
        BY <1>0, <1>9 DEF Write, Advance, Leave, TypeOK
    <2>2. \A i \in Functions(k) : Direct(k, i) => Fine(k, i, s)'
        BY <1>0, <1>8, <1>9 DEF Functions
    <2> QED
        BY <1>0, <1>1, <1>4, <2>1, <2>2 DEF Current
<1>10. CASE n # Size(k)
    <2>1. at'[k] = n + 1 /\ snap'[k] = snap[k]
        BY <1>0, <1>1, <1>2, <1>5, <1>10 DEF Write, Advance, TypeOK
    <2>2. \A i \in Functions(k) : i < n + 1 /\ Direct(k, i) => Fine(k, i, s)'
        BY <1>0, <1>1, <1>8 DEF Functions, TypeOK
    <2> QED
        BY <1>0, <1>1, <1>4, <2>1, <2>2 DEF Current, TypeOK
<1> QED
    BY <1>9, <1>10

\* Every step keeps the keys current that are not queued after it.
LEMMA StepKept == TypeOK /\ Kept /\ [Next]_vars /\ [Covered]_world => Kept'
<1> SUFFICES ASSUME TypeOK, Kept, [Next]_vars, [Covered]_world,
                    NEW j \in DirectKeys \ queued'
             PROVE  Current(j)'
    BY DEF Kept, DirectKeys
<1> USE KeysAssumption
<1> j \in Keys
    BY DEF DirectKeys
<1>0. ASSUME j \notin queued, at'[j] = at[j], snap'[j] = snap[j], owned'[j] = owned[j]
      PROVE  Current(j)'
    BY <1>0, OthersKept DEF Kept
<1>1. ASSUME NEW e \in open, Edit(e) PROVE Current(j)'
    BY <1>0, <1>1 DEF Edit, Put
<1>2. ASSUME NEW k \in Keys, NEW i \in Functions(k), Lose(k, i) PROVE Current(j)'
    BY <1>0, <1>2 DEF Lose, TypeOK
<1>3. ASSUME NEW k \in Keys, Collect(k) PROVE Current(j)'
    <2>1. CASE k = j
        BY <1>3, <2>1, SMTT(30) DEF Collect, Kept, Current, TypeOK
    <2>2. CASE k # j
        BY <1>0, <1>3, <2>2 DEF Collect, TypeOK
    <2> QED
        BY <2>1, <2>2
<1>4. ASSUME NEW k \in Keys, Start(k) PROVE Current(j)'
    <2>1. CASE k = j
        <3>1. PICK s \in {Begin(j, world)} \ {Error} :
                 IF s = Nothing THEN UNCHANGED <<at, snap>>
                 ELSE at' = [at EXCEPT ![j] = 1] /\ snap' = [snap EXCEPT ![j] = s]
            BY <1>4, <2>1 DEF Start
        <3>2. world' = world /\ at[j] = 0
            BY <1>4, <2>1 DEF Start
        <3> QED
            BY <3>1, <3>2, SMTT(30) DEF Current, Functions, TypeOK
    <2>2. CASE k # j
        BY <1>0, <1>4, <2>2 DEF Start, TypeOK
    <2> QED
        BY <2>1, <2>2
<1>5. ASSUME NEW k \in Keys, Write(k) PROVE Current(j)'
    <2>1. j \notin queued
        BY <1>5 DEF Write, Store, Put
    <2>2. CASE k = j
        BY <1>5, <2>1, <2>2, WriteKept DEF Kept
    <2>3. CASE k # j
        <3>1. at'[j] = at[j] /\ snap'[j] = snap[j]
            BY <1>5, <2>3 DEF Write, Advance, Leave, TypeOK
        <3>2. owned'[j] = owned[j]
            BY <1>5, <2>3 DEF Write, Store, TypeOK
        <3> QED
            BY <1>0, <2>1, <3>1, <3>2
    <2> QED
        BY <2>2, <2>3
<1>6. ASSUME NEW k \in Keys, Stop(k) PROVE Current(j)'
    BY <1>0, <1>6 DEF Stop, Leave, TypeOK
<1>7. ASSUME NEW k \in Keys, Fail(k) PROVE Current(j)'
    BY <1>0, <1>7 DEF Fail, Leave, TypeOK
<1>8. ASSUME Restart PROVE Current(j)'
    BY <1>8 DEF Restart, Listed, Current
<1>9. ASSUME UNCHANGED vars PROVE Current(j)'
    BY <1>0, <1>9 DEF vars
<1> QED
    BY <1>1, <1>2, <1>3, <1>4, <1>5, <1>6, <1>7, <1>8, <1>9 DEF Next, Work

\* Where the watches cover what the direct functions read, no order of edits,
\* events, writes, failures and restarts leaves an object of an idle controller
\* behind: Begin is called again whenever what it read, or a function read after
\* it, is out of date.
THEOREM PromptHolds == Spec /\ WatchesCover => []Prompt
<1>1. Kept => Prompt
    BY DEF Kept, Prompt, Current, Resting, DirectKeys
<1>2. WatchesCover => [][Covered]_world
    <2>1. [world' # world => Covered]_world => [Covered]_world
        OBVIOUS
    <2> QED
        BY <2>1, PTL DEF WatchesCover, Covered
<1> QED
    BY <1>1, <1>2, InitKept, StepKept, ReconcilersTypeCorrect, PTL DEF Spec

-----------------------------------------------------------------------------
(* Functions that were called since the key was last queued.               *)

\* A key that is not queued has not run into an error, and what it has read it
\* would read now.
Sound(k) ==
    k \notin queued =>
        /\ at[k] = 0 => Begin(k, world) # Error
        /\ at[k] > 0 => snap[k] = Begin(k, world) /\ Begin(k, world) \notin {Nothing, Error}

\* Function i was called since, with what would be read first now.
Passed(k, i) == k \notin queued /\ Begin(k, world) \notin {Nothing, Error} /\ (at[k] = 0 \/ i < at[k])

\* What holds of a key that is not queued needs the watches to cover what it reads
\* first, and a result that ends its reconcile to queue it again.
Followed(k) ==
    /\ k \notin queued' => Begin(k, world') = Begin(k, world)
    /\ Write(k) /\ Returns(k, at[k]) /\ Result(k) # Content(k, at[k]) => k \in queued'

\* Only its own Start and a restart take a key from the queue.
LEMMA Dequeued ==
    ASSUME [Next]_vars, NEW k \in Keys, k \notin queued'
    PROVE  k \notin queued \/ Start(k) \/ Restart
BY DEF Next, Work, Edit, Put, Lose, Collect, Start, Write, Store, Stop, Fail, vars

\* What the steps of other keys and the environment leave alone.
LEMMA OtherSteps ==
    ASSUME TypeOK, [Next]_vars, NEW k \in Keys, k \notin queued', ~Start(k), ~Restart, ~Write(k)
    PROVE  /\ at'[k] = at[k] /\ snap'[k] = snap[k]
           /\ owned'[k] = owned[k] \/ (Collect(k) /\ Begin(k, world) = Nothing /\ world' = world)
<1>1. ASSUME NEW e \in open, Edit(e) PROVE UNCHANGED <<at, snap, owned>>
    BY <1>1 DEF Edit
<1>2. ASSUME NEW j \in Keys, Start(j) PROVE at'[k] = at[k] /\ snap'[k] = snap[k] /\ owned'[k] = owned[k]
    BY <1>2 DEF Start, TypeOK
<1>3. ASSUME NEW j \in Keys, Write(j) PROVE at'[k] = at[k] /\ snap'[k] = snap[k] /\ owned'[k] = owned[k]
    <2>1. j # k
        BY <1>3
    <2>2. at'[k] = at[k] /\ snap'[k] = snap[k]
        BY <1>3, <2>1 DEF Write, Advance, Leave, TypeOK
    <2>3. owned'[k] = owned[k]
        BY <1>3, <2>1 DEF Write, Store, TypeOK
    <2> QED
        BY <2>2, <2>3
<1>4. ASSUME NEW j \in Keys, Stop(j) \/ Fail(j) PROVE at'[k] = at[k] /\ snap'[k] = snap[k] /\ owned'[k] = owned[k]
    BY <1>4 DEF Stop, Fail, Leave, TypeOK
<1>5. ASSUME NEW j \in Keys, Collect(j)
      PROVE  /\ at'[k] = at[k] /\ snap'[k] = snap[k]
             /\ owned'[k] = owned[k] \/ (Collect(k) /\ Begin(k, world) = Nothing /\ world' = world)
    BY <1>5 DEF Collect, TypeOK
<1>6. ASSUME NEW j \in Keys, NEW i \in Functions(j), Lose(j, i)
      PROVE  at'[k] = at[k] /\ snap'[k] = snap[k] /\ owned'[k] = owned[k]
    BY <1>6 DEF Lose, TypeOK
<1>7. ASSUME UNCHANGED vars PROVE at'[k] = at[k] /\ snap'[k] = snap[k] /\ owned'[k] = owned[k]
    BY <1>7 DEF vars
<1> QED
    BY <1>1, <1>2, <1>3, <1>4, <1>5, <1>6, <1>7 DEF Next, Work

LEMMA InitSound == ASSUME Init, NEW k \in Keys PROVE Sound(k)
BY KeysAssumption DEF Init, Listed, Sound

LEMMA StepSound ==
    ASSUME TypeOK, [Next]_vars, NEW k \in Keys, Sound(k), Followed(k)
    PROVE  Sound(k)'
<1> USE KeysAssumption
<1> SUFFICES ASSUME k \notin queued' PROVE Sound(k)'
    BY DEF Sound
<1>1. Begin(k, world') = Begin(k, world)
    BY DEF Followed
<1>2. CASE Start(k)
    <2>1. PICK s \in {Begin(k, world)} \ {Error} :
             IF s = Nothing THEN UNCHANGED <<at, snap>>
             ELSE at' = [at EXCEPT ![k] = 1] /\ snap' = [snap EXCEPT ![k] = s]
        BY <1>2 DEF Start
    <2>2. world' = world /\ at[k] = 0
        BY <1>2 DEF Start
    <2> QED
        BY <2>1, <2>2, SMTT(30) DEF Sound, TypeOK
<1>3. CASE Restart
    BY <1>3 DEF Restart, Listed, Sound
<1>4. CASE k \notin queued /\ Write(k)
    <2>1. at'[k] = 0 \/ (at'[k] = at[k] + 1 /\ snap'[k] = snap[k])
        BY <1>4 DEF Write, Advance, Leave, TypeOK
    <2>2. at[k] > 0 /\ at[k] \in Nat
        BY <1>4 DEF Write, TypeOK
    <2> QED
        BY <1>1, <1>4, <2>1, <2>2 DEF Sound
<1>5. CASE k \notin queued /\ ~Start(k) /\ ~Restart /\ ~Write(k)
    BY <1>1, <1>5, OtherSteps DEF Sound
<1> QED
    BY <1>2, <1>3, <1>4, <1>5, Dequeued

\* A function that counts as called after a step did so before it and left its
\* object alone since, or the step is the call.
LEMMA StepPassed ==
    ASSUME TypeOK, [Next]_vars, NEW k \in Keys, Sound(k), Followed(k),
           NEW i \in Functions(k), Target(k, i) = Owned, Passed(k, i)'
    PROVE  /\ Begin(k, world') = Begin(k, world) /\ k \notin queued
           /\ \/ Passed(k, i) /\ owned'[k][i] = owned[k][i]
              \/ /\ world' = world /\ snap[k] = Begin(k, world) /\ at[k] = i
                 /\ owned'[k][i] = Build(k, i, Begin(k, world), world, owned[k][i])
                 /\ owned'[k][i] # Error
                 /\ Watched(k, i) => owned'[k][i] = owned[k][i]
<1> USE KeysAssumption
<1>1. k \notin queued' /\ Begin(k, world') = Begin(k, world) /\ Begin(k, world) \notin {Nothing, Error}
    BY DEF Passed, Followed
<1>2. i \in Nat /\ i >= 1 /\ i <= Size(k) /\ at[k] \in Nat /\ at'[k] \in Nat
    <2>1. TypeOK'
        BY StepTyped
    <2> QED
        BY <2>1 DEF Functions, TypeOK
<1>3. ~Restart
    BY <1>1 DEF Restart, Listed
<1>4. ~Start(k)
    <2> SUFFICES ASSUME Start(k) PROVE FALSE
        OBVIOUS
    <2>1. at'[k] = 1
        BY <1>1 DEF Start, TypeOK
    <2> QED
        BY <1>2, <2>1 DEF Passed
<1>5. k \notin queued
    BY <1>1, <1>3, <1>4, Dequeued
<1>6. CASE ~Write(k)
    <2>1. at'[k] = at[k] /\ owned'[k] = owned[k]
        BY <1>1, <1>3, <1>4, <1>6, OtherSteps
    <2> QED
        BY <1>1, <1>5, <2>1 DEF Passed
<1>7. CASE Write(k)
    <2>0. PICK n : n = at[k]
        OBVIOUS
    <2>1. n > 0 /\ n \in Functions(k) /\ snap[k] = Begin(k, world)
        BY <1>5, <1>7, <2>0 DEF Write, Functions, TypeOK, Sound
    <2>2. PICK result : /\ result = Build(k, n, Begin(k, world), world, Content(k, n)) /\ result # Error
                        /\ \/ Target(k, n) = Owned /\ Store(k, result)
                           \/ Target(k, n) # Owned /\ Put(Target(k, n), result) /\ UNCHANGED owned
        BY <1>7, <2>0, <2>1 DEF Write, Result
    <2>3. ~(Returns(k, n) /\ Result(k) # Content(k, n))
        BY <1>1, <1>7, <2>0 DEF Followed
    <2>4. IF n = Size(k) THEN at'[k] = 0 ELSE at'[k] = n + 1
        BY <1>7, <2>0, <2>3 DEF Write, Advance, Leave, TypeOK
    <2>5. i <= n
        <3>1. at'[k] = 0 \/ i < at'[k]
            BY DEF Passed
        <3> QED
            BY <1>2, <2>0, <2>1, <2>4, <3>1
    <2>6. CASE i = n
        <3>1. Store(k, result) /\ Content(k, n) = owned[k][i]
            BY <2>2, <2>6 DEF Content
        <3>2. owned'[k][i] = result /\ world' = world
            BY <2>0, <2>6, <3>1 DEF Store, TypeOK
        <3>3. Watched(k, i) => result = owned[k][i]
            BY <1>1, <2>0, <2>6, <3>1 DEF Store
        <3> QED
            BY <1>1, <1>5, <2>0, <2>1, <2>2, <2>6, <3>1, <3>2, <3>3
    <2>7. CASE i < n
        <3>1. owned'[k][i] = owned[k][i]
            BY <1>2, <2>0, <2>2, <2>7 DEF Store, TypeOK
        <3> QED
            BY <1>1, <1>5, <2>0, <2>7, <3>1 DEF Passed
    <2> QED
        BY <1>2, <2>0, <2>1, <2>5, <2>6, <2>7
<1> QED
    BY <1>6, <1>7

\* What a reconcile under way has read first it read when it started.
LEMMA StepSnap ==
    ASSUME TypeOK, [Next]_vars, NEW k \in Keys, at'[k] > 0
    PROVE  \/ at[k] > 0 /\ snap'[k] = snap[k]
           \/ /\ at'[k] = 1 /\ snap'[k] = Begin(k, world) /\ snap'[k] \notin {Nothing, Error} /\ world' = world
<1> USE KeysAssumption
<1>1. ASSUME at'[k] = at[k], snap'[k] = snap[k] PROVE at[k] > 0 /\ snap'[k] = snap[k]
    BY <1>1
<1>2. CASE Start(k)
    <2>1. PICK s \in {Begin(k, world)} \ {Error} :
             IF s = Nothing THEN UNCHANGED <<at, snap>>
             ELSE at' = [at EXCEPT ![k] = 1] /\ snap' = [snap EXCEPT ![k] = s]
        BY <1>2 DEF Start
    <2>2. world' = world /\ at[k] = 0
        BY <1>2 DEF Start
    <2> QED
        BY <2>1, <2>2 DEF TypeOK
<1>3. CASE Write(k)
    <2>1. at'[k] = 0 \/ snap'[k] = snap[k]
        BY <1>3 DEF Write, Advance, Leave, TypeOK
    <2> QED
        BY <1>3, <2>1 DEF Write
<1>4. CASE Stop(k) \/ Fail(k)
    BY <1>4 DEF Stop, Fail, Leave, TypeOK
<1>5. CASE Restart
    BY <1>5 DEF Restart
<1>6. ASSUME NEW j \in Keys, Start(j) \/ Write(j) \/ Stop(j) \/ Fail(j), j # k PROVE at'[k] = at[k] /\ snap'[k] = snap[k]
    BY <1>6 DEF Start, Write, Stop, Fail, Advance, Leave, TypeOK
<1>7. ASSUME UNCHANGED <<at, snap>> PROVE at'[k] = at[k] /\ snap'[k] = snap[k]
    BY <1>7
<1> QED
    BY <1>1, <1>2, <1>3, <1>4, <1>5, <1>6, <1>7 DEF Next, Work, Edit, Collect, Lose, vars
=============================================================================
