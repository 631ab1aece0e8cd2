---------------------------- MODULE RulerProofs ----------------------------
(***************************************************************************)
(* The rule files of the Ruler controller, for all values of the           *)
(* constants.                                                              *)
(***************************************************************************)
EXTENDS Ruler, ResourcesProofs, Induction, FiniteSetTheorems, SequenceTheorems

-----------------------------------------------------------------------------
(* Sums.                                                                   *)

\* The partial sums that SumFunction is computed from.
Sums(fun, iter) ==
    iter = [s \in SUBSET DOMAIN fun |->
              IF s = {} THEN 0 ELSE LET x == CHOOSE x \in s : TRUE IN fun[x] + iter[s \ {x}]]

Numbers(fun) == IsFiniteSet(DOMAIN fun) /\ \A x \in DOMAIN fun : fun[x] \in Nat

\* The sets of at most n indices.
Small(fun, n) == {s \in SUBSET DOMAIN fun : Cardinality(s) <= n}

LEMMA SmallSets ==
    ASSUME NEW fun, Numbers(fun)
    PROVE  /\ \A s \in SUBSET DOMAIN fun : IsFiniteSet(s) /\ Cardinality(s) \in Nat
           /\ \A s \in SUBSET DOMAIN fun : Cardinality(s) = 0 => s = {}
           /\ \A s \in SUBSET DOMAIN fun, x \in DOMAIN fun :
                 x \in s => Cardinality(s \ {x}) = Cardinality(s) - 1
           /\ Small(fun, Cardinality(DOMAIN fun)) = SUBSET DOMAIN fun
<1>1. \A s \in SUBSET DOMAIN fun : IsFiniteSet(s) /\ Cardinality(s) \in Nat /\ Cardinality(s) <= Cardinality(DOMAIN fun)
    BY FS_Subset, FS_CardinalityType DEF Numbers
<1>2. \A s \in SUBSET DOMAIN fun : Cardinality(s) = 0 => s = {}
    BY <1>1, FS_EmptySet
<1>3. \A s \in SUBSET DOMAIN fun, x \in DOMAIN fun : x \in s => Cardinality(s \ {x}) = Cardinality(s) - 1
    BY <1>1, FS_RemoveElement
<1>4. Small(fun, Cardinality(DOMAIN fun)) = SUBSET DOMAIN fun
    BY <1>1 DEF Small
<1> QED
    BY <1>1, <1>2, <1>3, <1>4

\* There are such partial sums, as those of sets of n + 1 follow from those of n.
LEMMA SumsExist ==
    ASSUME NEW fun, Numbers(fun)
    PROVE  \E iter : Sums(fun, iter)
<1> DEFINE D == DOMAIN fun
           Pick(s) == CHOOSE x \in s : TRUE
           Defined(n, g) == /\ DOMAIN g = Small(fun, n)
                            /\ \A s \in Small(fun, n) :
                                  g[s] = IF s = {} THEN 0 ELSE fun[Pick(s)] + g[s \ {Pick(s)}]
           S == {n \in Nat : \E g : g = [s \in DOMAIN g |-> g[s]] /\ Defined(n, g)}
<1>1. \A s \in SUBSET D : s # {} => Pick(s) \in s
    OBVIOUS
<1>2. 0 \in S
    <2> DEFINE g == [s \in Small(fun, 0) |-> 0]
    <2>1. \A s \in Small(fun, 0) : s = {}
        BY SmallSets DEF Small
    <2>2. Defined(0, g)
        BY <2>1
    <2> QED
        BY <2>2
<1>3. ASSUME NEW n \in Nat, n \in S PROVE n + 1 \in S
    <2>1. PICK g : Defined(n, g)
        BY <1>3
    <2> DEFINE h == [s \in Small(fun, n + 1) |-> IF s = {} THEN 0 ELSE fun[Pick(s)] + g[s \ {Pick(s)}]]
    <2>2. \A s \in Small(fun, n + 1) : s # {} => s \ {Pick(s)} \in Small(fun, n) /\ s \ {Pick(s)} \in Small(fun, n + 1)
        <3>1. ASSUME NEW s \in SUBSET D, s # {}, Cardinality(s) <= n + 1
              PROVE  Cardinality(s \ {Pick(s)}) <= n /\ Cardinality(s \ {Pick(s)}) <= n + 1
            <4>1. Cardinality(s \ {Pick(s)}) = Cardinality(s) - 1 /\ Cardinality(s) \in Nat
                BY <1>1, <3>1, SmallSets
            <4> QED
                BY <3>1, <4>1
        <3> QED
            BY <3>1 DEF Small
    <2>3. \A s \in Small(fun, n) : s \in Small(fun, n + 1) /\ h[s] = g[s]
        <3>1. \A s \in Small(fun, n) : s \in Small(fun, n + 1)
            BY SmallSets DEF Small
        <3> QED
            BY <2>1, <3>1
    <2>4. \A s \in Small(fun, n + 1) : h[s] = IF s = {} THEN 0 ELSE fun[Pick(s)] + g[s \ {Pick(s)}]
        OBVIOUS
    <2>5. DOMAIN h = Small(fun, n + 1) /\ h = [s \in DOMAIN h |-> h[s]]
        OBVIOUS
    <2> HIDE DEF h
    <2>6. \A s \in Small(fun, n + 1) : s # {} => h[s \ {Pick(s)}] = g[s \ {Pick(s)}]
        BY <2>2, <2>3
    <2> HIDE DEF Pick
    <2>7. \A s \in Small(fun, n + 1) : h[s] = IF s = {} THEN 0 ELSE fun[Pick(s)] + h[s \ {Pick(s)}]
        BY <2>4, <2>6
    <2>8. Defined(n + 1, h)
        BY <2>5, <2>7, Zenon
    <2>9. n + 1 \in Nat
        OBVIOUS
    <2> HIDE DEF Defined
    <2> QED
        BY <2>5, <2>8, <2>9, Zenon
<1> HIDE DEF S
<1>4. Cardinality(D) \in Nat /\ Cardinality(D) \in S
    <2>1. Cardinality(D) \in Nat
        BY SmallSets
    <2> QED
        BY <1>2, <1>3, <2>1, UpTo
<1>5. PICK g : g = [s \in DOMAIN g |-> g[s]] /\ Defined(Cardinality(D), g)
    BY <1>4 DEF S
<1>6. g = [s \in SUBSET D |-> IF s = {} THEN 0 ELSE fun[Pick(s)] + g[s \ {Pick(s)}]]
    BY <1>5, SmallSets
<1> QED
    BY <1>6 DEF Sums

LEMMA SumsNat ==
    ASSUME NEW fun, Numbers(fun), NEW iter, Sums(fun, iter)
    PROVE  \A s \in SUBSET DOMAIN fun : iter[s] \in Nat
<1> DEFINE S == {n \in Nat : \A s \in Small(fun, n) : iter[s] \in Nat}
<1>1. iter[{}] = 0
    BY DEF Sums
<1>2. 0 \in S
    BY <1>1, SmallSets DEF Small
<1>3. ASSUME NEW n \in Nat, n \in S, NEW s \in Small(fun, n + 1) PROVE iter[s] \in Nat
    <2>1. SUFFICES ASSUME s # {} PROVE iter[s] \in Nat
        BY <1>1
    <2>2. PICK x \in s : iter[s] = fun[x] + iter[s \ {x}]
        BY <1>3, <2>1 DEF Sums, Small
    <2>3. s \in SUBSET DOMAIN fun /\ Cardinality(s) \in Nat /\ Cardinality(s) <= n + 1
        BY SmallSets DEF Small
    <2>4. Cardinality(s \ {x}) = Cardinality(s) - 1
        BY <2>3, SmallSets
    <2>5. s \ {x} \in Small(fun, n)
        BY <2>3, <2>4 DEF Small
    <2>6. fun[x] \in Nat /\ iter[s \ {x}] \in Nat
        BY <1>3, <2>3, <2>5 DEF Numbers
    <2> QED
        BY <2>2, <2>6
<1>4. \A n \in Nat : n \in S => n + 1 \in S
    BY <1>3
<1> HIDE DEF S
<1>5. Cardinality(DOMAIN fun) \in Nat /\ Cardinality(DOMAIN fun) \in S
    <2>1. Cardinality(DOMAIN fun) \in Nat
        BY SmallSets
    <2> QED
        BY <1>2, <1>4, <2>1, UpTo
<1> QED
    BY <1>5, SmallSets DEF S

\* SumFunction is the last of the partial sums.
LEMMA SumsOf ==
    ASSUME NEW fun, Numbers(fun)
    PROVE  \E iter : Sums(fun, iter) /\ SumFunction(fun) = iter[DOMAIN fun]
<1> DEFINE it == CHOOSE iter : Sums(fun, iter)
<1>1. Sums(fun, it)
    BY SumsExist
<1>2. SumFunction(fun) = it[DOMAIN fun]
    BY DEF SumFunction, SumFunctionOnSet, FoldFunctionOnSet, MapThenFoldSet, Sums
<1> QED
    BY <1>1, <1>2

LEMMA SumNat ==
    ASSUME NEW fun, Numbers(fun)
    PROVE  SumFunction(fun) \in Nat
<1>1. PICK iter : Sums(fun, iter) /\ SumFunction(fun) = iter[DOMAIN fun]
    BY SumsOf
<1>2. iter[DOMAIN fun] \in Nat
    BY <1>1, SumsNat
<1> QED
    BY <1>1, <1>2

\* The sum with one more index, whichever index CHOOSE takes first.
LEMMA SumsAdd ==
    ASSUME NEW fun, Numbers(fun), NEW iter, Sums(fun, iter)
    PROVE  \A T \in SUBSET DOMAIN fun, y \in DOMAIN fun :
              y \notin T => iter[T \cup {y}] = fun[y] + iter[T]
<1> DEFINE S == {n \in Nat : \A T \in Small(fun, n), y \in DOMAIN fun :
                                y \notin T => iter[T \cup {y}] = fun[y] + iter[T]}
<1>1. iter[{}] = 0
    BY DEF Sums
<1>2. \A s \in SUBSET DOMAIN fun : s # {} => \E x \in s : iter[s] = fun[x] + iter[s \ {x}]
    BY DEF Sums
<1>3. \A s \in SUBSET DOMAIN fun : iter[s] \in Nat
    BY SumsNat
<1>4. \A x \in DOMAIN fun : fun[x] \in Nat
    BY DEF Numbers
<1>5. ASSUME NEW y \in DOMAIN fun PROVE iter[{} \cup {y}] = fun[y] + iter[{}]
    <2>1. PICK x \in {y} : iter[{y}] = fun[x] + iter[{y} \ {x}]
        BY <1>2
    <2>2. x = y /\ {y} \ {x} = {} /\ {} \cup {y} = {y}
        OBVIOUS
    <2> QED
        BY <2>1, <2>2
<1>6. 0 \in S
    <2>1. \A T \in Small(fun, 0) : T = {}
        BY SmallSets DEF Small
    <2> QED
        BY <1>5, <2>1
<1>7. ASSUME NEW n \in Nat, n \in S, NEW T \in Small(fun, n + 1), NEW y \in DOMAIN fun, y \notin T
      PROVE  iter[T \cup {y}] = fun[y] + iter[T]
    <2>1. T \in SUBSET DOMAIN fun /\ Cardinality(T) \in Nat /\ Cardinality(T) <= n + 1
        BY SmallSets DEF Small
    <2>2. PICK z \in T \cup {y} : iter[T \cup {y}] = fun[z] + iter[(T \cup {y}) \ {z}]
        BY <1>2, <2>1
    <2>3. CASE z = y
        <3>1. (T \cup {y}) \ {z} = T
            BY <1>7, <2>3
        <3> QED
            BY <2>2, <2>3, <3>1
    <2>4. CASE z \in T /\ z # y
        <3> DEFINE R == T \ {z}
        <3>1. Cardinality(R) = Cardinality(T) - 1
            BY <2>1, <2>4, SmallSets
        <3>2. R \in Small(fun, n) /\ R \in SUBSET DOMAIN fun
            BY <2>1, <3>1 DEF Small
        <3>3. (T \cup {y}) \ {z} = R \cup {y} /\ T = R \cup {z} /\ y \notin R /\ z \notin R /\ z \in DOMAIN fun
            BY <1>7, <2>1, <2>4
        <3> HIDE DEF R
        <3>4. iter[R \cup {y}] = fun[y] + iter[R] /\ iter[R \cup {z}] = fun[z] + iter[R]
            BY <1>7, <3>2, <3>3
        <3>5. fun[y] \in Nat /\ fun[z] \in Nat /\ iter[R] \in Nat
            BY <1>3, <1>4, <3>2, <3>3
        <3>6. iter[T \cup {y}] = fun[z] + (fun[y] + iter[R]) /\ iter[T] = fun[z] + iter[R]
            BY <2>2, <3>3, <3>4
        <3> QED
            BY <3>5, <3>6
    <2> QED
        BY <2>3, <2>4
<1>8. \A n \in Nat : n \in S => n + 1 \in S
    <2>1. \A n \in Nat : n + 1 \in Nat
        OBVIOUS
    <2> QED
        BY <1>7, <2>1, Zenon
<1> HIDE DEF S
<1>9. Cardinality(DOMAIN fun) \in Nat /\ Cardinality(DOMAIN fun) \in S
    <2>1. Cardinality(DOMAIN fun) \in Nat
        BY SmallSets
    <2> QED
        BY <1>6, <1>8, <2>1, UpTo
<1> QED
    BY <1>9, SmallSets DEF S

LEMMA SumZero ==
    ASSUME NEW fun, Numbers(fun), \A x \in DOMAIN fun : fun[x] = 0
    PROVE  SumFunction(fun) = 0
<1>1. PICK iter : Sums(fun, iter) /\ SumFunction(fun) = iter[DOMAIN fun]
    BY SumsOf
<1> DEFINE S == {n \in Nat : \A s \in Small(fun, n) : iter[s] = 0}
<1>2. iter[{}] = 0
    BY <1>1 DEF Sums
<1>3. \A s \in SUBSET DOMAIN fun : s # {} => \E x \in s : iter[s] = fun[x] + iter[s \ {x}]
    BY <1>1 DEF Sums
<1>4. 0 \in S
    <2>1. \A s \in Small(fun, 0) : s = {}
        BY SmallSets DEF Small
    <2> QED
        BY <1>2, <2>1
<1>5. ASSUME NEW n \in Nat, n \in S, NEW s \in Small(fun, n + 1) PROVE iter[s] = 0
    <2>1. SUFFICES ASSUME s # {} PROVE iter[s] = 0
        BY <1>2
    <2>2. s \in SUBSET DOMAIN fun /\ Cardinality(s) \in Nat /\ Cardinality(s) <= n + 1
        BY SmallSets DEF Small
    <2>3. PICK x \in s : iter[s] = fun[x] + iter[s \ {x}]
        BY <1>3, <2>1, <2>2
    <2>4. Cardinality(s \ {x}) = Cardinality(s) - 1
        BY <2>2, SmallSets
    <2>5. s \ {x} \in Small(fun, n)
        BY <2>2, <2>4 DEF Small
    <2>6. fun[x] = 0 /\ iter[s \ {x}] = 0
        BY <1>5, <2>2, <2>5
    <2> QED
        BY <2>3, <2>6
<1>6. \A n \in Nat : n \in S => n + 1 \in S
    BY <1>5
<1> HIDE DEF S
<1>7. Cardinality(DOMAIN fun) \in Nat /\ Cardinality(DOMAIN fun) \in S
    <2>1. Cardinality(DOMAIN fun) \in Nat
        BY SmallSets
    <2> QED
        BY <1>4, <1>6, <2>1, UpTo
<1>8. DOMAIN fun \in Small(fun, Cardinality(DOMAIN fun))
    BY <1>7 DEF Small
<1> QED
    BY <1>1, <1>7, <1>8 DEF S

-----------------------------------------------------------------------------
(* Buckets.                                                                *)

\* The bucket after a file of size x.
After(p, x) ==
    IF p.used + x > Limit
    THEN [index |-> p.index + 1, used |-> x]
    ELSE [index |-> p.index, used |-> p.used + x]

Bucketing(size, b) ==
    b = [f \in 0..NFiles |-> IF f = 0 THEN [index |-> 0, used |-> 0] ELSE After(b[f - 1], size[f])]

LEMMA BucketsExist ==
    ASSUME NEW size
    PROVE  \E b : Bucketing(size, b)
<1> DEFINE First == [index |-> 0, used |-> 0]
           Defined(n, g) == /\ DOMAIN g = 0..n
                            /\ \A f \in 0..n : g[f] = IF f = 0 THEN First ELSE After(g[f - 1], size[f])
           S == {n \in Nat : \E g : g = [f \in DOMAIN g |-> g[f]] /\ Defined(n, g)}
<1> NFiles \in Nat
    BY RuleFilesAssumption
<1>1. 0 \in S
    <2> DEFINE g == [f \in 0..0 |-> First]
    <2>1. Defined(0, g) /\ g = [f \in DOMAIN g |-> g[f]]
        OBVIOUS
    <2> QED
        BY <2>1
<1>2. ASSUME NEW n \in Nat, n \in S PROVE n + 1 \in S
    <2>1. PICK g : Defined(n, g)
        BY <1>2
    <2> DEFINE h == [f \in 0..(n + 1) |-> IF f = n + 1 THEN After(g[n], size[n + 1]) ELSE g[f]]
    <2>2. DOMAIN h = 0..(n + 1) /\ h = [f \in DOMAIN h |-> h[f]]
        OBVIOUS
    <2>3. h[n + 1] = After(g[n], size[n + 1]) /\ \A f \in 0..n : h[f] = g[f]
        OBVIOUS
    <2> HIDE DEF h
    <2>4. ASSUME NEW f \in 0..(n + 1) PROVE h[f] = IF f = 0 THEN First ELSE After(h[f - 1], size[f])
        <3>1. CASE f = n + 1
            <4>1. f # 0 /\ f - 1 = n /\ h[n] = g[n]
                BY <2>3, <3>1
            <4> QED
                BY <2>3, <3>1, <4>1
        <3>2. CASE f \in 0..n
            <4>1. f # 0 => h[f - 1] = g[f - 1]
                BY <2>3, <3>2
            <4> QED
                BY <2>1, <2>3, <3>2, <4>1
        <3> QED
            BY <3>1, <3>2
    <2>5. Defined(n + 1, h)
        BY <2>2, <2>4, Zenon
    <2>6. n + 1 \in Nat
        OBVIOUS
    <2> HIDE DEF Defined
    <2> QED
        BY <2>2, <2>5, <2>6, Zenon
<1> HIDE DEF S
<1>3. NFiles \in S
    BY <1>1, <1>2, UpTo
<1>4. PICK g : g = [f \in DOMAIN g |-> g[f]] /\ Defined(NFiles, g)
    BY <1>3 DEF S
<1>5. g = [f \in 0..NFiles |-> IF f = 0 THEN First ELSE After(g[f - 1], size[f])]
    BY <1>4
<1> QED
    BY <1>5 DEF Bucketing

LEMMA BucketsOf ==
    ASSUME NEW size
    PROVE  Bucketing(size, Buckets(size))
<1> DEFINE b == CHOOSE g : Bucketing(size, g)
<1>1. Bucketing(size, b)
    BY BucketsExist
<1>2. Buckets(size) = b
    BY DEF Buckets, Bucketing, After
<1> QED
    BY <1>1, <1>2

LEMMA AfterFields ==
    ASSUME NEW p, NEW x
    PROVE  \/ p.used + x > Limit /\ After(p, x).index = p.index + 1 /\ After(p, x).used = x
           \/ ~(p.used + x > Limit) /\ After(p, x).index = p.index /\ After(p, x).used = p.used + x
<1>1. CASE p.used + x > Limit
    BY <1>1 DEF After
<1>2. CASE ~(p.used + x > Limit)
    BY <1>2 DEF After
<1> QED
    BY <1>1, <1>2

\* Files that each fit a ConfigMap.
Fits(size) == \A f \in Files : size[f] \in Nat /\ size[f] <= Limit

\* No bucket exceeds the limit, and there are no more of them than files.
LEMMA BucketsFit ==
    ASSUME NEW size, Fits(size)
    PROVE  LET b == Buckets(size)
           IN  /\ b[0].index = 0 /\ b[0].used = 0
               /\ \A f \in 0..NFiles : /\ b[f].index \in Nat /\ b[f].used \in Nat
                                       /\ b[f].used <= Limit
                                       /\ b[f].index <= IF f = 0 THEN 0 ELSE f - 1
               /\ \A f \in 0..(NFiles - 1) :
                     \/ /\ b[f + 1].index = b[f].index + 1
                        /\ b[f + 1].used = size[f + 1]
                     \/ /\ b[f + 1].index = b[f].index
                        /\ b[f + 1].used = b[f].used + size[f + 1]
<1> DEFINE b == Buckets(size)
<1> NFiles \in Nat /\ Limit \in Nat
    BY RuleFilesAssumption
<1>1. Bucketing(size, b)
    BY BucketsOf
<1> HIDE DEF b
<1>2. b[0] = [index |-> 0, used |-> 0]
    BY <1>1 DEF Bucketing
<1>3. ASSUME NEW f \in 0..(NFiles - 1) PROVE b[f + 1] = After(b[f], size[f + 1])
    <2>1. f + 1 \in 0..NFiles /\ f + 1 # 0 /\ (f + 1) - 1 = f
        OBVIOUS
    <2> QED
        BY <1>1, <2>1 DEF Bucketing
<1>4. ASSUME NEW f \in 0..(NFiles - 1)
      PROVE  \/ /\ b[f].used + size[f + 1] > Limit
                /\ b[f + 1].index = b[f].index + 1
                /\ b[f + 1].used = size[f + 1]
             \/ /\ ~(b[f].used + size[f + 1] > Limit)
                /\ b[f + 1].index = b[f].index
                /\ b[f + 1].used = b[f].used + size[f + 1]
    BY <1>3, AfterFields
<1> DEFINE Good(f) == /\ b[f].index \in Nat /\ b[f].used \in Nat
                      /\ b[f].used <= Limit
                      /\ b[f].index <= IF f = 0 THEN 0 ELSE f - 1
           S == {f \in Nat : Good(f)}
<1>5. 0 \in S
    BY <1>2
<1>6. ASSUME NEW f \in 0..(NFiles - 1), f \in S PROVE f + 1 \in S
    <2>1. size[f + 1] \in Nat /\ size[f + 1] <= Limit
        BY DEF Fits, Files
    <2>2. Good(f) /\ f \in Nat
        BY <1>6
    <2>3. CASE f = 0
        <3>1. b[f + 1].index = 0 /\ b[f + 1].used = size[f + 1]
            BY <1>2, <1>4, <2>1, <2>3
        <3> QED
            BY <2>1, <2>3, <3>1
    <2>4. CASE f # 0
        <3>1. b[f + 1].index \in {b[f].index, b[f].index + 1}
            BY <1>4
        <3>2. b[f + 1].used \in Nat /\ b[f + 1].used <= Limit
            BY <1>4, <2>1, <2>2
        <3> QED
            BY <2>2, <2>4, <3>1, <3>2
    <2> QED
        BY <2>3, <2>4
<1> HIDE DEF S
<1>7. \A f \in 0..NFiles : f \in S
    BY <1>5, <1>6, UpTo
<1>8. \A f \in 0..NFiles : Good(f)
    BY <1>7 DEF S
<1>9. \A f \in 0..(NFiles - 1) :
         \/ /\ b[f + 1].index = b[f].index + 1
            /\ b[f + 1].used = size[f + 1]
         \/ /\ b[f + 1].index = b[f].index
            /\ b[f + 1].used = b[f].used + size[f + 1]
    BY <1>4
<1> QED
    BY <1>2, <1>8, <1>9 DEF b

LEMMA BucketsGrow ==
    ASSUME NEW size, Fits(size)
    PROVE  \A f \in 0..NFiles : Buckets(size)[f].index <= Buckets(size)[NFiles].index
<1> DEFINE b == Buckets(size)
           S == {d \in Nat : b[NFiles - d].index <= b[NFiles].index}
<1> NFiles \in Nat
    BY RuleFilesAssumption
<1>1. /\ \A f \in 0..NFiles : b[f].index \in Nat
      /\ \A f \in 0..(NFiles - 1) : b[f + 1].index = b[f].index + 1 \/ b[f + 1].index = b[f].index
    BY BucketsFit
<1> HIDE DEF b
<1>2. 0 \in S
    BY <1>1
<1>3. ASSUME NEW d \in 0..(NFiles - 1), d \in S PROVE d + 1 \in S
    <2> DEFINE f == NFiles - (d + 1)
    <2>1. f \in 0..(NFiles - 1) /\ f + 1 = NFiles - d /\ f \in 0..NFiles /\ NFiles \in 0..NFiles /\ f + 1 \in 0..NFiles
        OBVIOUS
    <2>2. b[f + 1].index <= b[NFiles].index
        BY <1>3, <2>1
    <2> HIDE DEF f
    <2>3. b[f].index <= b[NFiles].index
        BY <1>1, <2>1, <2>2
    <2> QED
        BY <2>3 DEF f
<1> HIDE DEF S
<1>4. \A d \in 0..NFiles : d \in S
    BY <1>2, <1>3, UpTo
<1>5. ASSUME NEW f \in 0..NFiles PROVE b[f].index <= b[NFiles].index
    <2>1. NFiles - f \in 0..NFiles /\ NFiles - (NFiles - f) = f
        OBVIOUS
    <2> QED
        BY <1>4, <2>1 DEF S
<1> QED
    BY <1>5 DEF b

\* The files of one bucket add up to at most the limit.
LEMMA BucketSum ==
    ASSUME NEW size, Fits(size), NEW j \in Nat
    PROVE  SumFunction([f \in Files |-> IF Buckets(size)[f].index = j THEN size[f] ELSE 0]) <= Limit
<1> DEFINE b == Buckets(size)
           fun == [f \in Files |-> IF b[f].index = j THEN size[f] ELSE 0]
<1> NFiles \in Nat /\ Limit \in Nat
    BY RuleFilesAssumption
<1>1. Numbers(fun) /\ DOMAIN fun = Files
    <2>1. IsFiniteSet(Files)
        BY FS_Interval DEF Files
    <2>2. \A f \in Files : fun[f] \in Nat
        BY DEF Fits
    <2> QED
        BY <2>1, <2>2 DEF Numbers
<1>2. PICK iter : Sums(fun, iter) /\ SumFunction(fun) = iter[DOMAIN fun]
    BY <1>1, SumsOf
<1>3. \A f \in Files : fun[f] = IF b[f].index = j THEN size[f] ELSE 0
    OBVIOUS
<1>4. /\ b[0].index = 0 /\ b[0].used = 0
      /\ \A f \in 0..NFiles : b[f].index \in Nat /\ b[f].used \in Nat /\ b[f].used <= Limit
      /\ \A f \in 0..(NFiles - 1) : \/ b[f + 1].index = b[f].index + 1 /\ b[f + 1].used = size[f + 1]
                                    \/ b[f + 1].index = b[f].index /\ b[f + 1].used = b[f].used + size[f + 1]
    BY BucketsFit
<1> HIDE DEF fun, b
<1> DEFINE Good(m) == /\ b[m].index = j => iter[1..m] = b[m].used
                      /\ b[m].index < j => iter[1..m] = 0
                      /\ iter[1..m] \in Nat /\ iter[1..m] <= Limit
           S == {m \in Nat : Good(m)}
<1>5. 0 \in S
    <2>1. iter[{}] = 0 /\ 1..0 = {}
        BY <1>2 DEF Sums
    <2>2. Good(0)
        BY <1>4, <2>1
    <2> QED
        BY <2>2
<1>6. ASSUME NEW m \in 0..(NFiles - 1), m \in S PROVE m + 1 \in S
    <2>1. 1..m \in SUBSET Files /\ m + 1 \in Files /\ m + 1 \notin 1..m /\ 1..(m + 1) = (1..m) \cup {m + 1}
        BY DEF Files
    <2>2. iter[1..(m + 1)] = fun[m + 1] + iter[1..m]
        <3>1. \A T \in SUBSET Files, y \in Files : y \notin T => iter[T \cup {y}] = fun[y] + iter[T]
            BY <1>1, <1>2, SumsAdd
        <3>2. iter[(1..m) \cup {m + 1}] = fun[m + 1] + iter[1..m]
            BY <2>1, <3>1
        <3> QED
            BY <2>1, <3>2
    <2>3. size[m + 1] \in Nat
        BY <2>1 DEF Fits
    <2>4. fun[m + 1] = IF b[m + 1].index = j THEN size[m + 1] ELSE 0
        BY <1>3, <2>1
    <2>5. Good(m) /\ m \in 0..NFiles /\ m + 1 \in 0..NFiles /\ m + 1 \in Nat
        BY <1>6
    <2>6. b[m].index \in Nat /\ b[m + 1].index \in Nat /\ b[m + 1].used \in Nat /\ b[m + 1].used <= Limit
        BY <1>4, <2>5
    <2> DEFINE old == iter[1..m]
               new == iter[1..(m + 1)]
    <2>7. /\ b[m].index = j => old = b[m].used
          /\ b[m].index < j => old = 0
          /\ old \in Nat /\ old <= Limit
        BY <2>5
    <2>8. new = fun[m + 1] + old
        BY <2>2
    <2> HIDE DEF old, new
    <2>9. /\ b[m + 1].index = j => new = b[m + 1].used
          /\ b[m + 1].index < j => new = 0
          /\ new \in Nat /\ new <= Limit
        <3>1. CASE b[m + 1].index = b[m].index + 1 /\ b[m + 1].used = size[m + 1]
            BY <2>3, <2>4, <2>6, <2>7, <2>8, <3>1
        <3>2. CASE b[m + 1].index = b[m].index /\ b[m + 1].used = b[m].used + size[m + 1]
            <4>1. CASE b[m].index = j
                BY <2>3, <2>4, <2>6, <2>7, <2>8, <3>2, <4>1
            <4>2. CASE b[m].index # j
                BY <2>3, <2>4, <2>6, <2>7, <2>8, <3>2, <4>2
            <4> QED
                BY <4>1, <4>2
        <3> QED
            BY <1>4, <3>1, <3>2
    <2>10. Good(m + 1)
        BY <2>9 DEF new
    <2> QED
        BY <2>5, <2>10
<1> HIDE DEF S
<1>7. NFiles \in S
    BY <1>5, <1>6, UpTo
<1>8. SumFunction(fun) <= Limit
    BY <1>1, <1>2, <1>7 DEF S, Files
<1> QED
    BY <1>8 DEF fun, b

-----------------------------------------------------------------------------
(* What the controller wants.                                              *)

\* A plan comes from a selection that can be computed, and orders of volumes.
IsPlan(i, p) ==
    \E s \in selectPrometheusRules(i) :
       Computable(s, i.shards) /\ \E q \in Orders(s, i.shards) : p = Desired(s, i.shards, q)

LEMMA PlansOf ==
    ASSUME NEW i \in Inputs, NEW p \in Plans(i)
    PROVE  IsPlan(i, p)
<1> DEFINE P(x) == UNION {{Desired(s, x.shards, q) : q \in Orders(s, x.shards)} :
                             s \in {s \in selectPrometheusRules(x) : Computable(s, x.shards)}}
           e == CHOOSE entry \in PlanTable : entry[1] = i
<1>1. i \in RulerInputs /\ Plans(i) = e[2]
    BY RulerAssumption DEF RulerPlans
<1>2. PlanTable = {<<x, P(x)>> : x \in RulerInputs}
    BY DEF PlanTable
<1> HIDE DEF P
<1>3. e \in PlanTable /\ e[1] = i
    <2>1. <<i, P(i)>> \in PlanTable /\ <<i, P(i)>>[1] = i
        BY <1>1, <1>2
    <2>2. \E entry \in PlanTable : entry[1] = i
        BY <2>1
    <2> QED
        BY <2>2
<1> HIDE DEF e
<1>4. e[2] = P(i)
    BY <1>2, <1>3
<1>5. p \in P(i)
    BY <1>1, <1>4
<1> QED
    BY <1>5 DEF P, IsPlan

Contented(files) == files \in [Files -> [Groups -> Nat]]

LEMMA SizesNat ==
    ASSUME NEW files, Contented(files)
    PROVE  \A f \in Files : Sizes(files)[f] = SumFunction(files[f]) /\ Sizes(files)[f] \in Nat
<1>1. ASSUME NEW f \in Files PROVE SumFunction(files[f]) \in Nat
    <2>1. files[f] \in [Groups -> Nat] /\ IsFiniteSet(Groups)
        BY RuleFilesAssumption DEF Contented
    <2>2. Numbers(files[f])
        BY <2>1 DEF Numbers
    <2> QED
        BY <2>2, SumNat
<1> QED
    BY <1>1 DEF Sizes

LEMMA NoGroupsSize == NoGroups \in [Groups -> Nat] /\ SumFunction(NoGroups) = 0
<1>1. NoGroups \in [Groups -> Nat] /\ DOMAIN NoGroups = Groups /\ \A g \in Groups : NoGroups[g] = 0
    BY DEF NoGroups
<1>2. Numbers(NoGroups)
    BY <1>1, RuleFilesAssumption DEF Numbers
<1>3. SumFunction(NoGroups) = 0
    BY <1>1, <1>2, SumZero
<1> QED
    BY <1>1, <1>3

\* The input is split as the hash says.
LEMMA ShardFilesOf ==
    ASSUME NEW i \in Inputs, NEW s \in selectPrometheusRules(i), Computable(s, i.shards),
           NEW k \in 0..(i.shards - 1)
    PROVE  /\ Contented(ShardFiles(s, i.shards, k))
           /\ Fits(Sizes(ShardFiles(s, i.shards, k)))
           /\ \A f \in Files, g \in Groups :
                 ShardFiles(s, i.shards, k)[f][g] =
                    IF s[f] \in Specs /\ Hash[<<f, g>>] % i.shards = k THEN s[f][g] ELSE 0
<1> DEFINE n == i.shards
           files == ShardFiles(s, n, k)
<1>1. n \in Nat \ {0} /\ n <= MaxShards
    BY RulerAssumption, RuleFilesAssumption DEF RulerInputs
<1>2. \A f \in Files : s[f] = Unselected \/ s[f] \in Specs
    BY DEF selectPrometheusRules, Computable
<1>3. \A c \in Specs : c \in [Groups -> Nat] /\ c # Unselected
    BY RuleFilesAssumption DEF Specs
<1>4. ASSUME NEW f \in Files
      PROVE  /\ files[f] \in [Groups -> Nat]
             /\ \A g \in Groups : files[f][g] = IF s[f] \in Specs /\ Hash[<<f, g>>] % n = k THEN s[f][g] ELSE 0
    <2>1. CASE s[f] = Unselected
        <3>1. files[f] = NoGroups /\ s[f] \notin Specs
            BY <1>3, <2>1 DEF ShardFiles
        <3> QED
            BY <3>1, NoGroupsSize DEF NoGroups
    <2>2. CASE s[f] \in Specs
        <3>1. files[f] = [g \in Groups |-> IF Hash[<<f, g>>] % n = k THEN s[f][g] ELSE 0]
            BY <1>3, <2>2 DEF ShardFiles
        <3>2. \A g \in Groups : s[f][g] \in Nat
            BY <1>3, <2>2
        <3> QED
            BY <2>2, <3>1, <3>2
    <2> QED
        BY <1>2, <2>1, <2>2
<1>5. Contented(files)
    <2>1. files = [f \in Files |-> files[f]]
        BY DEF ShardFiles
    <2> HIDE DEF files
    <2> QED
        BY <1>4, <2>1 DEF Contented
<1>6. Fits(Sizes(files))
    <2>1. \A f \in Files : Sizes(files)[f] <= Limit
        BY DEF Computable
    <2> HIDE DEF files
    <2> QED
        BY <1>5, <2>1, SizesNat DEF Fits
<1> QED
    BY <1>4, <1>5, <1>6

Placed(s, n, k) == Buckets(Sizes(ShardFiles(s, n, k)))
Cut(s, n, k, j) == [f \in Files |-> IF Placed(s, n, k)[f].index = j THEN ShardFiles(s, n, k)[f] ELSE NoGroups]

\* The ConfigMaps of a plan.
LEMMA DesiredMaps ==
    ASSUME NEW i \in Inputs, NEW s \in selectPrometheusRules(i), Computable(s, i.shards),
           NEW q \in Orders(s, i.shards), NEW k \in Shards, NEW j \in 0..(NFiles - 1)
    PROVE  IF k < i.shards /\ j <= Placed(s, i.shards, k)[NFiles].index
           THEN /\ Desired(s, i.shards, q)[ConfigMap(k, j)]
                      = [files |-> Cut(s, i.shards, k, j), mounts |-> <<>>]
                /\ Cut(s, i.shards, k, j) \in [Files -> [Groups -> Nat]]
                /\ Desired(s, i.shards, q)[ConfigMap(k, j)] # Missing
           ELSE Desired(s, i.shards, q)[ConfigMap(k, j)] = Missing
<1> DEFINE n == i.shards
           o == ConfigMap(k, j)
           cms == [h \in 0..(n - 1) |-> MakeRulesConfigMaps(ShardFiles(s, n, h))]
           last == Placed(s, n, k)[NFiles].index
           d == Desired(s, n, q)
<1>1. n \in Nat \ {0} /\ n <= MaxShards /\ NFiles \in Nat /\ MaxShards \in Nat /\ k \in Nat
    BY RulerAssumption, RuleFilesAssumption DEF RulerInputs, Shards
<1>2. o \in RulerNames /\ o[1] = "ConfigMap" /\ o[2] = k /\ o[3] = j
    BY DEF RulerNames, ConfigMap
<1>3. d[o] = IF k >= n THEN Missing
             ELSE IF j \in DOMAIN cms[k] THEN [files |-> cms[k][j], mounts |-> <<>>] ELSE Missing
    <2> HIDE DEF o
    <2> QED
        BY <1>2 DEF Desired
<1>4. ASSUME k < n PROVE /\ cms[k] = [m \in 0..last |-> Cut(s, n, k, m)]
                         /\ Cut(s, n, k, j) \in [Files -> [Groups -> Nat]]
                         /\ last \in Nat
    <2>1. k \in 0..(n - 1)
        BY <1>1, <1>4
    <2>2. cms[k] = MakeRulesConfigMaps(ShardFiles(s, n, k))
        BY <2>1
    <2>3. MakeRulesConfigMaps(ShardFiles(s, n, k)) = [m \in 0..last |-> Cut(s, n, k, m)]
        BY DEF MakeRulesConfigMaps, Cut, Placed
    <2>4. ShardFiles(s, n, k) \in [Files -> [Groups -> Nat]]
        BY <2>1, ShardFilesOf DEF Contented
    <2>5. Cut(s, n, k, j) \in [Files -> [Groups -> Nat]]
        BY <2>4, NoGroupsSize DEF Cut
    <2>6. last \in Nat
        BY <1>1, <2>1, ShardFilesOf, BucketsFit DEF Placed
    <2> QED
        BY <2>2, <2>3, <2>5, <2>6
<1> HIDE DEF cms, last, o, d
<1>5. CASE k < n /\ j <= last
    <2>1. j \in 0..last /\ ~(k >= n)
        BY <1>1, <1>4, <1>5
    <2>2. d[o] = [files |-> Cut(s, n, k, j), mounts |-> <<>>]
        BY <1>3, <1>4, <1>5, <2>1
    <2>3. [files |-> Cut(s, n, k, j), mounts |-> <<>>] \in [files : [Files -> [Groups -> Nat]], mounts : Seq(Nat)]
        BY <1>4, <1>5
    <2> QED
        BY <1>4, <1>5, <2>2, <2>3, RuleFilesAssumption DEF d, o, last
<1>6. CASE ~(k < n /\ j <= last)
    <2>1. d[o] = Missing
        BY <1>1, <1>3, <1>4, <1>6
    <2> QED
        BY <1>6, <2>1 DEF d, o, last
<1> QED
    BY <1>5, <1>6

\* Its StatefulSets mount all of them.
LEMMA DesiredMounts ==
    ASSUME NEW i \in Inputs, NEW s \in selectPrometheusRules(i), Computable(s, i.shards),
           NEW q \in Orders(s, i.shards), NEW k \in Shards
    PROVE  IF k < i.shards
           THEN /\ Desired(s, i.shards, q)[StatefulSet(k)] # Missing
                /\ Range(Desired(s, i.shards, q)[StatefulSet(k)].mounts)
                      = 0..Placed(s, i.shards, k)[NFiles].index
           ELSE Desired(s, i.shards, q)[StatefulSet(k)] = Missing
<1> DEFINE n == i.shards
           o == StatefulSet(k)
           last == Placed(s, n, k)[NFiles].index
           d == Desired(s, n, q)
<1>1. n \in Nat \ {0} /\ n <= MaxShards /\ NFiles \in Nat /\ MaxShards \in Nat /\ k \in Nat
    BY RulerAssumption, RuleFilesAssumption DEF RulerInputs, Shards
<1>2. o \in RulerNames /\ o[1] = "StatefulSet" /\ o[2] = k
    BY DEF RulerNames, StatefulSet
<1>3. d[o] = IF k >= n THEN Missing ELSE [files |-> NoFiles, mounts |-> q[k]]
    <2> HIDE DEF o
    <2> QED
        BY <1>2 DEF Desired
<1>4. ASSUME k < n PROVE last \in Nat /\ q[k] \in Mounts(last)
    <2>1. k \in 0..(n - 1)
        BY <1>1, <1>4
    <2>2. last \in Nat
        BY <1>1, <2>1, ShardFilesOf, BucketsFit DEF Placed
    <2>3. q[k] \in Mounts(last)
        BY <2>1 DEF Orders, Placed
    <2> QED
        BY <2>2, <2>3
<1> HIDE DEF last, o, d
<1>5. CASE k < n
    <2> DEFINE S == 0..last
               c == Cardinality(S)
               m == q[k]
    <2>1. IsFiniteSet(S) /\ c = last + 1 /\ c \in Nat /\ IsFiniteSet(1..c) /\ Cardinality(1..c) = c
        BY <1>4, <1>5, FS_Interval
    <2>2. m \in [1..c -> S] /\ \A x, y \in 1..c : x # y => m[x] # m[y]
        BY <1>4, <1>5 DEF Mounts, SetToSeqs
    <2> HIDE DEF m, c, S
    <2>3. Range(m) \in SUBSET S /\ Range(m) = {m[x] : x \in 1..c}
        BY <2>2 DEF Range
    <2>4. Range(m) = S
        <3>1. m \in Injection(1..c, S)
            <4>1. IsInjective(m)
                BY <2>2 DEF IsInjective
            <4> QED
                BY <2>2, <4>1 DEF Injection
        <3>2. m \in Surjection(1..c, S)
            BY <2>1, <3>1, FS_Injection DEF c
        <3> QED
            BY <2>3, <3>2 DEF Surjection
    <2>5. m \in Seq(Nat)
        <3>1. S \in SUBSET Nat
            BY <1>4, <1>5 DEF S
        <3>2. m \in [1..c -> Nat]
            BY <2>2, <3>1
        <3> QED
            BY <2>1, <3>2, SeqDef
    <2>6. d[o] = [files |-> NoFiles, mounts |-> m]
        BY <1>1, <1>3, <1>5 DEF m
    <2>7. d[o] # Missing
        <3>1. NoFiles \in [Files -> [Groups -> Nat]]
            BY NoGroupsSize DEF NoFiles
        <3> QED
            BY <2>5, <2>6, <3>1, RuleFilesAssumption
    <2>8. Range(d[o].mounts) = 0..last
        BY <2>4, <2>6 DEF S
    <2> QED
        BY <1>5, <2>7, <2>8 DEF d, o, last
<1>6. CASE ~(k < n)
    <2>1. d[o] = Missing
        BY <1>1, <1>3, <1>6
    <2> QED
        BY <1>6, <2>1 DEF d, o, last
<1> QED
    BY <1>5, <1>6

-----------------------------------------------------------------------------
(* The size of ConfigMaps.                                                 *)

LEMMA PlanSize ==
    ASSUME NEW i \in Inputs, NEW p \in Plans(i), NEW k \in Shards, NEW j \in 0..(NFiles - 1),
           p[ConfigMap(k, j)] # Missing
    PROVE  SumFunction(Sizes(p[ConfigMap(k, j)].files)) <= Limit
<1> DEFINE n == i.shards
<1>1. PICK s \in selectPrometheusRules(i) :
         Computable(s, n) /\ \E q \in Orders(s, n) : p = Desired(s, n, q)
    BY PlansOf DEF IsPlan
<1>2. PICK q \in Orders(s, n) : p = Desired(s, n, q)
    BY <1>1
<1> DEFINE files == ShardFiles(s, n, k)
           size == Sizes(files)
           b == Buckets(size)
<1>3. k < n /\ p[ConfigMap(k, j)].files = Cut(s, n, k, j)
    <2>1. CASE k < n /\ j <= Placed(s, n, k)[NFiles].index
        <3>1. p[ConfigMap(k, j)] = [files |-> Cut(s, n, k, j), mounts |-> <<>>]
            BY <1>1, <1>2, <2>1, DesiredMaps
        <3> QED
            BY <2>1, <3>1
    <2>2. CASE ~(k < n /\ j <= Placed(s, n, k)[NFiles].index)
        BY <1>1, <1>2, <2>2, DesiredMaps
    <2> QED
        BY <2>1, <2>2
<1>4. k \in 0..(n - 1)
    BY <1>3, RulerAssumption, RuleFilesAssumption DEF RulerInputs, Shards
<1>5. Contented(files) /\ Fits(size)
    BY <1>1, <1>4, ShardFilesOf
<1>6. Cut(s, n, k, j) = [f \in Files |-> IF b[f].index = j THEN files[f] ELSE NoGroups]
    BY DEF Cut, Placed
<1>7. Sizes(Cut(s, n, k, j)) = [f \in Files |-> IF b[f].index = j THEN size[f] ELSE 0]
    <2>1. \A f \in Files : size[f] = SumFunction(files[f])
        BY <1>5, SizesNat
    <2> HIDE DEF files, size, b
    <2>2. Sizes(Cut(s, n, k, j)) = [f \in Files |-> SumFunction(Cut(s, n, k, j)[f])]
        BY DEF Sizes
    <2>3. \A f \in Files : SumFunction(Cut(s, n, k, j)[f]) = IF b[f].index = j THEN size[f] ELSE 0
        BY <1>6, <2>1, NoGroupsSize
    <2> QED
        BY <2>2, <2>3
<1>8. j \in Nat
    BY RuleFilesAssumption
<1> HIDE DEF size
<1>9. SumFunction([f \in Files |-> IF b[f].index = j THEN size[f] ELSE 0]) <= Limit
    BY <1>5, <1>8, BucketSum
<1> QED
    BY <1>3, <1>7, <1>9

\* What is stored, or about to be, has been wanted of some input.
Wanted(o, c) == c = Absent \/ \E i \in Inputs : \E p \in Plans(i) : c = p[o]
Planned == \A o \in Names : Wanted(o, store[o]) /\ Wanted(o, work.target[o])

LEMMA PutPlanned ==
    ASSUME TypeOK, Planned, NEW n \in Names, NEW c, Wanted(n, c), Put(n, c)
    PROVE  \A o \in Names : Wanted(o, store'[o])
BY DEF Planned, Put, TypeOK, States

LEMMA IdlePlanned == \A o \in Names : Wanted(o, Idle.target[o])
BY DEF Idle, Wanted

LEMMA DonePlanned ==
    ASSUME TypeOK, Planned, NEW n \in Names, Done(n)
    PROVE  \A o \in Names : Wanted(o, work'.target[o])
<1>1. CASE work' = Idle
    BY <1>1, IdlePlanned
<1>2. CASE work' = [work EXCEPT !.todo = @ \ {n}]
    <2>1. work'.target = work.target
        BY <1>2 DEF TypeOK
    <2> QED
        BY <2>1 DEF Planned
<1> QED
    BY <1>1, <1>2 DEF Done

LEMMA NextPlanned == TypeOK /\ Planned /\ [Next]_vars => Planned'
<1> SUFFICES ASSUME TypeOK, Planned, [Next]_vars
             PROVE  \A o \in Names : Wanted(o, store'[o]) /\ Wanted(o, work'.target[o])
    BY DEF Planned, Wanted
<1>a. \A o \in Names : Wanted(o, store[o]) /\ Wanted(o, work.target[o]) /\ Wanted(o, Absent)
    BY DEF Planned, Wanted
<1>1. ASSUME NEW i \in Edits(input), ChangeInput(i) PROVE store' = store /\ work' = work
    BY <1>1 DEF ChangeInput
<1>2. ASSUME NEW n \in Names, DeleteByOther(n)
      PROVE  (\A o \in Names : Wanted(o, store'[o])) /\ work' = work
    BY <1>2, <1>a, PutPlanned DEF DeleteByOther
<1>3. ASSUME NEW n \in Names, Deliver(n) PROVE store' = store /\ work' = work
    BY <1>3 DEF Deliver
<1>4. ASSUME Start PROVE store' = store /\ \A o \in Names : Wanted(o, work'.target[o])
    <2>1. PICK p \in Plans(input) :
             work' = IF Todo(p) = {} THEN Idle ELSE [pc |-> "busy", target |-> p, todo |-> Todo(p)]
        BY <1>4 DEF Start
    <2>2. input \in Inputs
        BY DEF TypeOK
    <2>3. CASE work' = Idle
        BY <1>4, <2>3, IdlePlanned DEF Start
    <2>4. CASE work' = [pc |-> "busy", target |-> p, todo |-> Todo(p)]
        <3>1. work'.target = p
            BY <2>4
        <3>2. \A o \in Names : Wanted(o, p[o])
            BY <2>2 DEF Wanted
        <3> QED
            BY <1>4, <3>1, <3>2 DEF Start
    <2> QED
        BY <2>1, <2>3, <2>4
<1>5. ASSUME NEW n \in Names, Delete(n) \/ Create(n) \/ Update(n)
      PROVE  (\A o \in Names : Wanted(o, store'[o])) /\ \A o \in Names : Wanted(o, work'.target[o])
    <2>1. Done(n) /\ Put(n, work.target[n])
        BY <1>5 DEF Delete, Create, Update
    <2> QED
        BY <1>a, <2>1, PutPlanned, DonePlanned
<1>6. ASSUME NEW n \in Names, Refused(n) \/ Fail(n)
      PROVE  store' = store /\ work' = Idle
    BY <1>6 DEF Refused, Fail, Abort
<1>7. ASSUME NEW n \in Names, Recreate(n)
      PROVE  (\A o \in Names : Wanted(o, store'[o])) /\ \A o \in Names : Wanted(o, work'.target[o])
    BY <1>7, <1>a, PutPlanned, DonePlanned DEF Recreate
<1>8. ASSUME Restart PROVE store' = store /\ work' = Idle
    BY <1>8 DEF Restart, Abort
<1>9. ASSUME UNCHANGED vars PROVE store' = store /\ work' = work
    BY <1>9 DEF vars
<1> QED
    BY <1>a, <1>1, <1>2, <1>3, <1>4, <1>5, <1>6, <1>7, <1>8, <1>9, IdlePlanned DEF Next, Step

LEMMA PlannedHolds == Spec => []Planned
<1>1. Init => Planned
    <2> SUFFICES ASSUME Init PROVE Planned
        OBVIOUS
    <2>1. \A o \in Names : store[o] = Absent
        BY DEF Init
    <2>2. work = Idle
        BY DEF Init
    <2> QED
        BY <2>1, <2>2, IdlePlanned DEF Planned, Wanted
<1> QED
    BY <1>1, NextPlanned, ResourcesTypeCorrect, PTL DEF Spec

\* No rule ConfigMap that makeRulesConfigMaps builds, and none that any later state
\* of the rules, the shards or the API server leaves behind, is larger than
\* maxConfigMapDataSize.
THEOREM SizeBoundHolds == Spec => []SizeBound
<1>1. Planned => SizeBound
    <2> SUFFICES ASSUME Planned, NEW k \in Shards, NEW j \in 0..(NFiles - 1),
                        store[ConfigMap(k, j)] # Missing
                 PROVE  SumFunction(Sizes(store[ConfigMap(k, j)].files)) <= Limit
        BY DEF SizeBound
    <2>1. ConfigMap(k, j) \in Names
        BY RulerAssumption DEF RulerNames, ConfigMap
    <2>2. PICK i \in Inputs : \E p \in Plans(i) : store[ConfigMap(k, j)] = p[ConfigMap(k, j)]
        BY <2>1, RulerAssumption DEF Planned, Wanted
    <2>3. PICK p \in Plans(i) : store[ConfigMap(k, j)] = p[ConfigMap(k, j)]
        BY <2>2
    <2> QED
        BY <2>3, PlanSize
<1> QED
    BY <1>1, PlannedHolds, PTL

-----------------------------------------------------------------------------
(* Every group once.                                                       *)

\* No two PrometheusRules make the same file name of namespace and name.
OwnFile == \A r1, r2 \in Rules : FileOf[r1] = FileOf[r2] => r1 = r2

\* What the rulers find when the store is as wanted.
LEMMA MountedOf ==
    ASSUME NEW i \in Inputs, NEW s \in selectPrometheusRules(i), Computable(s, i.shards),
           NEW q \in Orders(s, i.shards), store = Desired(s, i.shards, q)
    PROVE  /\ Mounted = {p \in Shards \X (0..(NFiles - 1)) :
                            p[1] < i.shards /\ p[2] <= Placed(s, i.shards, p[1])[NFiles].index}
           /\ \A p \in Mounted, f \in Files, g \in Groups :
                 store[ConfigMap(p[1], p[2])].files[f][g] =
                    IF /\ s[f] \in Specs
                       /\ p[1] = Hash[<<f, g>>] % i.shards
                       /\ p[2] = Placed(s, i.shards, p[1])[f].index
                    THEN s[f][g] ELSE 0
<1> DEFINE n == i.shards
           last(k) == Placed(s, n, k)[NFiles].index
<1>1. n \in Nat \ {0} /\ n <= MaxShards /\ NFiles \in Nat /\ MaxShards \in Nat
    BY RulerAssumption, RuleFilesAssumption DEF RulerInputs
<1>2. ASSUME NEW k \in Shards, k < n
      PROVE  /\ k \in 0..(n - 1) /\ last(k) \in Nat
             /\ store[StatefulSet(k)] # Missing
             /\ Range(store[StatefulSet(k)].mounts) = 0..last(k)
    <2>1. k \in 0..(n - 1)
        BY <1>1, <1>2 DEF Shards
    <2>2. last(k) \in Nat
        BY <1>1, <2>1, ShardFilesOf, BucketsFit DEF Placed
    <2> QED
        BY <1>2, <2>1, <2>2, DesiredMounts
<1>3. ASSUME NEW k \in Shards, NEW j \in 0..(NFiles - 1)
      PROVE  <<k, j>> \in Mounted <=> k < n /\ j <= last(k)
    <2>1. CASE k < n
        <3>1. j \in 0..last(k) <=> j <= last(k)
            BY <1>1, <1>2, <2>1
        <3>2. j <= last(k) => store[ConfigMap(k, j)] # Missing
            BY <2>1, DesiredMaps
        <3> HIDE DEF last
        <3> QED
            BY <1>2, <2>1, <3>1, <3>2 DEF Mounted
    <2>2. CASE ~(k < n)
        <3>1. store[StatefulSet(k)] = Missing
            BY <2>2, DesiredMounts
        <3> QED
            BY <2>2, <3>1 DEF Mounted
    <2> QED
        BY <2>1, <2>2
<1> HIDE DEF last
<1>4. Mounted = {p \in Shards \X (0..(NFiles - 1)) : p[1] < n /\ p[2] <= last(p[1])}
    <2>1. Mounted \in SUBSET (Shards \X (0..(NFiles - 1)))
        BY DEF Mounted
    <2>2. \A p \in Shards \X (0..(NFiles - 1)) : p \in Mounted <=> p[1] < n /\ p[2] <= last(p[1])
        BY <1>3
    <2> QED
        BY <2>1, <2>2
<1>5. ASSUME NEW p \in Mounted, NEW f \in Files, NEW g \in Groups
      PROVE  store[ConfigMap(p[1], p[2])].files[f][g] =
                IF /\ s[f] \in Specs
                   /\ p[1] = Hash[<<f, g>>] % n
                   /\ p[2] = Placed(s, n, p[1])[f].index
                THEN s[f][g] ELSE 0
    <2> DEFINE k == p[1]
               j == p[2]
    <2>1. k \in Shards /\ j \in 0..(NFiles - 1) /\ k < n /\ j <= last(k)
        BY <1>4
    <2> HIDE DEF k, j
    <2>2. store[ConfigMap(k, j)] = [files |-> Cut(s, n, k, j), mounts |-> <<>>]
        BY <2>1, DesiredMaps DEF last
    <2>3. store[ConfigMap(k, j)].files[f] =
             IF Placed(s, n, k)[f].index = j THEN ShardFiles(s, n, k)[f] ELSE NoGroups
        BY <2>2 DEF Cut
    <2>4. NoGroups[g] = 0
        BY DEF NoGroups
    <2>5. k \in 0..(n - 1)
        BY <1>2, <2>1
    <2>6. ShardFiles(s, n, k)[f][g] = IF s[f] \in Specs /\ Hash[<<f, g>>] % n = k THEN s[f][g] ELSE 0
        BY <2>5, ShardFilesOf
    <2>7. store[ConfigMap(k, j)].files[f][g] =
             IF s[f] \in Specs /\ k = Hash[<<f, g>>] % n /\ j = Placed(s, n, k)[f].index
             THEN s[f][g] ELSE 0
        <3> HIDE DEF n
        <3> QED
            BY <2>3, <2>4, <2>6
    <2> QED
        BY <2>7 DEF k, j
<1> QED
    BY <1>4, <1>5 DEF last

LEMMA OneShard ==
    ASSUME NEW i \in Inputs, NEW s \in selectPrometheusRules(i), Computable(s, i.shards),
           NEW f \in Files, NEW g \in Groups
    PROVE  LET k == Hash[<<f, g>>] % i.shards
               j == Placed(s, i.shards, k)[f].index
           IN  /\ k \in Shards /\ k < i.shards
               /\ j \in 0..(NFiles - 1) /\ j <= Placed(s, i.shards, k)[NFiles].index
<1> DEFINE n == i.shards
           k == Hash[<<f, g>>] % n
           b == Placed(s, n, k)
<1>1. n \in Nat \ {0} /\ n <= MaxShards /\ NFiles \in Nat /\ MaxShards \in Nat
    BY RulerAssumption, RuleFilesAssumption DEF RulerInputs
<1>2. Hash[<<f, g>>] \in Nat
    BY RuleFilesAssumption
<1>3. k \in 0..(n - 1)
    BY <1>1, <1>2
<1>4. Fits(Sizes(ShardFiles(s, n, k)))
    BY <1>3, ShardFilesOf
<1>5. f \in 0..NFiles /\ f # 0 /\ f <= NFiles /\ f \in Nat
    BY <1>1 DEF Files
<1>6. b[f].index \in Nat /\ b[f].index <= f - 1
    BY <1>4, <1>5, BucketsFit DEF Placed
<1>7. b[f].index <= b[NFiles].index
    BY <1>4, <1>5, BucketsGrow DEF Placed
<1> HIDE DEF b
<1>8. b[f].index \in 0..(NFiles - 1)
    BY <1>1, <1>5, <1>6
<1>9. k \in Shards /\ k < n
    <2> HIDE DEF k
    <2> QED
        BY <1>1, <1>3 DEF Shards
<1> QED
    BY <1>7, <1>8, <1>9 DEF b

\* A selected rule has its file to itself.
LEMMA Selected ==
    ASSUME OwnFile, NEW i \in Inputs, NEW s \in selectPrometheusRules(i)
    PROVE  /\ \A r \in Rules : i.rules[r] \in Specs => FileOf[r] \in Files /\ s[FileOf[r]] = i.rules[r]
           /\ \A f \in Files : s[f] \in Specs => \E r \in Rules : FileOf[r] = f /\ i.rules[r] \in Specs
<1>1. \A r \in Rules : FileOf[r] \in Files
    BY RuleFilesAssumption
<1>2. Unselected \notin Specs
    BY RuleFilesAssumption
<1>3. \A f \in Files : IF Claims(i, f) = {} THEN s[f] = Unselected
                       ELSE \E r \in Claims(i, f) : s[f] = i.rules[r]
    BY DEF selectPrometheusRules
<1>4. ASSUME NEW r \in Rules, i.rules[r] \in Specs PROVE s[FileOf[r]] = i.rules[r]
    <2>1. r \in Claims(i, FileOf[r])
        BY <1>2, <1>4 DEF Claims
    <2>2. PICK r2 \in Claims(i, FileOf[r]) : s[FileOf[r]] = i.rules[r2]
        BY <1>1, <1>3, <2>1
    <2>3. r2 = r
        BY DEF Claims, OwnFile
    <2> QED
        BY <2>2, <2>3
<1>5. ASSUME NEW f \in Files, s[f] \in Specs PROVE \E r \in Rules : FileOf[r] = f /\ i.rules[r] \in Specs
    BY <1>2, <1>3, <1>5 DEF Claims
<1> QED
    BY <1>1, <1>4, <1>5

LEMMA RestOnce ==
    ASSUME OwnFile, TypeOK, Reconciled
    PROVE  EveryGroupOnce
<1> SUFFICES ASSUME AtRest
             PROVE  /\ \A r \in Rules : input.rules[r] \in Specs =>
                          \A g \in {g \in Groups : input.rules[r][g] > 0} :
                             \E p \in Mounted : \A q \in Mounted :
                                store[ConfigMap(q[1], q[2])].files[FileOf[r]][g]
                                   = IF q = p THEN input.rules[r][g] ELSE 0
                    /\ \A p \in Mounted, f \in Files, g \in Groups :
                          store[ConfigMap(p[1], p[2])].files[f][g] > 0 =>
                             \E r \in Rules : FileOf[r] = f /\ input.rules[r] \in Specs
    BY DEF EveryGroupOnce
<1> DEFINE n == input.shards
<1>1. input \in Inputs /\ store \in Plans(input)
    BY DEF TypeOK, Reconciled
<1>2. PICK s \in selectPrometheusRules(input) :
         Computable(s, n) /\ \E v \in Orders(s, n) : store = Desired(s, n, v)
    BY <1>1, PlansOf DEF IsPlan
<1>3. PICK v \in Orders(s, n) : store = Desired(s, n, v)
    BY <1>2
<1>4. /\ Mounted = {p \in Shards \X (0..(NFiles - 1)) :
                       p[1] < n /\ p[2] <= Placed(s, n, p[1])[NFiles].index}
      /\ \A p \in Mounted, f \in Files, g \in Groups :
            store[ConfigMap(p[1], p[2])].files[f][g] =
               IF /\ s[f] \in Specs
                  /\ p[1] = Hash[<<f, g>>] % n
                  /\ p[2] = Placed(s, n, p[1])[f].index
               THEN s[f][g] ELSE 0
    BY <1>1, <1>2, <1>3, MountedOf, ZenonT(30)
<1>5. \A p \in Mounted, f \in Files, g \in Groups :
         store[ConfigMap(p[1], p[2])].files[f][g] =
            IF s[f] \in Specs /\ p[1] = Hash[<<f, g>>] % n /\ p[2] = Placed(s, n, p[1])[f].index
            THEN s[f][g] ELSE 0
    BY <1>4, ZenonT(30)
<1>6. ASSUME NEW r \in Rules, input.rules[r] \in Specs, NEW g \in Groups
      PROVE  \E p \in Mounted : \A q \in Mounted :
                store[ConfigMap(q[1], q[2])].files[FileOf[r]][g] = IF q = p THEN input.rules[r][g] ELSE 0
    <2> DEFINE f == FileOf[r]
               k == Hash[<<f, g>>] % n
               j == Placed(s, n, k)[f].index
    <2>1. f \in Files /\ s[f] = input.rules[r]
        BY <1>1, <1>6, Selected
    <2> HIDE DEF f
    <2>2. k \in Shards /\ k < n /\ j \in 0..(NFiles - 1) /\ j <= Placed(s, n, k)[NFiles].index
        BY <1>1, <1>2, <2>1, OneShard
    <2>3. <<k, j>> \in Mounted
        BY <1>4, <2>2
    <2>4. ASSUME NEW q \in Mounted
          PROVE  store[ConfigMap(q[1], q[2])].files[f][g] = IF q = <<k, j>> THEN input.rules[r][g] ELSE 0
        <3>1. q = <<q[1], q[2]>>
            BY <1>4
        <3>2. q = <<k, j>> <=> q[1] = k /\ q[2] = Placed(s, n, q[1])[f].index
            BY <3>1
        <3>3. s[f] \in Specs
            BY <1>6, <2>1
        <3>4. store[ConfigMap(q[1], q[2])].files[f][g] =
                 IF q[1] = k /\ q[2] = Placed(s, n, q[1])[f].index THEN s[f][g] ELSE 0
            BY <1>5, <2>1, <3>3
        <3> HIDE DEF k, j
        <3> QED
            BY <2>1, <3>2, <3>4
    <2> HIDE DEF k, j
    <2> QED
        BY <2>3, <2>4 DEF f
<1>7. ASSUME NEW p \in Mounted, NEW f \in Files, NEW g \in Groups,
             store[ConfigMap(p[1], p[2])].files[f][g] > 0
      PROVE  \E r \in Rules : FileOf[r] = f /\ input.rules[r] \in Specs
    <2>1. s[f] \in Specs
        <3>1. CASE s[f] \notin Specs
            <4>1. store[ConfigMap(p[1], p[2])].files[f][g] = 0
                BY <1>5, <3>1
            <4> QED
                BY <1>7, <4>1
        <3> QED
            BY <3>1
    <2> QED
        BY <1>1, <2>1, Selected
<1> QED
    BY <1>6, <1>7

\* When the Ruler controller is at rest, whatever failed, lagged or was edited
\* before, the StatefulSets it left mount every group of every selected
\* PrometheusRule in exactly one shard and one ConfigMap, for any hash, any sizes and
\* any number of shards, as long as no two rules make one file name
\* (run rule_names shows what happens otherwise).
THEOREM EveryGroupOnceHolds == OwnFile => (Spec => []EveryGroupOnce)
<1>1. OwnFile /\ TypeOK /\ Reconciled => EveryGroupOnce
    BY RestOnce
<1>2. SUFFICES ASSUME OwnFile PROVE Spec => []EveryGroupOnce
    OBVIOUS
<1>3. TypeOK /\ Reconciled => EveryGroupOnce
    BY <1>1, <1>2
<1> QED
    BY <1>3, ResourcesTypeCorrect, ReconciledHolds, PTL
=============================================================================
