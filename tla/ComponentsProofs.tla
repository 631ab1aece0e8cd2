-------------------------- MODULE ComponentsProofs --------------------------
(***************************************************************************)
(* The controllers of the components, for any components, flags and edits. *)
(***************************************************************************)
EXTENDS Components, ReconcilersProofs, Induction, FiniteSetTheorems, SequenceTheorems

-----------------------------------------------------------------------------
(* Lists of arguments.                                                     *)

IsList(args) == \E S : args \in Seq(S)

\* No argument that may not be repeated is.
Unique(kind, args) ==
    \A i, j \in DOMAIN args : args[i][1] = args[j][1] => i = j \/ args[i][1] \in Repeated(kind)

\* Two lists are two lists of a common set.
LEMMA ListsJoin ==
    ASSUME NEW a, NEW b, IsList(a), IsList(b)
    PROVE  \E S : a \in Seq(S) /\ b \in Seq(S)
<1>1. PICK S : a \in Seq(S)
    BY DEF IsList
<1>2. PICK T : b \in Seq(T)
    BY DEF IsList
<1>3. S \subseteq S \cup T /\ T \subseteq S \cup T
    OBVIOUS
<1>4. a \in Seq(S \cup T) /\ b \in Seq(S \cup T)
    BY <1>1, <1>2, <1>3, SeqMonotonic
<1> QED
    BY <1>4

LEMMA ConcatList ==
    ASSUME NEW a, NEW b, IsList(a), IsList(b)
    PROVE  /\ IsList(a \o b)
           /\ Len(a) \in Nat /\ Len(b) \in Nat
           /\ DOMAIN a = 1..Len(a) /\ DOMAIN b = 1..Len(b)
           /\ DOMAIN (a \o b) = 1..(Len(a) + Len(b))
           /\ \A i \in 1..(Len(a) + Len(b)) :
                 (a \o b)[i] = IF i <= Len(a) THEN a[i] ELSE b[i - Len(a)]
<1>1. PICK S : a \in Seq(S) /\ b \in Seq(S)
    BY ListsJoin
<1>2. a \o b \in Seq(S) /\ Len(a \o b) = Len(a) + Len(b)
    BY <1>1, ConcatProperties
<1>3. \A i \in 1..(Len(a) + Len(b)) : (a \o b)[i] = IF i <= Len(a) THEN a[i] ELSE b[i - Len(a)]
    BY <1>1, ConcatProperties
<1>4. Len(a) \in Nat /\ Len(b) \in Nat /\ DOMAIN a = 1..Len(a) /\ DOMAIN b = 1..Len(b)
    BY <1>1, LenProperties
<1>5. DOMAIN (a \o b) = 1..(Len(a) + Len(b))
    BY <1>2, LenProperties
<1> QED
    BY <1>2, <1>3, <1>4, <1>5 DEF IsList

LEMMA ConcatElement ==
    ASSUME NEW a, NEW b, IsList(a), IsList(b), NEW j \in DOMAIN (a \o b)
    PROVE  \/ \E n \in DOMAIN a : (a \o b)[j] = a[n]
           \/ \E n \in DOMAIN b : (a \o b)[j] = b[n]
<1> DEFINE c == a \o b
           m == Len(a)
           n == Len(b)
<1>1. /\ m \in Nat /\ n \in Nat
      /\ DOMAIN a = 1..m /\ DOMAIN b = 1..n /\ DOMAIN c = 1..(m + n)
      /\ \A i \in 1..(m + n) : c[i] = IF i <= m THEN a[i] ELSE b[i - m]
    BY ConcatList
<1>2. j \in DOMAIN c
    OBVIOUS
<1> HIDE DEF c, m, n
<1>3. CASE j <= m
    BY <1>1, <1>2, <1>3 DEF c
<1>4. CASE ~(j <= m)
    <2>1. j - m \in DOMAIN b /\ c[j] = b[j - m]
        BY <1>1, <1>2, <1>4
    <2> QED
        BY <2>1 DEF c
<1> QED
    BY <1>3, <1>4

\* Lists without a name in common may follow each other.
LEMMA ConcatUnique ==
    ASSUME NEW kind, NEW a, NEW b, IsList(a), IsList(b), Unique(kind, a), Unique(kind, b),
           \A i \in DOMAIN a, j \in DOMAIN b : a[i][1] # b[j][1]
    PROVE  IsList(a \o b) /\ Unique(kind, a \o b)
<1> DEFINE c == a \o b
           m == Len(a)
           n == Len(b)
<1>1. /\ IsList(c) /\ m \in Nat /\ n \in Nat
      /\ DOMAIN a = 1..m /\ DOMAIN b = 1..n /\ DOMAIN c = 1..(m + n)
      /\ \A i \in 1..(m + n) : c[i] = IF i <= m THEN a[i] ELSE b[i - m]
    BY ConcatList
<1> HIDE DEF c, m, n
<1>2. ASSUME NEW i \in 1..(m + n), NEW j \in 1..(m + n), c[i][1] = c[j][1]
      PROVE  i = j \/ c[i][1] \in Repeated(kind)
    <2>1. CASE i <= m /\ j <= m
        <3>1. i \in DOMAIN a /\ j \in DOMAIN a /\ c[i] = a[i] /\ c[j] = a[j]
            BY <1>1, <2>1
        <3> QED
            BY <1>2, <3>1 DEF Unique
    <2>2. CASE ~(i <= m) /\ ~(j <= m)
        <3>1. i - m \in DOMAIN b /\ j - m \in DOMAIN b /\ c[i] = b[i - m] /\ c[j] = b[j - m]
            BY <1>1, <2>2
        <3>2. i - m = j - m \/ c[i][1] \in Repeated(kind)
            BY <1>2, <3>1 DEF Unique
        <3>3. i - m = j - m => i = j
            BY <1>1
        <3> QED
            BY <3>2, <3>3
    <2>3. CASE i <= m /\ ~(j <= m)
        <3>1. i \in DOMAIN a /\ j - m \in DOMAIN b /\ c[i] = a[i] /\ c[j] = b[j - m]
            BY <1>1, <2>3
        <3> QED
            BY <1>2, <3>1
    <2>4. CASE ~(i <= m) /\ j <= m
        <3>1. j \in DOMAIN a /\ i - m \in DOMAIN b /\ c[j] = a[j] /\ c[i] = b[i - m]
            BY <1>1, <2>4
        <3> QED
            BY <1>2, <3>1
    <2> QED
        BY <2>1, <2>2, <2>3, <2>4
<1> QED
    BY <1>1, <1>2 DEF Unique, c

\* A flag of the user keeps a list without repetitions one.
LEMMA FlagUnique ==
    ASSUME NEW kind, NEW args, IsList(args), Unique(kind, args), NEW flag
    PROVE  IsList(Flag(kind, args, flag)) /\ Unique(kind, Flag(kind, args, flag))
<1> DEFINE same == {i \in DOMAIN args : args[i][1] = flag[1]}
           new == Flag(kind, args, flag)
<1>1. PICK S : args \in Seq(S) /\ flag \in S
    <2>1. PICK S : args \in Seq(S)
        BY DEF IsList
    <2>2. args \in Seq(S \cup {flag})
        BY <2>1, SeqMonotonic
    <2> QED
        BY <2>2
<1>2. Len(args) \in Nat /\ DOMAIN args = 1..Len(args)
    BY <1>1, LenProperties
<1>3. CASE new = args
    BY <1>3
<1>4. CASE new = Append(args, flag) /\ (flag[1] \in Repeatable(kind) \/ same = {})
    <2>1. new \in Seq(S) /\ Len(new) = Len(args) + 1
        BY <1>1, <1>4, AppendProperties
    <2>2. \A i \in 1..Len(args) : new[i] = args[i]
        BY <1>1, <1>4, AppendProperties
    <2>3. new[Len(args) + 1] = flag
        BY <1>1, <1>4, AppendProperties
    <2>4. DOMAIN new = 1..(Len(args) + 1)
        BY <2>1, LenProperties
    <2> HIDE DEF new
    <2>5. ASSUME NEW i \in 1..(Len(args) + 1), NEW j \in 1..(Len(args) + 1), new[i][1] = new[j][1], i # j
          PROVE  new[i][1] \in Repeated(kind)
        <3>1. CASE i \in 1..Len(args) /\ j \in 1..Len(args)
            BY <1>2, <2>2, <2>5, <3>1 DEF Unique
        <3>2. CASE i = Len(args) + 1 /\ j \in 1..Len(args)
            BY <1>2, <1>4, <2>2, <2>3, <2>5, <3>2 DEF Repeated
        <3>3. CASE j = Len(args) + 1 /\ i \in 1..Len(args)
            BY <1>2, <1>4, <2>2, <2>3, <2>5, <3>3 DEF Repeated
        <3> QED
            BY <1>2, <2>5, <3>1, <3>2, <3>3
    <2> QED
        BY <2>1, <2>4, <2>5 DEF IsList, Unique, new
<1>5. CASE same # {} /\ new = [args EXCEPT ![CHOOSE i \in same : \A j \in same : i <= j] = flag]
    <2> DEFINE e == CHOOSE i \in same : \A j \in same : i <= j
    <2>1. e \in same
        <3>1. same \in SUBSET Nat
            BY <1>2
        <3>2. \E i \in same : \A j \in same : i <= j
            BY <1>5, <3>1, Least
        <3> QED
            BY <3>2
    <2> HIDE DEF e
    <2>2. e \in DOMAIN args /\ args[e][1] = flag[1] /\ new = [args EXCEPT ![e] = flag]
        BY <1>5, <2>1 DEF e
    <2>3. new \in Seq(S)
        BY <1>1, <1>2, <2>2, ExceptSeq
    <2>4. DOMAIN new = DOMAIN args /\ \A i \in DOMAIN args : new[i][1] = args[i][1]
        BY <2>2
    <2> QED
        BY <2>3, <2>4 DEF IsList, Unique
<1>6. \/ new = args
      \/ new = Append(args, flag) /\ (flag[1] \in Repeatable(kind) \/ same = {})
      \/ same # {} /\ new = [args EXCEPT ![CHOOSE i \in same : \A j \in same : i <= j] = flag]
    BY DEF Flag
<1> QED
    BY <1>3, <1>4, <1>5, <1>6

\* The lists that Args goes through.
Flagging(kind, args, flags, h) ==
    h = [n \in 0..Len(flags) |-> IF n = 0 THEN args ELSE Flag(kind, h[n - 1], flags[n])]

LEMMA FlaggingExists ==
    ASSUME NEW kind, NEW args, NEW flags, IsList(flags)
    PROVE  \E h : Flagging(kind, args, flags, h)
<1> DEFINE Defined(n, g) == /\ DOMAIN g = 0..n
                            /\ \A m \in 0..n : g[m] = IF m = 0 THEN args ELSE Flag(kind, g[m - 1], flags[m])
           S == {n \in Nat : \E g : g = [m \in DOMAIN g |-> g[m]] /\ Defined(n, g)}
<1> Len(flags) \in Nat
    BY LenProperties DEF IsList
<1>1. 0 \in S
    <2> DEFINE g == [m \in 0..0 |-> args]
    <2>1. Defined(0, g) /\ g = [m \in DOMAIN g |-> g[m]]
        OBVIOUS
    <2> QED
        BY <2>1
<1>2. ASSUME NEW n \in Nat, n \in S PROVE n + 1 \in S
    <2>1. PICK g : Defined(n, g)
        BY <1>2
    <2> DEFINE h == [m \in 0..(n + 1) |-> IF m = n + 1 THEN Flag(kind, g[n], flags[n + 1]) ELSE g[m]]
    <2>2. DOMAIN h = 0..(n + 1) /\ h = [m \in DOMAIN h |-> h[m]]
        OBVIOUS
    <2>3. h[n + 1] = Flag(kind, g[n], flags[n + 1]) /\ \A m \in 0..n : h[m] = g[m]
        OBVIOUS
    <2> HIDE DEF h
    <2>4. ASSUME NEW m \in 0..(n + 1) PROVE h[m] = IF m = 0 THEN args ELSE Flag(kind, h[m - 1], flags[m])
        <3>1. CASE m = n + 1
            <4>1. m # 0 /\ m - 1 = n /\ h[n] = g[n]
                BY <2>3, <3>1
            <4> QED
                BY <2>3, <3>1, <4>1
        <3>2. CASE m \in 0..n
            <4>1. m # 0 => h[m - 1] = g[m - 1]
                BY <2>3, <3>2
            <4> QED
                BY <2>1, <2>3, <3>2, <4>1
        <3> QED
            BY <3>1, <3>2
    <2>5. Defined(n + 1, h)
        BY <2>2, <2>4, Zenon
    <2>6. n + 1 \in Nat
        OBVIOUS
    <2> HIDE DEF Defined
    <2> QED
        BY <2>2, <2>5, <2>6, Zenon
<1> HIDE DEF S
<1>3. Len(flags) \in S
    <2> DEFINE n == Len(flags)
    <2> n \in Nat
        OBVIOUS
    <2> HIDE DEF n
    <2>1. n \in S
        BY <1>1, <1>2, UpTo
    <2> QED
        BY <2>1 DEF n
<1>4. PICK g : g = [m \in DOMAIN g |-> g[m]] /\ Defined(Len(flags), g)
    BY <1>3 DEF S
<1>5. g = [m \in 0..Len(flags) |-> IF m = 0 THEN args ELSE Flag(kind, g[m - 1], flags[m])]
    BY <1>4
<1> QED
    BY <1>5 DEF Flagging

Once(kind, m) ==
    \A a, b \in DOMAIN m : a[1] = b[1] => a[1] \in Repeated(kind) \/ (a = b /\ m[a] = 1)

\* How often each argument occurs in the last list of a chain, one list per flag.
Counts(all) == [a \in {all[i] : i \in DOMAIN all} |-> Cardinality({i \in DOMAIN all : all[i] = a})]
Chain(kind, args, flags, h) ==
    /\ h[0] = args
    /\ \A m \in 0..(Len(flags) - 1) : h[m + 1] = Flag(kind, h[m], flags[m + 1])
    /\ Args(kind, args, flags) = Counts(h[Len(flags)])

LEMMA ArgsChain ==
    ASSUME NEW kind, NEW args, NEW flags, IsList(flags)
    PROVE  Len(flags) \in Nat /\ \E h : Chain(kind, args, flags, h)
<1> DEFINE h == CHOOSE g : Flagging(kind, args, flags, g)
           n == Len(flags)
           all == h[n]
<1> n \in Nat
    BY LenProperties DEF IsList
<1>1. Flagging(kind, args, flags, h)
    BY FlaggingExists
<1>2. Args(kind, args, flags) = Counts(all)
    BY DEF Args, Flagging, Counts
<1> HIDE DEF h, n
<1>3. h[0] = args /\ \A m \in 0..(n - 1) : h[m + 1] = Flag(kind, h[m], flags[m + 1])
    <2>1. h[0] = args
        BY <1>1 DEF Flagging, n
    <2>2. ASSUME NEW m \in 0..(n - 1) PROVE h[m + 1] = Flag(kind, h[m], flags[m + 1])
        <3>1. m + 1 \in 0..n /\ m + 1 # 0 /\ (m + 1) - 1 = m
            OBVIOUS
        <3> QED
            BY <1>1, <3>1 DEF Flagging, n
    <2> QED
        BY <2>1, <2>2
<1>4. Chain(kind, args, flags, h)
    BY <1>2, <1>3 DEF Chain, n
<1> QED
    BY <1>4 DEF n

\* Whatever the flags, arguments without repetitions stay so.
LEMMA ArgsOnce ==
    ASSUME NEW kind, NEW args, IsList(args), Unique(kind, args), NEW flags, IsList(flags)
    PROVE  Once(kind, Args(kind, args, flags))
<1> DEFINE n == Len(flags)
<1> n \in Nat
    BY ArgsChain
<1>1. PICK h : Chain(kind, args, flags, h)
    BY ArgsChain
<1>2. Args(kind, args, flags) = Counts(h[n])
    BY <1>1 DEF Chain
<1> DEFINE all == h[n]
           S == {m \in Nat : IsList(h[m]) /\ Unique(kind, h[m])}
<1> HIDE DEF n
<1>3. h[0] = args /\ \A m \in 0..(n - 1) : h[m + 1] = Flag(kind, h[m], flags[m + 1])
    BY <1>1 DEF Chain, n
<1>4. 0 \in S
    BY <1>3
<1>5. ASSUME NEW m \in 0..(n - 1), m \in S PROVE m + 1 \in S
    <2>1. IsList(h[m + 1]) /\ Unique(kind, h[m + 1])
        BY <1>3, <1>5, FlagUnique
    <2> QED
        BY <2>1
<1> HIDE DEF S
<1>6. n \in S
    BY <1>4, <1>5, UpTo
<1>7. IsList(all) /\ Unique(kind, all)
    BY <1>6 DEF S
<1> HIDE DEF all
<1>8. ASSUME NEW i \in DOMAIN all, NEW j \in DOMAIN all, all[i][1] = all[j][1], all[i][1] \notin Repeated(kind)
      PROVE  all[i] = all[j] /\ Cardinality({x \in DOMAIN all : all[x] = all[i]}) = 1
    <2>1. i = j
        BY <1>7, <1>8 DEF Unique
    <2>2. {x \in DOMAIN all : all[x] = all[i]} = {i}
        BY <1>7, <1>8 DEF Unique
    <2>3. Cardinality({i}) = 1
        BY FS_Singleton
    <2> QED
        BY <2>1, <2>2, <2>3
<1>9. Args(kind, args, flags) = Counts(all)
    BY <1>2 DEF all
<1>10. /\ DOMAIN Counts(all) = {all[i] : i \in DOMAIN all}
       /\ \A i \in DOMAIN all : Counts(all)[all[i]] = Cardinality({x \in DOMAIN all : all[x] = all[i]})
    BY DEF Counts
<1>11. Once(kind, Counts(all))
    <2> SUFFICES ASSUME NEW a \in DOMAIN Counts(all), NEW b \in DOMAIN Counts(all), a[1] = b[1],
                        a[1] \notin Repeated(kind)
                 PROVE  a = b /\ Counts(all)[a] = 1
        BY DEF Once
    <2>1. PICK i \in DOMAIN all, j \in DOMAIN all : a = all[i] /\ b = all[j]
        BY <1>10
    <2> QED
        BY <1>8, <1>10, <2>1
<1> QED
    BY <1>9, <1>11

\* The arguments of a name.
With(args, name) == {args[i] : i \in {j \in DOMAIN args : args[j][1] = name}}

\* A flag of another name leaves them alone.
LEMMA FlagKeeps ==
    ASSUME NEW kind, NEW args, IsList(args), NEW flag, NEW name, flag[1] # name
    PROVE  IsList(Flag(kind, args, flag)) /\ With(Flag(kind, args, flag), name) = With(args, name)
<1> DEFINE same == {i \in DOMAIN args : args[i][1] = flag[1]}
           new == Flag(kind, args, flag)
<1>1. PICK S : args \in Seq(S) /\ flag \in S
    <2>1. PICK T : args \in Seq(T)
        BY DEF IsList
    <2>2. T \subseteq T \cup {flag}
        OBVIOUS
    <2>3. args \in Seq(T \cup {flag})
        BY <2>1, <2>2, SeqMonotonic
    <2> QED
        BY <2>3
<1>2. Len(args) \in Nat /\ DOMAIN args = 1..Len(args)
    BY <1>1, LenProperties
<1>3. CASE new = args
    BY <1>3
<1>4. CASE new = Append(args, flag)
    <2>1. /\ new \in Seq(S) /\ DOMAIN new = 1..(Len(args) + 1) /\ new[Len(args) + 1] = flag
          /\ \A i \in 1..Len(args) : new[i] = args[i]
        BY <1>1, <1>2, <1>4, AppendProperties
    <2> HIDE DEF new
    <2>2. {j \in DOMAIN new : new[j][1] = name} = {j \in DOMAIN args : args[j][1] = name}
        BY <1>2, <2>1
    <2>3. \A j \in DOMAIN args : new[j] = args[j]
        BY <1>2, <2>1
    <2>4. With(new, name) = With(args, name)
        BY <2>2, <2>3 DEF With
    <2> QED
        BY <2>1, <2>4 DEF IsList, new
<1>5. CASE same # {} /\ \E n \in same : new = [args EXCEPT ![n] = flag]
    <2>1. PICK n \in DOMAIN args : args[n][1] = flag[1] /\ new = [args EXCEPT ![n] = flag]
        BY <1>5
    <2> HIDE DEF new
    <2>2. /\ DOMAIN new = DOMAIN args /\ new[n] = flag
          /\ \A j \in DOMAIN args : j # n => new[j] = args[j]
        BY <2>1
    <2>3. new \in Seq(S)
        BY <1>1, <2>1, ExceptSeq
    <2>4. {j \in DOMAIN new : new[j][1] = name} = {j \in DOMAIN args : args[j][1] = name}
        BY <2>1, <2>2
    <2>5. \A j \in {i \in DOMAIN args : args[i][1] = name} : new[j] = args[j]
        BY <2>1, <2>2
    <2>6. With(new, name) = With(args, name)
        BY <2>4, <2>5 DEF With
    <2> QED
        BY <2>3, <2>6 DEF IsList, new
<1>6. \/ new = args
      \/ new = Append(args, flag)
      \/ same # {} /\ new = [args EXCEPT ![CHOOSE i \in same : \A j \in same : i <= j] = flag]
    BY DEF Flag
<1>7. same # {} => (CHOOSE i \in same : \A j \in same : i <= j) \in same
    <2>1. same \in SUBSET Nat
        BY <1>2
    <2>2. same # {} => \E i \in same : \A j \in same : i <= j
        BY <2>1, Least
    <2> HIDE DEF same
    <2> QED
        BY <2>2
<1> HIDE DEF new, same
<1>8. IsList(new) /\ With(new, name) = With(args, name)
    BY <1>3, <1>4, <1>5, <1>6, <1>7 DEF new
<1> QED
    BY <1>8 DEF new

\* What Args has of a name that no flag has is what there was.
LEMMA ArgsKeep ==
    ASSUME NEW kind, NEW args, IsList(args), NEW flags, IsList(flags), NEW name,
           \A i \in DOMAIN flags : flags[i][1] # name
    PROVE  {a \in DOMAIN Args(kind, args, flags) : a[1] = name} = With(args, name)
<1> DEFINE n == Len(flags)
<1>0. n \in Nat /\ DOMAIN flags = 1..n
    BY LenProperties DEF IsList
<1>1. PICK h : Chain(kind, args, flags, h)
    BY ArgsChain
<1> DEFINE all == h[n]
           S == {m \in Nat : IsList(h[m]) /\ With(h[m], name) = With(args, name)}
<1>2. Args(kind, args, flags) = Counts(all)
    BY <1>1 DEF Chain
<1> HIDE DEF n
<1>3. h[0] = args /\ \A m \in 0..(n - 1) : h[m + 1] = Flag(kind, h[m], flags[m + 1])
    BY <1>1 DEF Chain, n
<1>4. 0 \in S
    BY <1>3
<1>5. ASSUME NEW m \in 0..(n - 1), m \in S PROVE m + 1 \in S
    <2>0. m + 1 \in DOMAIN flags /\ m + 1 \in Nat
        BY <1>0
    <2>1. flags[m + 1][1] # name
        BY <2>0
    <2>2. IsList(h[m + 1]) /\ With(h[m + 1], name) = With(h[m], name)
        BY <1>3, <1>5, <2>1, FlagKeeps
    <2> QED
        BY <1>5, <2>0, <2>2
<1> HIDE DEF S
<1>6. n \in S
    BY <1>0, <1>4, <1>5, UpTo
<1>7. With(all, name) = With(args, name)
    BY <1>6 DEF S
<1> HIDE DEF all
<1>8. DOMAIN Counts(all) = {all[i] : i \in DOMAIN all}
    BY DEF Counts
<1>9. {a \in DOMAIN Counts(all) : a[1] = name} = With(all, name)
    BY <1>8 DEF With
<1> QED
    BY <1>2, <1>7, <1>9

LEMMA WithConcat ==
    ASSUME NEW a, NEW b, IsList(a), IsList(b), NEW name
    PROVE  With(a \o b, name) = With(a, name) \cup With(b, name)
<1> DEFINE c == a \o b
           m == Len(a)
           n == Len(b)
<1>1. /\ m \in Nat /\ n \in Nat
      /\ DOMAIN a = 1..m /\ DOMAIN b = 1..n /\ DOMAIN c = 1..(m + n)
      /\ \A i \in 1..(m + n) : c[i] = IF i <= m THEN a[i] ELSE b[i - m]
    BY ConcatList
<1>2. \A i \in DOMAIN c : (\E j \in DOMAIN a : c[i] = a[j]) \/ (\E j \in DOMAIN b : c[i] = b[j])
    BY ConcatElement
<1> HIDE DEF c, m, n
<1>3. \A j \in DOMAIN a : j \in DOMAIN c /\ c[j] = a[j]
    BY <1>1
<1>4. \A j \in DOMAIN b : \E i \in DOMAIN c : c[i] = b[j]
    <2> TAKE j \in DOMAIN b
    <2>1. m + j \in DOMAIN c /\ ~(m + j <= m) /\ (m + j) - m = j
        BY <1>1
    <2>2. c[m + j] = b[j]
        BY <1>1, <2>1
    <2> QED
        BY <2>1, <2>2
<1>5. With(c, name) = With(a, name) \cup With(b, name)
    BY <1>2, <1>3, <1>4 DEF With
<1> QED
    BY <1>5 DEF c

LEMMA WithNone ==
    ASSUME NEW args, NEW name, \A i \in DOMAIN args : args[i][1] # name
    PROVE  With(args, name) = {}
BY DEF With

LEMMA WithOne ==
    ASSUME NEW a
    PROVE  IsList(<<a>>) /\ With(<<a>>, a[1]) = {a}
<1> DEFINE s == <<a>>
<1>1. s \in Seq({a}) /\ DOMAIN s = {1} /\ s[1] = a
    OBVIOUS
<1> HIDE DEF s
<1>2. IsList(s) /\ With(s, a[1]) = {a}
    BY <1>1 DEF IsList, With
<1> QED
    BY <1>2 DEF s

-----------------------------------------------------------------------------
(* The arguments of each workload.                                         *)

\* A list without repetitions, of arguments with names in N.
Clean(kind, args, N) ==
    IsList(args) /\ Unique(kind, args) /\ \A i \in DOMAIN args : args[i][1] \in N

LEMMA CleanConcat ==
    ASSUME NEW kind, NEW a, NEW b, NEW M, NEW N, Clean(kind, a, M), Clean(kind, b, N), M \cap N = {}
    PROVE  Clean(kind, a \o b, M \cup N)
<1>1. IsList(a \o b) /\ Unique(kind, a \o b)
    BY ConcatUnique DEF Clean
<1>2. /\ Len(a) \in Nat /\ Len(b) \in Nat
      /\ DOMAIN a = 1..Len(a) /\ DOMAIN b = 1..Len(b)
      /\ DOMAIN (a \o b) = 1..(Len(a) + Len(b))
      /\ \A i \in 1..(Len(a) + Len(b)) : (a \o b)[i] = IF i <= Len(a) THEN a[i] ELSE b[i - Len(a)]
    BY ConcatList DEF Clean
<1> DEFINE c == a \o b
           m == Len(a)
           n == Len(b)
<1>3. ASSUME NEW i \in 1..(m + n) PROVE c[i][1] \in M \cup N
    <2> HIDE DEF c, m, n
    <2>1. CASE i <= m
        <3>1. i \in DOMAIN a /\ c[i] = a[i]
            BY <1>2, <2>1 DEF c, m, n
        <3> QED
            BY <3>1 DEF Clean
    <2>2. CASE ~(i <= m)
        <3>1. i - m \in DOMAIN b /\ c[i] = b[i - m]
            BY <1>2, <2>2 DEF c, m, n
        <3> QED
            BY <3>1 DEF Clean
    <2> QED
        BY <2>1, <2>2
<1> QED
    BY <1>1, <1>2, <1>3 DEF Clean

LEMMA CleanNone == ASSUME NEW kind, NEW N PROVE Clean(kind, <<>>, N)
<1>1. <<>> \in Seq({}) /\ DOMAIN <<>> = {}
    OBVIOUS
<1> QED
    BY <1>1 DEF Clean, IsList, Unique

LEMMA CleanOne == ASSUME NEW kind, NEW a, NEW N, a[1] \in N PROVE Clean(kind, <<a>>, N)
<1>1. <<a>> \in Seq({a}) /\ DOMAIN <<a>> = {1} /\ <<a>>[1] = a
    OBVIOUS
<1> QED
    BY <1>1 DEF Clean, IsList, Unique

LEMMA CleanTwo ==
    ASSUME NEW kind, NEW a, NEW b, NEW N, a[1] # b[1], {a[1], b[1]} \subseteq N
    PROVE  Clean(kind, <<a, b>>, N)
<1> DEFINE s == <<a, b>>
<1>1. s \in Seq({a, b}) /\ DOMAIN s = {1, 2} /\ s[1] = a /\ s[2] = b
    OBVIOUS
<1> HIDE DEF s
<1>2. Clean(kind, s, N)
    BY <1>1 DEF Clean, IsList, Unique
<1> QED
    BY <1>2 DEF s

LEMMA CleanThree ==
    ASSUME NEW kind, NEW a, NEW b, NEW c, NEW N,
           a[1] # b[1], a[1] # c[1], b[1] # c[1], {a[1], b[1], c[1]} \subseteq N
    PROVE  Clean(kind, <<a, b, c>>, N)
<1> DEFINE s == <<a, b, c>>
<1>1. s \in Seq({a, b, c}) /\ DOMAIN s = {1, 2, 3} /\ s[1] = a /\ s[2] = b /\ s[3] = c
    OBVIOUS
<1> HIDE DEF s
<1>2. Clean(kind, s, N)
    BY <1>1 DEF Clean, IsList, Unique
<1> QED
    BY <1>2 DEF s

LEMMA CleanOnce ==
    ASSUME NEW kind, NEW args, NEW N, Clean(kind, args, N), NEW flags, IsList(flags)
    PROVE  Once(kind, Args(kind, args, flags))
BY ArgsOnce DEF Clean

\* An object whose arguments are not repeated, or none.
OnceOr(kind, c) == c \in {Absent, Error} \/ Once(kind, c.args)

LEMMA WebOnce ==
    ASSUME NEW kind, NEW cr, NEW w, NEW args, NEW rest, NEW N, Clean(kind, args, N), "--http.config" \notin N,
           IsList(cr.flags)
    PROVE  OnceOr(kind, WebWorkload(kind, cr, w, args, rest))
<1> DEFINE web == IF cr.web = Nil THEN <<>> ELSE <<<<"--http.config", "file">>>>
           config == webConfigSecret(cr, w)
           all == Args(kind, web \o args, cr.flags)
<1>1. Clean(kind, web, {"--http.config"})
    BY CleanNone, CleanOne
<1> HIDE DEF web
<1>2. Clean(kind, web \o args, {"--http.config"} \cup N)
    BY <1>1, CleanConcat
<1>3. Once(kind, all)
    BY <1>2, CleanOnce
<1> HIDE DEF all, config
<1>4. WebWorkload(kind, cr, w, args, rest) =
         IF config = Error THEN Error
         ELSE [replicas |-> cr.replicas, config |-> config, probe |-> Scheme(cr.web), args |-> all, rest |-> rest]
    BY DEF WebWorkload, web, config, all
<1>5. config # Error => WebWorkload(kind, cr, w, args, rest).args = all
    BY <1>4
<1> QED
    BY <1>3, <1>4, <1>5 DEF OnceOr

\* Arguments for each of a list may be repeated where the function repeats them.
LEMMA ItemsClean ==
    ASSUME NEW kind, NEW name, name \in Repeated(kind), NEW values, IsList(values)
    PROVE  Clean(kind, Items(name, values), {name})
<1> DEFINE s == Items(name, values)
           n == Len(values)
           S == {values[i] : i \in DOMAIN values}
<1>1. n \in Nat /\ DOMAIN values = 1..n
    BY LenProperties DEF IsList
<1> HIDE DEF n
<1>2. /\ s \in [1..n -> {name} \X S] /\ DOMAIN s = 1..n
      /\ \A i \in DOMAIN s : s[i][1] = name
    BY <1>1 DEF Items
<1> HIDE DEF s, S
<1>3. s \in Seq({name} \X S)
    BY <1>1, <1>2, SeqDef
<1>4. Clean(kind, s, {name})
    BY <1>2, <1>3 DEF Clean, IsList, Unique
<1> QED
    BY <1>4 DEF s

LEMMA IngesterOnce ==
    ASSUME NEW cr, NEW svc, NEW w, IsList(cr.flags), IsList(cr.attrs)
    PROVE  OnceOr("Ingester", IngesterStatefulSet(cr, svc, w))
<1> DEFINE config == IF cr.storage = Nil THEN Nil ELSE GetStorageConfig(cr.storage, w)
           tsdb == IF config = Nil THEN <<"--tsdb.max-block-duration", "retention/10">>
                                   ELSE <<"--objstore.config", config>>
           args == <<<<"--log.level", "info">>, <<"--label", "pod">>, tsdb>>
           items == Items("--receive.otlp-promote-resource-attributes", cr.attrs)
           N == {"--log.level", "--label", "--tsdb.max-block-duration", "--objstore.config"}
           M == {"--receive.otlp-promote-resource-attributes"}
           all == Args("Ingester", args \o items, cr.flags)
           c == IngesterStatefulSet(cr, svc, w)
<1>1. tsdb[1] \in {"--tsdb.max-block-duration", "--objstore.config"}
    OBVIOUS
<1>2. c = IF config = Error THEN Error
          ELSE [replicas |-> cr.replicas, volume |-> cr.volume, keep |-> generateInitContainer(cr, svc), args |-> all]
    BY DEF IngesterStatefulSet
<1> HIDE DEF tsdb, config, c
<1>3. Clean("Ingester", args, N)
    BY <1>1, CleanThree
<1>4. Clean("Ingester", items, M)
    <2>1. "--receive.otlp-promote-resource-attributes" \in Repeated("Ingester")
        BY DEF Repeated, Itemized
    <2> QED
        BY <2>1, ItemsClean
<1> HIDE DEF args, items
<1>5. Clean("Ingester", args \o items, N \cup M)
    BY <1>3, <1>4, CleanConcat
<1>6. Once("Ingester", all)
    BY <1>5, CleanOnce
<1> HIDE DEF all
<1>7. config # Error => c.args = all
    BY <1>2
<1> QED
    BY <1>2, <1>6, <1>7 DEF OnceOr, c

LEMMA RulerOnce ==
    ASSUME NEW cr, NEW p, NEW w, IsList(cr.flags), IsList(cr.labels)
    PROVE  OnceOr("Ruler", RulerStatefulSet(cr, p, w))
<1> DEFINE gateway == BaseURL(CHOOSE g \in Listing(w, "Gateway", cr.of) : TRUE, w)
           args == <<<<"--log.level", "info">>, <<"--query.config", gateway>>>>
           labels == <<"pod">> \o cr.labels
           items == Items("--label", labels)
           all == Args("Ruler", args \o items, cr.flags)
           c == RulerStatefulSet(cr, p, w)
<1>1. c \in {Absent, Error, [replicas |-> cr.replicas, args |-> all]}
    BY DEF RulerStatefulSet
<1> HIDE DEF c, gateway
<1>2. Clean("Ruler", args, {"--log.level", "--query.config"})
    BY CleanTwo
<1>3. Clean("Ruler", items, {"--label"})
    <2>1. "--label" \in Repeated("Ruler")
        BY DEF Repeated, Itemized
    <2>2. IsList(<<"pod">>)
        <3>1. <<"pod">> \in Seq({"pod"})
            OBVIOUS
        <3> QED
            BY <3>1 DEF IsList
    <2>3. IsList(labels)
        BY <2>2, ConcatList
    <2> HIDE DEF labels
    <2> QED
        BY <2>1, <2>3, ItemsClean
<1> HIDE DEF args, items
<1>4. Clean("Ruler", args \o items, {"--log.level", "--query.config"} \cup {"--label"})
    BY <1>2, <1>3, CleanConcat
<1>5. Once("Ruler", all)
    BY <1>4, CleanOnce
<1> HIDE DEF all
<1>6. c \notin {Absent, Error} => c.args = all
    BY <1>1
<1> QED
    BY <1>1, <1>5, <1>6 DEF OnceOr, c

LEMMA RouterOnce ==
    ASSUME NEW cr, NEW w, IsList(cr.flags)
    PROVE  OnceOr("Router", RouterDeployment(cr, w))
<1> DEFINE args == <<<<"--log.level", "info">>, <<"--label", "pod">>, <<"--receive.hashrings-file", "file">>>>
<1>1. Clean("Router", args, {"--log.level", "--label", "--receive.hashrings-file"})
    BY CleanThree
<1> HIDE DEF args
<1>2. OnceOr("Router", WebWorkload("Router", cr, w, args, Nil))
    BY <1>1, WebOnce
<1> QED
    BY <1>2 DEF RouterDeployment, args

LEMMA ClientConfigClean ==
    ASSUME NEW kind, NEW name, NEW url
    PROVE  Clean(kind, ClientConfig(name, url), {name})
BY CleanNone, CleanOne DEF ClientConfig

LEMMA QueryFrontendOnce ==
    ASSUME NEW cr, NEW w, IsList(cr.flags)
    PROVE  OnceOr("QueryFrontend", QueryFrontendDeployment(cr, w))
<1> DEFINE addr == queryAddress(cr.of, w)
           one == ClientConfig("--query-frontend.downstream-tripper-config", addr)
           two == <<<<"--query-frontend.downstream-url", addr>>, <<"--log.level", "info">>>>
           rest == GetTenantHash(Listing(w, "Tenant", cr.of), w)
           M == {"--query-frontend.downstream-tripper-config"}
           N == {"--query-frontend.downstream-url", "--log.level"}
<1>1. Clean("QueryFrontend", one, M)
    BY ClientConfigClean
<1>2. Clean("QueryFrontend", two, N)
    BY CleanTwo
<1>3. QueryFrontendDeployment(cr, w) \in {Error, WebWorkload("QueryFrontend", cr, w, one \o two, rest)}
    BY DEF QueryFrontendDeployment
<1> HIDE DEF one, two, rest
<1>4. Clean("QueryFrontend", one \o two, M \cup N)
    BY <1>1, <1>2, CleanConcat
<1>5. OnceOr("QueryFrontend", WebWorkload("QueryFrontend", cr, w, one \o two, rest))
    BY <1>4, WebOnce
<1> QED
    BY <1>3, <1>5 DEF OnceOr

LEMMA StoreOnce ==
    ASSUME NEW cr, NEW p, NEW w, NEW c, IsList(cr.flags)
    PROVE  OnceOr("Store", StoreStatefulSet(cr, p, w, c))
<1> DEFINE args == <<<<"--objstore.config", GetStorageConfig(cr.storage, w)>>, <<"--min-time", p>>,
                     <<"--selector.relabel-config", StoreRelabelConfig(cr, w)>>>>
           d == StoreStatefulSet(cr, p, w, c)
<1>1. Clean("Store", args, {"--objstore.config", "--min-time", "--selector.relabel-config"})
    BY CleanThree
<1>2. StoreArgs(cr, p, w) = Args("Store", args, cr.flags)
    BY DEF StoreArgs
<1> HIDE DEF args
<1>3. Once("Store", StoreArgs(cr, p, w))
    BY <1>1, <1>2, CleanOnce
<1>4. d \in {Absent, Error} \/ d.args = StoreArgs(cr, p, w)
    BY DEF StoreStatefulSet
<1> QED
    BY <1>3, <1>4 DEF OnceOr

LEMMA CompactorOnce ==
    ASSUME NEW cr, NEW w, IsList(cr.flags)
    PROVE  OnceOr("Compactor", CompactorStatefulSet(cr, w))
<1> DEFINE a == <<"--objstore.config", GetStorageConfig(cr.storage, w)>>
           b == <<"--selector.relabel-config", CompactorRelabelConfig(cr, w)>>
           c == <<"--deduplication.replica-label", "receive">>
           e == <<"--deduplication.replica-label", "ruler">>
           args == <<a, b, c, e>>
           N == {"--objstore.config", "--selector.relabel-config", "--deduplication.replica-label"}
           d == CompactorStatefulSet(cr, w)
<1>1. CompactorArgs(cr, w) = Args("Compactor", args, cr.flags)
    BY DEF CompactorArgs
<1>2. /\ a[1] = "--objstore.config" /\ b[1] = "--selector.relabel-config"
      /\ c[1] = "--deduplication.replica-label" /\ e[1] = "--deduplication.replica-label"
    OBVIOUS
<1> HIDE DEF a, b, c, e
<1>3. /\ args \in Seq({a, b, c, e}) /\ DOMAIN args = {1, 2, 3, 4}
      /\ args[1] = a /\ args[2] = b /\ args[3] = c /\ args[4] = e
    OBVIOUS
<1> HIDE DEF args
<1>4. "--deduplication.replica-label" \in Repeated("Compactor")
    BY DEF Repeated, Repeatable
<1>5. Clean("Compactor", args, N)
    BY <1>2, <1>3, <1>4 DEF Clean, IsList, Unique
<1>6. Once("Compactor", CompactorArgs(cr, w))
    BY <1>1, <1>5, CleanOnce
<1>7. d = Error \/ d.args = CompactorArgs(cr, w)
    BY DEF CompactorStatefulSet
<1> QED
    BY <1>6, <1>7 DEF OnceOr

\* A finite set has finite images and finite unions of them.
LEMMA ImageFinite ==
    ASSUME NEW S, IsFiniteSet(S), NEW F
    PROVE  IsFiniteSet({F[x] : x \in S})
<1> DEFINE T == {F[x] : x \in S}
           f == [x \in S |-> F[x]]
<1>1. f \in Surjection(S, T)
    BY DEF Surjection
<1> HIDE DEF f, T
<1>2. IsFiniteSet(T)
    BY <1>1, FS_Surjection
<1> QED
    BY <1>2 DEF T

\* Shards and time ranges of the Stores and Rulers in w are numbers.
Counted(w) ==
    \A o \in Objects : w[o] # Absent /\ KindOf[o] \in {"Store", "Ruler"} => w[o].parts \in Nat \cup {Nil}

LEMMA EndpointsFinite ==
    ASSUME NEW w, Counted(w), NEW svc
    PROVE  IsFiniteSet(Endpoints(svc, w))
<1> DEFINE I == Listing(w, "Ingester", svc)
           L == Listing(w, "Store", svc) \cup Listing(w, "Ruler", svc)
           F == [i \in I |-> <<i, 0>>]
           G == [o \in L |-> {<<o, p>> : p \in Partitions(o, w)}]
<1>1. IsFiniteSet(I) /\ IsFiniteSet(L)
    <2>1. I \subseteq Objects /\ L \subseteq Objects
        BY DEF Listing
    <2> QED
        BY <2>1, ObjectsAssumption, FS_Subset
<1>2. IsFiniteSet({F[i] : i \in I}) /\ IsFiniteSet({G[o] : o \in L})
    BY <1>1, ImageFinite
<1>3. ASSUME NEW o \in L PROVE IsFiniteSet(G[o])
    <2> DEFINE P == Partitions(o, w)
               H == [p \in P |-> <<o, p>>]
               n == IF w[o].parts \in {Nil, 0} THEN 1 ELSE w[o].parts
    <2>1. n \in Nat
        BY DEF Counted, Listing
    <2>2. P = 0..(n - 1)
        BY DEF Partitions
    <2> HIDE DEF n
    <2>3. IsFiniteSet(P)
        BY <2>1, <2>2, FS_Interval
    <2> HIDE DEF P
    <2>4. IsFiniteSet({H[p] : p \in P})
        BY <2>3, ImageFinite
    <2>5. {H[p] : p \in P} = {<<o, p>> : p \in P}
        OBVIOUS
    <2>6. G[o] = {<<o, p>> : p \in P}
        BY DEF P
    <2> QED
        BY <2>4, <2>5, <2>6
<1>4. IsFiniteSet(UNION {G[o] : o \in L})
    <2>1. \A T \in {G[o] : o \in L} : IsFiniteSet(T)
        BY <1>3
    <2> HIDE DEF G
    <2> QED
        BY <1>2, <2>1, FS_UNION
<1>5. IsFiniteSet({F[i] : i \in I} \cup UNION {G[o] : o \in L})
    <2> HIDE DEF F, G, I, L
    <2> QED
        BY <1>2, <1>4, FS_Union
<1>6. Endpoints(svc, w) = {F[i] : i \in I} \cup UNION {G[o] : o \in L}
    <2>1. {F[i] : i \in I} = {<<i, 0>> : i \in I}
        OBVIOUS
    <2>2. {G[o] : o \in L} = {{<<o, p>> : p \in Partitions(o, w)} : o \in L}
        OBVIOUS
    <2>3. Endpoints(svc, w) = {<<i, 0>> : i \in I} \cup UNION {{<<o, p>> : p \in Partitions(o, w)} : o \in L}
        BY DEF Endpoints
    <2> QED
        BY <2>1, <2>2, <2>3
<1> QED
    BY <1>5, <1>6

LEMMA SetToSeqList ==
    ASSUME NEW S, IsFiniteSet(S)
    PROVE  SetToSeq(S) \in Seq(S)
<1> DEFINE n == Cardinality(S)
<1>1. n \in Nat /\ ExistsBijection(1..n, S)
    BY FS_CardinalityType
<1>2. \E f \in [1..n -> S] : IsInjective(f)
    BY <1>1 DEF ExistsBijection, Bijection, Injection
<1>3. SetToSeq(S) \in [1..n -> S]
    BY <1>2 DEF SetToSeq
<1> HIDE DEF n
<1> QED
    BY <1>1, <1>3, SeqDef

LEMMA QueryOnce ==
    ASSUME NEW cr, NEW w, IsList(cr.flags), Counted(w)
    PROVE  OnceOr("Query", QueryDeployment(cr, w))
<1> DEFINE A == Endpoints(cr.of, w)
           F == [e \in A |-> <<"--endpoint", e>>]
           E == {<<"--endpoint", e>> : e \in A}
           two == SetToSeq(E)
           one == <<<<"--log.level", "info">>, <<"--store.sd-files", "file">>>>
           M == {"--log.level", "--store.sd-files"}
<1>1. IsFiniteSet(E)
    <2>1. IsFiniteSet(A)
        BY EndpointsFinite
    <2>2. IsFiniteSet({F[e] : e \in A})
        BY <2>1, ImageFinite
    <2>3. {F[e] : e \in A} = E
        OBVIOUS
    <2> QED
        BY <2>2, <2>3
<1>2. \A e \in E : e[1] = "--endpoint"
    OBVIOUS
<1>3. QueryDeployment(cr, w) \in {Error, WebWorkload("Query", cr, w, one \o two, CAVolumes(cr))}
    BY DEF QueryDeployment
<1>4. Clean("Query", one, M)
    BY CleanTwo
<1> HIDE DEF E, one
<1>5. two \in Seq(E)
    BY <1>1, SetToSeqList
<1> HIDE DEF two
<1>6. Clean("Query", two, {"--endpoint"})
    <2>1. \A i \in DOMAIN two : two[i] \in E
        BY <1>5, LenProperties
    <2>2. "--endpoint" \in Repeated("Query")
        BY DEF Repeated, Repeatable
    <2> QED
        BY <1>2, <1>5, <2>1, <2>2 DEF Clean, IsList, Unique
<1>7. Clean("Query", one \o two, M \cup {"--endpoint"})
    BY <1>4, <1>6, CleanConcat
<1>8. OnceOr("Query", WebWorkload("Query", cr, w, one \o two, CAVolumes(cr)))
    BY <1>7, WebOnce
<1> QED
    BY <1>3, <1>8 DEF OnceOr

LEMMA QueryArgsClean ==
    ASSUME NEW cr, NEW svc, NEW w, QueryArgs(cr, svc, w) # Error
    PROVE  Clean("Gateway", QueryArgs(cr, svc, w),
                 {"--query.address", "--query.config", "--rules-query.address", "--rules-query.config"})
<1> DEFINE frontend == queryfrontendAddress(cr.of, w)
           query == queryAddress(cr.of, w)
           addr == IF frontend = Nil THEN query ELSE frontend
           remote == ExternalTarget(svc.remote, w)
           a == <<<<"--query.address", [scheme |-> remote.scheme, to |-> "external"]>>>>
           b == IF remote.scheme = "https" \/ remote.auth # {} THEN <<<<"--query.config", remote>>>> ELSE <<>>
           c == <<<<"--rules-query.address", query>>>>
           d == ClientConfig("--rules-query.config", addr)
           e == <<<<"--query.address", addr>>>>
           f == ClientConfig("--query.config", addr)
<1>1. QueryArgs(cr, svc, w) = a \o b \o c \o d \/ QueryArgs(cr, svc, w) = e \o f
    BY DEF QueryArgs, RemoteArgs
<1>2. /\ Clean("Gateway", a, {"--query.address"}) /\ Clean("Gateway", b, {"--query.config"})
      /\ Clean("Gateway", c, {"--rules-query.address"}) /\ Clean("Gateway", d, {"--rules-query.config"})
      /\ Clean("Gateway", e, {"--query.address"}) /\ Clean("Gateway", f, {"--query.config"})
    BY CleanNone, CleanOne, ClientConfigClean
<1> HIDE DEF a, b, c, d, e, f
<1>3. Clean("Gateway", a \o b, {"--query.address", "--query.config"})
    <2>1. Clean("Gateway", a \o b, {"--query.address"} \cup {"--query.config"})
        BY <1>2, CleanConcat
    <2> QED
        BY <2>1 DEF Clean
<1>4. Clean("Gateway", a \o b \o c, {"--query.address", "--query.config", "--rules-query.address"})
    <2>1. Clean("Gateway", a \o b \o c, {"--query.address", "--query.config"} \cup {"--rules-query.address"})
        BY <1>2, <1>3, CleanConcat
    <2> QED
        BY <2>1 DEF Clean
<1>5. Clean("Gateway", a \o b \o c \o d,
            {"--query.address", "--query.config", "--rules-query.address", "--rules-query.config"})
    <2>1. Clean("Gateway", a \o b \o c \o d,
                {"--query.address", "--query.config", "--rules-query.address"} \cup {"--rules-query.config"})
        BY <1>2, <1>4, CleanConcat
    <2> QED
        BY <2>1 DEF Clean
<1>6. Clean("Gateway", e \o f, {"--query.address", "--query.config"})
    <2>1. Clean("Gateway", e \o f, {"--query.address"} \cup {"--query.config"})
        BY <1>2, CleanConcat
    <2> QED
        BY <2>1 DEF Clean
<1> QED
    BY <1>1, <1>5, <1>6 DEF Clean

LEMMA GatewayOnce ==
    ASSUME NEW cr, NEW svc, NEW w, "flags" \in DOMAIN cr
    PROVE  OnceOr("Gateway", GatewayDeployment(cr, svc, w))
<1> DEFINE query == QueryArgs(cr, svc, w)
           write == WriteArgs(cr, svc, w)
           admission == IF cr.admission THEN <<<<"--tenant.admission-control-config-file", "file">>>> ELSE <<>>
           level == <<<<"--log.level", "info">>>>
           plain == [cr EXCEPT !.flags = <<>>]
           args == level \o admission \o query \o write
           A == {"--log.level"}
           B == {"--tenant.admission-control-config-file"}
           C == {"--query.address", "--query.config", "--rules-query.address", "--rules-query.config"}
           D == {"--remote-write.address", "--external-remote-writes.config"}
<1>1. \/ GatewayDeployment(cr, svc, w) = Error
      \/ /\ query # Error /\ write # Error
         /\ GatewayDeployment(cr, svc, w) = WebWorkload("Gateway", plain, w, args, Nil)
    BY DEF GatewayDeployment
<1>2. SUFFICES ASSUME query # Error, write # Error
               PROVE  OnceOr("Gateway", WebWorkload("Gateway", plain, w, args, Nil))
    BY <1>1 DEF OnceOr
<1>3. Clean("Gateway", level, A) /\ Clean("Gateway", admission, B)
    BY CleanNone, CleanOne
<1>4. Clean("Gateway", query, C)
    BY <1>2, QueryArgsClean
<1>5. Clean("Gateway", write, D)
    <2> DEFINE router == remoteWriteAddress(cr.of, w)
               targets == {ExternalTarget(t, w) : t \in svc.writes}
    <2>1. write = <<<<"--remote-write.address", router>>, <<"--external-remote-writes.config", targets>>>>
        BY <1>2 DEF WriteArgs
    <2> HIDE DEF router, targets, write
    <2> QED
        BY <2>1, CleanTwo
<1>6. IsList(plain.flags)
    <2>1. plain.flags = <<>> /\ <<>> \in Seq({})
        OBVIOUS
    <2> QED
        BY <2>1 DEF IsList
<1> HIDE DEF query, write, admission, level, plain, A, B, C, D
<1>7. Clean("Gateway", level \o admission, A \cup B)
    BY <1>3, CleanConcat DEF A, B
<1>8. Clean("Gateway", level \o admission \o query, A \cup B \cup C)
    <2>1. (A \cup B) \cap C = {}
        BY DEF A, B, C
    <2> QED
        BY <1>4, <1>7, <2>1, CleanConcat
<1>9. Clean("Gateway", args, A \cup B \cup C \cup D)
    <2>1. (A \cup B \cup C) \cap D = {}
        BY DEF A, B, C, D
    <2> QED
        BY <1>5, <1>8, <2>1, CleanConcat
<1>10. "--http.config" \notin A \cup B \cup C \cup D
    BY DEF A, B, C, D
<1> HIDE DEF args
<1> QED
    BY <1>6, <1>9, <1>10, WebOnce

-----------------------------------------------------------------------------
(* Resource functions.                                                     *)

\* A list without parts has the names it is given.
LEMMA OneNames ==
    ASSUME NEW S, NEW names \in Seq(S), NEW i \in DOMAIN One(names)
    PROVE  One(names)[i][1] \in S
<1>1. Len(names) \in Nat /\ DOMAIN names = 1..Len(names) /\ \A j \in DOMAIN names : names[j] \in S
    BY LenProperties
<1>2. i \in DOMAIN names /\ One(names)[i] = <<names[i], 0>>
    BY DEF One
<1> QED
    BY <1>1, <1>2

LEMMA EachNames ==
    ASSUME NEW name, NEW n \in Nat
    PROVE  /\ IsList(Each(name, n)) /\ Len(Each(name, n)) = n /\ DOMAIN Each(name, n) = 1..n
           /\ \A i \in 1..n : Each(name, n)[i] = <<name, i - 1>>
<1> DEFINE e == Each(name, n)
<1>1. e = [p \in 1..n |-> <<name, p - 1>>]
    BY DEF Each
<1> HIDE DEF e
<1>2. e \in [1..n -> {name} \X Int] /\ DOMAIN e = 1..n /\ \A i \in 1..n : e[i] = <<name, i - 1>>
    BY <1>1
<1>3. e \in Seq({name} \X Int)
    BY <1>2, SeqDef
<1>4. Len(e) = n
    BY <1>2
<1> QED
    BY <1>2, <1>3, <1>4 DEF IsList, e

LEMMA OneList ==
    ASSUME NEW S, NEW names \in Seq(S)
    PROVE  IsList(One(names))
<1>1. Len(names) \in Nat /\ DOMAIN names = 1..Len(names) /\ \A j \in DOMAIN names : names[j] \in S
    BY LenProperties
<1>2. One(names) \in [1..Len(names) -> S \X {0}]
    BY <1>1 DEF One
<1>3. One(names) \in Seq(S \X {0})
    BY <1>1, <1>2, SeqDef
<1> QED
    BY <1>3 DEF IsList

LEMMA FunctionsList ==
    ASSUME NEW kind \in Kinds \ {"Service", "Secret"}
    PROVE  IsList(ResourceFunctions(kind))
<1> DEFINE t == ResourceFunctions(kind)
<1>1. CASE kind = "Router"
    <2> DEFINE n == <<"hashringsConfigMap", "webConfigSecret", "deployment", "service">>
    <2>1. t = One(n)
        BY <1>1 DEF ResourceFunctions
    <2>2. n \in Seq({"hashringsConfigMap", "webConfigSecret", "deployment", "service"})
        OBVIOUS
    <2> HIDE DEF n
    <2> QED
        BY <2>1, <2>2, OneList
<1>2. CASE kind = "Ingester"
    <2> DEFINE n == <<"status", "recycle", "statefulSet", "service">>
    <2>1. t = One(n)
        BY <1>2 DEF ResourceFunctions
    <2>2. n \in Seq({"status", "recycle", "statefulSet", "service"})
        OBVIOUS
    <2> HIDE DEF n
    <2> QED
        BY <2>1, <2>2, OneList
<1>3. CASE kind = "Query"
    <2> DEFINE n == <<"proxyConfigMap", "storesConfigMap", "webConfigSecret", "deployment", "service">>
    <2>1. t = One(n)
        BY <1>3 DEF ResourceFunctions
    <2>2. n \in Seq({"proxyConfigMap", "storesConfigMap", "webConfigSecret", "deployment", "service"})
        OBVIOUS
    <2> HIDE DEF n
    <2> QED
        BY <2>1, <2>2, OneList
<1>4. CASE kind = "QueryFrontend"
    <2> DEFINE n == <<"cacheConfigConfigMap", "webConfigSecret", "deployment", "service">>
    <2>1. t = One(n)
        BY <1>4 DEF ResourceFunctions
    <2>2. n \in Seq({"cacheConfigConfigMap", "webConfigSecret", "deployment", "service"})
        OBVIOUS
    <2> HIDE DEF n
    <2> QED
        BY <2>1, <2>2, OneList
<1>5. CASE kind = "Gateway"
    <2> DEFINE n == <<"builtInUser", "deployment", "service", "admission", "webConfigSecret">>
    <2>1. t = One(n)
        BY <1>5 DEF ResourceFunctions
    <2>2. n \in Seq({"builtInUser", "deployment", "service", "admission", "webConfigSecret"})
        OBVIOUS
    <2> HIDE DEF n
    <2> QED
        BY <2>1, <2>2, OneList
<1>6. CASE kind = "Compactor"
    <2> DEFINE n == <<"statefulSet">>
    <2>1. t = One(n)
        BY <1>6 DEF ResourceFunctions
    <2>2. n \in Seq({"statefulSet"})
        OBVIOUS
    <2> HIDE DEF n
    <2> QED
        BY <2>1, <2>2, OneList
<1>7. CASE kind = "Storage"
    <2> DEFINE n == <<"hash", "deployment", "service">>
    <2>1. t = One(n)
        BY <1>7 DEF ResourceFunctions
    <2>2. n \in Seq({"hash", "deployment", "service"})
        OBVIOUS
    <2> HIDE DEF n
    <2> QED
        BY <2>1, <2>2, OneList
<1>8. CASE kind \in {"Store", "Ruler"}
    <2> DEFINE a == Each("statefulSet", MaxParts)
               b == Each("service", MaxParts)
    <2>1. t = a \o b
        BY <1>8 DEF ResourceFunctions
    <2>2. IsList(a) /\ IsList(b)
        BY EachNames, ObjectsAssumption
    <2> HIDE DEF a, b
    <2> QED
        BY <2>1, <2>2, ConcatList
<1>9. CASE kind = "Tenant"
    <2> DEFINE a == <<<<"finalizer", 0>>>>
               b == Each("update", Len(Places))
               c == Each("create", Len(Places))
    <2>1. t = a \o b \o c
        BY <1>9 DEF ResourceFunctions
    <2>2. a \in Seq({<<"finalizer", 0>>})
        OBVIOUS
    <2>3. IsList(b) /\ IsList(c)
        BY EachNames, ObjectsAssumption, LenProperties
    <2> HIDE DEF a, b, c
    <2>4. IsList(a)
        BY <2>2 DEF IsList
    <2>5. IsList(a \o b)
        BY <2>3, <2>4, ConcatList
    <2> QED
        BY <2>1, <2>3, <2>5, ConcatList
<1> QED
    BY <1>1, <1>2, <1>3, <1>4, <1>5, <1>6, <1>7, <1>8, <1>9 DEF Kinds

\* Functions and the kinds of keys that have them.
KindsWith(f) ==
    CASE f = "deployment" -> {"Router", "Query", "QueryFrontend", "Gateway", "Storage"}
      [] f = "statefulSet" -> {"Ingester", "Store", "Ruler", "Compactor"}
      [] f = "hash" -> {"Storage"}
      [] f \in {"status", "recycle"} -> {"Ingester"}
      [] f \in {"finalizer", "update", "create"} -> {"Tenant"}
      [] f = "hashringsConfigMap" -> {"Router"}
      [] f \in {"proxyConfigMap", "storesConfigMap"} -> {"Query"}
      [] f = "cacheConfigConfigMap" -> {"QueryFrontend"}
      [] f \in {"builtInUser", "admission"} -> {"Gateway"}
      [] f = "webConfigSecret" -> {"Router", "Query", "QueryFrontend", "Gateway"}
      [] f = "service" -> {"Router", "Ingester", "Query", "QueryFrontend", "Gateway", "Store", "Ruler", "Storage"}
      [] OTHER -> {}

LEMMA NamesOf ==
    ASSUME NEW kind \in Kinds \ {"Service", "Secret"}, NEW i \in DOMAIN ResourceFunctions(kind)
    PROVE  /\ kind \in KindsWith(ResourceFunctions(kind)[i][1])
           /\ ResourceFunctions(kind)[i][1] \in {"update", "create"} =>
                 ResourceFunctions(kind)[i][2] + 1 \in DOMAIN Places
<1> DEFINE t == ResourceFunctions(kind)
<1>1. CASE kind = "Router"
    <2> DEFINE n == <<"hashringsConfigMap", "webConfigSecret", "deployment", "service">>
               S == {"hashringsConfigMap", "webConfigSecret", "deployment", "service"}
    <2>1. t = One(n)
        BY <1>1 DEF ResourceFunctions
    <2>2. n \in Seq(S)
        OBVIOUS
    <2> HIDE DEF n
    <2>3. t[i][1] \in S
        BY <2>1, <2>2, OneNames
    <2> QED
        BY <1>1, <2>3 DEF KindsWith
<1>2. CASE kind = "Ingester"
    <2> DEFINE n == <<"status", "recycle", "statefulSet", "service">>
               S == {"status", "recycle", "statefulSet", "service"}
    <2>1. t = One(n)
        BY <1>2 DEF ResourceFunctions
    <2>2. n \in Seq(S)
        OBVIOUS
    <2> HIDE DEF n
    <2>3. t[i][1] \in S
        BY <2>1, <2>2, OneNames
    <2> QED
        BY <1>2, <2>3 DEF KindsWith
<1>3. CASE kind = "Query"
    <2> DEFINE n == <<"proxyConfigMap", "storesConfigMap", "webConfigSecret", "deployment", "service">>
               S == {"proxyConfigMap", "storesConfigMap", "webConfigSecret", "deployment", "service"}
    <2>1. t = One(n)
        BY <1>3 DEF ResourceFunctions
    <2>2. n \in Seq(S)
        OBVIOUS
    <2> HIDE DEF n
    <2>3. t[i][1] \in S
        BY <2>1, <2>2, OneNames
    <2> QED
        BY <1>3, <2>3 DEF KindsWith
<1>4. CASE kind = "QueryFrontend"
    <2> DEFINE n == <<"cacheConfigConfigMap", "webConfigSecret", "deployment", "service">>
               S == {"cacheConfigConfigMap", "webConfigSecret", "deployment", "service"}
    <2>1. t = One(n)
        BY <1>4 DEF ResourceFunctions
    <2>2. n \in Seq(S)
        OBVIOUS
    <2> HIDE DEF n
    <2>3. t[i][1] \in S
        BY <2>1, <2>2, OneNames
    <2> QED
        BY <1>4, <2>3 DEF KindsWith
<1>5. CASE kind = "Gateway"
    <2> DEFINE n == <<"builtInUser", "deployment", "service", "admission", "webConfigSecret">>
               S == {"builtInUser", "deployment", "service", "admission", "webConfigSecret"}
    <2>1. t = One(n)
        BY <1>5 DEF ResourceFunctions
    <2>2. n \in Seq(S)
        OBVIOUS
    <2> HIDE DEF n
    <2>3. t[i][1] \in S
        BY <2>1, <2>2, OneNames
    <2> QED
        BY <1>5, <2>3 DEF KindsWith
<1>6. CASE kind \in {"Store", "Ruler"}
    <2> DEFINE a == Each("statefulSet", MaxParts)
               b == Each("service", MaxParts)
    <2>1. t = a \o b
        BY <1>6 DEF ResourceFunctions
    <2>2. /\ IsList(a) /\ IsList(b)
          /\ \A j \in DOMAIN a : a[j][1] = "statefulSet"
          /\ \A j \in DOMAIN b : b[j][1] = "service"
        BY EachNames, ObjectsAssumption
    <2> HIDE DEF a, b
    <2>3. t[i][1] \in {"statefulSet", "service"}
        BY <2>1, <2>2, ConcatList
    <2> QED
        BY <1>6, <2>3 DEF KindsWith
<1>7. CASE kind = "Compactor"
    <2> DEFINE n == <<"statefulSet">>
               S == {"statefulSet"}
    <2>1. t = One(n)
        BY <1>7 DEF ResourceFunctions
    <2>2. n \in Seq(S)
        OBVIOUS
    <2> HIDE DEF n
    <2>3. t[i][1] \in S
        BY <2>1, <2>2, OneNames
    <2> QED
        BY <1>7, <2>3 DEF KindsWith
<1>8. CASE kind = "Storage"
    <2> DEFINE n == <<"hash", "deployment", "service">>
               S == {"hash", "deployment", "service"}
    <2>1. t = One(n)
        BY <1>8 DEF ResourceFunctions
    <2>2. n \in Seq(S)
        OBVIOUS
    <2> HIDE DEF n
    <2>3. t[i][1] \in S
        BY <2>1, <2>2, OneNames
    <2> QED
        BY <1>8, <2>3 DEF KindsWith
<1>9. CASE kind = "Tenant"
    <2> DEFINE l == Len(Places)
               a == <<<<"finalizer", 0>>>>
               b == Each("update", l)
               c == Each("create", l)
    <2>1. t = a \o b \o c
        BY <1>9 DEF ResourceFunctions
    <2>2. l \in Nat /\ DOMAIN Places = 1..l
        BY ObjectsAssumption, LenProperties
    <2>3. IsList(a) /\ \A j \in DOMAIN a : a[j][1] = "finalizer"
        <3>1. a \in Seq({<<"finalizer", 0>>}) /\ DOMAIN a = {1} /\ a[1] = <<"finalizer", 0>>
            OBVIOUS
        <3> HIDE DEF a
        <3>2. IsList(a)
            BY <3>1 DEF IsList
        <3> QED
            BY <3>1, <3>2
    <2>4. /\ IsList(b) /\ IsList(c)
          /\ \A j \in DOMAIN b : b[j][1] = "update" /\ b[j][2] + 1 \in DOMAIN Places
          /\ \A j \in DOMAIN c : c[j][1] = "create" /\ c[j][2] + 1 \in DOMAIN Places
        BY <2>2, EachNames
    <2> HIDE DEF a, b, c
    <2>5. /\ IsList(a \o b)
          /\ \A j \in DOMAIN (a \o b) : \/ (a \o b)[j][1] = "finalizer"
                                        \/ (a \o b)[j][1] = "update" /\ (a \o b)[j][2] + 1 \in DOMAIN Places
        <3>1. IsList(a \o b)
            BY <2>3, <2>4, ConcatList
        <3>2. ASSUME NEW j \in DOMAIN (a \o b)
              PROVE  \/ \E n \in DOMAIN a : (a \o b)[j] = a[n]
                     \/ \E n \in DOMAIN b : (a \o b)[j] = b[n]
            BY <2>3, <2>4, ConcatElement
        <3> QED
            BY <2>3, <2>4, <3>1, <3>2
    <2> DEFINE ab == a \o b
    <2> HIDE DEF ab
    <2>6. \/ t[i][1] = "finalizer"
          \/ t[i][1] \in {"update", "create"} /\ t[i][2] + 1 \in DOMAIN Places
        <3>1. t = ab \o c /\ IsList(ab)
            BY <2>1, <2>5 DEF ab
        <3>2. \A j \in DOMAIN ab : \/ ab[j][1] = "finalizer"
                                   \/ ab[j][1] = "update" /\ ab[j][2] + 1 \in DOMAIN Places
            BY <2>5 DEF ab
        <3>0. i \in DOMAIN t
            OBVIOUS
        <3> HIDE DEF t
        <3>3. \/ \E j \in DOMAIN ab : t[i] = ab[j]
              \/ \E j \in DOMAIN c : t[i] = c[j]
            BY <2>4, <3>0, <3>1, ConcatElement
        <3> QED
            BY <2>4, <3>2, <3>3
    <2> HIDE DEF t
    <2> QED
        BY <1>9, <2>6 DEF KindsWith, t
<1> QED
    BY <1>1, <1>2, <1>3, <1>4, <1>5, <1>6, <1>7, <1>8, <1>9 DEF Kinds

-----------------------------------------------------------------------------
(* What the reconciles are given.                                          *)

\* The parameters of Reconcilers are those of the components, and no record is taken
\* for an error, for nothing or for what is absent or not set.
Instance ==
    /\ Keys = ComponentKeys
    /\ \A k : Size(k) = ComponentSize(k)
    /\ \A k, i : Target(k, i) = ComponentTarget(k, i) /\ Direct(k, i) = ComponentDirect(k, i)
    /\ \A k, i : Watched(k, i) = ComponentWatched(k, i) /\ Returns(k, i) = ComponentReturns(k, i)
    /\ \A o, w, w2 : Wakes(o, w, w2) = ComponentWakes(o, w, w2) /\ Firsts(o, w, w2) = ComponentFirsts(o, w, w2)
    /\ \A k, w : Begin(k, w) = ComponentBegin(k, w)
    /\ \A k, i, s, w, c : Build(k, i, s, w, c) = ComponentBuild(k, i, s, w, c)
    /\ Absent # Error /\ \A r : [f \in DOMAIN r |-> r[f]] \notin {Absent, Error, Nothing, Nil}
    /\ \A e, v : May(e, v) = ComponentMay(e, v) /\ Change(e, v) = ComponentChange(e, v)

\* The fields that are read of a component, but for its labels.
Fields(kind) ==
    {"flags", "parts", "web", "replicas"} \cup
    (CASE kind = "Ingester" -> {"tenants", "soft", "status", "volume", "retire", "attrs"}
       [] kind = "Ruler" -> {"labels"}
       [] kind = "Compactor" -> {"tenants"}
       [] kind = "Store" -> {"hashes"}
       [] OTHER -> {})
OnStorage == {"Ingester", "Compactor", "Store"}

\* What the functions need of an object: components have these fields, a list of
\* flags, count their parts and are labelled with a Service, and some with a
\* storage; Services have templates.
WellFormed(o, v) ==
    v # Absent =>
        /\ KindOf[o] \in Templated =>
              /\ Fields(KindOf[o]) \subseteq DOMAIN v
              /\ v.flags \in FlagList /\ v.parts \in Count /\ LabelSpec(v)
        /\ KindOf[o] = "Ingester" => v.attrs \in Seq(STRING)
        /\ KindOf[o] = "Ruler" => v.labels \in Seq(STRING)
        /\ KindOf[o] \in OnStorage => StorageLabel(v)
        /\ KindOf[o] = "Service" => "tmpl" \in DOMAIN v /\ \A kind \in Templated : CommonSpec(v.tmpl[kind])

\* What a reconcile of a component has read.
Read(kind, s) ==
    /\ s.raw # Absent /\ "flags" \in DOMAIN s.cr /\ s.cr.flags \in FlagList
    /\ kind = "Ingester" => s.cr.attrs \in Seq(STRING)
    /\ kind = "Ruler" => s.cr.labels \in Seq(STRING)

LEMMA SpecifiedFormed ==
    ASSUME NEW o \in Objects, NEW v, Specified(o, v)
    PROVE  WellFormed(o, v)
<1>1. CASE KindOf[o] \in Templated
    <2>1. ComponentSpec(v)
        BY <1>1 DEF Specified, Templated, Kinds, IngesterSpec, RulerSpec, QuerySpec, GatewaySpec, CompactorSpec, StoreSpec
    <2>2. KindOf[o] # "Service"
        BY <1>1 DEF Templated
    <2>3. KindOf[o] \in OnStorage => StorageLabel(v)
        BY DEF Specified, IngesterSpec, CompactorSpec, StoreSpec, OnStorage
    <2>4. Fields(KindOf[o]) \subseteq DOMAIN v
        BY <2>1 DEF Specified, IngesterSpec, RulerSpec, CompactorSpec, StoreSpec, ComponentSpec, CommonSpec, Fields
    <2>5. /\ KindOf[o] = "Ingester" => v.attrs \in Seq(STRING)
          /\ KindOf[o] = "Ruler" => v.labels \in Seq(STRING)
        BY DEF Specified, IngesterSpec, RulerSpec
    <2> QED
        BY <2>1, <2>2, <2>3, <2>4, <2>5 DEF WellFormed, ComponentSpec, CommonSpec
<1>2. CASE KindOf[o] = "Service"
    BY <1>2 DEF Specified, ServiceSpec, WellFormed, Templated, OnStorage
<1>3. CASE KindOf[o] \notin Templated /\ KindOf[o] # "Service"
    BY <1>3 DEF WellFormed, OnStorage, Templated, Kinds
<1> QED
    BY <1>1, <1>2, <1>3

\* Edits leave objects well formed.
LEMMA ChangeFormed ==
    ASSUME NEW s \in Scenes, NEW e \in s.edits, NEW v, WellFormed(e.on, v), ComponentMay(e, v)
    PROVE  WellFormed(e.on, ComponentChange(e, v))
<1> DEFINE o == e.on
           new == ComponentChange(e, v)
<1>0. o \in Objects
    BY EditsAssumption
<1>1. CASE e.does = "create"
    BY <1>0, <1>1, EditsAssumption, SpecifiedFormed DEF ComponentChange
<1>2. CASE e.does = "delete"
    BY <1>2, EditsAssumption DEF ComponentChange, WellFormed
<1>3. CASE e.does \notin {"create", "delete"}
    <2>1. /\ e.does = "change"
          /\ "flags" \in DOMAIN e.set => e.set.flags \in FlagList
          /\ "attrs" \in DOMAIN e.set => e.set.attrs \in Seq(STRING)
          /\ "labels" \in DOMAIN e.set => e.set.labels \in Seq(STRING)
          /\ "parts" \in DOMAIN e.set => e.set.parts \in Count
          /\ "of" \in DOMAIN e.set => LabelSpec(e.set)
          /\ "storage" \in DOMAIN e.set /\ KindOf[o] # "Tenant" => StorageLabel(e.set)
          /\ "tmpl" \in DOMAIN e.set => \A kind \in Templated : CommonSpec(e.set.tmpl[kind])
        BY <1>3, EditsAssumption
    <2>2. v # Absent
        BY <1>3 DEF ComponentMay
    <2>3. new = [f \in DOMAIN v |-> IF f \in DOMAIN e.set THEN e.set[f] ELSE v[f]]
        BY <2>1 DEF ComponentChange
    <2> HIDE DEF new, o
    <2>4. ASSUME KindOf[o] \in Templated
          PROVE  /\ Fields(KindOf[o]) \subseteq DOMAIN new
                 /\ new.flags \in FlagList /\ new.parts \in Count /\ LabelSpec(new)
        <3>0. Fields(KindOf[o]) \subseteq DOMAIN v /\ {"flags", "parts", "web"} \subseteq Fields(KindOf[o])
            BY <2>2, <2>4 DEF WellFormed, Fields, o
        <3>1. /\ {"flags", "parts", "web"} \subseteq DOMAIN v
              /\ v.flags \in FlagList /\ v.parts \in Count
              /\ "of" \in DOMAIN v /\ v.of \in ServiceObjects \cup {Nil}
            BY <2>2, <2>4, <3>0 DEF WellFormed, LabelSpec, o
        <3>2. Fields(KindOf[o]) \cup {"of"} \subseteq DOMAIN new
            BY <2>3, <3>0, <3>1
        <3>3. new.flags \in FlagList
            BY <2>1, <2>3, <3>1
        <3>4. new.parts \in Count
            BY <2>1, <2>3, <3>1
        <3>5. new.of \in ServiceObjects \cup {Nil}
            BY <2>1, <2>3, <3>1 DEF LabelSpec
        <3> QED
            BY <3>2, <3>3, <3>4, <3>5 DEF LabelSpec
    <2>5. ASSUME KindOf[o] = "Service"
          PROVE  "tmpl" \in DOMAIN new /\ \A kind \in Templated : CommonSpec(new.tmpl[kind])
        <3>1. "tmpl" \in DOMAIN v /\ \A kind \in Templated : CommonSpec(v.tmpl[kind])
            BY <2>2, <2>5 DEF WellFormed, o
        <3>2. "tmpl" \in DOMAIN new /\ new.tmpl = IF "tmpl" \in DOMAIN e.set THEN e.set.tmpl ELSE v.tmpl
            BY <2>3, <3>1
        <3> QED
            BY <2>1, <3>1, <3>2
    <2>6. ASSUME KindOf[o] \in OnStorage PROVE StorageLabel(new)
        <3>1. "storage" \in DOMAIN v /\ v.storage \in StorageObjects \cup {Nil} /\ KindOf[o] # "Tenant"
            BY <2>2, <2>6 DEF WellFormed, OnStorage, StorageLabel, o
        <3>2. "storage" \in DOMAIN new /\ new.storage = IF "storage" \in DOMAIN e.set THEN e.set.storage ELSE v.storage
            BY <2>3, <3>1
        <3> QED
            BY <2>1, <3>1, <3>2 DEF StorageLabel
    <2>7. ASSUME KindOf[o] = "Ingester" PROVE new.attrs \in Seq(STRING)
        <3>1. "attrs" \in DOMAIN v /\ v.attrs \in Seq(STRING)
            BY <2>2, <2>7 DEF WellFormed, Fields, Templated, Kinds, o
        <3> QED
            BY <2>1, <2>3, <3>1
    <2>8. ASSUME KindOf[o] = "Ruler" PROVE new.labels \in Seq(STRING)
        <3>1. "labels" \in DOMAIN v /\ v.labels \in Seq(STRING)
            BY <2>2, <2>8 DEF WellFormed, Fields, Templated, Kinds, o
        <3> QED
            BY <2>1, <2>3, <3>1
    <2> QED
        BY <2>4, <2>5, <2>6, <2>7, <2>8 DEF WellFormed, o, new
<1> QED
    BY <1>1, <1>2, <1>3

\* A reconcile that goes on has a list of flags, of its own or of the template.
LEMMA BeginRead ==
    ASSUME NEW k \in ComponentKeys, KindOf[k] \in Templated,
           NEW w, \A o \in Objects : WellFormed(o, w[o]),
           ComponentBegin(k, w) \notin {Nothing, Error}
    PROVE  Read(KindOf[k], ComponentBegin(k, w))
<1> DEFINE v == w[k]
           svc == w[v.of]
           kind == KindOf[k]
           t == ApplyDefaults(svc.tmpl[kind], kind)
           s == ComponentBegin(k, w)
<1>1. v # Absent /\ v.of # Nil
    BY DEF ComponentBegin, Skipped, Templated
<1>2. k \in Objects /\ WellFormed(k, v)
    BY DEF ComponentKeys
<1>3. /\ "flags" \in DOMAIN v /\ v.flags \in FlagList
      /\ v.of \in Objects /\ KindOf[v.of] = "Service"
    BY <1>1, <1>2 DEF WellFormed, LabelSpec, ServiceObjects, Fields
<1>4. svc # Absent /\ SetService(k, w) = svc
    BY DEF ComponentBegin, SetService, Templated
<1>5. CommonSpec(svc.tmpl[kind])
    BY <1>3, <1>4 DEF WellFormed
<1>6. t.flags \in FlagList
    BY <1>5 DEF CommonSpec, ApplyDefaults
<1>7. s = [raw |-> v, svc |-> svc, cr |-> Merge(v, t)]
    BY <1>4 DEF ComponentBegin, TemplatedBegin, CompactorBegin, Templated
<1> HIDE DEF t, v
<1>8. /\ "flags" \in DOMAIN Merge(v, t)
      /\ Merge(v, t).flags = IF v.flags = <<>> THEN t.flags ELSE v.flags
    BY <1>3 DEF Merge
<1>9. /\ kind = "Ingester" => Merge(v, t).attrs \in Seq(STRING)
      /\ kind = "Ruler" => Merge(v, t).labels \in Seq(STRING)
    <2>1. /\ kind = "Ingester" => "attrs" \in DOMAIN v /\ v.attrs \in Seq(STRING)
          /\ kind = "Ruler" => "labels" \in DOMAIN v /\ v.labels \in Seq(STRING)
        BY <1>1, <1>2 DEF WellFormed, Fields, Templated, Kinds
    <2> QED
        BY <2>1 DEF Merge
<1> HIDE DEF s
<1> QED
    BY <1>1, <1>3, <1>6, <1>7, <1>8, <1>9 DEF Read, s

-----------------------------------------------------------------------------
(* What the reconciles write.                                              *)

LEMMA WorkloadOnce ==
    ASSUME NEW k \in ComponentKeys, NEW i \in DOMAIN FunctionTable[k], KindOf[k] # "Storage",
           Function(k, i) \in {"deployment", "statefulSet"},
           NEW s, Read(KindOf[k], s), NEW w, Counted(w), NEW c, OnceOr(KindOf[k], c)
    PROVE  OnceOr(KindOf[k], ComponentBuild(k, i, s, w, c))
<1> DEFINE kind == KindOf[k]
           f == Function(k, i)
           p == Part(k, i)
<1>1. /\ kind \in Kinds \ {"Service", "Secret"} /\ FunctionTable[k] = ResourceFunctions(kind)
    BY ObjectsAssumption DEF ComponentKeys, FunctionTable
<1>2. kind \in KindsWith(f)
    BY <1>1, NamesOf DEF Function
<1>3. IsList(s.cr.flags) /\ "flags" \in DOMAIN s.cr
    BY DEF Read, IsList, FlagList
<1>4. CASE f = "deployment"
    <2>1. kind \in {"Router", "Query", "QueryFrontend", "Gateway"}
        BY <1>2, <1>4 DEF KindsWith
    <2>2. CASE kind = "Router"
        BY <1>3, <1>4, <2>2, RouterOnce DEF ComponentBuild
    <2>3. CASE kind = "Query"
        BY <1>3, <1>4, <2>3, QueryOnce DEF ComponentBuild
    <2>4. CASE kind = "QueryFrontend"
        BY <1>3, <1>4, <2>4, QueryFrontendOnce DEF ComponentBuild
    <2>5. CASE kind = "Gateway"
        BY <1>3, <1>4, <2>5, GatewayOnce DEF ComponentBuild
    <2> QED
        BY <2>1, <2>2, <2>3, <2>4, <2>5
<1>5. CASE f = "statefulSet"
    <2>1. kind \in {"Ingester", "Store", "Ruler", "Compactor"}
        BY <1>2, <1>5 DEF KindsWith
    <2>2. CASE kind = "Ingester"
        <3>1. IsList(s.cr.attrs)
            BY <2>2 DEF Read, IsList
        <3>2. ComponentBuild(k, i, s, w, c) \in {c, IngesterStatefulSet(s.cr, s.svc, w)}
            BY <1>5, <2>2 DEF ComponentBuild
        <3> QED
            BY <1>3, <2>2, <3>1, <3>2, IngesterOnce
    <2>5. CASE kind = "Ruler"
        <3>1. IsList(s.cr.labels)
            BY <2>5 DEF Read, IsList
        <3>2. ComponentBuild(k, i, s, w, c) = RulerStatefulSet(s.cr, p, w)
            BY <1>5, <2>5 DEF ComponentBuild
        <3> QED
            BY <1>3, <2>5, <3>1, <3>2, RulerOnce
    <2>3. CASE kind = "Store"
        BY <1>3, <1>5, <2>3, StoreOnce DEF ComponentBuild
    <2>4. CASE kind = "Compactor"
        BY <1>3, <1>5, <2>4, CompactorOnce DEF ComponentBuild
    <2> QED
        BY <2>1, <2>2, <2>3, <2>4, <2>5
<1> QED
    BY <1>4, <1>5

NewStore(place, hashes) ==
    [of |-> place[1], storage |-> place[2], replicas |-> Nil, web |-> Nil, flags |-> <<>>, parts |-> Nil,
     hashes |-> hashes]

\* What is written to a custom resource: of an ingester or a Store what there was, a
\* field that no other function reads, a deletion, or a new Store.
Rewritten(o, c, r) ==
    /\ o \in Objects /\ KindOf[o] # "Service"
    /\ \/ KindOf[o] \in {"Storage", "Tenant"}
       \/ r \in {c, Absent}
       \/ \E field \in {"status", "hashes"} : \E x : c # Absent /\ r = [c EXCEPT ![field] = x]
       \/ KindOf[o] = "Store" /\ \E place \in ServiceObjects \X StorageObjects : \E hashes : r = NewStore(place, hashes)

LEMMA ResourceRewritten ==
    ASSUME NEW k \in ComponentKeys, NEW i \in DOMAIN FunctionTable[k], ComponentTarget(k, i) # Owned,
           NEW s, KindOf[k] \in Templated => Read(KindOf[k], s),
           NEW w, NEW c, ComponentBuild(k, i, s, w, c) # Error
    PROVE  Rewritten(ComponentTarget(k, i), c, ComponentBuild(k, i, s, w, c))
<1> DEFINE kind == KindOf[k]
           f == Function(k, i)
           p == Part(k, i)
           o == ComponentTarget(k, i)
           r == ComponentBuild(k, i, s, w, c)
<1>1. k \in Objects /\ kind \in Kinds \ {"Service", "Secret"} /\ FunctionTable[k] = ResourceFunctions(kind)
    BY ObjectsAssumption DEF ComponentKeys, FunctionTable
<1>2. kind \in KindsWith(f) /\ (f \in {"update", "create"} => p + 1 \in DOMAIN Places)
    BY <1>1, NamesOf DEF Function, Part
<1>3. f \in {"status", "recycle", "hash", "finalizer", "update", "create"}
    BY DEF ComponentTarget
<1>7. CASE f = "recycle"
    <2>1. o = k /\ kind = "Ingester"
        BY <1>2, <1>7 DEF ComponentTarget, KindsWith
    <2>2. r = RecycleIngester(s.raw, c)
        BY <1>7 DEF ComponentBuild
    <2>3. r \in {c, Absent}
        BY <2>2 DEF RecycleIngester
    <2> HIDE DEF r, o
    <2> QED
        BY <1>1, <2>1, <2>3 DEF Rewritten, r, o
<1>4. CASE f = "status"
    <2>1. o = k /\ kind = "Ingester"
        BY <1>2, <1>4 DEF ComponentTarget, KindsWith
    <2>2. s.raw # Absent
        BY <2>1 DEF Read, Templated, Kinds
    <2>3. r = IngesterStatus(s.cr, s.raw, c)
        BY <1>4 DEF ComponentBuild
    <2>4. r = c \/ \E x : c # Absent /\ r = [c EXCEPT !.status = x]
        BY <2>2, <2>3 DEF IngesterStatus
    <2> HIDE DEF r, o
    <2> QED
        BY <1>1, <2>1, <2>4 DEF Rewritten, r, o
<1>5. CASE f \in {"hash", "finalizer"}
    <2>1. o = k /\ kind \in {"Storage", "Tenant"}
        BY <1>2, <1>5 DEF ComponentTarget, KindsWith
    <2> QED
        BY <1>1, <2>1 DEF Rewritten
<1>6. CASE f \in {"update", "create"}
    <2> DEFINE listed == s.listed[p + 1]
    <2>1. /\ o = Places[p + 1].name /\ o \in Objects /\ KindOf[o] = "Store"
          /\ Places[p + 1].place \in ServiceObjects \X StorageObjects
        <3> DEFINE q == p + 1
        <3>1. q \in DOMAIN Places
            BY <1>2, <1>6
        <3> HIDE DEF q
        <3> DEFINE R == [name : Objects, place : Objects \X Objects]
        <3>0. Places \in Seq(R)
            BY ObjectsAssumption
        <3> HIDE DEF R
        <3>2. Places[q] \in R
            BY <3>0, <3>1, LenProperties
        <3>3. /\ Places[q].name \in Objects /\ KindOf[Places[q].name] = "Store"
              /\ Places[q].place \in ServiceObjects \X StorageObjects
            BY <3>1, <3>2, ObjectsAssumption DEF ServiceObjects, StorageObjects, R
        <3>4. o = Places[q].name
            BY <1>6 DEF ComponentTarget, q
        <3> HIDE DEF o
        <3> QED
            BY <3>3, <3>4 DEF q
    <2> HIDE DEF listed
    <2>2. CASE f = "update"
        <3>1. r = UpdateStore(listed, s.expected, w, c)
            BY <2>2 DEF ComponentBuild, listed
        <3>2. r \in {c, Absent} \/ \E x : c # Absent /\ r = [c EXCEPT !.hashes = x]
            BY <3>1 DEF UpdateStore
        <3> HIDE DEF r, o
        <3> QED
            BY <2>1, <3>2 DEF Rewritten, r, o
    <2>3. CASE f = "create"
        <3> DEFINE place == Places[p + 1].place
                   hashes == StoreHashes(place[1], place[2], w)
        <3>1. r = CreateStore(place, listed, s.expected, w, c)
            BY <2>3 DEF ComponentBuild, listed
        <3>2. r \in {c, NewStore(place, hashes)}
            BY <3>1 DEF CreateStore, NewStore
        <3>3. place \in ServiceObjects \X StorageObjects
            BY <2>1
        <3> HIDE DEF place, hashes, r, o
        <3> QED
            BY <2>1, <3>2, <3>3 DEF Rewritten, r, o
    <2> QED
        BY <1>6, <2>2, <2>3
<1> QED
    BY <1>3, <1>4, <1>5, <1>6, <1>7

LEMMA FieldKept ==
    ASSUME NEW c, NEW field, NEW x, NEW f \in DOMAIN c \ {field}
    PROVE  f \in DOMAIN [c EXCEPT ![field] = x] /\ [c EXCEPT ![field] = x][f] = c[f]
OBVIOUS

\* What is written to a custom resource is well formed.
LEMMA RewrittenFormed ==
    ASSUME NEW o, NEW c, NEW r, Rewritten(o, c, r), WellFormed(o, c)
    PROVE  WellFormed(o, r)
<1>1. CASE KindOf[o] \in {"Storage", "Tenant"} \/ r \in {c, Absent}
    BY <1>1 DEF WellFormed, Templated, OnStorage
<1>2. ASSUME NEW field \in {"status", "hashes"}, NEW x, c # Absent, r = [c EXCEPT ![field] = x]
      PROVE  WellFormed(o, r)
    <2>1. /\ \A f \in {"flags", "parts", "of", "storage", "attrs", "labels"} : f \in DOMAIN c => f \in DOMAIN r /\ r[f] = c[f]
          /\ DOMAIN r = DOMAIN c
        BY <1>2, FieldKept
    <2>2. /\ {"flags", "parts"} \subseteq Fields(KindOf[o])
          /\ KindOf[o] = "Ingester" => "attrs" \in Fields(KindOf[o])
          /\ KindOf[o] = "Ruler" => "labels" \in Fields(KindOf[o])
          /\ {"Ingester", "Ruler"} \subseteq Templated
        BY DEF Fields, Templated, Kinds
    <2> QED
        BY <1>2, <2>1, <2>2 DEF Rewritten, WellFormed, LabelSpec, StorageLabel
<1>3. ASSUME NEW place \in ServiceObjects \X StorageObjects, NEW hashes, r = NewStore(place, hashes), KindOf[o] = "Store"
      PROVE  WellFormed(o, r)
    <2>1. <<>> \in FlagList /\ Nil \in Count /\ place[1] \in ServiceObjects /\ place[2] \in StorageObjects
        BY DEF FlagList, Count
    <2>2. /\ r.flags = <<>> /\ r.parts = Nil /\ r.of = place[1] /\ r.storage = place[2]
          /\ {"flags", "parts", "web", "replicas", "hashes", "of", "storage"} \subseteq DOMAIN r
        BY <1>3 DEF NewStore
    <2>3. KindOf[o] = "Store" => Fields(KindOf[o]) = {"flags", "parts", "web", "replicas", "hashes"}
        BY DEF Fields
    <2> QED
        BY <1>3, <2>1, <2>2, <2>3 DEF Rewritten, WellFormed, LabelSpec, StorageLabel
<1> QED
    BY <1>1, <1>2, <1>3 DEF Rewritten

-----------------------------------------------------------------------------
(* Arguments are not repeated.                                             *)

WorldFormed == \A o \in Objects : WellFormed(o, world[o])
OpenEdits == \E s \in Scenes : open \subseteq s.edits
SnapRead == \A k \in Keys : at[k] > 0 /\ KindOf[k] \in Templated => Read(KindOf[k], snap[k])
WorkloadsOnce ==
    \A k \in Keys : \A i \in Functions(k) :
        /\ Function(k, i) \in {"deployment", "statefulSet"} /\ KindOf[k] # "Storage"
        /\ owned[k][i] # Absent
        => Once(KindOf[k], owned[k][i].args)

FlagInv == WorldFormed /\ OpenEdits /\ SnapRead /\ WorkloadsOnce

LEMMA FunctionsInTable ==
    ASSUME Instance, NEW k \in Keys, NEW i \in Functions(k)
    PROVE  k \in ComponentKeys /\ i \in DOMAIN FunctionTable[k] /\ KindOf[k] \in Kinds \ {"Service", "Secret"}
<1>1. k \in ComponentKeys /\ Size(k) = Len(FunctionTable[k])
    BY DEF Instance, ComponentSize
<1>2. KindOf[k] \in Kinds \ {"Service", "Secret"} /\ FunctionTable[k] = ResourceFunctions(KindOf[k])
    BY <1>1, ObjectsAssumption DEF ComponentKeys, FunctionTable
<1>3. IsList(FunctionTable[k])
    BY <1>2, FunctionsList
<1>4. DOMAIN FunctionTable[k] = 1..Len(FunctionTable[k])
    BY <1>3, LenProperties DEF IsList
<1> QED
    BY <1>1, <1>2, <1>4 DEF Functions

LEMMA InitFlags == Init => FlagInv
<1> SUFFICES ASSUME Init PROVE FlagInv
    OBVIOUS
<1>1. WorldFormed
    <2>1. PICK s \in Scenes : world = s.world
        BY DEF Init
    <2>2. ASSUME NEW o \in Objects PROVE WellFormed(o, world[o])
        BY <2>1, ScenesAssumption, SpecifiedFormed DEF WellFormed
    <2> QED
        BY <2>2 DEF WorldFormed
<1>2. OpenEdits
    BY DEF Init, OpenEdits
<1>3. SnapRead
    BY DEF Init, SnapRead
<1>4. WorkloadsOnce
    BY DEF Init, WorkloadsOnce
<1> QED
    BY <1>1, <1>2, <1>3, <1>4 DEF FlagInv

\* An object that is written well formed leaves the world so.
LEMMA PutFormed ==
    ASSUME TypeOK, WorldFormed, NEW o \in Objects, NEW v, WellFormed(o, v), Put(o, v)
    PROVE  WorldFormed'
BY DEF Put, WorldFormed, TypeOK, WellFormed

LEMMA LeaveRead ==
    ASSUME TypeOK, SnapRead, NEW k \in Keys, Leave(k)
    PROVE  SnapRead'
BY DEF Leave, SnapRead, TypeOK

LEMMA AdvanceRead ==
    ASSUME TypeOK, SnapRead, NEW k \in Keys, Advance(k), at[k] > 0
    PROVE  SnapRead'
<1>1. CASE Leave(k)
    BY <1>1, LeaveRead
<1>2. CASE at' = [at EXCEPT ![k] = @ + 1] /\ UNCHANGED snap
    BY <1>2 DEF SnapRead, TypeOK
<1> QED
    BY <1>1, <1>2 DEF Advance

LEMMA WriteFlags ==
    ASSUME Instance, TypeOK, FlagInv, NEW k \in Keys, Write(k)
    PROVE  FlagInv'
<1> DEFINE i == at[k]
           s == snap[k]
           c == Content(k, i)
<1>1. i \in Functions(k) /\ SnapRead'
    <2>1. i \in Nat /\ i > 0 /\ i <= Size(k) /\ Size(k) \in Nat
        BY KeysAssumption DEF Write, TypeOK
    <2>2. SnapRead'
        BY AdvanceRead DEF Write, FlagInv
    <2> QED
        BY <2>1, <2>2 DEF Functions
<1>2. k \in ComponentKeys /\ i \in DOMAIN FunctionTable[k] /\ KindOf[k] \in Kinds \ {"Service", "Secret"}
    BY <1>1, FunctionsInTable
<1>3. KindOf[k] \in Templated => Read(KindOf[k], s)
    BY DEF Write, FlagInv, SnapRead
<1>4. OpenEdits'
    BY DEF Write, FlagInv, OpenEdits
<1>5. PICK r : /\ r = ComponentBuild(k, i, s, world, c) /\ r # Error
               /\ \/ Target(k, i) = Owned /\ Store(k, r)
                  \/ Target(k, i) # Owned /\ Put(Target(k, i), r) /\ UNCHANGED owned
    BY DEF Write, Result, Instance
<1>6. CASE Target(k, i) = Owned /\ Store(k, r)
    <2>1. WorldFormed'
        BY <1>6 DEF Store, FlagInv, WorldFormed, WellFormed
    <2>2. Counted(world)
        BY DEF FlagInv, WorldFormed, WellFormed, Counted, Templated, Kinds, Count
    <2>3. /\ Function(k, i) \in {"deployment", "statefulSet"} /\ KindOf[k] # "Storage"
          /\ r # Absent
          => Once(KindOf[k], r.args)
        <3> SUFFICES ASSUME Function(k, i) \in {"deployment", "statefulSet"}, KindOf[k] # "Storage",
                            r # Absent
                     PROVE  Once(KindOf[k], r.args)
            OBVIOUS
        <3>1. KindOf[k] \in Templated
            <4>1. KindOf[k] \in KindsWith(Function(k, i))
                BY <1>2, NamesOf DEF Function, FunctionTable
            <4> QED
                BY <4>1 DEF KindsWith, Templated, Kinds
        <3>3. OnceOr(KindOf[k], c)
            BY <1>1, <1>6 DEF Content, FlagInv, WorkloadsOnce, OnceOr
        <3>2. OnceOr(KindOf[k], r)
            BY <1>2, <1>3, <1>5, <2>2, <3>1, <3>3, WorkloadOnce
        <3> QED
            BY <1>5, <3>2 DEF OnceOr
    <2>4. /\ owned'[k][i] = r
          /\ \A j \in Keys : \A n \in Functions(j) : <<j, n>> # <<k, i>> => owned'[j][n] = owned[j][n]
        BY <1>1, <1>6 DEF Store, TypeOK
    <2> HIDE DEF i
    <2>5. WorkloadsOnce'
        BY <2>3, <2>4 DEF FlagInv, WorkloadsOnce
    <2> QED
        BY <1>1, <1>4, <2>1, <2>5 DEF FlagInv
<1>7. CASE Target(k, i) # Owned /\ Put(Target(k, i), r) /\ UNCHANGED owned
    <2> DEFINE o == Target(k, i)
    <2>1. o \in Objects /\ c = world[o] /\ o = ComponentTarget(k, i)
        BY <1>1, <1>7, KeysAssumption DEF Content, Instance
    <2>2. WellFormed(o, c)
        BY <2>1 DEF FlagInv, WorldFormed
    <2>3. WellFormed(o, r)
        <3>1. Rewritten(o, c, r)
            BY <1>2, <1>3, <1>5, <1>7, <2>1, ResourceRewritten
        <3> QED
            BY <2>2, <3>1, RewrittenFormed
    <2>4. WorldFormed'
        BY <1>7, <2>1, <2>3, PutFormed DEF FlagInv
    <2>5. WorkloadsOnce'
        BY <1>7 DEF FlagInv, WorkloadsOnce
    <2> QED
        BY <1>1, <1>4, <2>4, <2>5 DEF FlagInv
<1> QED
    BY <1>5, <1>6, <1>7

\* Each step of an edit, a reconcile or the manager keeps the invariant.
LEMMA StepFlags ==
    ASSUME Instance, TypeOK, FlagInv, [Next]_vars
    PROVE  FlagInv'
<1>1. ASSUME NEW e \in open, Edit(e) PROVE FlagInv'
    <2>1. PICK s \in Scenes : open \subseteq s.edits
        BY DEF FlagInv, OpenEdits
    <2>2. e \in s.edits /\ e.on \in Objects
        BY <1>1, <2>1, EditsAssumption
    <2> DEFINE v == world[e.on]
    <2>3. /\ ComponentMay(e, v) /\ Put(e.on, ComponentChange(e, v))
          /\ open' = open \ {e} /\ UNCHANGED <<owned, at, snap>>
        BY <1>1 DEF Edit, Instance
    <2>4. WellFormed(e.on, ComponentChange(e, v))
        BY <2>2, <2>3, ChangeFormed DEF FlagInv, WorldFormed
    <2>5. WorldFormed'
        BY <2>2, <2>3, <2>4, PutFormed DEF FlagInv
    <2>6. OpenEdits'
        BY <2>1, <2>3 DEF OpenEdits
    <2>7. SnapRead' /\ WorkloadsOnce'
        BY <2>3 DEF FlagInv, SnapRead, WorkloadsOnce
    <2> QED
        BY <2>5, <2>6, <2>7 DEF FlagInv
<1>2. ASSUME NEW k \in Keys, Start(k) PROVE FlagInv'
    <2>1. WorldFormed' /\ OpenEdits' /\ WorkloadsOnce'
        BY <1>2 DEF Start, FlagInv, WorldFormed, WellFormed, OpenEdits, WorkloadsOnce
    <2>2. PICK s : /\ s = ComponentBegin(k, world) /\ s # Error
                   /\ IF s = Nothing THEN UNCHANGED <<at, snap>>
                      ELSE at' = [at EXCEPT ![k] = 1] /\ snap' = [snap EXCEPT ![k] = s]
        BY <1>2 DEF Start, Instance
    <2>3. SnapRead'
        <3>1. CASE s = Nothing
            BY <2>2, <3>1 DEF FlagInv, SnapRead
        <3>2. CASE s # Nothing
            <4>1. KindOf[k] \in Templated => Read(KindOf[k], s)
                BY <2>2, <3>2, BeginRead DEF FlagInv, WorldFormed, Instance
            <4> QED
                BY <2>2, <3>2, <4>1 DEF FlagInv, SnapRead, TypeOK
        <3> QED
            BY <3>1, <3>2
    <2> QED
        BY <2>1, <2>3 DEF FlagInv
<1>3. ASSUME NEW k \in Keys, Write(k) PROVE FlagInv'
    BY <1>3, WriteFlags
<1>4. ASSUME NEW k \in Keys, Stop(k) \/ Fail(k) PROVE FlagInv'
    <2>1. WorldFormed' /\ OpenEdits' /\ WorkloadsOnce'
        BY <1>4 DEF Stop, Fail, FlagInv, WorldFormed, WellFormed, OpenEdits, WorkloadsOnce
    <2>2. SnapRead'
        BY <1>4, LeaveRead DEF Stop, Fail, FlagInv
    <2> QED
        BY <2>1, <2>2 DEF FlagInv
<1>5. ASSUME NEW k \in Keys, Collect(k) PROVE FlagInv'
    <2>1. WorldFormed' /\ OpenEdits' /\ SnapRead'
        BY <1>5 DEF Collect, FlagInv, WorldFormed, WellFormed, OpenEdits, SnapRead
    <2>2. \A j \in Keys : \A n \in Functions(j) : owned'[j][n] \in {Absent, owned[j][n]}
        BY <1>5 DEF Collect, TypeOK
    <2>3. WorkloadsOnce'
        BY <2>2 DEF FlagInv, WorkloadsOnce
    <2> QED
        BY <2>1, <2>3 DEF FlagInv
<1>6. ASSUME NEW k \in Keys, NEW i \in Functions(k), Lose(k, i) PROVE FlagInv'
    <2>1. WorldFormed' /\ OpenEdits' /\ SnapRead'
        BY <1>6 DEF Lose, FlagInv, WorldFormed, WellFormed, OpenEdits, SnapRead
    <2>2. \A j \in Keys : \A n \in Functions(j) : owned'[j][n] \in {Absent, owned[j][n]}
        BY <1>6 DEF Lose, TypeOK
    <2>3. WorkloadsOnce'
        BY <2>2 DEF FlagInv, WorkloadsOnce
    <2> QED
        BY <2>1, <2>3 DEF FlagInv
<1>7. ASSUME Restart PROVE FlagInv'
    BY <1>7 DEF Restart, FlagInv, WorldFormed, WellFormed, OpenEdits, SnapRead, WorkloadsOnce
<1>8. ASSUME UNCHANGED vars PROVE FlagInv'
    BY <1>8 DEF vars, FlagInv, WorldFormed, WellFormed, OpenEdits, SnapRead, WorkloadsOnce
<1> QED
    BY <1>1, <1>2, <1>3, <1>4, <1>5, <1>6, <1>7, <1>8 DEF Next, Work

\* Whatever flags users set on components and templates, in whatever order edits
\* and reconciles come, no workload, a Ruler's included, is ever given an argument
\* twice that may not be repeated, but for those that the functions themselves give
\* for each resource attribute of an ingester and each label of a Ruler
\* (util.ReplaceInSlice and the flag loops of the resource functions).
THEOREM FlagsOnceHolds == Instance => (Spec => []FlagsOnce)
<1> SUFFICES ASSUME Instance PROVE Spec => []FlagsOnce
    OBVIOUS
<1>1. TypeOK /\ FlagInv /\ [Next]_vars => FlagInv'
    BY StepFlags
<1>2. FlagInv => FlagsOnce
    BY DEF FlagInv, WorkloadsOnce, Once, FlagsOnce
<1> QED
    BY <1>1, <1>2, InitFlags, ReconcilersTypeCorrect, PTL DEF Spec

-----------------------------------------------------------------------------
(* Plain worlds stay plain.                                                *)

WorldPlain == \A o \in Objects : world[o] # Absent => Plain(o, world[o])

LEMMA InitPlain == PlainScenes /\ Init => WorldPlain
BY DEF PlainScenes, Init, WorldPlain

LEMMA ChangePlain ==
    ASSUME PlainScenes, NEW s \in Scenes, NEW e \in s.edits, NEW v, WellFormed(e.on, v), ComponentMay(e, v),
           v # Absent => Plain(e.on, v), ComponentChange(e, v) # Absent
    PROVE  Plain(e.on, ComponentChange(e, v))
<1> DEFINE o == e.on
           new == ComponentChange(e, v)
<1>0. PlainEdit(e)
    BY DEF PlainScenes
<1>1. CASE e.does = "create"
    BY <1>0, <1>1 DEF ComponentChange, PlainEdit
<1>2. CASE e.does = "delete"
    BY <1>2, EditsAssumption DEF ComponentChange
<1>3. CASE e.does \notin {"create", "delete"}
    <2>1. /\ e.does = "change"
          /\ "parts" \in DOMAIN e.set => FewParts(e.set.parts)
          /\ "flags" \in DOMAIN e.set => OtherFlags(e.set.flags)
          /\ "replicas" \in DOMAIN e.set /\ KindOf[o] = "Ingester" => e.set.replicas # 0
          /\ "storage" \in DOMAIN e.set /\ KindOf[o] = "Store" => e.set.storage # Nil
          /\ "tmpl" \in DOMAIN e.set => PlainTemplates(e.set.tmpl)
        BY <1>0, <1>3, EditsAssumption DEF PlainEdit
    <2>2. v # Absent /\ Plain(o, v)
        BY <1>3 DEF ComponentMay
    <2>3. new = [f \in DOMAIN v |-> IF f \in DOMAIN e.set THEN e.set[f] ELSE v[f]]
        BY <2>1 DEF ComponentChange
    <2>4. /\ KindOf[o] \in Templated => {"flags", "parts", "replicas"} \subseteq DOMAIN v
          /\ KindOf[o] = "Service" => "tmpl" \in DOMAIN v
        BY <2>2 DEF WellFormed, Fields
    <2> HIDE DEF new, o
    <2>5. \A f \in DOMAIN v : f \in DOMAIN new /\ new[f] = IF f \in DOMAIN e.set THEN e.set[f] ELSE v[f]
        BY <2>3
    <2>6. ASSUME KindOf[o] \in Templated PROVE FewParts(new.parts) /\ OtherFlags(new.flags)
        <3>1. FewParts(v.parts) /\ OtherFlags(v.flags) /\ "parts" \in DOMAIN v /\ "flags" \in DOMAIN v
            BY <2>2, <2>4, <2>6 DEF Plain
        <3>2. /\ new.parts = IF "parts" \in DOMAIN e.set THEN e.set.parts ELSE v.parts
              /\ new.flags = IF "flags" \in DOMAIN e.set THEN e.set.flags ELSE v.flags
            BY <2>5, <3>1
        <3> QED
            BY <2>1, <3>1, <3>2
    <2>7. ASSUME KindOf[o] = "Store" PROVE "storage" \in DOMAIN new /\ new.storage # Nil
        BY <2>1, <2>2, <2>5, <2>7 DEF Plain
    <2>8. ASSUME KindOf[o] = "Service" PROVE PlainTemplates(new.tmpl)
        <3>1. PlainTemplates(v.tmpl) /\ "tmpl" \in DOMAIN v
            BY <2>2, <2>4, <2>8 DEF Plain
        <3>2. new.tmpl = IF "tmpl" \in DOMAIN e.set THEN e.set.tmpl ELSE v.tmpl
            BY <2>5, <3>1
        <3> QED
            BY <2>1, <3>1, <3>2
    <2>9. ASSUME KindOf[o] = "Ingester" PROVE new.replicas # 0
        <3>1. v.replicas # 0 /\ "replicas" \in DOMAIN v
            BY <2>2, <2>4, <2>9 DEF Plain, Templated, Kinds
        <3>2. new.replicas = IF "replicas" \in DOMAIN e.set THEN e.set.replicas ELSE v.replicas
            BY <2>5, <3>1
        <3> QED
            BY <2>1, <2>9, <3>1, <3>2
    <2> QED
        BY <2>6, <2>7, <2>8, <2>9 DEF Plain, o, new
<1> QED
    BY <1>1, <1>2, <1>3

LEMMA RewrittenPlain ==
    ASSUME NEW o, NEW c, NEW r, Rewritten(o, c, r), WellFormed(o, c), c # Absent => Plain(o, c), r # Absent
    PROVE  Plain(o, r)
<1>1. CASE KindOf[o] \in {"Storage", "Tenant"} \/ r \in {c, Absent}
    BY <1>1 DEF Plain, Templated
<1>2. ASSUME NEW field \in {"status", "hashes"}, NEW x, c # Absent, r = [c EXCEPT ![field] = x]
      PROVE  Plain(o, r)
    <2>1. \A f \in {"flags", "parts", "replicas", "storage"} : f \in DOMAIN c => f \in DOMAIN r /\ r[f] = c[f]
        BY <1>2, FieldKept
    <2>2. /\ KindOf[o] \in Templated => {"flags", "parts", "replicas"} \subseteq DOMAIN c
          /\ KindOf[o] # "Service"
        BY <1>2 DEF Rewritten, WellFormed, Fields
    <2>3. KindOf[o] = "Ingester" => KindOf[o] \in Templated
        BY DEF Templated, Kinds
    <2> QED
        BY <1>2, <2>1, <2>2, <2>3 DEF Plain
<1>3. ASSUME NEW place \in ServiceObjects \X StorageObjects, NEW hashes, r = NewStore(place, hashes), KindOf[o] = "Store"
      PROVE  Plain(o, r)
    <2>1. OtherFlags(<<>>) /\ FewParts(Nil) /\ place[2] # Nil
        BY ObjectsAssumption DEF OtherFlags, FewParts, StorageObjects
    <2>2. r.flags = <<>> /\ r.parts = Nil /\ r.storage = place[2] /\ "storage" \in DOMAIN r
        BY <1>3 DEF NewStore
    <2> QED
        BY <1>3, <2>1, <2>2 DEF Plain
<1> QED
    BY <1>1, <1>2, <1>3 DEF Rewritten

\* A write of a reconcile leaves the world alone or rewrites a custom resource.
LEMMA WriteRewrites ==
    ASSUME Instance, TypeOK, FlagInv, NEW k \in Keys, Write(k), world' # world
    PROVE  \E o \in Objects : \E r : Rewritten(o, world[o], r) /\ world' = [world EXCEPT ![o] = r]
<1> DEFINE i == at[k]
           s == snap[k]
           c == Content(k, i)
           o == Target(k, i)
<1>1. i \in Functions(k)
    BY KeysAssumption DEF Write, TypeOK, Functions
<1>2. k \in ComponentKeys /\ i \in DOMAIN FunctionTable[k]
    BY <1>1, FunctionsInTable
<1>3. KindOf[k] \in Templated => Read(KindOf[k], s)
    BY DEF Write, FlagInv, SnapRead
<1>4. PICK r : /\ r = ComponentBuild(k, i, s, world, c) /\ r # Error
               /\ \/ o = Owned /\ Store(k, r)
                  \/ o # Owned /\ Put(o, r) /\ UNCHANGED owned
    BY DEF Write, Result, Instance
<1>5. o # Owned /\ Put(o, r)
    BY <1>4 DEF Store
<1>6. o \in Objects /\ c = world[o] /\ o = ComponentTarget(k, i)
    BY <1>1, <1>5, KeysAssumption DEF Content, Instance
<1>7. Rewritten(o, c, r)
    BY <1>2, <1>3, <1>4, <1>5, <1>6, ResourceRewritten
<1> QED
    BY <1>5, <1>6, <1>7 DEF Put

LEMMA StepPlain ==
    ASSUME Instance, PlainScenes, TypeOK, FlagInv, WorldPlain, [Next]_vars
    PROVE  WorldPlain'
<1>1. CASE world' = world
    BY <1>1 DEF WorldPlain, Plain
<1>2. ASSUME NEW e \in open, Edit(e) PROVE WorldPlain'
    <2>1. PICK s \in Scenes : open \subseteq s.edits
        BY DEF FlagInv, OpenEdits
    <2>2. e \in s.edits /\ e.on \in Objects
        BY <1>2, <2>1, EditsAssumption
    <2> DEFINE v == world[e.on]
               new == ComponentChange(e, v)
    <2>3. ComponentMay(e, v) /\ world' = [world EXCEPT ![e.on] = new]
        BY <1>2 DEF Edit, Instance, Put
    <2>4. new # Absent => Plain(e.on, new)
        BY <2>2, <2>3, ChangePlain DEF FlagInv, WorldFormed, WorldPlain
    <2> HIDE DEF new
    <2>5. \A o \in Objects : world'[o] = IF o = e.on THEN new ELSE world[o]
        BY <2>3 DEF TypeOK
    <2> QED
        BY <2>4, <2>5 DEF WorldPlain, Plain
<1>3. ASSUME NEW k \in Keys, Write(k), world' # world PROVE WorldPlain'
    <2>1. PICK o \in Objects : \E r : Rewritten(o, world[o], r) /\ world' = [world EXCEPT ![o] = r]
        BY <1>3, WriteRewrites
    <2>2. PICK r : Rewritten(o, world[o], r) /\ world' = [world EXCEPT ![o] = r]
        BY <2>1
    <2>3. r # Absent => Plain(o, r)
        BY <2>2, RewrittenPlain DEF FlagInv, WorldFormed, WorldPlain
    <2>4. \A q \in Objects : world'[q] = IF q = o THEN r ELSE world[q]
        BY <2>2 DEF TypeOK
    <2> QED
        BY <2>3, <2>4 DEF WorldPlain, Plain
<1>4. ASSUME world' # world
      PROVE  (\E e \in open : Edit(e)) \/ (\E k \in Keys : Write(k))
    BY <1>4 DEF Next, Work, Start, Stop, Fail, Collect, Lose, Restart, vars
<1> QED
    BY <1>1, <1>2, <1>3, <1>4

-----------------------------------------------------------------------------
(* The arguments that name other components.                               *)

LEMMA WithClean ==
    ASSUME NEW kind, NEW args, NEW N, Clean(kind, args, N), NEW name, name \notin N
    PROVE  IsList(args) /\ With(args, name) = {}
BY DEF Clean, With

\* A set as a list has every element of the set.
LEMMA SetToSeqOnto ==
    ASSUME NEW S, IsFiniteSet(S)
    PROVE  /\ IsList(SetToSeq(S))
           /\ {SetToSeq(S)[i] : i \in DOMAIN SetToSeq(S)} = S
<1> DEFINE n == Cardinality(S)
           f == SetToSeq(S)
<1>1. n \in Nat /\ ExistsBijection(1..n, S)
    BY FS_CardinalityType
<1>2. \E g \in [1..n -> S] : IsInjective(g)
    BY <1>1 DEF ExistsBijection, Bijection, Injection
<1>3. f \in [1..n -> S] /\ IsInjective(f)
    BY <1>2 DEF SetToSeq
<1> HIDE DEF f
<1>4. f \in Injection(1..n, S)
    BY <1>3 DEF Injection
<1>5. Cardinality(1..n) = n
    <2> HIDE DEF n
    <2>1. Cardinality(1..n) = IF 1 > n THEN 0 ELSE n - 1 + 1
        BY <1>1, FS_Interval
    <2> QED
        BY <1>1, <2>1
<1>6. f \in Surjection(1..n, S)
    BY <1>4, <1>5, FS_Injection
<1>7. {f[i] : i \in DOMAIN f} = S
    BY <1>3, <1>6 DEF Surjection
<1>8. IsList(f)
    BY <1>3, <1>1, SetToSeqList DEF IsList, f
<1> QED
    BY <1>7, <1>8 DEF f

\* What workload d has of a name is what was in args.
Named(d, name) == {a \in DOMAIN d.args : a[1] = name}
Unflagged(flags, name) == name # "--http.config" /\ \A i \in DOMAIN flags : flags[i][1] # name

\* A workload with a web configuration has what there was of a name that no flag has.
LEMMA WebWith ==
    ASSUME NEW kind, NEW cr, NEW w, NEW args, NEW rest, IsList(args), IsList(cr.flags),
           NEW d, d = WebWorkload(kind, cr, w, args, rest), d # Error,
           NEW name, Unflagged(cr.flags, name)
    PROVE  d.probe = Scheme(cr.web) /\ Named(d, name) = With(args, name)
<1> DEFINE web == IF cr.web = Nil THEN <<>> ELSE <<<<"--http.config", "file">>>>
           config == webConfigSecret(cr, w)
           all == Args(kind, web \o args, cr.flags)
<1>1. Clean(kind, web, {"--http.config"})
    BY CleanNone, CleanOne
<1> HIDE DEF web
<1>2. IsList(web) /\ With(web, name) = {}
    BY <1>1, WithClean DEF Unflagged
<1>3. With(web \o args, name) = With(args, name) /\ IsList(web \o args)
    <2>1. With(web \o args, name) = With(web, name) \cup With(args, name)
        BY <1>2, WithConcat
    <2>2. IsList(web \o args)
        BY <1>2, ConcatList
    <2> QED
        BY <1>2, <2>1, <2>2
<1>4. {a \in DOMAIN all : a[1] = name} = With(args, name)
    BY <1>3, ArgsKeep DEF Unflagged
<1> HIDE DEF all, config
<1>5. d = IF config = Error THEN Error
          ELSE [replicas |-> cr.replicas, config |-> config, probe |-> Scheme(cr.web), args |-> all, rest |-> rest]
    BY DEF WebWorkload, web, config, all
<1>6. d.args = all /\ d.probe = Scheme(cr.web)
    BY <1>5
<1> QED
    BY <1>4, <1>6 DEF Named

\* A client configuration is given exactly for https.
LEMMA ClientWith ==
    ASSUME NEW name, NEW url
    PROVE  /\ IsList(ClientConfig(name, url))
           /\ With(ClientConfig(name, url), name) # {} <=> url.scheme = "https"
<1>1. IsList(ClientConfig(name, url))
    BY ClientConfigClean DEF Clean
<1>2. CASE url.scheme = "https"
    <2> DEFINE a == <<name, "skip-verify">>
    <2>1. ClientConfig(name, url) = <<a>> /\ a[1] = name
        BY <1>2 DEF ClientConfig
    <2> HIDE DEF a
    <2>2. With(<<a>>, a[1]) = {a}
        BY WithOne
    <2> QED
        BY <1>1, <1>2, <2>1, <2>2
<1>3. CASE url.scheme # "https"
    <2>1. ClientConfig(name, url) = <<>> /\ DOMAIN <<>> = {}
        BY <1>3 DEF ClientConfig
    <2> QED
        BY <1>1, <1>3, <2>1 DEF With
<1> QED
    BY <1>2, <1>3

\* A Query is given the endpoints of its Service and no others.
LEMMA QueryWith ==
    ASSUME NEW cr, NEW w, IsList(cr.flags), OtherFlags(cr.flags), Counted(w), QueryDeployment(cr, w) # Error
    PROVE  /\ QueryDeployment(cr, w).probe = Scheme(cr.web)
           /\ Named(QueryDeployment(cr, w), "--endpoint") = {<<"--endpoint", e>> : e \in Endpoints(cr.of, w)}
<1> DEFINE A == Endpoints(cr.of, w)
           F == [e \in A |-> <<"--endpoint", e>>]
           E == {<<"--endpoint", e>> : e \in A}
           two == SetToSeq(E)
           one == <<<<"--log.level", "info">>, <<"--store.sd-files", "file">>>>
           M == {"--log.level", "--store.sd-files"}
<1>1. IsFiniteSet(E)
    <2>1. IsFiniteSet(A)
        BY EndpointsFinite
    <2>2. IsFiniteSet({F[e] : e \in A})
        BY <2>1, ImageFinite
    <2>3. {F[e] : e \in A} = E
        OBVIOUS
    <2> QED
        BY <2>2, <2>3
<1>2. \A e \in E : e[1] = "--endpoint"
    OBVIOUS
<1>3. QueryDeployment(cr, w) = WebWorkload("Query", cr, w, one \o two, CAVolumes(cr))
    BY DEF QueryDeployment
<1>4. Clean("Query", one, M)
    BY CleanTwo
<1> HIDE DEF E, one
<1>5. IsList(two) /\ {two[i] : i \in DOMAIN two} = E
    BY <1>1, SetToSeqOnto
<1> HIDE DEF two
<1>6. With(two, "--endpoint") = E
    BY <1>2, <1>5 DEF With
<1>7. IsList(one) /\ With(one, "--endpoint") = {}
    BY <1>4, WithClean
<1>8. IsList(one \o two)
    BY <1>5, <1>7, ConcatList
<1>9. With(one \o two, "--endpoint") = E
    <2>1. With(one \o two, "--endpoint") = With(one, "--endpoint") \cup With(two, "--endpoint")
        BY <1>5, <1>7, WithConcat
    <2> QED
        BY <1>6, <1>7, <2>1
<1>10. Unflagged(cr.flags, "--endpoint")
    BY DEF OtherFlags, OwnArgs, Unflagged
<1> DEFINE d == QueryDeployment(cr, w)
<1> HIDE DEF d
<1>11. d.probe = Scheme(cr.web) /\ Named(d, "--endpoint") = With(one \o two, "--endpoint")
    <2>1. d = WebWorkload("Query", cr, w, one \o two, CAVolumes(cr)) /\ d # Error
        BY <1>3 DEF d
    <2> QED
        BY <1>8, <1>10, <2>1, WebWith
<1> QED
    BY <1>9, <1>11 DEF d, E

\* The one component of a kind has the address that is given, with its scheme.
LEMMA AddressNames ==
    ASSUME NEW kind, NEW svc, NEW w, AddressOf(kind, svc, w) \notin {Nil, Error}
    PROVE  \E o \in Listing(w, kind, svc) : AddressOf(kind, svc, w) = BaseURL(o, w)
<1> DEFINE all == Listing(w, kind, svc)
<1>1. all # {} /\ AddressOf(kind, svc, w) = BaseURL(CHOOSE o \in all : TRUE, w)
    BY DEF AddressOf
<1> QED
    BY <1>1

LEMMA QueryFrontendWith ==
    ASSUME NEW cr, NEW w, IsList(cr.flags), OtherFlags(cr.flags), QueryFrontendDeployment(cr, w) # Error
    PROVE  LET d == QueryFrontendDeployment(cr, w)
               addr == queryAddress(cr.of, w)
               url == "--query-frontend.downstream-url"
               config == "--query-frontend.downstream-tripper-config"
           IN  /\ d.probe = Scheme(cr.web) /\ addr \notin {Nil, Error}
               /\ Named(d, "--query.address") = {} /\ Named(d, "--rules-query.address") = {}
               /\ Named(d, url) = {<<url, addr>>}
               /\ Named(d, config) # {} <=> addr.scheme = "https"
<1> DEFINE addr == queryAddress(cr.of, w)
           url == "--query-frontend.downstream-url"
           config == "--query-frontend.downstream-tripper-config"
           one == ClientConfig(config, addr)
           pair == <<url, addr>>
           two == <<pair, <<"--log.level", "info">>>>
           rest == GetTenantHash(Listing(w, "Tenant", cr.of), w)
           all == one \o two
           d == QueryFrontendDeployment(cr, w)
<1>1. addr \notin {Nil, Error} /\ d = WebWorkload("QueryFrontend", cr, w, all, rest)
    BY DEF QueryFrontendDeployment
<1>2. Clean("QueryFrontend", one, {config})
    BY ClientConfigClean
<1>3. Clean("QueryFrontend", two, {url, "--log.level"})
    BY CleanTwo
<1>4. With(two, url) = {pair}
    <2>1. DOMAIN two = {1, 2} /\ two[1] = pair /\ two[2][1] = "--log.level" /\ pair[1] = url
        OBVIOUS
    <2> HIDE DEF two, pair
    <2> QED
        BY <2>1 DEF With
<1>5. IsList(one) /\ (With(one, config) # {} <=> addr.scheme = "https")
    <2> HIDE DEF addr
    <2> QED
        BY ClientWith
<1> HIDE DEF one, two, pair, rest
<1>6. IsList(all) /\ \A name : With(all, name) = With(one, name) \cup With(two, name)
    BY <1>2, <1>3, ConcatList, WithConcat DEF Clean
<1>7. With(one, url) = {} /\ With(one, "--query.address") = {} /\ With(one, "--rules-query.address") = {}
    BY <1>2, WithClean
<1>8. With(two, config) = {} /\ With(two, "--query.address") = {} /\ With(two, "--rules-query.address") = {}
    BY <1>3, WithClean
<1> HIDE DEF all, d, addr
<1>9. ASSUME NEW name \in {url, config, "--query.address", "--rules-query.address"}
      PROVE  d.probe = Scheme(cr.web) /\ Named(d, name) = With(all, name)
    <2>1. Unflagged(cr.flags, name)
        BY DEF OtherFlags, OwnArgs, Unflagged
    <2>2. d # Error
        BY DEF d
    <2> QED
        BY <1>1, <1>6, <2>1, <2>2, WebWith
<1>10. /\ d.probe = Scheme(cr.web) /\ Named(d, "--query.address") = {} /\ Named(d, "--rules-query.address") = {}
       /\ Named(d, url) = {pair} /\ (Named(d, config) # {} <=> addr.scheme = "https")
    BY <1>4, <1>5, <1>6, <1>7, <1>8, <1>9
<1> QED
    BY <1>1, <1>10 DEF addr, d, pair

\* Where queries go that have no remote: to the frontend, or else to the Query.
NearAddress(of, w) ==
    IF queryfrontendAddress(of, w) = Nil THEN queryAddress(of, w) ELSE queryfrontendAddress(of, w)

\* What a gateway's arguments say of queries, with a remote query and without:
\* the addresses for queries and for rules and the client configuration of each.
RemoteAsked(address, config, rules, rulesConfig, of, remote, w) ==
    /\ address = {<<"--query.address", [scheme |-> remote.scheme, to |-> "external"]>>}
    /\ config # {} <=> (remote.scheme = "https" \/ remote.auth # {})
    /\ rules = {<<"--rules-query.address", queryAddress(of, w)>>}
    /\ rulesConfig # {} <=> NearAddress(of, w).scheme = "https"
NearAsked(address, config, rules, of, w) ==
    /\ address = {<<"--query.address", NearAddress(of, w)>>}
    /\ config # {} <=> NearAddress(of, w).scheme = "https"
    /\ rules = {}
Asked(address, config, rules, rulesConfig, of, svc, w) ==
    /\ NearAddress(of, w) \notin {Nil, Error} /\ queryAddress(of, w) # Error
    /\ \/ svc.remote # Nil /\ RemoteAsked(address, config, rules, rulesConfig, of, svc.remote, w)
       \/ svc.remote = Nil /\ NearAsked(address, config, rules, of, w)

LEMMA RemoteArgsWith ==
    ASSUME NEW t, NEW w, ExternalTarget(t, w) # Error
    PROVE  LET r == RemoteArgs(ExternalTarget(t, w))
           IN  /\ IsList(r)
               /\ With(r, "--query.address") = {<<"--query.address", [scheme |-> t.scheme, to |-> "external"]>>}
               /\ With(r, "--query.config") # {} <=> (t.scheme = "https" \/ t.auth # {})
               /\ With(r, "--rules-query.address") = {} /\ With(r, "--rules-query.config") = {}
<1> DEFINE remote == ExternalTarget(t, w)
           secure == t.scheme = "https" \/ t.auth # {}
           pair == <<"--query.address", [scheme |-> t.scheme, to |-> "external"]>>
           one == <<"--query.config", remote>>
           a == <<pair>>
           b == IF secure THEN <<one>> ELSE <<>>
<1>1. remote.scheme = t.scheme /\ remote.auth = t.auth
    BY DEF ExternalTarget
<1> HIDE DEF remote
<1>2. RemoteArgs(remote) = a \o b
    BY <1>1 DEF RemoteArgs
<1>3. pair[1] = "--query.address" /\ one[1] = "--query.config"
    OBVIOUS
<1>4. Clean("Gateway", a, {"--query.address"}) /\ Clean("Gateway", b, {"--query.config"})
    BY CleanNone, CleanOne
<1> HIDE DEF pair, one
<1>5. IsList(a) /\ With(a, "--query.address") = {pair}
    BY <1>3, WithOne
<1>6. With(b, "--query.config") # {} <=> secure
    <2>1. CASE secure
        <3>1. b = <<one>> /\ With(<<one>>, "--query.config") = {one}
            BY <1>3, <2>1, WithOne
        <3> QED
            BY <2>1, <3>1
    <2>2. CASE ~secure
        <3>1. b = <<>> /\ DOMAIN b = {}
            BY <2>2
        <3> QED
            BY <2>2, <3>1 DEF With
    <2> QED
        BY <2>1, <2>2
<1> HIDE DEF a, b, secure
<1>7. /\ \A name \in {"--query.config", "--rules-query.address", "--rules-query.config"} : With(a, name) = {}
      /\ IsList(b)
      /\ \A name \in {"--query.address", "--rules-query.address", "--rules-query.config"} : With(b, name) = {}
    BY <1>4, WithClean
<1>8. IsList(a \o b) /\ \A name : With(a \o b, name) = With(a, name) \cup With(b, name)
    BY <1>5, <1>7, ConcatList, WithConcat
<1> QED
    BY <1>2, <1>5, <1>6, <1>7, <1>8 DEF remote, pair, secure

LEMMA QueryArgsWith ==
    ASSUME NEW cr, NEW svc, NEW w, QueryArgs(cr, svc, w) # Error
    PROVE  LET q == QueryArgs(cr, svc, w)
           IN  Asked(With(q, "--query.address"), With(q, "--query.config"), With(q, "--rules-query.address"),
                     With(q, "--rules-query.config"), cr.of, svc, w)
<1> DEFINE q == QueryArgs(cr, svc, w)
           query == queryAddress(cr.of, w)
           addr == NearAddress(cr.of, w)
           a == RemoteArgs(ExternalTarget(svc.remote, w))
           rules == <<"--rules-query.address", query>>
           c == <<rules>>
           d == ClientConfig("--rules-query.config", addr)
           pair == <<"--query.address", addr>>
           e == <<pair>>
           f == ClientConfig("--query.config", addr)
<1>1. /\ addr \notin {Nil, Error} /\ query # Error /\ (svc.remote # Nil => ExternalTarget(svc.remote, w) # Error)
      /\ q = IF svc.remote # Nil THEN a \o c \o d ELSE e \o f
    BY DEF QueryArgs, NearAddress
<1>2. rules[1] = "--rules-query.address" /\ pair[1] = "--query.address"
    OBVIOUS
<1>3. /\ Clean("Gateway", c, {"--rules-query.address"}) /\ Clean("Gateway", d, {"--rules-query.config"})
      /\ Clean("Gateway", e, {"--query.address"}) /\ Clean("Gateway", f, {"--query.config"})
    BY CleanOne, ClientConfigClean
<1> HIDE DEF rules, pair, addr, query, q
<1>4. With(c, "--rules-query.address") = {rules} /\ With(e, "--query.address") = {pair}
    BY <1>2, WithOne
<1>5. /\ With(d, "--rules-query.config") # {} <=> addr.scheme = "https"
      /\ With(f, "--query.config") # {} <=> addr.scheme = "https"
    BY ClientWith
<1> HIDE DEF a, c, d, e, f
<1>6. /\ IsList(c) /\ IsList(d) /\ IsList(e) /\ IsList(f)
      /\ \A name \in {"--query.address", "--query.config", "--rules-query.config"} : With(c, name) = {}
      /\ \A name \in {"--query.address", "--query.config", "--rules-query.address"} : With(d, name) = {}
      /\ \A name \in {"--query.config", "--rules-query.address", "--rules-query.config"} : With(e, name) = {}
      /\ \A name \in {"--query.address", "--rules-query.address", "--rules-query.config"} : With(f, name) = {}
    BY <1>3, WithClean
<1>7. CASE svc.remote # Nil
    <2> DEFINE t == svc.remote
    <2>1. /\ IsList(a)
          /\ With(a, "--query.address") = {<<"--query.address", [scheme |-> t.scheme, to |-> "external"]>>}
          /\ With(a, "--query.config") # {} <=> (t.scheme = "https" \/ t.auth # {})
          /\ With(a, "--rules-query.address") = {} /\ With(a, "--rules-query.config") = {}
        BY <1>1, <1>7, RemoteArgsWith DEF a
    <2>2. IsList(a \o c) /\ \A name : With(a \o c, name) = With(a, name) \cup With(c, name)
        BY <1>6, <2>1, ConcatList, WithConcat
    <2>3. \A name : With(a \o c \o d, name) = With(a \o c, name) \cup With(d, name)
        BY <1>6, <2>2, WithConcat
    <2>4. \A name : With(q, name) = With(a, name) \cup With(c, name) \cup With(d, name)
        BY <1>1, <1>7, <2>2, <2>3
    <2> HIDE DEF t
    <2>5. /\ With(q, "--query.address") = {<<"--query.address", [scheme |-> t.scheme, to |-> "external"]>>}
          /\ With(q, "--query.config") # {} <=> (t.scheme = "https" \/ t.auth # {})
          /\ With(q, "--rules-query.address") = {rules}
          /\ With(q, "--rules-query.config") # {} <=> addr.scheme = "https"
        BY <1>4, <1>5, <1>6, <2>1, <2>4
    <2> QED
        BY <1>1, <1>7, <2>5 DEF Asked, RemoteAsked, rules, query, addr, t, q
<1>8. CASE svc.remote = Nil
    <2>1. \A name : With(e \o f, name) = With(e, name) \cup With(f, name)
        BY <1>6, WithConcat
    <2>2. \A name : With(q, name) = With(e, name) \cup With(f, name)
        BY <1>1, <1>8, <2>1
    <2>3. /\ With(q, "--query.address") = {pair} /\ With(q, "--rules-query.address") = {}
          /\ With(q, "--query.config") # {} <=> addr.scheme = "https"
        BY <1>4, <1>5, <1>6, <2>2
    <2> QED
        BY <1>1, <1>8, <2>3 DEF Asked, NearAsked, pair, addr, query, q
<1> QED
    BY <1>7, <1>8

LEMMA GatewayWith ==
    ASSUME NEW cr, NEW svc, NEW w, "flags" \in DOMAIN cr, GatewayDeployment(cr, svc, w) # Error
    PROVE  LET g == GatewayDeployment(cr, svc, w)
           IN  /\ Named(g, "--query-frontend.downstream-url") = {}
               /\ Asked(Named(g, "--query.address"), Named(g, "--query.config"), Named(g, "--rules-query.address"),
                        Named(g, "--rules-query.config"), cr.of, svc, w)
<1> DEFINE g == GatewayDeployment(cr, svc, w)
           query == QueryArgs(cr, svc, w)
           write == WriteArgs(cr, svc, w)
           admission == IF cr.admission THEN <<<<"--tenant.admission-control-config-file", "file">>>> ELSE <<>>
           level == <<<<"--log.level", "info">>>>
           plain == [cr EXCEPT !.flags = <<>>]
           args == level \o admission \o query \o write
           down == "--query-frontend.downstream-url"
           names == {"--query.address", "--query.config", "--rules-query.address", "--rules-query.config", down}
<1>1. query # Error /\ write # Error /\ g = WebWorkload("Gateway", plain, w, args, Nil)
    BY DEF GatewayDeployment
<1>2. Asked(With(query, "--query.address"), With(query, "--query.config"), With(query, "--rules-query.address"),
            With(query, "--rules-query.config"), cr.of, svc, w)
    <2> HIDE DEF query
    <2> QED
        BY <1>1, QueryArgsWith DEF query
<1>3. Clean("Gateway", level, {"--log.level"}) /\ Clean("Gateway", admission, {"--tenant.admission-control-config-file"})
    BY CleanNone, CleanOne
<1>4. Clean("Gateway", query,
            {"--query.address", "--query.config", "--rules-query.address", "--rules-query.config"})
    BY <1>1, QueryArgsClean
<1>5. Clean("Gateway", write, {"--remote-write.address", "--external-remote-writes.config"})
    <2> DEFINE router == remoteWriteAddress(cr.of, w)
               targets == {ExternalTarget(t, w) : t \in svc.writes}
    <2>1. write = <<<<"--remote-write.address", router>>, <<"--external-remote-writes.config", targets>>>>
        BY <1>1 DEF WriteArgs
    <2> HIDE DEF router, targets, write
    <2> QED
        BY <2>1, CleanTwo
<1>6. IsList(plain.flags) /\ \A name \in names : Unflagged(plain.flags, name)
    <2>1. plain.flags = <<>> /\ <<>> \in Seq({}) /\ DOMAIN <<>> = {}
        OBVIOUS
    <2> QED
        BY <2>1 DEF IsList, Unflagged
<1> HIDE DEF g, query, write, admission, level, plain
<1>7. /\ IsList(level) /\ \A name \in names : With(level, name) = {}
      /\ IsList(admission) /\ \A name \in names : With(admission, name) = {}
      /\ IsList(write) /\ \A name \in names : With(write, name) = {}
      /\ IsList(query) /\ With(query, down) = {}
    BY <1>3, <1>4, <1>5, WithClean
<1>8. IsList(level \o admission) /\ \A name : With(level \o admission, name) = With(level, name) \cup With(admission, name)
    BY <1>7, ConcatList, WithConcat
<1>9. /\ IsList(level \o admission \o query)
      /\ \A name : With(level \o admission \o query, name) = With(level \o admission, name) \cup With(query, name)
    BY <1>7, <1>8, ConcatList, WithConcat
<1>10. /\ IsList(args)
       /\ \A name : With(args, name) = With(level \o admission \o query, name) \cup With(write, name)
    BY <1>7, <1>9, ConcatList, WithConcat
<1>11. \A name \in names : With(args, name) = With(query, name)
    BY <1>7, <1>8, <1>9, <1>10
<1> HIDE DEF args
<1>12. ASSUME NEW name \in names PROVE Named(g, name) = With(query, name)
    <2>1. Unflagged(plain.flags, name) /\ g # Error
        BY <1>6 DEF g
    <2>2. Named(g, name) = With(args, name)
        BY <1>1, <1>6, <1>10, <2>1, WebWith
    <2> QED
        BY <1>11, <2>2
<1> HIDE DEF g
<1>13. Named(g, down) = {} /\ \A name \in names : Named(g, name) = With(query, name)
    BY <1>7, <1>12
<1>14. Asked(Named(g, "--query.address"), Named(g, "--query.config"), Named(g, "--rules-query.address"),
             Named(g, "--rules-query.config"), cr.of, svc, w)
    BY <1>2, <1>13
<1> QED
    BY <1>13, <1>14 DEF g

-----------------------------------------------------------------------------
(* Components at rest.                                                     *)

\* Function f for part p is one of key k.
Has(k, f, p) == \E i \in DOMAIN FunctionTable[k] : Function(k, i) = f /\ Part(k, i) = p

LEMMA OneHas ==
    ASSUME NEW k, NEW names, FunctionTable[k] = One(names), NEW n \in DOMAIN names
    PROVE  Has(k, names[n], 0) /\ \A i \in DOMAIN FunctionTable[k] : Part(k, i) = 0
<1>1. \A i \in DOMAIN names : i \in DOMAIN One(names) /\ One(names)[i] = <<names[i], 0>>
    BY DEF One
<1>2. DOMAIN One(names) = DOMAIN names
    BY DEF One
<1> QED
    BY <1>1, <1>2 DEF Has, Function, Part

LEMMA DeploymentHas ==
    ASSUME NEW k \in ComponentKeys, KindOf[k] \in {"Query", "QueryFrontend", "Gateway"}
    PROVE  Has(k, "deployment", 0)
<1>0. FunctionTable[k] = ResourceFunctions(KindOf[k])
    BY DEF FunctionTable
<1>1. CASE KindOf[k] = "Query"
    <2> DEFINE n == <<"proxyConfigMap", "storesConfigMap", "webConfigSecret", "deployment", "service">>
    <2>1. FunctionTable[k] = One(n)
        BY <1>0, <1>1 DEF ResourceFunctions
    <2>2. 4 \in DOMAIN n /\ n[4] = "deployment"
        OBVIOUS
    <2> HIDE DEF n
    <2> QED
        BY <2>1, <2>2, OneHas
<1>2. CASE KindOf[k] = "QueryFrontend"
    <2> DEFINE n == <<"cacheConfigConfigMap", "webConfigSecret", "deployment", "service">>
    <2>1. FunctionTable[k] = One(n)
        BY <1>0, <1>2 DEF ResourceFunctions
    <2>2. 3 \in DOMAIN n /\ n[3] = "deployment"
        OBVIOUS
    <2> HIDE DEF n
    <2> QED
        BY <2>1, <2>2, OneHas
<1>3. CASE KindOf[k] = "Gateway"
    <2> DEFINE n == <<"builtInUser", "deployment", "service", "admission", "webConfigSecret">>
    <2>1. FunctionTable[k] = One(n)
        BY <1>0, <1>3 DEF ResourceFunctions
    <2>2. 2 \in DOMAIN n /\ n[2] = "deployment"
        OBVIOUS
    <2> HIDE DEF n
    <2> QED
        BY <2>1, <2>2, OneHas
<1> QED
    BY <1>1, <1>2, <1>3

\* The one Service of an ingester, and those of each partition or shard.
LEMMA ServiceHas ==
    ASSUME NEW k \in ComponentKeys
    PROVE  /\ KindOf[k] = "Ingester" =>
                 Has(k, "service", 0) /\ \A i \in DOMAIN FunctionTable[k] : Part(k, i) = 0
           /\ KindOf[k] \in {"Store", "Ruler"} => \A p \in 0..(MaxParts - 1) : Has(k, "service", p)
<1>0. FunctionTable[k] = ResourceFunctions(KindOf[k])
    BY DEF FunctionTable
<1>1. ASSUME KindOf[k] = "Ingester"
      PROVE  Has(k, "service", 0) /\ \A i \in DOMAIN FunctionTable[k] : Part(k, i) = 0
    <2> DEFINE n == <<"status", "recycle", "statefulSet", "service">>
    <2>1. FunctionTable[k] = One(n)
        BY <1>0, <1>1 DEF ResourceFunctions
    <2>2. 4 \in DOMAIN n /\ n[4] = "service"
        OBVIOUS
    <2> HIDE DEF n
    <2> QED
        BY <2>1, <2>2, OneHas
<1>2. ASSUME KindOf[k] \in {"Store", "Ruler"}, NEW p \in 0..(MaxParts - 1)
      PROVE  Has(k, "service", p)
    <2> DEFINE m == MaxParts
               a == Each("statefulSet", m)
               b == Each("service", m)
               t == a \o b
               n == m + p + 1
    <2>1. FunctionTable[k] = t
        BY <1>0, <1>2 DEF ResourceFunctions
    <2>2. m \in Nat /\ p \in Nat /\ p + 1 \in 1..m
        BY ObjectsAssumption
    <2>3. /\ IsList(a) /\ Len(a) = m
          /\ IsList(b) /\ Len(b) = m /\ \A i \in 1..m : b[i] = <<"service", i - 1>>
        BY <2>2, EachNames
    <2> HIDE DEF a, b
    <2>4. DOMAIN t = 1..(m + m) /\ \A i \in 1..(m + m) : t[i] = IF i <= m THEN a[i] ELSE b[i - m]
        <3>1. IsList(a) /\ IsList(b)
            BY <2>3
        <3>2. /\ DOMAIN (a \o b) = 1..(Len(a) + Len(b))
              /\ \A i \in 1..(Len(a) + Len(b)) : (a \o b)[i] = IF i <= Len(a) THEN a[i] ELSE b[i - Len(a)]
            BY <3>1, ConcatList, Zenon
        <3>3. Len(a) = m /\ Len(b) = m
            BY <2>3
        <3> HIDE DEF m
        <3> QED
            BY <3>2, <3>3
    <2> HIDE DEF t, m
    <2>5. n \in 1..(m + m) /\ ~(n <= m) /\ n - m = p + 1 /\ (p + 1) - 1 = p
        BY <2>2
    <2>6. t[n] = b[p + 1] /\ b[p + 1] = <<"service", p>>
        BY <2>2, <2>3, <2>4, <2>5
    <2>7. n \in DOMAIN t /\ t[n] = <<"service", p>>
        BY <2>4, <2>5, <2>6
    <2> HIDE DEF n
    <2> QED
        BY <2>1, <2>7 DEF Has, Function, Part
<1> QED
    BY <1>1, <1>2

\* What the reconcile of a component that goes on has read.
Begun(k, w, s) ==
    LET v == w[k]
    IN  /\ v # Absent /\ v.of \in ServiceObjects /\ w[v.of] \notin {Absent, Error}
        /\ s.raw = v /\ s.svc = w[v.of]
        /\ s.cr.of = v.of /\ s.cr.web = v.web /\ s.cr.parts = Overlay(v.parts, Nil)
        /\ s.cr.replicas = LET t == w[v.of].tmpl[KindOf[k]].replicas
                           IN  Overlay(v.replicas, IF t = Nil THEN DefaultReplicas(KindOf[k]) ELSE t)
        /\ \A f \in DOMAIN v \ {"replicas", "parts", "web", "flags"} : f \in DOMAIN s.cr /\ s.cr[f] = v[f]
        /\ "flags" \in DOMAIN s.cr /\ IsList(s.cr.flags) /\ OtherFlags(s.cr.flags)

\* No component hides from its own reconcile what others read of it: templates are
\* plain, so the merge leaves TLS as it is and counts parts as they are listed.
LEMMA BeginOf ==
    ASSUME NEW k \in ComponentKeys, KindOf[k] \in Templated,
           NEW w, \A o \in Objects : WellFormed(o, w[o]), \A o \in Objects : w[o] # Absent => Plain(o, w[o]),
           ComponentBegin(k, w) \notin {Nothing, Error}
    PROVE  Begun(k, w, ComponentBegin(k, w))
<1> DEFINE v == w[k]
           svc == w[v.of]
           kind == KindOf[k]
           t == ApplyDefaults(svc.tmpl[kind], kind)
           s == ComponentBegin(k, w)
           cr == Merge(v, t)
<1>1. v # Absent /\ v.of # Nil
    BY DEF ComponentBegin, Skipped, Templated
<1>2. k \in Objects /\ WellFormed(k, v) /\ Plain(k, v)
    BY <1>1 DEF ComponentKeys
<1>3. /\ {"flags", "parts", "web", "replicas", "of"} \subseteq DOMAIN v /\ v.flags \in FlagList /\ OtherFlags(v.flags)
      /\ v.of \in ServiceObjects /\ v.of \in Objects /\ KindOf[v.of] = "Service"
    BY <1>1, <1>2 DEF WellFormed, LabelSpec, ServiceObjects, Plain, Fields
<1>4. svc \notin {Absent, Error} /\ SetService(k, w) = svc
    BY DEF ComponentBegin, SetService, Templated
<1>5. CommonSpec(svc.tmpl[kind])
    BY <1>3, <1>4 DEF WellFormed
<1>6. svc.tmpl[kind].parts = Nil /\ svc.tmpl[kind].web = Nil /\ OtherFlags(svc.tmpl[kind].flags)
    BY <1>3, <1>4 DEF Plain, PlainTemplates
<1>7. t.flags \in FlagList /\ t.parts = Nil /\ t.web = Nil /\ OtherFlags(t.flags)
    <2>1. t.flags = svc.tmpl[kind].flags /\ t.parts = svc.tmpl[kind].parts /\ t.web = svc.tmpl[kind].web
        BY <1>5 DEF CommonSpec, ApplyDefaults
    <2> QED
        BY <1>5, <1>6, <2>1 DEF CommonSpec
<1>n. t.replicas = IF svc.tmpl[kind].replicas = Nil THEN DefaultReplicas(kind) ELSE svc.tmpl[kind].replicas
    <2> DEFINE x == svc.tmpl[kind]
               d == DefaultReplicas(kind)
    <2>1. "replicas" \in DOMAIN x /\ t = [x EXCEPT !.replicas = IF @ = Nil THEN d ELSE @]
        BY <1>5 DEF CommonSpec, ApplyDefaults
    <2> HIDE DEF x, t, d
    <2> QED
        BY <2>1 DEF x, d
<1>8. s = [raw |-> v, svc |-> svc, cr |-> cr]
    BY <1>4 DEF ComponentBegin, TemplatedBegin, CompactorBegin, Templated
<1> HIDE DEF t, v
<1>m. cr.replicas = Overlay(v.replicas, t.replicas)
    BY <1>3 DEF Merge
<1>f. \A f \in DOMAIN v \ {"replicas", "parts", "web", "flags"} : f \in DOMAIN cr /\ cr[f] = v[f]
    BY DEF Merge
<1>9. /\ "flags" \in DOMAIN cr /\ cr.of = v.of /\ cr.web = v.web
      /\ cr.parts = Overlay(v.parts, Nil)
      /\ cr.flags = IF v.flags = <<>> THEN t.flags ELSE v.flags
    BY <1>3, <1>7 DEF Merge
<1>10. cr.flags \in FlagList /\ OtherFlags(cr.flags)
    BY <1>3, <1>7, <1>9
<1> HIDE DEF s, cr
<1>11. s.raw = v /\ s.svc = svc /\ s.cr = cr
    BY <1>8
<1>12. Begun(k, w, s)
    BY <1>1, <1>3, <1>4, <1>f, <1>m, <1>n, <1>9, <1>10, <1>11 DEF Begun, v, IsList, FlagList
<1> QED
    BY <1>12 DEF s

\* A component that is present with its Service is not left alone.
LEMMA BeginLive ==
    ASSUME Instance, NEW k \in ComponentKeys, KindOf[k] \in Templated \ {"Compactor"},
           NEW w, \A o \in Objects : WellFormed(o, w[o]), \A o \in Objects : w[o] # Absent => Plain(o, w[o]),
           w[k] # Absent, w[k].of # Nil, w[w[k].of] # Absent, w[w[k].of] # Error
    PROVE  ComponentBegin(k, w) \notin {Nothing, Error}
<1> DEFINE v == w[k]
           svc == w[v.of]
           cr == Merge(v, ApplyDefaults(svc.tmpl[KindOf[k]], KindOf[k]))
<1>1. k \in Objects /\ Plain(k, v)
    BY DEF ComponentKeys
<1>2. ~Skipped(k, w)
    BY <1>1 DEF Skipped, Plain, Templated
<1>3. SetService(k, w) = svc
    BY DEF SetService
<1>4. ComponentBegin(k, w) = TemplatedBegin(k, svc, w)
    BY <1>2, <1>3 DEF ComponentBegin, Templated
<1>5. TemplatedBegin(k, svc, w) = [raw |-> v, svc |-> svc, cr |-> cr]
    BY DEF TemplatedBegin
<1> DEFINE r == [raw |-> v, svc |-> svc, cr |-> cr]
<1>6. r = [f \in DOMAIN r |-> r[f]]
    OBVIOUS
<1> HIDE DEF r
<1> QED
    BY <1>4, <1>5, <1>6 DEF Instance, r

Calm == TypeOK /\ WorldFormed /\ WorldPlain /\ Prompt /\ AtRest

LEMMA TableFunctions ==
    ASSUME Instance, NEW k \in ComponentKeys
    PROVE  k \in Keys /\ Functions(k) = DOMAIN FunctionTable[k]
<1>1. k \in Keys /\ Size(k) = Len(FunctionTable[k])
    BY DEF Instance, ComponentSize
<1>2. KindOf[k] \in Kinds \ {"Service", "Secret"} /\ FunctionTable[k] = ResourceFunctions(KindOf[k])
    BY ObjectsAssumption DEF ComponentKeys, FunctionTable
<1>3. IsList(FunctionTable[k])
    BY <1>2, FunctionsList
<1>4. DOMAIN FunctionTable[k] = 1..Len(FunctionTable[k])
    BY <1>3, LenProperties DEF IsList
<1> QED
    BY <1>1, <1>4 DEF Functions

\* What a live component has read, and that its Deployment or Service is what the
\* function would build now.
LEMMA LiveBegun ==
    ASSUME Instance, Calm, NEW kind \in Templated, NEW k \in Live(kind)
    PROVE  k \in ComponentKeys /\ KindOf[k] = kind /\ Begun(k, world, ComponentBegin(k, world))
<1>1. k \in ComponentKeys /\ KindOf[k] = kind /\ ComponentBegin(k, world) \notin {Nothing, Error}
    BY DEF Live, Instance
<1> QED
    BY <1>1, BeginOf DEF Calm, WorldFormed, WorldPlain

LEMMA LiveBuilt ==
    ASSUME Instance, Calm, NEW kind \in Templated, NEW k \in Live(kind), NEW i \in DOMAIN FunctionTable[k],
           Function(k, i) \in {"hashringsConfigMap", "deployment", "service"}
    PROVE  /\ owned[k][i] # Error
           /\ owned[k][i] = ComponentBuild(k, i, ComponentBegin(k, world), world, owned[k][i])
<1>1. k \in ComponentKeys /\ KindOf[k] = kind /\ kind # "Tenant" /\ ComponentBegin(k, world) \notin {Nothing, Error}
    BY DEF Live, Instance, Templated
<1>2. k \in Keys /\ i \in Functions(k)
    BY <1>1, TableFunctions
<1>3. ComponentDirect(k, i) /\ ComponentTarget(k, i) = Owned
    BY <1>1 DEF ComponentDirect, ComponentTarget
<1>4. Direct(k, i) /\ Target(k, i) = Owned /\ Begin(k, world) = ComponentBegin(k, world)
    BY <1>3 DEF Instance
<1>5. k \in DirectKeys /\ Resting(k)
    BY <1>2, <1>4 DEF DirectKeys, Calm, AtRest
<1>6. Fine(k, i, Begin(k, world))
    BY <1>1, <1>2, <1>4, <1>5 DEF Calm, Prompt
<1>7. Content(k, i) = owned[k][i]
    BY <1>4 DEF Content
<1> QED
    BY <1>4, <1>6, <1>7 DEF Fine, Instance

LEMMA LiveDeployed ==
    ASSUME Instance, Calm, NEW kind \in {"Query", "QueryFrontend", "Gateway"}, NEW k \in Live(kind)
    PROVE  LET d == Deployed(k, "deployment", 0)
               s == ComponentBegin(k, world)
           IN  /\ d # Error
               /\ kind = "Query" => d = QueryDeployment(s.cr, world)
               /\ kind = "QueryFrontend" => d = QueryFrontendDeployment(s.cr, world)
               /\ kind = "Gateway" => d = GatewayDeployment(s.cr, s.svc, world)
<1> DEFINE i == CHOOSE n \in Functions(k) : Function(k, n) = "deployment" /\ Part(k, n) = 0
           s == ComponentBegin(k, world)
<1>1. kind \in Templated /\ k \in ComponentKeys /\ KindOf[k] = kind
    BY DEF Live, Instance, Templated, Kinds
<1>2. i \in DOMAIN FunctionTable[k] /\ Function(k, i) = "deployment"
    BY <1>1, DeploymentHas, TableFunctions DEF Has
<1>3. Deployed(k, "deployment", 0) = owned[k][i]
    BY DEF Deployed
<1> HIDE DEF i, s
<1>4. owned[k][i] # Error /\ owned[k][i] = ComponentBuild(k, i, s, world, owned[k][i])
    BY <1>1, <1>2, LiveBuilt DEF s
<1>5. /\ kind = "Query" => owned[k][i] = QueryDeployment(s.cr, world)
      /\ kind = "QueryFrontend" => owned[k][i] = QueryFrontendDeployment(s.cr, world)
      /\ kind = "Gateway" => owned[k][i] = GatewayDeployment(s.cr, s.svc, world)
    BY <1>1, <1>2, <1>4 DEF ComponentBuild
<1> QED
    BY <1>3, <1>4, <1>5 DEF s

\* The components that are listed for the Service of a live one are live.
LEMMA ListedLive ==
    ASSUME Instance, Calm, NEW kind \in Templated, NEW k \in Live(kind), NEW other \in Templated \ {"Compactor"}
    PROVE  {j \in Live(other) : world[j].of = world[k].of} = Listing(world, other, world[k].of)
<1> DEFINE of == world[k].of
<1>1. of \in ServiceObjects /\ world[of] \notin {Absent, Error} /\ of # Nil
    BY LiveBegun, ObjectsAssumption DEF Begun, ServiceObjects
<1>2. ASSUME NEW j \in Live(other), world[j].of = of PROVE j \in Listing(world, other, of)
    BY <1>2, LiveBegun DEF Begun, Listing, ComponentKeys
<1>3. ASSUME NEW j \in Listing(world, other, of) PROVE j \in Live(other) /\ world[j].of = of
    <2>1. j \in ComponentKeys /\ KindOf[j] = other /\ world[j] # Absent /\ world[j].of = of
        BY DEF Listing, ComponentKeys, Templated
    <2>2. ComponentBegin(j, world) \notin {Nothing, Error}
        BY <1>1, <2>1, BeginLive DEF Calm, WorldFormed, WorldPlain
    <2> QED
        BY <2>1, <2>2 DEF Live, Instance
<1> QED
    BY <1>2, <1>3

\* The parts for which a Service is owned.
ServiceParts(k) ==
    {n \in 0..(MaxParts - 1) :
        \E i \in Functions(k) : Function(k, i) = "service" /\ Part(k, i) = n /\ owned[k][i] # Absent}

LEMMA IngesterParts ==
    ASSUME Instance, Calm, NEW k \in Live("Ingester"), ~Withheld(k)
    PROVE  ServiceParts(k) = {0}
<1> DEFINE s == ComponentBegin(k, world)
<1>1. "Ingester" \in Templated
    BY DEF Templated, Kinds
<1>2. k \in ComponentKeys /\ KindOf[k] = "Ingester" /\ Begun(k, world, s)
    BY <1>1, LiveBegun
<1>3. Functions(k) = DOMAIN FunctionTable[k]
    BY <1>2, TableFunctions
<1>4. Has(k, "service", 0) /\ \A i \in Functions(k) : Part(k, i) = 0
    BY <1>2, <1>3, ServiceHas
<1>5. s.cr.of \in Objects
    BY <1>2 DEF Begun, ServiceObjects
<1>11. ~Retiring(s.raw)
    BY <1>2 DEF Begun, Withheld
<1> HIDE DEF s
<1>6. ASSUME NEW i \in Functions(k), Function(k, i) = "service" PROVE owned[k][i] # Absent
    <2>1. owned[k][i] = ComponentBuild(k, i, s, world, owned[k][i])
        BY <1>1, <1>3, <1>6, LiveBuilt DEF s
    <2>2. owned[k][i] = [of |-> s.cr.of]
        BY <1>2, <1>6, <1>11, <2>1 DEF ComponentBuild, PlainService
    <2> QED
        BY <1>5, <2>2, ObjectsAssumption
<1>7. 0 \in 0..(MaxParts - 1)
    BY ObjectsAssumption
<1>8. PICK i \in Functions(k) : Function(k, i) = "service" /\ Part(k, i) = 0
    BY <1>3, <1>4 DEF Has
<1>9. 0 \in ServiceParts(k)
    BY <1>6, <1>7, <1>8 DEF ServiceParts
<1>10. \A n \in ServiceParts(k) : n = 0
    BY <1>4 DEF ServiceParts
<1> QED
    BY <1>9, <1>10

\* A Store or Ruler has a Service for each of the parts that its custom resource
\* asks for, and for no other.
LEMMA ShardedParts ==
    ASSUME Instance, Calm, NEW kind \in {"Store", "Ruler"}, NEW k \in Live(kind)
    PROVE  ServiceParts(k) = Partitions(k, world)
<1> DEFINE s == ComponentBegin(k, world)
           parts == IF world[k].parts \in {Nil, 0} THEN 1 ELSE world[k].parts
<1>1. kind \in Templated
    BY DEF Templated, Kinds
<1>2. k \in ComponentKeys /\ KindOf[k] = kind /\ Begun(k, world, s)
    BY <1>1, LiveBegun
<1>3. Functions(k) = DOMAIN FunctionTable[k]
    BY <1>2, TableFunctions
<1>4. \A p \in 0..(MaxParts - 1) : Has(k, "service", p)
    BY <1>2, ServiceHas
<1>5. Overlay(s.cr.parts, 1) = parts
    BY <1>2 DEF Begun, Overlay
<1>6. MaxParts \in Nat /\ parts \in 1..MaxParts
    <2>1. FewParts(world[k].parts)
        BY <1>1, <1>2 DEF Begun, Calm, WorldPlain, Plain, ComponentKeys
    <2> QED
        BY <2>1, ObjectsAssumption DEF FewParts
<1>7. Partitions(k, world) = 0..(parts - 1)
    BY DEF Partitions
<1> HIDE DEF s, parts
<1>8. ASSUME NEW i \in Functions(k), Function(k, i) = "service", Part(k, i) \in 0..(MaxParts - 1)
      PROVE  owned[k][i] # Absent <=> Part(k, i) \in 0..(parts - 1)
    <2> DEFINE p == Part(k, i)
    <2>1. owned[k][i] = ComponentBuild(k, i, s, world, owned[k][i])
        BY <1>1, <1>3, <1>8, LiveBuilt DEF s
    <2>2. owned[k][i] = IF p >= parts THEN Absent ELSE IF kind = "Store" THEN [partition |-> p] ELSE [shard |-> p]
        BY <1>2, <1>5, <1>8, <2>1 DEF ComponentBuild, StoreService, RulerService
    <2>3. p \in Nat /\ (p \in 0..(parts - 1) <=> ~(p >= parts))
        BY <1>6, <1>8
    <2>4. [partition |-> p] # Absent /\ [shard |-> p] # Absent
        <3> HIDE DEF p
        <3>1. [partition |-> p] \in [partition : Nat] /\ [shard |-> p] \in [shard : Nat]
            BY <2>3
        <3> QED
            BY <3>1, ObjectsAssumption
    <2> QED
        BY <2>2, <2>3, <2>4
<1>9. ASSUME NEW n \in 0..(MaxParts - 1) PROVE n \in ServiceParts(k) <=> n \in 0..(parts - 1)
    <2>1. PICK i \in Functions(k) : Function(k, i) = "service" /\ Part(k, i) = n
        BY <1>3, <1>4 DEF Has
    <2> QED
        BY <1>8, <2>1 DEF ServiceParts
<1>10. ServiceParts(k) \subseteq 0..(MaxParts - 1) /\ 0..(parts - 1) \subseteq 0..(MaxParts - 1)
    BY <1>6 DEF ServiceParts
<1> QED
    BY <1>7, <1>9, <1>10

LEMMA CalmQueried ==
    ASSUME Instance, Calm
    PROVE  Queried
<1> SUFFICES ASSUME NEW q \in Live("Query")
             PROVE  {e \in {a[2] : a \in {b \in Arguments(q) : b[1] = "--endpoint"}} : ~Withheld(e[1])} =
                        UNION {{<<k, p>> : p \in ServiceParts(k)} :
                                  k \in {j \in Live("Ingester") \cup Live("Store") \cup Live("Ruler") :
                                            world[j].of = world[q].of /\ ~Withheld(j)}}
    BY DEF Queried, ServiceParts
<1> DEFINE svc == world[q].of
           cr == ComponentBegin(q, world).cr
           d == Deployed(q, "deployment", 0)
           I == Listing(world, "Ingester", svc)
           L == Listing(world, "Store", svc) \cup Listing(world, "Ruler", svc)
           asked == {j \in Live("Ingester") \cup Live("Store") \cup Live("Ruler") : world[j].of = svc}
<1>1. {"Query", "Ingester", "Store", "Ruler"} \subseteq Templated \ {"Compactor"}
    BY DEF Templated, Kinds
<1>2. IsList(cr.flags) /\ OtherFlags(cr.flags) /\ cr.of = svc
    BY <1>1, LiveBegun DEF Begun
<1>3. d # Error /\ d = QueryDeployment(cr, world)
    BY LiveDeployed
<1>4. Counted(world)
    BY DEF Calm, WorldFormed, WellFormed, Counted, Templated, Kinds, Count
<1>5. Named(d, "--endpoint") = {<<"--endpoint", e>> : e \in Endpoints(svc, world)}
    <2> HIDE DEF d, cr
    <2> QED
        BY <1>2, <1>3, <1>4, QueryWith
<1>6. {a[2] : a \in {b \in Arguments(q) : b[1] = "--endpoint"}} = Endpoints(svc, world)
    <2>1. {b \in Arguments(q) : b[1] = "--endpoint"} = Named(d, "--endpoint")
        BY DEF Arguments, Named
    <2> HIDE DEF d
    <2>2. {a[2] : a \in Named(d, "--endpoint")} = Endpoints(svc, world)
        <3> DEFINE E == Endpoints(svc, world)
                   N == Named(d, "--endpoint")
        <3>1. N = {<<"--endpoint", e>> : e \in E}
            BY <1>5
        <3> HIDE DEF E, N
        <3>2. \A e \in E : <<"--endpoint", e>> \in N /\ <<"--endpoint", e>>[2] = e
            BY <3>1
        <3>3. \A a \in N : a[2] \in E
            BY <3>1
        <3>4. {a[2] : a \in N} = E
            BY <3>2, <3>3
        <3> QED
            BY <3>4 DEF E, N
    <2> QED
        BY <2>1, <2>2
<1>7. /\ \A k \in I : k \in asked /\ k \in Live("Ingester")
      /\ \A k \in L : k \in asked /\ k \in Live("Store") \cup Live("Ruler")
      /\ asked = I \cup L
    <2>1. /\ {j \in Live("Ingester") : world[j].of = svc} = Listing(world, "Ingester", svc)
          /\ {j \in Live("Store") : world[j].of = svc} = Listing(world, "Store", svc)
          /\ {j \in Live("Ruler") : world[j].of = svc} = Listing(world, "Ruler", svc)
        BY <1>1, ListedLive
    <2> HIDE DEF svc
    <2> QED
        BY <2>1
<1>8. \A k \in I : ~Withheld(k) => ServiceParts(k) = {0}
    BY <1>7, IngesterParts
<1>9. \A k \in L : ServiceParts(k) = Partitions(k, world)
    BY <1>7, ShardedParts
<1>10. Endpoints(svc, world) = {<<i, 0>> : i \in I} \cup UNION {{<<o, p>> : p \in Partitions(o, world)} : o \in L}
    BY DEF Endpoints
<1> DEFINE kept == {j \in asked : ~Withheld(j)}
<1> HIDE DEF I, L, asked, svc
<1>11. UNION {{<<k, p>> : p \in ServiceParts(k)} : k \in kept} =
          {<<i, 0>> : i \in {j \in I : ~Withheld(j)}}
          \cup UNION {{<<o, p>> : p \in Partitions(o, world)} : o \in {j \in L : ~Withheld(j)}}
    BY <1>7, <1>8, <1>9
<1>12. {e \in Endpoints(svc, world) : ~Withheld(e[1])} =
          {<<i, 0>> : i \in {j \in I : ~Withheld(j)}}
          \cup UNION {{<<o, p>> : p \in Partitions(o, world)} : o \in {j \in L : ~Withheld(j)}}
    BY <1>10
<1>13. kept = {j \in Live("Ingester") \cup Live("Store") \cup Live("Ruler") :
                  world[j].of = world[q].of /\ ~Withheld(j)}
    BY DEF asked, svc
<1> HIDE DEF kept
<1> QED
    BY <1>6, <1>11, <1>12, <1>13

\* An address of a component has the scheme that its Deployment serves.
LEMMA CalmScheme ==
    ASSUME Instance, Calm, NEW kind \in Templated, NEW k \in Live(kind), NEW other \in {"Query", "QueryFrontend"},
           NEW o \in Listing(world, other, world[k].of)
    PROVE  BaseURL(o, world).scheme = Deployed(BaseURL(o, world).to, "deployment", 0).probe
<1> DEFINE cr == ComponentBegin(o, world).cr
           d == Deployed(o, "deployment", 0)
<1>1. other \in Templated \ {"Compactor"}
    BY DEF Templated, Kinds
<1>2. o \in Live(other)
    BY <1>1, ListedLive
<1>3. IsList(cr.flags) /\ OtherFlags(cr.flags) /\ cr.web = world[o].web
    BY <1>1, <1>2, LiveBegun DEF Begun
<1>4. d # Error /\ (d = QueryDeployment(cr, world) \/ d = QueryFrontendDeployment(cr, world))
    BY <1>2, LiveDeployed
<1>5. Counted(world)
    BY DEF Calm, WorldFormed, WellFormed, Counted, Templated, Kinds, Count
<1>6. BaseURL(o, world).to = o /\ BaseURL(o, world).scheme = Scheme(world[o].web)
    BY DEF BaseURL
<1> HIDE DEF cr, d
<1>7. d.probe = Scheme(cr.web)
    BY <1>3, <1>4, <1>5, QueryWith, QueryFrontendWith
<1> QED
    BY <1>3, <1>6, <1>7 DEF d

\* An address that is built from the custom resource of a component.
LEMMA CalmURL ==
    ASSUME Instance, Calm, NEW kind \in Templated, NEW k \in Live(kind), NEW other \in {"Query", "QueryFrontend"},
           AddressOf(other, world[k].of, world) \notin {Nil, Error}
    PROVE  LET url == AddressOf(other, world[k].of, world)
           IN  /\ \E o \in Listing(world, other, world[k].of) : url.scheme = Scheme(world[o].web)
               /\ url.to # "external" /\ url.scheme = Deployed(url.to, "deployment", 0).probe
               /\ Secured(k, url) <=> url.scheme = "https"
<1> DEFINE url == AddressOf(other, world[k].of, world)
<1>1. PICK o \in Listing(world, other, world[k].of) : url = BaseURL(o, world)
    BY AddressNames
<1>2. url.scheme = Deployed(url.to, "deployment", 0).probe
    BY <1>1, CalmScheme
<1>3. url.to = o /\ o \in Objects /\ url.scheme = Scheme(world[o].web)
    BY <1>1 DEF BaseURL, Listing
<1>4. url.to # "external"
    BY <1>3, ObjectsAssumption
<1> HIDE DEF url
<1>5. Secured(k, url) <=> url.scheme = "https"
    BY <1>4 DEF Secured
<1> QED
    BY <1>2, <1>3, <1>4, <1>5 DEF url

\* What Addressed says of an address among the arguments of a component.
WellAddressed(k, a) ==
    a[1] \in DOMAIN ClientArg /\ a[2] # Nil =>
        /\ a[2].to # "external" => a[2].scheme = Deployed(a[2].to, "deployment", 0).probe
        /\ \/ a[1] = "--rules-query.address" /\ MixedSchemes(world[k].of)
           \/ Secured(k, a[2]) <=> \E b \in Arguments(k) : b[1] = ClientArg[a[1]]

LEMMA ClientArgs ==
    /\ DOMAIN ClientArg = {"--query.address", "--rules-query.address", "--query-frontend.downstream-url"}
    /\ ClientArg["--query.address"] = "--query.config"
    /\ ClientArg["--rules-query.address"] = "--rules-query.config"
    /\ ClientArg["--query-frontend.downstream-url"] = "--query-frontend.downstream-tripper-config"
BY DEF ClientArg

LEMMA FrontendAddressed ==
    ASSUME Instance, Calm, NEW k \in Live("QueryFrontend"), NEW a \in Arguments(k)
    PROVE  WellAddressed(k, a)
<1> DEFINE cr == ComponentBegin(k, world).cr
           d == Deployed(k, "deployment", 0)
           down == "--query-frontend.downstream-url"
           tripper == "--query-frontend.downstream-tripper-config"
           url == queryAddress(cr.of, world)
<1>1. "QueryFrontend" \in Templated
    BY DEF Templated, Kinds
<1>2. IsList(cr.flags) /\ OtherFlags(cr.flags) /\ cr.of = world[k].of
    BY <1>1, LiveBegun DEF Begun
<1>3. d # Error /\ d = QueryFrontendDeployment(cr, world)
    BY LiveDeployed
<1>4. Arguments(k) = DOMAIN d.args
    BY DEF Arguments
<1> HIDE DEF d, cr
<1>5. /\ url \notin {Nil, Error} /\ Named(d, "--query.address") = {} /\ Named(d, "--rules-query.address") = {}
      /\ Named(d, down) = {<<down, url>>}
      /\ Named(d, tripper) # {} <=> url.scheme = "https"
    BY <1>2, <1>3, QueryFrontendWith
<1>6. /\ url.to # "external" /\ url.scheme = Deployed(url.to, "deployment", 0).probe
      /\ Secured(k, url) <=> url.scheme = "https"
    BY <1>1, <1>2, <1>5, CalmURL DEF queryAddress
<1> HIDE DEF url
<1>7. a[1] \in DOMAIN ClientArg => a[1] = down /\ a[2] = url /\ ClientArg[a[1]] = tripper
    BY <1>4, <1>5, ClientArgs DEF Named
<1>8. url.scheme = "https" <=> \E b \in Arguments(k) : b[1] = tripper
    BY <1>4, <1>5 DEF Named
<1> QED
    BY <1>6, <1>7, <1>8 DEF WellAddressed

LEMMA GatewayAddressed ==
    ASSUME Instance, Calm, NEW k \in Live("Gateway"), NEW a \in Arguments(k)
    PROVE  WellAddressed(k, a)
<1> DEFINE s == ComponentBegin(k, world)
           d == Deployed(k, "deployment", 0)
           of == world[k].of
           near == NearAddress(of, world)
           query == queryAddress(of, world)
           frontend == queryfrontendAddress(of, world)
           A == Named(d, "--query.address")
           C == Named(d, "--query.config")
           R == Named(d, "--rules-query.address")
           D == Named(d, "--rules-query.config")
<1>1. "Gateway" \in Templated
    BY DEF Templated, Kinds
<1>2. "flags" \in DOMAIN s.cr /\ s.cr.of = of /\ s.svc = world[of]
    BY <1>1, LiveBegun DEF Begun
<1>3. d # Error /\ d = GatewayDeployment(s.cr, s.svc, world)
    BY LiveDeployed
<1>4. Arguments(k) = DOMAIN d.args
    BY DEF Arguments
<1> HIDE DEF d, s
<1>5. Named(d, "--query-frontend.downstream-url") = {} /\ Asked(A, C, R, D, of, world[of], world)
    BY <1>2, <1>3, GatewayWith
<1>6. /\ C # {} <=> \E b \in Arguments(k) : b[1] = "--query.config"
      /\ D # {} <=> \E b \in Arguments(k) : b[1] = "--rules-query.config"
    BY <1>4 DEF Named
<1>7. a[1] \in DOMAIN ClientArg =>
          \/ a[1] = "--query.address" /\ a \in A
          \/ a[1] = "--rules-query.address" /\ a \in R
    BY <1>4, <1>5, ClientArgs DEF Named
<1> HIDE DEF A, C, R, D
<1>8. near \notin {Nil, Error} /\ query # Error /\ near = IF frontend = Nil THEN query ELSE frontend
    BY <1>5 DEF Asked, NearAddress
<1>9. /\ near.to # "external" /\ near.scheme = Deployed(near.to, "deployment", 0).probe
      /\ Secured(k, near) <=> near.scheme = "https"
    BY <1>1, <1>8, CalmURL DEF queryAddress, queryfrontendAddress
<1>10. query # Nil => /\ query.to # "external" /\ query.scheme = Deployed(query.to, "deployment", 0).probe
                      /\ Secured(k, query) <=> query.scheme = "https"
    BY <1>1, <1>8, CalmURL DEF queryAddress
<1>11. query # Nil /\ ~MixedSchemes(of) => query.scheme = near.scheme
    <2> SUFFICES ASSUME query # Nil, ~MixedSchemes(of), frontend # Nil PROVE query.scheme = near.scheme
        BY <1>8
    <2>1. PICK q \in Listing(world, "Query", of) : query.scheme = Scheme(world[q].web)
        BY <1>1, <1>8, CalmURL DEF queryAddress
    <2>2. PICK f \in Listing(world, "QueryFrontend", of) : near.scheme = Scheme(world[f].web)
        BY <1>1, <1>8, CalmURL DEF queryfrontendAddress
    <2> QED
        BY <2>1, <2>2 DEF MixedSchemes
<1> HIDE DEF near, query, frontend
<1>12. CASE world[of].remote # Nil
    <2> DEFINE t == world[of].remote
               url == [scheme |-> t.scheme, to |-> "external"]
    <2>1. /\ A = {<<"--query.address", url>>} /\ (C # {} <=> (t.scheme = "https" \/ t.auth # {}))
          /\ R = {<<"--rules-query.address", query>>} /\ (D # {} <=> near.scheme = "https")
        BY <1>5, <1>12 DEF Asked, RemoteAsked, query, near
    <2>2. url.to = "external" /\ (Secured(k, url) <=> (t.scheme = "https" \/ t.auth # {}))
        BY DEF Secured
    <2> HIDE DEF url, t
    <2>3. CASE a[1] = "--query.address" /\ a \in A
        BY <1>6, <2>1, <2>2, <2>3, ClientArgs DEF WellAddressed
    <2>4. CASE a[1] = "--rules-query.address" /\ a \in R
        <3>1. a[2] = query /\ ClientArg[a[1]] = "--rules-query.config"
            BY <2>1, <2>4, ClientArgs
        <3> QED
            BY <1>6, <1>10, <1>11, <2>1, <2>4, <3>1 DEF WellAddressed
    <2> QED
        BY <1>7, <2>3, <2>4 DEF WellAddressed
<1>13. CASE world[of].remote = Nil
    <2>1. A = {<<"--query.address", near>>} /\ (C # {} <=> near.scheme = "https") /\ R = {}
        BY <1>5, <1>13 DEF Asked, NearAsked, near
    <2>2. a[1] \in DOMAIN ClientArg => a[1] = "--query.address" /\ a[2] = near
        BY <1>7, <2>1
    <2> QED
        BY <1>6, <1>9, <2>1, <2>2, ClientArgs DEF WellAddressed
<1> QED
    BY <1>12, <1>13

LEMMA CalmAddressed ==
    ASSUME Instance, Calm
    PROVE  Addressed
BY FrontendAddressed, GatewayAddressed DEF Addressed, WellAddressed

-----------------------------------------------------------------------------
(* The watches of the components.                                          *)

\* Object o changes w to w2, which does not queue key k.
Unwoken(k, o, w, w2) ==
    /\ k \in ComponentKeys /\ o \in Objects
    /\ \A x \in Objects \ {o} : w2[x] = w[x]
    /\ k \notin ComponentWakes(o, w, w2)

LEMMA UnwokenSelf ==
    ASSUME NEW k, NEW o, NEW w, NEW w2, Unwoken(k, o, w, w2)
    PROVE  k \in Objects /\ k # o /\ w2[k] = w[k]
BY DEF Unwoken, ComponentWakes, ComponentKeys

\* A component is queued when its Service changes.
LEMMA UnwokenService ==
    ASSUME NEW k, NEW o, NEW w, NEW w2, Unwoken(k, o, w, w2), KindOf[k] \in Templated, WellFormed(k, w[k]),
           w[k] # Absent, w[k].of # Nil
    PROVE  w[k].of \in Objects /\ w[k].of # o /\ w2[w[k].of] = w[w[k].of]
<1> DEFINE of == w[k].of
<1>1. k \in Objects /\ w2[k] = w[k]
    BY UnwokenSelf
<1>2. of \in Objects /\ KindOf[of] = "Service"
    BY DEF WellFormed, LabelSpec, ServiceObjects
<1>3. k \notin Dependents(o, w2)
    BY DEF Unwoken, ComponentWakes
<1>4. KindOf[k] \notin {"Storage", "Tenant"}
    BY DEF Templated
<1>5. of # o
    BY <1>1, <1>2, <1>3, <1>4 DEF Dependents, Unwoken
<1> QED
    BY <1>2, <1>5 DEF Unwoken

\* What a reconcile reads first is covered.
LEMMA UnwokenBegin ==
    ASSUME NEW k, NEW o, NEW w, NEW w2, Unwoken(k, o, w, w2), WellFormed(k, w[k]),
           KindOf[k] \in Templated \cup {"Storage"}
    PROVE  ComponentBegin(k, w2) = ComponentBegin(k, w)
<1>1. k \in Objects /\ w2[k] = w[k]
    BY UnwokenSelf
<1>2. Skipped(k, w2) <=> Skipped(k, w)
    BY <1>1 DEF Skipped
<1>3. CASE w[k] = Absent \/ Skipped(k, w) \/ KindOf[k] = "Storage"
    BY <1>1, <1>2, <1>3 DEF ComponentBegin
<1>4. CASE w[k] # Absent /\ ~Skipped(k, w) /\ KindOf[k] # "Storage"
    <2>1. KindOf[k] \in Templated /\ w[k].of # Nil
        BY <1>4 DEF Skipped
    <2>2. w2[w[k].of] = w[w[k].of]
        BY <1>4, <2>1, UnwokenService
    <2>3. SetService(k, w2) = SetService(k, w)
        BY <1>1, <2>2 DEF SetService
    <2>4. \A svc : /\ TemplatedBegin(k, svc, w2) = TemplatedBegin(k, svc, w)
                   /\ CompactorBegin(k, svc, w2) = CompactorBegin(k, svc, w)
        BY <1>1 DEF TemplatedBegin, CompactorBegin
    <2>5. KindOf[k] # "Tenant"
        BY <2>1 DEF Templated
    <2> QED
        BY <1>1, <1>2, <1>4, <2>3, <2>4, <2>5 DEF ComponentBegin
<1> QED
    BY <1>3, <1>4

\* What is listed of a kind that the controller watches is as it was.
Alike(S, w, w2) == \A x \in S : w2[x] = w[x]

LEMMA UnwokenListing ==
    ASSUME NEW k, NEW o, NEW w, NEW w2, Unwoken(k, o, w, w2), KindOf[k] \in DOMAIN Watches,
           NEW kind \in Watches[KindOf[k]], kind = "Tenant" => KindOf[k] # "Gateway",
           w[k] # Absent, w[k].of # Nil
    PROVE  Listing(w2, kind, w[k].of) = Listing(w, kind, w[k].of) /\ Alike(Listing(w, kind, w[k].of), w, w2)
<1> DEFINE of == w[k].of
<1>1. k \in ComponentKeys /\ w2[k] = w[k]
    BY UnwokenSelf DEF Unwoken
<1>2. ASSUME KindOf[o] = kind, NEW v \in Versions(o, w, w2) PROVE v.of # of
    <2>1. k \notin SameService(o, w, w2)
        BY DEF Unwoken, ComponentWakes
    <2>2. KindOf[k] \in Watchers(kind)
        BY DEF Watchers
    <2>3. KindOf[k] \notin Filtered(o, w, w2)
        BY <1>2 DEF Filtered
    <2> QED
        BY <1>1, <1>2, <2>1, <2>2, <2>3 DEF SameService
<1>3. o \notin Listing(w, kind, of) /\ o \notin Listing(w2, kind, of)
    BY <1>2 DEF Listing, Versions
<1>4. \A x \in Objects \ {o} : w2[x] = w[x]
    BY DEF Unwoken
<1>5. \A x : x \in Listing(w2, kind, of) <=> x \in Listing(w, kind, of)
    BY <1>3, <1>4 DEF Listing
<1>6. Alike(Listing(w, kind, of), w, w2)
    BY <1>3, <1>4 DEF Listing, Alike
<1> QED
    BY <1>5, <1>6

\* The users' Secret is as it was, or new.
UsersKept(w, w2) == w[Users] = Absent \/ w2[Users] = w[Users]

LEMMA WebKept ==
    ASSUME NEW w, NEW w2, UsersKept(w, w2), NEW kind, NEW cr, NEW args, NEW rest
    PROVE  WebWorkload(kind, cr, w, args, rest) \in {Error, WebWorkload(kind, cr, w2, args, rest)}
<1>1. webConfigSecret(cr, w) \in {Error, webConfigSecret(cr, w2)}
    BY DEF webConfigSecret, CreateWebConfig, UsersKept
<1> QED
    BY <1>1 DEF WebWorkload

LEMMA TargetKept ==
    ASSUME NEW w, NEW w2, UsersKept(w, w2), NEW t
    PROVE  ExternalTarget(t, w) \in {Error, ExternalTarget(t, w2)}
BY DEF ExternalTarget, UsersKept

LEMMA HashringsKept ==
    ASSUME NEW w, NEW w2, NEW cr, w2[cr.of] = w[cr.of],
           Listing(w2, "Ingester", cr.of) = Listing(w, "Ingester", cr.of), Alike(Listing(w, "Ingester", cr.of), w, w2)
    PROVE  hashringsConfigMap(cr, w2) = hashringsConfigMap(cr, w)
<1> DEFINE L == Listing(w, "Ingester", cr.of)
           A == {j \in L : w[j].tenants # {}}
           B == {j \in L : w[j].tenants = {} /\ w[j].soft}
<1>1. \A i \in L : w2[i] = w[i] /\ w[i].of = cr.of
    BY DEF Alike, Listing
<1>2. \A i \in L : Address(i, w2) = Address(i, w)
    BY <1>1 DEF Address
<1>3. A = {j \in L : w2[j].tenants # {}} /\ B = {j \in L : w2[j].tenants = {} /\ w2[j].soft}
    BY <1>1
<1> HIDE DEF L
<1>4. {[tenants |-> w2[i].tenants, endpoints |-> Address(i, w2)] : i \in A} =
      {[tenants |-> w[i].tenants, endpoints |-> Address(i, w)] : i \in A}
    <2>1. \A i \in A : w2[i] = w[i] /\ Address(i, w2) = Address(i, w)
        BY <1>1, <1>2
    <2> HIDE DEF A
    <2> QED
        BY <2>1
<1>5. UNION {Address(i, w2) : i \in B} = UNION {Address(i, w) : i \in B}
    <2>1. \A i \in B : Address(i, w2) = Address(i, w)
        BY <1>2
    <2> HIDE DEF B
    <2> QED
        BY <2>1
<1> DEFINE R == {[tenants |-> w[i].tenants, endpoints |-> Address(i, w)] : i \in A}
           S == UNION {Address(i, w) : i \in B}
           R2 == {[tenants |-> w2[i].tenants, endpoints |-> Address(i, w2)] : i \in {j \in L : w2[j].tenants # {}}}
           S2 == UNION {Address(i, w2) : i \in {j \in L : w2[j].tenants = {} /\ w2[j].soft}}
<1>6. R2 = R /\ S2 = S
    BY <1>3, <1>4, <1>5
<1>7. hashringsConfigMap(cr, w) =
         IF L # {} /\ w[cr.of] = Absent THEN Error ELSE [rings |-> R, softs |-> S]
    BY DEF hashringsConfigMap, L
<1>8. hashringsConfigMap(cr, w2) =
         IF L # {} /\ w2[cr.of] = Absent THEN Error ELSE [rings |-> R2, softs |-> S2]
    BY DEF hashringsConfigMap, L
<1> HIDE DEF R, S, R2, S2
<1> QED
    BY <1>6, <1>7, <1>8

LEMMA EndpointsKept ==
    ASSUME NEW w, NEW w2, NEW svc,
           \A kind \in QueryWatches : Listing(w2, kind, svc) = Listing(w, kind, svc) /\ Alike(Listing(w, kind, svc), w, w2)
    PROVE  Endpoints(svc, w2) = Endpoints(svc, w)
<1> DEFINE L == Listing(w, "Store", svc) \cup Listing(w, "Ruler", svc)
           L2 == Listing(w2, "Store", svc) \cup Listing(w2, "Ruler", svc)
<1>1. Listing(w2, "Ingester", svc) = Listing(w, "Ingester", svc) /\ L2 = L /\ \A x \in L : w2[x] = w[x]
    BY DEF QueryWatches, Alike
<1>2. \A x \in L : Partitions(x, w2) = Partitions(x, w)
    BY <1>1 DEF Partitions
<1>3. Endpoints(svc, w) =
        {<<i, 0>> : i \in Listing(w, "Ingester", svc)} \cup UNION {{<<x, p>> : p \in Partitions(x, w)} : x \in L}
    BY DEF Endpoints
<1>4. Endpoints(svc, w2) =
        {<<i, 0>> : i \in Listing(w2, "Ingester", svc)} \cup UNION {{<<x, p>> : p \in Partitions(x, w2)} : x \in L2}
    BY DEF Endpoints
<1> HIDE DEF L, L2
<1>5. UNION {{<<x, p>> : p \in Partitions(x, w2)} : x \in L} = UNION {{<<x, p>> : p \in Partitions(x, w)} : x \in L}
    BY <1>2
<1> QED
    BY <1>1, <1>3, <1>4, <1>5

LEMMA QueryKept ==
    ASSUME NEW w, NEW w2, UsersKept(w, w2), NEW cr, w2[cr.of] = w[cr.of],
           \A kind \in QueryWatches :
              Listing(w2, kind, cr.of) = Listing(w, kind, cr.of) /\ Alike(Listing(w, kind, cr.of), w, w2)
    PROVE  QueryDeployment(cr, w) \in {Error, QueryDeployment(cr, w2)}
<1> DEFINE E(x) == SetToSeq({<<"--endpoint", e>> : e \in Endpoints(cr.of, x)})
           Base == <<<<"--log.level", "info">>, <<"--store.sd-files", "file">>>>
           Bad(x) == \/ Listing(x, "Ingester", cr.of) # {} /\ x[cr.of] = Absent
                     \/ CAVolumes(cr) = Error
<1>1. Endpoints(cr.of, w2) = Endpoints(cr.of, w) /\ Listing(w2, "Ingester", cr.of) = Listing(w, "Ingester", cr.of)
    BY EndpointsKept DEF QueryWatches
<1>2. E(w2) = E(w) /\ (Bad(w2) <=> Bad(w))
    BY <1>1
<1>3. \A x : QueryDeployment(cr, x) =
                IF Bad(x) THEN Error ELSE WebWorkload("Query", cr, x, Base \o E(x), CAVolumes(cr))
    BY DEF QueryDeployment
<1> HIDE DEF E, Bad, Base
<1>4. WebWorkload("Query", cr, w, Base \o E(w), CAVolumes(cr)) \in
         {Error, WebWorkload("Query", cr, w2, Base \o E(w), CAVolumes(cr))}
    BY WebKept
<1> QED
    BY <1>2, <1>3, <1>4

LEMMA AddressKept ==
    ASSUME NEW w, NEW w2, NEW svc, w2[svc] = w[svc], NEW kind,
           Listing(w2, kind, svc) = Listing(w, kind, svc), Alike(Listing(w, kind, svc), w, w2)
    PROVE  AddressOf(kind, svc, w2) = AddressOf(kind, svc, w)
<1> DEFINE all == Listing(w, kind, svc)
           one == CHOOSE x \in all : TRUE
<1>1. all # {} => w2[one] = w[one]
    BY DEF Alike
<1>2. all # {} => BaseURL(one, w2) = BaseURL(one, w)
    BY <1>1 DEF BaseURL
<1> QED
    BY <1>2 DEF AddressOf

LEMMA FrontendKept ==
    ASSUME NEW w, NEW w2, UsersKept(w, w2), NEW cr, w2[cr.of] = w[cr.of],
           \A kind \in QueryFrontendWatches :
              Listing(w2, kind, cr.of) = Listing(w, kind, cr.of) /\ Alike(Listing(w, kind, cr.of), w, w2)
    PROVE  QueryFrontendDeployment(cr, w) \in {Error, QueryFrontendDeployment(cr, w2)}
<1> DEFINE A(addr) == ClientConfig("--query-frontend.downstream-tripper-config", addr)
                      \o <<<<"--query-frontend.downstream-url", addr>>, <<"--log.level", "info">>>>
           H(x) == GetTenantHash(Listing(x, "Tenant", cr.of), x)
<1>1. queryAddress(cr.of, w2) = queryAddress(cr.of, w)
    BY AddressKept DEF queryAddress, QueryFrontendWatches
<1>2. H(w2) = H(w)
    BY DEF GetTenantHash, QueryFrontendWatches, Alike
<1>3. \A x : QueryFrontendDeployment(cr, x) =
                IF queryAddress(cr.of, x) \in {Nil, Error} THEN Error
                ELSE WebWorkload("QueryFrontend", cr, x, A(queryAddress(cr.of, x)), H(x))
    BY DEF QueryFrontendDeployment
<1> HIDE DEF A, H
<1>4. WebWorkload("QueryFrontend", cr, w, A(queryAddress(cr.of, w)), H(w)) \in
         {Error, WebWorkload("QueryFrontend", cr, w2, A(queryAddress(cr.of, w)), H(w))}
    BY WebKept
<1> QED
    BY <1>1, <1>2, <1>3, <1>4

LEMMA GatewayKept ==
    ASSUME NEW w, NEW w2, UsersKept(w, w2), NEW cr, NEW svc, w2[cr.of] = w[cr.of],
           \A kind \in {"Query", "QueryFrontend", "Router"} :
              Listing(w2, kind, cr.of) = Listing(w, kind, cr.of) /\ Alike(Listing(w, kind, cr.of), w, w2)
    PROVE  GatewayDeployment(cr, svc, w) \in {Error, GatewayDeployment(cr, svc, w2)}
<1>1. /\ queryfrontendAddress(cr.of, w2) = queryfrontendAddress(cr.of, w)
      /\ queryAddress(cr.of, w2) = queryAddress(cr.of, w)
      /\ AddressOf("Router", cr.of, w2) = AddressOf("Router", cr.of, w)
    BY AddressKept DEF queryfrontendAddress, queryAddress
<1>2. remoteWriteAddress(cr.of, w2) = remoteWriteAddress(cr.of, w)
    BY <1>1 DEF remoteWriteAddress
<1>3. QueryArgs(cr, svc, w) \in {Error, QueryArgs(cr, svc, w2)}
    <2> DEFINE frontend == queryfrontendAddress(cr.of, w)
               query == queryAddress(cr.of, w)
               addr == IF frontend = Nil THEN query ELSE frontend
               Far(r) == RemoteArgs(r)
                         \o <<<<"--rules-query.address", query>>>> \o ClientConfig("--rules-query.config", addr)
               Near == <<<<"--query.address", addr>>>> \o ClientConfig("--query.config", addr)
               Bad == Error \in {frontend, query} \/ addr = Nil
    <2>1. \A x \in {w, w2} :
             QueryArgs(cr, svc, x) =
                IF Bad \/ (svc.remote # Nil /\ ExternalTarget(svc.remote, x) = Error) THEN Error
                ELSE IF svc.remote # Nil THEN Far(ExternalTarget(svc.remote, x)) ELSE Near
        BY <1>1 DEF QueryArgs
    <2> HIDE DEF Far, Near, Bad
    <2>2. ExternalTarget(svc.remote, w) \in {Error, ExternalTarget(svc.remote, w2)}
        BY TargetKept
    <2> QED
        BY <2>1, <2>2
<1>4. WriteArgs(cr, svc, w) \in {Error, WriteArgs(cr, svc, w2)}
    <2> DEFINE router == remoteWriteAddress(cr.of, w)
               T(x) == {ExternalTarget(t, x) : t \in svc.writes}
               Out(s) == <<<<"--remote-write.address", router>>, <<"--external-remote-writes.config", s>>>>
    <2>1. \A x \in {w, w2} :
             WriteArgs(cr, svc, x) = IF router = Error \/ Error \in T(x) THEN Error ELSE Out(T(x))
        BY <1>2 DEF WriteArgs
    <2>2. \A t \in svc.writes : ExternalTarget(t, w) \in {Error, ExternalTarget(t, w2)}
        BY TargetKept
    <2>3. Error \in T(w) \/ T(w2) = T(w)
        BY <2>2
    <2> HIDE DEF router, T, Out
    <2> QED
        BY <2>1, <2>3
<1> DEFINE admission == IF cr.admission THEN <<<<"--tenant.admission-control-config-file", "file">>>> ELSE <<>>
           A(q, t) == <<<<"--log.level", "info">>>> \o admission \o q \o t
           plain == [cr EXCEPT !.flags = <<>>]
<1>5. \A x : GatewayDeployment(cr, svc, x) =
                IF Error \in {QueryArgs(cr, svc, x), WriteArgs(cr, svc, x)} THEN Error
                ELSE WebWorkload("Gateway", plain, x, A(QueryArgs(cr, svc, x), WriteArgs(cr, svc, x)), Nil)
    BY DEF GatewayDeployment
<1> HIDE DEF A, plain
<1>6. \A args : WebWorkload("Gateway", plain, w, args, Nil) \in {Error, WebWorkload("Gateway", plain, w2, args, Nil)}
    BY WebKept
<1> QED
    BY <1>3, <1>4, <1>5, <1>6

LEMMA StorageKept ==
    ASSUME NEW k, NEW o, NEW w, NEW w2, Unwoken(k, o, w, w2), KindOf[k] = "Storage", w[k] # Absent, SecretSpec(w[k])
    PROVE  GetStorageConfig(k, w2) = GetStorageConfig(k, w)
<1>1. k \in Objects /\ w2[k] = w[k]
    BY UnwokenSelf
<1>2. w[k].secret # Nil => w[k].secret \in Objects \ {o}
    <2>1. k \notin Dependents(o, w2) /\ k \in ComponentKeys
        BY DEF Unwoken, ComponentWakes
    <2>2. ASSUME KindOf[o] = "Secret" PROVE w[k].secret # o
        BY <1>1, <2>1, <2>2 DEF Dependents
    <2> QED
        BY <2>2 DEF SecretSpec, SecretObjects
<1>3. w[k].secret # Nil => w2[w[k].secret] = w[w[k].secret]
    BY <1>2 DEF Unwoken
<1> QED
    BY <1>1, <1>3 DEF GetStorageConfig

\* A reconcile that goes on works for the Service of its label.
LEMMA BeginLabel ==
    ASSUME NEW k, KindOf[k] \in Templated, NEW w, WellFormed(k, w[k]), ComponentBegin(k, w) \notin {Nothing, Error}
    PROVE  w[k] # Absent /\ w[k].of # Nil /\ ComponentBegin(k, w).cr.of = w[k].of
<1> DEFINE v == w[k]
           svc == w[v.of]
           t == ApplyDefaults(svc.tmpl[KindOf[k]], KindOf[k])
<1>1. v # Absent /\ v.of # Nil
    BY DEF ComponentBegin, Skipped, Templated
<1>2. "of" \in DOMAIN v
    BY <1>1 DEF WellFormed, LabelSpec
<1>3. SetService(k, w) = svc
    BY DEF ComponentBegin, SetService, Templated
<1>4. ComponentBegin(k, w) = [raw |-> v, svc |-> svc, cr |-> Merge(v, t)]
    BY <1>3 DEF ComponentBegin, TemplatedBegin, CompactorBegin, Templated
<1> HIDE DEF t, v
<1>5. Merge(v, t).of = v.of
    BY <1>2 DEF Merge
<1>6. ComponentBegin(k, w).cr = Merge(v, t)
    BY <1>4
<1> QED
    BY <1>1, <1>5, <1>6 DEF v

\* What a direct function reads is covered, but for what it returned an error without.
LEMMA UnwokenBuild ==
    ASSUME NEW k, NEW o, NEW w, NEW w2, Unwoken(k, o, w, w2), UsersKept(w, w2), WellFormed(k, w[k]),
           KindOf[k] = "Storage" /\ w[k] # Absent => SecretSpec(w[k]),
           NEW i \in DOMAIN FunctionTable[k], ComponentDirect(k, i),
           NEW s, s = ComponentBegin(k, w), s \notin {Nothing, Error}, NEW c
    PROVE  ComponentBuild(k, i, s, w, c) \in {Error, ComponentBuild(k, i, s, w2, c)}
<1> DEFINE kind == KindOf[k]
           f == Function(k, i)
           B(x) == ComponentBuild(k, i, s, x, c)
<1>1. k \in ComponentKeys /\ kind \in Kinds \ {"Service", "Secret"} /\ FunctionTable[k] = ResourceFunctions(kind)
    BY ObjectsAssumption DEF ComponentKeys, FunctionTable, Unwoken
<1>2. kind \in KindsWith(f)
    BY <1>1, NamesOf DEF Function
<1>3. f \in {"hashringsConfigMap", "proxyConfigMap", "storesConfigMap", "cacheConfigConfigMap", "status", "recycle",
             "hash", "deployment", "service"}
    BY <1>2 DEF ComponentDirect, KindsWith
<1>4. CASE f \in {"proxyConfigMap", "storesConfigMap", "cacheConfigConfigMap", "status", "recycle"}
    BY <1>4 DEF ComponentBuild
<1>5. CASE f = "service"
    <2>1. kind \in {"Router", "Ingester", "Query", "QueryFrontend", "Gateway", "Store", "Ruler", "Storage"}
        BY <1>2, <1>5 DEF KindsWith
    <2> QED
        BY <1>5, <2>1 DEF ComponentBuild
<1>6. CASE kind = "Storage" /\ f \in {"hash", "deployment"}
    <2>1. w[k] # Absent
        BY <1>6 DEF ComponentBegin
    <2>2. GetStorageConfig(k, w2) = GetStorageConfig(k, w)
        BY <1>6, <2>1, StorageKept
    <2>3. CASE f = "hash"
        <3>1. \A x : B(x) = updateHashAnnotation(k, s.raw, x, c)
            BY <2>3 DEF ComponentBuild
        <3> QED
            BY <2>2, <3>1 DEF updateHashAnnotation, GetStorageHash
    <2>4. CASE f = "deployment"
        <3>1. \A x : B(x) = BlockManagerDeployment(k, s.raw, x, c)
            BY <1>6, <2>4 DEF ComponentBuild
        <3> QED
            BY <2>2, <3>1 DEF BlockManagerDeployment
    <2> QED
        BY <1>6, <2>3, <2>4
<1>7. CASE kind \in {"Router", "Query", "QueryFrontend", "Gateway"} /\ f \in {"hashringsConfigMap", "deployment"}
    <2> DEFINE of == s.cr.of
    <2>1. kind \in Templated
        BY <1>7 DEF Templated, Kinds
    <2>2. w[k] # Absent /\ w[k].of # Nil /\ of = w[k].of
        BY <2>1, BeginLabel
    <2>3. w2[of] = w[of]
        BY <2>1, <2>2, UnwokenService
    <2>4. kind \in DOMAIN Watches
        BY <1>7 DEF Watches
    <2>5. \A x \in Watches[kind] : (x = "Tenant" => kind # "Gateway") =>
             Listing(w2, x, of) = Listing(w, x, of) /\ Alike(Listing(w, x, of), w, w2)
        BY <2>2, <2>4, UnwokenListing
    <2>6. CASE kind = "Router"
        <3>1. "Ingester" \in Watches[kind]
            BY <2>6 DEF Watches, RouterWatches
        <3>2. CASE f = "hashringsConfigMap"
            <4>1. \A x : B(x) = hashringsConfigMap(s.cr, x)
                BY <3>2 DEF ComponentBuild
            <4>2. hashringsConfigMap(s.cr, w2) = hashringsConfigMap(s.cr, w)
                BY <2>3, <2>5, <3>1, HashringsKept
            <4> QED
                BY <4>1, <4>2
        <3>3. CASE f = "deployment"
            <4>1. \A x : B(x) = RouterDeployment(s.cr, x)
                BY <2>6, <3>3 DEF ComponentBuild
            <4>2. RouterDeployment(s.cr, w) \in {Error, RouterDeployment(s.cr, w2)}
                BY WebKept DEF RouterDeployment
            <4> QED
                BY <4>1, <4>2
        <3> QED
            BY <1>7, <3>2, <3>3
    <2>7. CASE kind = "Query"
        <3>1. QueryWatches = Watches[kind] /\ f = "deployment"
            BY <1>2, <1>7, <2>7 DEF Watches, KindsWith
        <3>2. \A x : B(x) = QueryDeployment(s.cr, x)
            BY <2>7, <3>1 DEF ComponentBuild
        <3>3. QueryDeployment(s.cr, w) \in {Error, QueryDeployment(s.cr, w2)}
            BY <2>3, <2>5, <2>7, <3>1, QueryKept
        <3> QED
            BY <3>2, <3>3
    <2>8. CASE kind = "QueryFrontend"
        <3>1. QueryFrontendWatches = Watches[kind] /\ f = "deployment"
            BY <1>2, <1>7, <2>8 DEF Watches, KindsWith
        <3>2. \A x : B(x) = QueryFrontendDeployment(s.cr, x)
            BY <2>8, <3>1 DEF ComponentBuild
        <3>3. QueryFrontendDeployment(s.cr, w) \in {Error, QueryFrontendDeployment(s.cr, w2)}
            BY <2>3, <2>5, <2>8, <3>1, FrontendKept
        <3> QED
            BY <3>2, <3>3
    <2>9. CASE kind = "Gateway"
        <3>1. {"Query", "QueryFrontend", "Router"} \subseteq Watches[kind] /\ f = "deployment"
            BY <1>2, <1>7, <2>9 DEF Watches, GatewayWatches, KindsWith
        <3>2. \A x : B(x) = GatewayDeployment(s.cr, s.svc, x)
            BY <2>9, <3>1 DEF ComponentBuild
        <3>3. GatewayDeployment(s.cr, s.svc, w) \in {Error, GatewayDeployment(s.cr, s.svc, w2)}
            BY <2>3, <2>5, <3>1, GatewayKept
        <3> QED
            BY <3>2, <3>3
    <2> QED
        BY <1>7, <2>6, <2>7, <2>8, <2>9
<1> QED
    BY <1>2, <1>3, <1>4, <1>5, <1>6, <1>7 DEF KindsWith

\* The world has all objects, and Storages name Secrets, as they are stored and as
\* they were read.
StorageSecrets ==
    /\ world = [o \in Objects |-> world[o]]
    /\ \A o \in Objects : KindOf[o] = "Storage" /\ world[o] # Absent => SecretSpec(world[o])
    /\ \A k \in Keys : KindOf[k] = "Storage" /\ at[k] > 0 => SecretSpec(snap[k].raw)

\* What a reconcile writes to an object: no Secret, and to a Storage what it read of
\* it with another hash.
LEMMA WritePuts ==
    ASSUME Instance, TypeOK, StorageSecrets, NEW k \in Keys, Write(k), world' # world
    PROVE  \E o \in Objects : \E r :
              /\ Put(o, r) /\ KindOf[o] # "Secret"
              /\ KindOf[o] = "Storage" => o = k /\ \E x : r = [snap[k].raw EXCEPT !.hash = x]
<1> DEFINE i == at[k]
           s == snap[k]
           o == Target(k, i)
           c == Content(k, i)
           f == Function(k, i)
           p == Part(k, i)
<1>1. i \in Functions(k)
    BY KeysAssumption DEF Write, TypeOK, Functions
<1>2. k \in ComponentKeys /\ i \in DOMAIN FunctionTable[k] /\ KindOf[k] \in Kinds \ {"Service", "Secret"}
    BY <1>1, FunctionsInTable
<1>3. PICK r : /\ r = ComponentBuild(k, i, s, world, c) /\ r # Error
               /\ \/ o = Owned /\ Store(k, r)
                  \/ o # Owned /\ Put(o, r) /\ UNCHANGED owned
    BY DEF Write, Result, Instance
<1>4. o # Owned /\ Put(o, r)
    BY <1>3 DEF Store
<1>5. o \in Objects /\ c = world[o] /\ o = ComponentTarget(k, i)
    BY <1>1, <1>4, KeysAssumption DEF Content, Instance
<1>6. r # c
    <2> HIDE DEF o
    <2> QED
        BY <1>4, <1>5 DEF Put, StorageSecrets
<1>7. KindOf[k] \in KindsWith(f) /\ (f \in {"update", "create"} => p + 1 \in DOMAIN Places)
    BY <1>2, NamesOf DEF Function, Part, FunctionTable
<1>8. CASE f \in {"status", "recycle", "finalizer"}
    <2>1. o = k /\ KindOf[k] \in {"Ingester", "Tenant"}
        BY <1>5, <1>7, <1>8 DEF ComponentTarget, KindsWith
    <2> QED
        BY <1>4, <1>5, <2>1
<1>9. CASE f = "hash"
    <2>1. o = k /\ KindOf[k] = "Storage"
        BY <1>5, <1>7, <1>9 DEF ComponentTarget, KindsWith
    <2>2. r = updateHashAnnotation(k, s.raw, world, c)
        BY <1>3, <1>9 DEF ComponentBuild
    <2>3. \E x : r = [s.raw EXCEPT !.hash = x]
        BY <1>3, <1>6, <2>2 DEF updateHashAnnotation
    <2> HIDE DEF o, s
    <2> QED
        BY <1>4, <1>5, <2>1, <2>3 DEF s
<1>10. CASE f \in {"update", "create"}
    <2> DEFINE q == p + 1
    <2>1. o = Places[q].name /\ q \in DOMAIN Places
        BY <1>5, <1>7, <1>10 DEF ComponentTarget
    <2> HIDE DEF q, o
    <2>2. KindOf[o] = "Store"
        BY <2>1, ObjectsAssumption
    <2> QED
        BY <1>4, <1>5, <2>2
<1>11. f \in {"status", "recycle", "hash", "finalizer", "update", "create"}
    BY <1>4, <1>5 DEF ComponentTarget
<1> QED
    BY <1>8, <1>9, <1>10, <1>11

LEMMA EditPuts ==
    ASSUME Instance, FlagInv, NEW e \in open, Edit(e)
    PROVE  \E s \in Scenes : e \in s.edits /\ e.on \in Objects /\ ComponentMay(e, world[e.on])
                             /\ Put(e.on, ComponentChange(e, world[e.on]))
<1>1. PICK s \in Scenes : open \subseteq s.edits
    BY DEF FlagInv, OpenEdits
<1> QED
    BY <1>1, EditsAssumption DEF Edit, Instance

LEMMA WorldChanges ==
    ASSUME [Next]_vars, world' # world
    PROVE  (\E e \in open : Edit(e)) \/ (\E k \in Keys : Write(k))
BY DEF Next, Work, Start, Stop, Fail, Collect, Lose, Restart, vars

LEMMA InitStorages == Init => StorageSecrets
<1> SUFFICES ASSUME Init PROVE StorageSecrets
    OBVIOUS
<1>1. PICK s \in Scenes : world = s.world
    BY DEF Init
<1>2. \A o \in Objects : KindOf[o] = "Storage" /\ world[o] # Absent => SecretSpec(world[o])
    BY <1>1, ScenesAssumption DEF Specified, StorageSpec
<1>3. \A k \in Keys : ~(at[k] > 0)
    BY DEF Init
<1>4. world = [o \in Objects |-> world[o]]
    BY <1>1, ScenesAssumption
<1> QED
    BY <1>2, <1>3, <1>4 DEF StorageSecrets

LEMMA ChangeSecret ==
    ASSUME NEW s \in Scenes, NEW e \in s.edits, KindOf[e.on] = "Storage", NEW v, v # Absent => SecretSpec(v),
           ComponentMay(e, v), ComponentChange(e, v) # Absent
    PROVE  SecretSpec(ComponentChange(e, v))
<1> DEFINE new == ComponentChange(e, v)
<1>1. CASE e.does = "create"
    BY <1>1, EditsAssumption DEF ComponentChange, Specified, StorageSpec
<1>2. CASE e.does = "delete"
    BY <1>2, EditsAssumption DEF ComponentChange
<1>3. CASE e.does \notin {"create", "delete"}
    <2>1. e.does = "change" /\ ("secret" \in DOMAIN e.set => SecretSpec(e.set))
        BY <1>3, EditsAssumption
    <2>2. SecretSpec(v)
        BY <1>3 DEF ComponentMay
    <2>3. new = [f \in DOMAIN v |-> IF f \in DOMAIN e.set THEN e.set[f] ELSE v[f]]
        BY <2>1 DEF ComponentChange
    <2> HIDE DEF new
    <2>4. "secret" \in DOMAIN new /\ new.secret = IF "secret" \in DOMAIN e.set THEN e.set.secret ELSE v.secret
        BY <2>2, <2>3 DEF SecretSpec
    <2> QED
        BY <2>1, <2>2, <2>4 DEF SecretSpec, new
<1> QED
    BY <1>1, <1>2, <1>3

LEMMA StepStorages ==
    ASSUME Instance, TypeOK, FlagInv, StorageSecrets, [Next]_vars
    PROVE  StorageSecrets'
<1>0. (world = [o \in Objects |-> world[o]])'
    <2>1. CASE world' = world
        BY <2>1 DEF StorageSecrets
    <2>2. ASSUME NEW o \in Objects, NEW v, Put(o, v) PROVE (world = [x \in Objects |-> world[x]])'
        BY <2>2 DEF Put, StorageSecrets
    <2>3. ASSUME world' # world PROVE \E o \in Objects : \E v : Put(o, v)
        BY <2>3, WorldChanges, EditPuts, WritePuts
    <2> QED
        BY <2>1, <2>2, <2>3
<1> DEFINE Stored == \A o \in Objects : KindOf[o] = "Storage" /\ world[o] # Absent => SecretSpec(world[o])
           Seen == \A k \in Keys : KindOf[k] = "Storage" /\ at[k] > 0 => SecretSpec(snap[k].raw)
<1>1. Stored'
    <2>1. CASE world' = world
        BY <2>1 DEF StorageSecrets
    <2>2. ASSUME NEW e \in open, Edit(e) PROVE Stored'
        <3> DEFINE v == world[e.on]
                   new == ComponentChange(e, v)
        <3>1. PICK s \in Scenes : e \in s.edits /\ e.on \in Objects /\ ComponentMay(e, v) /\ Put(e.on, new)
            BY <2>2, EditPuts
        <3>2. KindOf[e.on] = "Storage" /\ new # Absent => SecretSpec(new)
            BY <3>1, ChangeSecret DEF StorageSecrets
        <3> HIDE DEF new
        <3>3. \A o \in Objects : world'[o] = IF o = e.on THEN new ELSE world[o]
            BY <3>1 DEF Put, TypeOK
        <3> QED
            BY <3>2, <3>3 DEF StorageSecrets
    <2>3. ASSUME NEW k \in Keys, Write(k), world' # world PROVE Stored'
        <3>1. PICK o \in Objects : \E r :
                  /\ Put(o, r) /\ KindOf[o] # "Secret"
                  /\ KindOf[o] = "Storage" => o = k /\ \E x : r = [snap[k].raw EXCEPT !.hash = x]
            BY <2>3, WritePuts
        <3>2. PICK r : Put(o, r) /\ (KindOf[o] = "Storage" => o = k /\ \E x : r = [snap[k].raw EXCEPT !.hash = x])
            BY <3>1
        <3>3. KindOf[o] = "Storage" => SecretSpec(r)
            <4> SUFFICES ASSUME KindOf[o] = "Storage" PROVE SecretSpec(r)
                OBVIOUS
            <4>1. SecretSpec(snap[k].raw)
                BY <2>3, <3>2 DEF StorageSecrets, Write
            <4>2. PICK x : r = [snap[k].raw EXCEPT !["hash"] = x]
                BY <3>2
            <4>3. "secret" \in DOMAIN r /\ r.secret = snap[k].raw.secret
                BY <4>1, <4>2, FieldKept DEF SecretSpec
            <4> QED
                BY <4>1, <4>3 DEF SecretSpec
        <3>4. \A q \in Objects : world'[q] = IF q = o THEN r ELSE world[q]
            BY <3>2 DEF Put, TypeOK
        <3> QED
            BY <3>3, <3>4 DEF StorageSecrets
    <2> QED
        BY <2>1, <2>2, <2>3, WorldChanges
<1>2. Seen'
    <2>1. ASSUME UNCHANGED <<at, snap>> PROVE Seen'
        BY <2>1 DEF StorageSecrets
    <2>2. ASSUME NEW k \in Keys, Start(k) PROVE Seen'
        <3>1. PICK s : /\ s = ComponentBegin(k, world) /\ s # Error
                       /\ IF s = Nothing THEN UNCHANGED <<at, snap>>
                          ELSE at' = [at EXCEPT ![k] = 1] /\ snap' = [snap EXCEPT ![k] = s]
            BY <2>2 DEF Start, Instance
        <3>2. KindOf[k] = "Storage" /\ s # Nothing => SecretSpec(s.raw)
            <4> SUFFICES ASSUME KindOf[k] = "Storage", s # Nothing PROVE SecretSpec(s.raw)
                OBVIOUS
            <4>1. world[k] # Absent /\ s = [raw |-> world[k]] /\ k \in Objects
                BY <3>1 DEF ComponentBegin, Instance, ComponentKeys
            <4> QED
                BY <4>1 DEF StorageSecrets
        <3>3. CASE s = Nothing
            BY <2>1, <3>1, <3>3
        <3>4. CASE s # Nothing
            BY <3>1, <3>2, <3>4 DEF StorageSecrets, TypeOK
        <3> QED
            BY <3>3, <3>4
    <2>3. ASSUME NEW k \in Keys, Leave(k) PROVE Seen'
        BY <2>3 DEF Leave, StorageSecrets, TypeOK
    <2>4. ASSUME NEW k \in Keys, Write(k) PROVE Seen'
        <3>1. CASE at' = [at EXCEPT ![k] = @ + 1] /\ UNCHANGED snap
            BY <2>4, <3>1 DEF Write, StorageSecrets, TypeOK
        <3> QED
            BY <2>3, <2>4, <3>1 DEF Write, Advance
    <2>5. ASSUME Restart PROVE Seen'
        BY <2>5 DEF Restart
    <2> QED
        BY <2>1, <2>2, <2>3, <2>4, <2>5 DEF Next, Work, Edit, Stop, Fail, Collect, Lose, vars
<1> QED
    BY <1>0, <1>1, <1>2 DEF StorageSecrets

\* A change that queues the keys it wakes is covered for all others.
LEMMA PutCovered ==
    ASSUME Instance, TypeOK, FlagInv, StorageSecrets, world' # world,
           NEW o \in Objects, NEW v, Put(o, v), o = Users => world[Users] = Absent
    PROVE  Covered
<1>1. world' = [world EXCEPT ![o] = v] /\ world[o] # v
    BY DEF Put, StorageSecrets
<1>2. Keys \cap ComponentWakes(o, world, world') \subseteq queued'
    BY <1>1 DEF Put, Instance
<1>3. UsersKept(world, world') /\ \A x \in Objects \ {o} : world'[x] = world[x]
    BY <1>1, ObjectsAssumption DEF TypeOK, UsersKept
<1> SUFFICES ASSUME NEW k \in DirectKeys \ queued'
             PROVE  /\ Begin(k, world') = Begin(k, world)
                    /\ \A i \in Functions(k) :
                          Direct(k, i) /\ Begin(k, world) \notin {Nothing, Error} =>
                              /\ Target(k, i) # Owned => world'[Target(k, i)] = world[Target(k, i)]
                              /\ Build(k, i, Begin(k, world), world, Content(k, i)) \in
                                    {Error, Build(k, i, Begin(k, world), world', Content(k, i))}
    BY DEF Covered
<1>4. k \in Keys /\ k \in ComponentKeys /\ Unwoken(k, o, world, world')
    BY <1>2, <1>3 DEF DirectKeys, Instance, Unwoken
<1>5. k \in Objects /\ world'[k] = world[k] /\ WellFormed(k, world[k])
    BY <1>4, UnwokenSelf DEF FlagInv, WorldFormed
<1>6. KindOf[k] \in Templated \cup {"Storage"}
    <2>1. KindOf[k] # "Tenant"
        BY DEF DirectKeys, Instance, ComponentDirect
    <2> QED
        BY <1>4, <2>1, ObjectsAssumption DEF ComponentKeys, Templated
<1>7. ComponentBegin(k, world') = ComponentBegin(k, world)
    BY <1>4, <1>5, <1>6, UnwokenBegin
<1>8. ASSUME NEW i \in Functions(k), Direct(k, i), Begin(k, world) \notin {Nothing, Error}
      PROVE  /\ Target(k, i) # Owned => world'[Target(k, i)] = world[Target(k, i)]
             /\ Build(k, i, Begin(k, world), world, Content(k, i)) \in
                   {Error, Build(k, i, Begin(k, world), world', Content(k, i))}
    <2> DEFINE s == Begin(k, world)
               c == Content(k, i)
    <2>1. /\ i \in DOMAIN FunctionTable[k] /\ ComponentDirect(k, i)
          /\ s = ComponentBegin(k, world) /\ s \notin {Nothing, Error}
        BY <1>4, <1>8, TableFunctions DEF Instance
    <2>2. KindOf[k] = "Storage" /\ world[k] # Absent => SecretSpec(world[k])
        BY <1>5 DEF StorageSecrets
    <2>3. ComponentBuild(k, i, s, world, c) \in {Error, ComponentBuild(k, i, s, world', c)}
        <3> HIDE DEF s, c
        <3> QED
            BY <1>3, <1>4, <1>5, <2>1, <2>2, UnwokenBuild
    <2>4. Target(k, i) \in {Owned, k}
        <3>1. Function(k, i) \notin {"update", "create"}
            <4>1. KindOf[k] \in KindsWith(Function(k, i))
                BY <1>4, <2>1, NamesOf, ObjectsAssumption DEF Function, FunctionTable, ComponentKeys
            <4> QED
                BY <1>6, <4>1 DEF KindsWith, Templated
        <3> QED
            BY <3>1 DEF Instance, ComponentTarget
    <2> QED
        BY <1>5, <2>3, <2>4 DEF Instance
<1> QED
    BY <1>7, <1>8 DEF Instance

LEMMA StepCovered ==
    ASSUME Instance, UsersLast, TypeOK, FlagInv, StorageSecrets, [Next]_vars
    PROVE  [Covered]_world
<1> SUFFICES ASSUME world' # world PROVE Covered
    OBVIOUS
<1>1. ASSUME NEW e \in open, Edit(e) PROVE Covered
    <2> DEFINE new == ComponentChange(e, world[e.on])
    <2>1. PICK s \in Scenes : e \in s.edits /\ e.on \in Objects /\ ComponentMay(e, world[e.on]) /\ Put(e.on, new)
        BY <1>1, EditPuts
    <2>2. e.on = Users => world[Users] = Absent
        BY <2>1 DEF UsersLast, ComponentMay
    <2> HIDE DEF new
    <2> QED
        BY <2>1, <2>2, PutCovered
<1>2. ASSUME NEW k \in Keys, Write(k) PROVE Covered
    <2>1. PICK o \in Objects : \E r : Put(o, r) /\ KindOf[o] # "Secret"
        BY <1>2, WritePuts
    <2>2. PICK r : Put(o, r)
        BY <2>1
    <2>3. o # Users
        BY <2>1, ObjectsAssumption
    <2> QED
        BY <2>2, <2>3, PutCovered
<1> QED
    BY <1>1, <1>2, WorldChanges

\* Every read of a direct function, and what a reconcile reads first, is behind a
\* watch of its controller (the SetupWithManager methods and their mapping functions):
\* no edit and no write of another controller changes it without queueing the key, the
\* users' Secret excepted, which nobody watches.
THEOREM WatchesCoverHolds == Instance /\ UsersLast => (Spec => WatchesCover)
<1> SUFFICES ASSUME Instance, UsersLast PROVE Spec => WatchesCover
    OBVIOUS
<1>1. TypeOK /\ FlagInv /\ [Next]_vars => FlagInv'
    BY StepFlags
<1>2. TypeOK /\ FlagInv /\ StorageSecrets /\ [Next]_vars => StorageSecrets'
    BY StepStorages
<1>3. TypeOK /\ FlagInv /\ StorageSecrets /\ [Next]_vars => [Covered]_world
    BY StepCovered
<1>4. [][Covered]_world => WatchesCover
    BY PTL DEF WatchesCover, Covered
<1> QED
    BY <1>1, <1>2, <1>3, <1>4, InitFlags, InitStorages, ReconcilersTypeCorrect, PTL DEF Spec

\* Hence a controller of a component that is neither queued nor running has left what
\* its direct functions maintain as the world wants it, whatever the others do.
THEOREM ComponentsPrompt == Instance /\ UsersLast => (Spec => []Prompt)
BY WatchesCoverHolds, PromptHolds, PTL

-----------------------------------------------------------------------------
(* What the components agree on.                                           *)

\* However edits, reconciles, failures and restarts interleave, when all controllers
\* rest a Query asks exactly the Services that the ingesters, Stores and Rulers of its
\* Service own, ingesters that are retiring excepted (the endpoints of Query.deployment, against Ingester.service,
\* Store.services and Ruler.services).
THEOREM QueriedHolds == Instance /\ PlainScenes /\ UsersLast => (Spec => []Queried)
<1> SUFFICES ASSUME Instance, PlainScenes, UsersLast PROVE Spec => []Queried
    OBVIOUS
<1>1. TypeOK /\ FlagInv /\ [Next]_vars => FlagInv'
    BY StepFlags
<1>2. TypeOK /\ FlagInv /\ WorldPlain /\ [Next]_vars => WorldPlain'
    BY StepPlain
<1>3. TypeOK /\ FlagInv /\ WorldPlain /\ Prompt => Queried
    BY CalmQueried DEF Calm, FlagInv, Queried
<1>4. Init => WorldPlain
    BY InitPlain
<1>5. Spec => []Prompt
    BY ComponentsPrompt
<1> QED
    BY <1>1, <1>2, <1>3, <1>4, <1>5, InitFlags, ReconcilersTypeCorrect, PTL DEF Spec

\* In the same way the addresses for queries and for rules that a query frontend and a
\* gateway are given have the scheme that the component itself serves, with a client
\* configuration exactly for https and for a remote query with credentials, whatever
\* remote query a Service has; but for the rules of a Query whose frontend has another
\* scheme (QueryFrontend.queryAddress and Gateway.deployment, against the probes of
\* Query.deployment and QueryFrontend.deployment).
THEOREM AddressedHolds == Instance /\ PlainScenes /\ UsersLast => (Spec => []Addressed)
<1> SUFFICES ASSUME Instance, PlainScenes, UsersLast PROVE Spec => []Addressed
    OBVIOUS
<1>1. TypeOK /\ FlagInv /\ [Next]_vars => FlagInv'
    BY StepFlags
<1>2. TypeOK /\ FlagInv /\ WorldPlain /\ [Next]_vars => WorldPlain'
    BY StepPlain
<1>3. TypeOK /\ FlagInv /\ WorldPlain /\ Prompt => Addressed
    BY CalmAddressed DEF Calm, FlagInv, Addressed
<1>4. Init => WorldPlain
    BY InitPlain
<1>5. Spec => []Prompt
    BY ComponentsPrompt
<1> QED
    BY <1>1, <1>2, <1>3, <1>4, <1>5, InitFlags, ReconcilersTypeCorrect, PTL DEF Spec

-----------------------------------------------------------------------------
(* Controllers that are not queued, and the hashrings.                     *)

LEMMA WorldPut ==
    ASSUME Instance, TypeOK, FlagInv, StorageSecrets, [Next]_vars, world' # world
    PROVE  \E o \in Objects : \E v : Put(o, v)
BY WorldChanges, EditPuts, WritePuts

\* What the controllers other than Tenant's have read first is what they would read
\* now, and a changed status queues its own ingester.
LEMMA ComponentFollowed ==
    ASSUME Instance, TypeOK, FlagInv, StorageSecrets, [Next]_vars, NEW k \in Keys, KindOf[k] # "Tenant"
    PROVE  Followed(k)
<1>1. k \in ComponentKeys /\ k \in Objects /\ WellFormed(k, world[k]) /\ KindOf[k] \in Templated \cup {"Storage"}
    BY ObjectsAssumption DEF Instance, ComponentKeys, FlagInv, WorldFormed, Templated
<1>2. ASSUME k \notin queued' PROVE Begin(k, world') = Begin(k, world)
    <2>1. CASE world' = world
        BY <2>1
    <2>2. CASE world' # world
        <3>1. PICK o \in Objects : \E v : Put(o, v)
            BY <2>2, WorldPut
        <3>2. PICK v : Put(o, v)
            BY <3>1
        <3>3. world' = [world EXCEPT ![o] = v] /\ world[o] # v
            BY <2>2, <3>2 DEF Put, StorageSecrets
        <3>4. Unwoken(k, o, world, world')
            BY <1>1, <1>2, <3>2, <3>3 DEF Unwoken, Put, Instance, TypeOK
        <3>5. ComponentBegin(k, world') = ComponentBegin(k, world)
            BY <1>1, <3>4, UnwokenBegin
        <3> QED
            BY <3>5 DEF Instance
    <2> QED
        BY <2>1, <2>2
<1>3. ASSUME Write(k), Returns(k, at[k]), Result(k) # Content(k, at[k]) PROVE k \in queued'
    <2>1. Target(k, at[k]) = k /\ Target(k, at[k]) # Owned
        BY <1>1, <1>3, KeysAssumption DEF Instance, ComponentReturns, ComponentTarget
    <2>2. Put(k, Result(k)) /\ Content(k, at[k]) = world[k]
        BY <1>3, <2>1 DEF Write, Content
    <2>3. k \in ComponentWakes(k, world, world')
        BY <1>1 DEF ComponentWakes
    <2> QED
        BY <1>3, <2>2, <2>3 DEF Put, Instance
<1> QED
    BY <1>2, <1>3 DEF Followed

AllSound == \A k \in Keys : KindOf[k] # "Tenant" => Sound(k)

LEMMA InitAllSound == Init => AllSound
BY InitSound DEF AllSound

LEMMA StepAllSound ==
    ASSUME Instance, TypeOK, FlagInv, StorageSecrets, [Next]_vars, AllSound
    PROVE  AllSound'
BY ComponentFollowed, StepSound DEF AllSound

\* The StatefulSet of an ingester has the replicas and keeps the directories of the
\* custom resource as it is, whatever the storage was when it was built; one that is
\* retiring is left as it is.
IngestersBuilt ==
    \A k \in Keys : \A i \in Functions(k) :
        /\ KindOf[k] = "Ingester" /\ Function(k, i) = "statefulSet" /\ Passed(k, i)
        /\ ~Retiring(Begin(k, world).raw)
        => LET s == Begin(k, world)
           IN  owned[k][i].replicas = s.cr.replicas /\ owned[k][i].keep = generateInitContainer(s.cr, s.svc)

LEMMA InitIngesters == Init => IngestersBuilt
BY DEF Init, Listed, IngestersBuilt, Passed

LEMMA StepIngesters ==
    ASSUME Instance, TypeOK, FlagInv, StorageSecrets, AllSound, [Next]_vars, IngestersBuilt
    PROVE  IngestersBuilt'
<1> SUFFICES ASSUME NEW k \in Keys, NEW i \in Functions(k),
                    KindOf[k] = "Ingester", Function(k, i) = "statefulSet", Passed(k, i)',
                    ~Retiring(Begin(k, world').raw)
             PROVE  LET s == Begin(k, world')
                    IN  /\ owned'[k][i].replicas = s.cr.replicas
                        /\ owned'[k][i].keep = generateInitContainer(s.cr, s.svc)
    BY DEF IngestersBuilt, Functions
<1>1. Sound(k) /\ Followed(k) /\ Target(k, i) = Owned
    BY ComponentFollowed DEF AllSound, Instance, ComponentTarget
<1> DEFINE s == Begin(k, world)
<1>2. Begin(k, world') = s
    BY <1>1, StepPassed
<1>3. CASE Passed(k, i) /\ owned'[k][i] = owned[k][i]
    BY <1>2, <1>3 DEF IngestersBuilt
<1>4. CASE owned'[k][i] = Build(k, i, s, world, owned[k][i]) /\ owned'[k][i] # Error
    <2>3. ~Retiring(s.raw)
        BY <1>2
    <2> HIDE DEF s
    <2>1. owned'[k][i] = IngesterStatefulSet(s.cr, s.svc, world)
        BY <1>4, <2>3 DEF Instance, ComponentBuild
    <2>2. owned'[k][i].replicas = s.cr.replicas /\ owned'[k][i].keep = generateInitContainer(s.cr, s.svc)
        BY <1>4, <2>1 DEF IngesterStatefulSet
    <2> QED
        BY <1>2, <2>2
<1> QED
    BY <1>1, <1>3, <1>4, StepPassed

LEMMA NamedHas ==
    ASSUME NEW k \in ComponentKeys
    PROVE  /\ KindOf[k] = "Ingester" => Has(k, "status", 0) /\ Has(k, "statefulSet", 0)
           /\ KindOf[k] = "Router" => Has(k, "hashringsConfigMap", 0)
<1>0. FunctionTable[k] = ResourceFunctions(KindOf[k])
    BY DEF FunctionTable
<1>1. ASSUME KindOf[k] = "Ingester" PROVE Has(k, "status", 0) /\ Has(k, "statefulSet", 0)
    <2> DEFINE n == <<"status", "recycle", "statefulSet", "service">>
    <2>1. FunctionTable[k] = One(n)
        BY <1>0, <1>1 DEF ResourceFunctions
    <2>2. 1 \in DOMAIN n /\ n[1] = "status" /\ 3 \in DOMAIN n /\ n[3] = "statefulSet"
        OBVIOUS
    <2> HIDE DEF n
    <2> QED
        BY <2>1, <2>2, OneHas
<1>2. ASSUME KindOf[k] = "Router" PROVE Has(k, "hashringsConfigMap", 0)
    <2> DEFINE n == <<"hashringsConfigMap", "webConfigSecret", "deployment", "service">>
    <2>1. FunctionTable[k] = One(n)
        BY <1>0, <1>2 DEF ResourceFunctions
    <2>2. 1 \in DOMAIN n /\ n[1] = "hashringsConfigMap"
        OBVIOUS
    <2> HIDE DEF n
    <2> QED
        BY <2>1, <2>2, OneHas
<1> QED
    BY <1>1, <1>2

LEMMA DeployedAt ==
    ASSUME Instance, NEW k \in ComponentKeys, NEW f, NEW p, Has(k, f, p)
    PROVE  \E i \in Functions(k) : Deployed(k, f, p) = owned[k][i] /\ Function(k, i) = f /\ Part(k, i) = p
<1> DEFINE i == CHOOSE n \in Functions(k) : Function(k, n) = f /\ Part(k, n) = p
<1>1. i \in Functions(k) /\ Function(k, i) = f /\ Part(k, i) = p
    BY TableFunctions DEF Has
<1> QED
    BY <1>1 DEF Deployed

\* At rest the status of an ingester has all its tenants.
LEMMA CalmStatus ==
    ASSUME Instance, Calm, NEW k \in Live("Ingester")
    PROVE  world[k].tenants \subseteq {x[1] : x \in world[k].status}
<1> DEFINE s == ComponentBegin(k, world)
           v == world[k]
<1>1. "Ingester" \in Templated
    BY DEF Templated, Kinds
<1>2. k \in ComponentKeys /\ k \in Keys /\ KindOf[k] = "Ingester" /\ Begun(k, world, s)
    BY <1>1, LiveBegun DEF Instance
<1>3. v # Absent /\ s.raw = v /\ {"tenants", "status"} \subseteq DOMAIN v
    BY <1>1, <1>2 DEF Begun, Calm, WorldFormed, WellFormed, Fields, ComponentKeys
<1>4. s.cr.tenants = v.tenants
    BY <1>2, <1>3 DEF Begun
<1>5. PICK i \in Functions(k) : Function(k, i) = "status"
    BY <1>2, NamedHas, TableFunctions DEF Has
<1>6. Direct(k, i) /\ Target(k, i) = k /\ Target(k, i) # Owned
    BY <1>2, <1>5, KeysAssumption DEF Instance, ComponentDirect, ComponentTarget, ComponentKeys
<1>7. Fine(k, i, Begin(k, world))
    BY <1>2, <1>5, <1>6 DEF Calm, Prompt, DirectKeys, AtRest, Live
<1> HIDE DEF s
<1>8. v # Error /\ IngesterStatus(s.cr, s.raw, v) = v
    BY <1>5, <1>6, <1>7 DEF Fine, Content, Instance, ComponentBuild, s
<1> HIDE DEF v
<1> DEFINE kept == {x[1] : x \in v.status}
           desired == {<<t, t \notin v.tenants>> : t \in kept \cup v.tenants}
<1>9. desired = v.status
    <2>1. IngesterStatus(s.cr, s.raw, v) = IF desired = v.status THEN v ELSE [v EXCEPT !.status = desired]
        BY <1>3, <1>4 DEF IngesterStatus
    <2> HIDE DEF desired
    <2> QED
        BY <1>3, <1>8, <2>1
<1>10. ASSUME NEW t \in v.tenants PROVE t \in kept
    <2>1. <<t, t \notin v.tenants>> \in v.status
        BY <1>9
    <2>2. <<t, t \notin v.tenants>>[1] = t
        OBVIOUS
    <2> QED
        BY <2>1, <2>2
<1> QED
    BY <1>10 DEF v

\* The pods of an ingester, as the router is told and as its StatefulSet runs them.
LEMMA CalmPods ==
    ASSUME Instance, Calm, IngestersBuilt, NEW k \in Live("Ingester"), ~Withheld(k)
    PROVE  LET d == Deployed(k, "statefulSet", 0)
           IN  /\ Address(k, world) = {<<k, p>> : p \in 0..(d.replicas - 1)}
               /\ d.keep # Nil => world[k].tenants \subseteq d.keep
<1> DEFINE s == ComponentBegin(k, world)
           v == world[k]
           d == Deployed(k, "statefulSet", 0)
           t == world[v.of].tmpl["Ingester"].replicas
<1>1. "Ingester" \in Templated
    BY DEF Templated, Kinds
<1>2. k \in ComponentKeys /\ k \in Keys /\ KindOf[k] = "Ingester" /\ Begun(k, world, s)
    BY <1>1, LiveBegun DEF Instance
<1>3. PICK i \in Functions(k) : d = owned[k][i] /\ Function(k, i) = "statefulSet"
    BY <1>2, NamedHas, DeployedAt
<1>4. Passed(k, i)
    BY <1>2 DEF Passed, Calm, AtRest, Resting, Live
<1>11. ~Retiring(s.raw)
    BY <1>2 DEF Begun, Withheld
<1>5. d.replicas = s.cr.replicas /\ d.keep = generateInitContainer(s.cr, s.svc)
    BY <1>2, <1>3, <1>4, <1>11 DEF IngestersBuilt, Instance
<1>6. /\ v # Absent /\ v.replicas # 0 /\ "status" \in DOMAIN v
      /\ s.cr.replicas = Overlay(v.replicas, IF t = Nil THEN DefaultReplicas("Ingester") ELSE t)
      /\ s.cr.status = v.status
    <2>1. v # Absent /\ v.replicas # 0 /\ "status" \in DOMAIN v
        BY <1>1, <1>2 DEF Begun, Calm, WorldPlain, Plain, WorldFormed, WellFormed, Fields, ComponentKeys
    <2>2. s.cr.status = v.status
        BY <1>2, <2>1 DEF Begun
    <2> QED
        BY <1>2, <2>1, <2>2 DEF Begun
<1>7. v.tenants \subseteq {x[1] : x \in v.status}
    BY CalmStatus
<1> HIDE DEF s, d
<1>8. s.cr.replicas = IF v.replicas # Nil THEN v.replicas ELSE IF t # Nil THEN t ELSE 2
    BY <1>6 DEF Overlay, DefaultReplicas
<1>9. Address(k, world) = {<<k, p>> : p \in 0..(d.replicas - 1)}
    BY <1>5, <1>8 DEF Address
<1>10. d.keep # Nil => v.tenants \subseteq d.keep
    BY <1>5, <1>6, <1>7 DEF generateInitContainer
<1> QED
    BY <1>9, <1>10 DEF d

LEMMA CalmRouted ==
    ASSUME Instance, Calm, IngestersBuilt
    PROVE  Routed
<1> SUFFICES ASSUME NEW r \in Live("Router")
             PROVE  LET ingesters == {i \in Live("Ingester") : world[i].of = world[r].of}
                        pods(i) == {<<i, p>> : p \in 0..(Deployed(i, "statefulSet", 0).replicas - 1)}
                        tenanted == {i \in ingesters : world[i].tenants # {}}
                        file == Deployed(r, "hashringsConfigMap", 0)
                    IN  /\ file.rings = {[tenants |-> world[i].tenants, endpoints |-> pods(i)] : i \in tenanted}
                        /\ {e \in file.softs : ~Withheld(e[1])} =
                              UNION {pods(i) : i \in {j \in ingesters \ tenanted : world[j].soft /\ ~Withheld(j)}}
                        /\ \A i \in tenanted :
                              LET keep == Deployed(i, "statefulSet", 0).keep
                              IN  keep # Nil => world[i].tenants \subseteq keep
    BY DEF Routed
<1> DEFINE of == world[r].of
           s == ComponentBegin(r, world)
           I == {i \in Live("Ingester") : world[i].of = of}
           pods(i) == {<<i, p>> : p \in 0..(Deployed(i, "statefulSet", 0).replicas - 1)}
           T == {i \in I : world[i].tenants # {}}
           file == Deployed(r, "hashringsConfigMap", 0)
<1>1. {"Ingester", "Router"} \subseteq Templated \ {"Compactor"}
    BY DEF Templated, Kinds
<1>2. r \in ComponentKeys /\ KindOf[r] = "Router" /\ Begun(r, world, s)
    BY <1>1, LiveBegun
<1>3. s.cr.of = of /\ world[of] # Absent
    BY <1>2 DEF Begun
<1>4. I = Listing(world, "Ingester", of)
    BY <1>1, ListedLive
<1>5. PICK n \in Functions(r) : file = owned[r][n] /\ Function(r, n) = "hashringsConfigMap"
    BY <1>2, NamedHas, DeployedAt
<1>6. file # Error /\ file = hashringsConfigMap(s.cr, world)
    <2>1. n \in DOMAIN FunctionTable[r] /\ "Router" \in Templated
        BY <1>1, <1>2, TableFunctions
    <2>2. owned[r][n] # Error /\ owned[r][n] = ComponentBuild(r, n, s, world, owned[r][n])
        BY <1>5, <2>1, LiveBuilt
    <2> HIDE DEF s, file
    <2> QED
        BY <1>5, <2>2 DEF ComponentBuild
<1>7. \A i \in I : ~Withheld(i) =>
                   /\ Address(i, world) = pods(i)
                   /\ Deployed(i, "statefulSet", 0).keep # Nil =>
                         world[i].tenants \subseteq Deployed(i, "statefulSet", 0).keep
    BY CalmPods
<1>12. \A i \in T : ~Withheld(i)
    BY DEF Withheld, Retiring
<1>13. \A i \in I : \A e \in Address(i, world) : e[1] = i
    BY DEF Address
<1> HIDE DEF s, file, of, I
<1> DEFINE rings == {[tenants |-> world[i].tenants, endpoints |-> Address(i, world)] :
                        i \in {j \in I : world[j].tenants # {}}}
           softs == UNION {Address(i, world) : i \in {j \in I : world[j].tenants = {} /\ world[j].soft}}
<1>8. file = [rings |-> rings, softs |-> softs]
    BY <1>3, <1>4, <1>6 DEF hashringsConfigMap
<1>9. rings = {[tenants |-> world[i].tenants, endpoints |-> pods(i)] : i \in T}
    <2>1. \A i \in T : Address(i, world) = pods(i)
        BY <1>7, <1>12
    <2> HIDE DEF pods
    <2> QED
        BY <2>1
<1>10. {e \in softs : ~Withheld(e[1])} = UNION {pods(i) : i \in {j \in I \ T : world[j].soft /\ ~Withheld(j)}}
    <2> DEFINE S == {j \in I \ T : world[j].soft}
    <2>1. {j \in I : world[j].tenants = {} /\ world[j].soft} = S
        OBVIOUS
    <2>2. softs = UNION {Address(i, world) : i \in S}
        BY <2>1
    <2>3. \A i \in S : /\ ~Withheld(i) => Address(i, world) = pods(i)
                      /\ \A e \in Address(i, world) : e[1] = i
        BY <1>7, <1>13
    <2> HIDE DEF pods, S, softs
    <2>4. {e \in softs : ~Withheld(e[1])} = UNION {pods(i) : i \in {j \in S : ~Withheld(j)}}
        BY <2>2, <2>3
    <2>5. {j \in S : ~Withheld(j)} = {j \in I \ T : world[j].soft /\ ~Withheld(j)}
        BY DEF S
    <2> QED
        BY <2>4, <2>5
<1>11. file.rings = rings /\ file.softs = softs
    <2> HIDE DEF rings, softs
    <2> QED
        BY <1>8
<1> QED
    BY <1>7, <1>9, <1>10, <1>11, <1>12 DEF I, of, file

\* When all controllers rest, the hashrings that a router is given are the tenants of
\* each ingester with the pods that the ingester's own StatefulSet runs, and no init
\* container of these deletes the data of a tenant that is routed to it, the pods of
\* ingesters that are retiring excepted
\* (Router.hashringsConfigMap and Ingester.Address, against Ingester.statefulSet, its
\* status and generateInitContainer), whatever edits, failures and restarts came.
THEOREM RoutedHolds == Instance /\ PlainScenes /\ UsersLast => (Spec => []Routed)
<1> SUFFICES ASSUME Instance, PlainScenes, UsersLast PROVE Spec => []Routed
    OBVIOUS
<1>1. TypeOK /\ FlagInv /\ [Next]_vars => FlagInv'
    BY StepFlags
<1>2. TypeOK /\ FlagInv /\ WorldPlain /\ [Next]_vars => WorldPlain'
    BY StepPlain
<1>3. TypeOK /\ FlagInv /\ StorageSecrets /\ [Next]_vars => StorageSecrets'
    BY StepStorages
<1>4. TypeOK /\ FlagInv /\ StorageSecrets /\ AllSound /\ [Next]_vars => AllSound'
    BY StepAllSound
<1>5. TypeOK /\ FlagInv /\ StorageSecrets /\ AllSound /\ IngestersBuilt /\ [Next]_vars => IngestersBuilt'
    BY StepIngesters
<1>6. TypeOK /\ FlagInv /\ WorldPlain /\ IngestersBuilt /\ Prompt => Routed
    BY CalmRouted DEF Calm, FlagInv, Routed
<1>7. Init => WorldPlain
    BY InitPlain
<1>8. Spec => []Prompt
    BY ComponentsPrompt
<1> QED
    BY <1>1, <1>2, <1>3, <1>4, <1>5, <1>6, <1>7, <1>8, InitFlags, InitStorages, InitAllSound, InitIngesters,
       ReconcilersTypeCorrect, PTL DEF Spec

-----------------------------------------------------------------------------
(* Tenants that stay, and the Stores they are told to.                     *)

Name(j) == Places[j].name
Pair(j) == Places[j].place

LEMMA PlaceTyped ==
    ASSUME NEW j \in DOMAIN Places
    PROVE  /\ j \in Nat /\ Len(Places) \in Nat /\ 1 <= j /\ j <= Len(Places)
           /\ Name(j) \in Objects /\ KindOf[Name(j)] = "Store"
           /\ Pair(j)[1] \in ServiceObjects /\ Pair(j)[2] \in StorageObjects
           /\ Pair(j) = <<Pair(j)[1], Pair(j)[2]>>
           /\ \A n \in DOMAIN Places : Name(n) = Name(j) => n = j
<1> DEFINE R == [name : Objects, place : Objects \X Objects]
<1>0. Places \in Seq(R)
    BY ObjectsAssumption
<1> HIDE DEF R
<1>1. Places[j] \in R /\ DOMAIN Places = 1..Len(Places) /\ Len(Places) \in Nat
    BY <1>0, LenProperties
<1>2. Name(j) \in Objects /\ Pair(j) \in Objects \X Objects
    BY <1>1 DEF R, Name, Pair
<1>3. j \in Nat /\ 1 <= j /\ j <= Len(Places)
    BY <1>1
<1> QED
    BY <1>1, <1>2, <1>3, ObjectsAssumption DEF Name, Pair, ServiceObjects, StorageObjects

LEMMA ConcatLen ==
    ASSUME NEW a, NEW b, IsList(a), IsList(b)
    PROVE  IsList(a \o b) /\ Len(a \o b) = Len(a) + Len(b)
<1>1. PICK S : a \in Seq(S) /\ b \in Seq(S)
    BY ListsJoin
<1> QED
    BY <1>1, ConcatProperties DEF IsList

\* Where the functions of a Tenant are: its finalizer, the Store of each place to
\* update and then to create.
UpdateAt(j) == 1 + j
CreateAt(j) == 1 + Len(Places) + j

LEMMA TenantTable ==
    ASSUME Instance, NEW t \in Keys, KindOf[t] = "Tenant"
    PROVE  /\ Size(t) = 1 + Len(Places) + Len(Places) /\ Len(Places) \in Nat
           /\ Function(t, 1) = "finalizer"
           /\ \A j \in DOMAIN Places :
                 /\ Function(t, UpdateAt(j)) = "update" /\ Part(t, UpdateAt(j)) = j - 1
                 /\ Function(t, CreateAt(j)) = "create" /\ Part(t, CreateAt(j)) = j - 1
           /\ \A i \in Functions(t) : i = 1 \/ \E j \in DOMAIN Places : i \in {UpdateAt(j), CreateAt(j)}
<1> DEFINE m == Len(Places)
           a == <<<<"finalizer", 0>>>>
           b == Each("update", m)
           c == Each("create", m)
           ab == a \o b
           all == ab \o c
<1>1. m \in Nat /\ DOMAIN Places = 1..m
    BY ObjectsAssumption, LenProperties
<1>2. t \in ComponentKeys /\ FunctionTable[t] = all
    BY DEF Instance, FunctionTable, ResourceFunctions
<1>3. IsList(a) /\ Len(a) = 1 /\ a[1] = <<"finalizer", 0>>
    <2>1. a \in Seq({<<"finalizer", 0>>})
        OBVIOUS
    <2> QED
        BY <2>1 DEF IsList
<1>4. /\ IsList(b) /\ Len(b) = m /\ \A i \in 1..m : b[i] = <<"update", i - 1>>
      /\ IsList(c) /\ Len(c) = m /\ \A i \in 1..m : c[i] = <<"create", i - 1>>
    BY <1>1, EachNames
<1> HIDE DEF a, b, c, m
<1>5. IsList(ab) /\ Len(ab) = 1 + m /\ \A i \in 1..(1 + m) : ab[i] = IF i <= 1 THEN a[i] ELSE b[i - 1]
    <2>1. IsList(ab) /\ Len(ab) = Len(a) + Len(b)
        BY <1>3, <1>4, ConcatLen
    <2>2. \A i \in 1..(Len(a) + Len(b)) : ab[i] = IF i <= Len(a) THEN a[i] ELSE b[i - Len(a)]
        BY <1>3, <1>4, ConcatList
    <2> HIDE DEF ab
    <2> QED
        BY <1>3, <1>4, <2>1, <2>2
<1> HIDE DEF ab
<1>6. Len(all) = 1 + m + m /\ \A i \in 1..(1 + m + m) : all[i] = IF i <= 1 + m THEN ab[i] ELSE c[i - (1 + m)]
    <2>1. Len(all) = Len(ab) + Len(c)
        BY <1>4, <1>5, ConcatLen
    <2>2. \A i \in 1..(Len(ab) + Len(c)) : all[i] = IF i <= Len(ab) THEN ab[i] ELSE c[i - Len(ab)]
        BY <1>4, <1>5, ConcatList
    <2> HIDE DEF all
    <2> QED
        BY <1>4, <1>5, <2>1, <2>2
<1> HIDE DEF all
<1>8. Size(t) = 1 + m + m /\ Functions(t) = 1..(1 + m + m)
    BY <1>2, <1>6 DEF Functions, Instance, ComponentSize
<1>9. all[1] = <<"finalizer", 0>>
    BY <1>1, <1>3, <1>5, <1>6
<1>10. ASSUME NEW j \in DOMAIN Places
       PROVE  all[1 + j] = <<"update", j - 1>> /\ all[1 + m + j] = <<"create", j - 1>>
    <2>1. j \in 1..m /\ 1 + j \in 1..(1 + m) /\ 1 + j \in 1..(1 + m + m) /\ 1 + m + j \in 1..(1 + m + m)
        BY <1>1
    <2>2. all[1 + j] = b[j]
        BY <1>1, <1>5, <1>6, <2>1
    <2>3. all[1 + m + j] = c[j]
        <3>1. ~(1 + m + j <= 1 + m) /\ (1 + m + j) - (1 + m) = j
            BY <1>1
        <3> QED
            BY <1>6, <2>1, <3>1
    <2> QED
        BY <1>4, <2>1, <2>2, <2>3
<1>11. ASSUME NEW i \in Functions(t), i # 1 PROVE \E j \in DOMAIN Places : i \in {1 + j, 1 + m + j}
    <2>1. CASE i <= 1 + m
        <3>1. i - 1 \in 1..m /\ i = 1 + (i - 1)
            BY <1>1, <1>8, <1>11, <2>1
        <3> QED
            BY <1>1, <3>1
    <2>2. CASE ~(i <= 1 + m)
        <3>1. i - (1 + m) \in 1..m /\ i = 1 + m + (i - (1 + m))
            BY <1>1, <1>8, <2>2
        <3> QED
            BY <1>1, <3>1
    <2> QED
        BY <2>1, <2>2
<1> QED
    BY <1>1, <1>2, <1>8, <1>9, <1>10, <1>11 DEF Function, Part, UpdateAt, CreateAt, m

\* The tenants of a place that stay.
Together(of, st, w) == GetTenantHash(OfStorage("Tenant", of, st, w), w)

LEMMA TogetherIn ==
    ASSUME NEW of, NEW st, NEW w, NEW t
    PROVE  t \in Together(of, st, w) <=>
              /\ t \in Objects /\ KindOf[t] = "Tenant" /\ w[t] # Absent
              /\ w[t].of = of /\ w[t].storage = st /\ ~w[t].deleting
BY DEF Together, GetTenantHash, OfStorage, Listing

Placed(o, v) == \E j \in DOMAIN Places : Name(j) = o /\ Pair(j) = <<v.of, v.storage>>
TenantKeys == {t \in Keys : KindOf[t] = "Tenant"}

\* Tenants that exist stay; Stores are where they belong and the tenants in their
\* annotation have come; a tenant without its Service waits.
StayInv ==
    /\ \A o \in Objects : world[o] # Error
    /\ \A t \in TenantKeys : world[t] # Absent => StayingTenant(world[t]) /\ world[t].of \in ServiceObjects
    /\ \A t \in TenantKeys : world[t] # Absent /\ world[world[t].of] = Absent => t \in queued
    /\ \A t \in TenantKeys : at[t] > 0 => ~snap[t].raw.deleting
    /\ \A o \in Objects : KindOf[o] = "Store" /\ world[o] # Absent =>
          /\ Placed(o, world[o])
          /\ world[o].hashes = Nil \/ world[o].hashes.tenants \subseteq Together(world[o].of, world[o].storage, world)

\* What an object that changes becomes.
Becomes(o, v) ==
    /\ v # Error /\ v # world[o]
    /\ KindOf[o] = "Tenant" => world[o] = Absent /\ v # Absent /\ StayingTenant(v) /\ v.of \in ServiceObjects
    /\ KindOf[o] = "Service" => v # Absent
    /\ KindOf[o] = "Store" /\ v # Absent =>
          /\ Placed(o, v)
          /\ \/ v.hashes = Nil
             \/ world[o] # Absent /\ v.hashes = world[o].hashes /\ v.of = world[o].of /\ v.storage = world[o].storage
             \/ v.hashes.tenants = Together(v.of, v.storage, world)

LEMMA EditBecomes ==
    ASSUME Instance, TenantsStay(Scenes), TypeOK, FlagInv, StorageSecrets, StayInv,
           NEW e \in open, Edit(e), world' # world
    PROVE  \E o \in Objects : \E v : Put(o, v) /\ Becomes(o, v)
<1> DEFINE o == e.on
           c == world[o]
           v == ComponentChange(e, c)
<1>1. PICK s \in Scenes : e \in s.edits /\ o \in Objects /\ ComponentMay(e, c) /\ Put(o, v)
    BY EditPuts
<1>2. v # c
    BY <1>1 DEF Put, StorageSecrets
<1>3. /\ KindOf[o] = "Tenant" => e.does = "create" /\ StayingTenant(e.set)
      /\ KindOf[o] = "Service" => e.does # "delete"
      /\ KindOf[o] = "Store" =>
            /\ e.does = "create" => PlacedStore(o, e.set)
            /\ e.does = "change" => DOMAIN e.set \cap {"of", "storage", "hashes"} = {}
    BY <1>1 DEF TenantsStay
<1>4. CASE e.does = "create"
    <2>1. v = e.set /\ c = Absent /\ v \notin {Absent, Error} /\ Specified(o, v)
        BY <1>1, <1>4, EditsAssumption DEF ComponentChange, ComponentMay
    <2>2. KindOf[o] = "Tenant" => v.of \in ServiceObjects
        BY <1>3, <2>1 DEF Specified, TenantSpec, LabelSpec, StayingTenant
    <2> HIDE DEF v
    <2>3. Becomes(o, v)
        BY <1>2, <1>3, <1>4, <2>1, <2>2 DEF Becomes, PlacedStore, Placed, Name, Pair
    <2> QED
        BY <1>1, <2>3
<1>5. CASE e.does = "delete"
    <2>1. v = Absent
        BY <1>1, <1>5, EditsAssumption DEF ComponentChange
    <2> HIDE DEF v
    <2>2. Becomes(o, v)
        BY <1>2, <1>3, <1>5, <2>1 DEF Becomes, Instance
    <2> QED
        BY <1>1, <2>2
<1>6. CASE e.does \notin {"create", "delete"}
    <2>1. e.does = "change" /\ c # Absent
        BY <1>1, <1>6, EditsAssumption DEF ComponentMay
    <2>2. v = [f \in DOMAIN c |-> IF f \in DOMAIN e.set THEN e.set[f] ELSE c[f]]
        BY <2>1 DEF ComponentChange
    <2>3. v = [f \in DOMAIN v |-> v[f]]
        BY <2>2
    <2>4. v \notin {Absent, Error}
        <3> HIDE DEF v
        <3> QED
            BY <2>3 DEF Instance
    <2>5. WellFormed(o, c)
        BY <1>1 DEF FlagInv, WorldFormed
    <2>6. ASSUME KindOf[o] = "Store" PROVE v.hashes = c.hashes /\ v.of = c.of /\ v.storage = c.storage
        <3>1. {"hashes", "of", "storage"} \subseteq DOMAIN c
            BY <2>1, <2>5, <2>6 DEF WellFormed, Fields, OnStorage, LabelSpec, StorageLabel, Templated, Kinds
        <3>2. \A f \in {"hashes", "of", "storage"} : f \notin DOMAIN e.set
            BY <1>3, <2>1, <2>6
        <3> HIDE DEF v, c
        <3> QED
            BY <2>2, <3>1, <3>2
    <2>7. KindOf[o] = "Store" => Placed(o, c)
        BY <1>1, <2>1 DEF StayInv
    <2> HIDE DEF v
    <2>8. Becomes(o, v)
        BY <1>2, <1>3, <2>1, <2>4, <2>6, <2>7 DEF Becomes, Placed
    <2> QED
        BY <1>1, <2>8
<1> QED
    BY <1>4, <1>5, <1>6

\* The functions of a Tenant that write a Store, and what they write it from.
LEMMA TenantWrites ==
    ASSUME Instance, TypeOK, NEW t \in TenantKeys, Write(t)
    PROVE  LET i == at[t]
               s == snap[t]
           IN  \/ i = 1 /\ Put(t, RemoveFinalizer(s.raw, world[t])) /\ RemoveFinalizer(s.raw, world[t]) # Error
               \/ \E j \in DOMAIN Places : \E r :
                     /\ Put(Name(j), r) /\ r # Error
                     /\ \/ i = UpdateAt(j) /\ r = UpdateStore(s.listed[j], s.expected, world, world[Name(j)])
                        \/ i = CreateAt(j) /\ r = CreateStore(Pair(j), s.listed[j], s.expected, world, world[Name(j)])
<1> DEFINE i == at[t]
           s == snap[t]
           o == Target(t, i)
           c == Content(t, i)
<1>1. t \in Keys /\ KindOf[t] = "Tenant" /\ t \in Objects
    BY DEF TenantKeys, Instance, ComponentKeys
<1>2. i \in Functions(t)
    BY <1>1, KeysAssumption DEF Write, TypeOK, Functions
<1>3. PICK r : /\ r = ComponentBuild(t, i, s, world, c) /\ r # Error
               /\ \/ o = Owned /\ Store(t, r)
                  \/ o # Owned /\ Put(o, r) /\ UNCHANGED owned
    BY DEF Write, Result, Instance
<1> HIDE DEF s
<1>4. CASE i = 1
    <2>1. Function(t, i) = "finalizer"
        BY <1>1, <1>4, TenantTable
    <2>2. o = t /\ o # Owned
        BY <1>1, <2>1, KeysAssumption DEF Instance, ComponentTarget
    <2>3. c = world[t] /\ r = RemoveFinalizer(s.raw, c)
        BY <1>3, <2>1, <2>2 DEF Content, ComponentBuild
    <2> QED
        BY <1>3, <1>4, <2>2, <2>3 DEF s
<1>5. ASSUME NEW j \in DOMAIN Places, i \in {UpdateAt(j), CreateAt(j)}
      PROVE  \E x :
                /\ Put(Name(j), x) /\ x # Error
                /\ \/ i = UpdateAt(j) /\ x = UpdateStore(s.listed[j], s.expected, world, world[Name(j)])
                   \/ i = CreateAt(j) /\ x = CreateStore(Pair(j), s.listed[j], s.expected, world, world[Name(j)])
    <2>0. j \in Nat /\ Name(j) \in Objects
        BY PlaceTyped
    <2>1. /\ i = UpdateAt(j) => Function(t, i) = "update" /\ Part(t, i) = j - 1
          /\ i = CreateAt(j) => Function(t, i) = "create" /\ Part(t, i) = j - 1
        BY <1>1, TenantTable
    <2>2. Part(t, i) + 1 = j /\ Function(t, i) \in {"update", "create"}
        BY <1>5, <2>0, <2>1
    <2>3. o = Name(j) /\ o # Owned
        BY <2>0, <2>2, KeysAssumption DEF Instance, ComponentTarget, Name
    <2>4. c = world[Name(j)]
        BY <2>3 DEF Content
    <2>5. Put(Name(j), r)
        BY <1>3, <2>3
    <2> HIDE DEF o, c
    <2>6. CASE i = UpdateAt(j)
        <3>1. r = UpdateStore(s.listed[j], s.expected, world, c)
            BY <1>3, <2>1, <2>2, <2>6 DEF ComponentBuild
        <3> QED
            BY <1>3, <2>4, <2>5, <2>6, <3>1
    <2>7. CASE i = CreateAt(j)
        <3>1. r = CreateStore(Pair(j), s.listed[j], s.expected, world, c)
            BY <1>3, <2>1, <2>2, <2>7 DEF ComponentBuild, Pair
        <3> QED
            BY <1>3, <2>4, <2>5, <2>7, <3>1
    <2> QED
        BY <1>5, <2>6, <2>7
<1> HIDE DEF i
<1>6. i = 1 \/ \E j \in DOMAIN Places : i \in {UpdateAt(j), CreateAt(j)}
    BY <1>1, <1>2, TenantTable
<1> QED
    BY <1>4, <1>5, <1>6 DEF i, s

LEMMA StoreBecomes ==
    ASSUME Instance, StayInv, NEW j \in DOMAIN Places, NEW listed, NEW expected, NEW r, r # Error,
           r # world[Name(j)],
           \/ r = UpdateStore(listed, expected, world, world[Name(j)])
           \/ r = CreateStore(Pair(j), listed, expected, world, world[Name(j)])
    PROVE  Becomes(Name(j), r)
<1> DEFINE o == Name(j)
           c == world[o]
<1>1. o \in Objects /\ KindOf[o] = "Store" /\ Pair(j) = <<Pair(j)[1], Pair(j)[2]>>
    BY PlaceTyped
<1>2. CASE r = Absent
    BY <1>1, <1>2 DEF Becomes
<1>3. ASSUME r # Absent, r = UpdateStore(listed, expected, world, c) PROVE Becomes(o, r)
    <2> DEFINE h == StoreHashes(listed.of, listed.storage, world)
    <2>1. c = listed /\ c # Absent /\ r = [c EXCEPT !.hashes = h]
        BY <1>3 DEF UpdateStore
    <2>2. Placed(o, c)
        BY <1>1, <2>1 DEF StayInv
    <2>3. h.tenants = Together(c.of, c.storage, world)
        BY <2>1 DEF StoreHashes, Together
    <2> HIDE DEF h
    <2>4. r.of = c.of /\ r.storage = c.storage
        BY <2>1
    <2>5. r.hashes = h \/ r = c
        BY <2>1
    <2> QED
        BY <1>1, <1>3, <2>2, <2>3, <2>4, <2>5 DEF Becomes, Placed
<1>4. ASSUME r # Absent, r = CreateStore(Pair(j), listed, expected, world, c) PROVE Becomes(o, r)
    <2> DEFINE h == StoreHashes(Pair(j)[1], Pair(j)[2], world)
    <2>1. r = NewStore(Pair(j), h)
        BY <1>4 DEF CreateStore, NewStore
    <2>2. h.tenants = Together(Pair(j)[1], Pair(j)[2], world)
        BY DEF StoreHashes, Together
    <2> HIDE DEF h
    <2>3. r.of = Pair(j)[1] /\ r.storage = Pair(j)[2] /\ r.hashes = h
        BY <2>1 DEF NewStore
    <2>4. Placed(o, r)
        BY <1>1, <2>3 DEF Placed
    <2> QED
        BY <1>1, <1>4, <2>2, <2>3, <2>4 DEF Becomes
<1> QED
    BY <1>2, <1>3, <1>4

LEMMA WriteBecomes ==
    ASSUME Instance, TypeOK, FlagInv, StorageSecrets, StayInv, NEW k \in Keys, Write(k), world' # world
    PROVE  \E o \in Objects : \E v : Put(o, v) /\ Becomes(o, v)
<1>0. ASSUME NEW o \in Objects, NEW v, Put(o, v) PROVE v # world[o]
    BY <1>0 DEF Put, StorageSecrets
<1>1. CASE KindOf[k] = "Tenant"
    <2>1. k \in TenantKeys /\ k \in Objects /\ ~snap[k].raw.deleting
        BY <1>1 DEF TenantKeys, Instance, ComponentKeys, StayInv, Write
    <2>2. ~Put(k, RemoveFinalizer(snap[k].raw, world[k]))
        BY <1>0, <2>1 DEF RemoveFinalizer
    <2>3. PICK j \in DOMAIN Places : \E r :
                     /\ Put(Name(j), r) /\ r # Error
                     /\ \/ r = UpdateStore(snap[k].listed[j], snap[k].expected, world, world[Name(j)])
                        \/ r = CreateStore(Pair(j), snap[k].listed[j], snap[k].expected, world, world[Name(j)])
        BY <2>1, <2>2, TenantWrites
    <2>4. PICK r : /\ Put(Name(j), r) /\ r # Error
                   /\ \/ r = UpdateStore(snap[k].listed[j], snap[k].expected, world, world[Name(j)])
                      \/ r = CreateStore(Pair(j), snap[k].listed[j], snap[k].expected, world, world[Name(j)])
        BY <2>3
    <2>5. Name(j) \in Objects /\ r # world[Name(j)]
        BY <1>0, <2>4, PlaceTyped
    <2> QED
        BY <2>4, <2>5, StoreBecomes
<1>2. CASE KindOf[k] # "Tenant"
    <2> DEFINE i == at[k]
               o == Target(k, i)
    <2>1. i \in Functions(k)
        BY KeysAssumption DEF Write, TypeOK, Functions
    <2>2. k \in ComponentKeys /\ i \in DOMAIN FunctionTable[k] /\ KindOf[k] \in Kinds \ {"Service", "Secret"}
        BY <2>1, FunctionsInTable
    <2>3. PICK r : r # Error /\ ((o = Owned /\ Store(k, r)) \/ (o # Owned /\ Put(o, r)))
        BY DEF Write
    <2>4. o # Owned /\ Put(o, r) /\ o \in Objects
        BY <2>1, <2>3, KeysAssumption DEF Store
    <2>5. Function(k, i) \notin {"update", "create"}
        <3>1. KindOf[k] \in KindsWith(Function(k, i))
            BY <2>2, NamesOf DEF Function, FunctionTable
        <3> QED
            BY <1>2, <3>1 DEF KindsWith
    <2>6. o = k
        BY <2>4, <2>5 DEF Instance, ComponentTarget
    <2>7. KindOf[k] \notin {"Tenant", "Service", "Store"}
        <3>1. Function(k, i) \in {"status", "recycle", "hash", "finalizer"}
            BY <2>4, <2>5 DEF Instance, ComponentTarget
        <3>2. KindOf[k] \in KindsWith(Function(k, i))
            BY <2>2, NamesOf DEF Function, FunctionTable
        <3> QED
            BY <1>2, <3>1, <3>2 DEF KindsWith
    <2> HIDE DEF o
    <2>8. Becomes(k, r)
        BY <1>0, <2>3, <2>4, <2>6, <2>7 DEF Becomes
    <2> QED
        BY <2>4, <2>6, <2>8
<1> QED
    BY <1>1, <1>2

LEMMA WorldBecomes ==
    ASSUME Instance, TenantsStay(Scenes), TypeOK, FlagInv, StorageSecrets, StayInv, [Next]_vars, world' # world
    PROVE  \E o \in Objects : \E v : Put(o, v) /\ Becomes(o, v)
BY WorldChanges, EditBecomes, WriteBecomes

\* What a tenant that stays reads first: it waits for its Service.
LEMMA TenantBegun ==
    ASSUME Instance, NEW t \in TenantKeys, NEW w, w[t] # Absent, StayingTenant(w[t]), w[w[t].of] # Error
    PROVE  /\ w[w[t].of] = Absent => Begin(t, w) = Error
           /\ w[w[t].of] # Absent => Begin(t, w) = TenantBegin(t, w[w[t].of], w) /\ Begin(t, w) \notin {Nothing, Error}
<1> DEFINE s == TenantBegin(t, w[w[t].of], w)
<1>1. KindOf[t] = "Tenant" /\ ~Skipped(t, w)
    BY DEF TenantKeys, Skipped, StayingTenant
<1>2. s = [f \in DOMAIN s |-> s[f]]
    BY DEF TenantBegin
<1> HIDE DEF s
<1>3. s \notin {Nothing, Error}
    BY <1>2 DEF Instance
<1> QED
    BY <1>1, <1>3 DEF Instance, ComponentBegin, SetService, s

\* A change of object o queues what it wakes, and that of a Store one of the tenants.
Woken(o) ==
    /\ queued \cup (Keys \cap ComponentWakes(o, world, world')) \subseteq queued'
    /\ KindOf[o] = "Store" /\ TenantList(world') # {} => TenantList(world') \cap queued' # {}

LEMMA PutWakes ==
    ASSUME Instance, NEW o \in Objects, NEW v, Put(o, v), world[o] # v
    PROVE  Woken(o)
<1>1. PICK first \in ComponentFirsts(o, world, world') :
          queued' = queued \cup (Keys \cap (ComponentWakes(o, world, world') \cup {first}))
    BY DEF Put, Instance
<1>2. KindOf[o] = "Store" /\ TenantList(world') # {} => first \in TenantList(world') /\ first \in Keys
    BY <1>1 DEF ComponentFirsts, TenantList, Instance
<1> QED
    BY <1>1, <1>2 DEF Woken

\* What a step makes of the world, when tenants stay.
LEMMA StayStep ==
    ASSUME Instance, TenantsStay(Scenes), TypeOK, FlagInv, StorageSecrets, StayInv, [Next]_vars, world' # world
    PROVE  \E o \in Objects : \E v :
              /\ world' = [world EXCEPT ![o] = v] /\ world'[o] = v /\ \A x \in Objects \ {o} : world'[x] = world[x]
              /\ Woken(o)
              /\ Becomes(o, v)
<1>1. PICK o \in Objects : \E v : Put(o, v) /\ Becomes(o, v)
    BY WorldBecomes
<1>2. PICK v : Put(o, v) /\ Becomes(o, v)
    BY <1>1
<1>3. world' = [world EXCEPT ![o] = v] /\ world[o] # v
    BY <1>2 DEF Put, StorageSecrets
<1>4. Woken(o)
    BY <1>2, <1>3, PutWakes
<1> QED
    BY <1>2, <1>3, <1>4 DEF TypeOK

LEMMA TenantsRemain ==
    ASSUME Instance, TenantsStay(Scenes), TypeOK, FlagInv, StorageSecrets, StayInv, [Next]_vars
    PROVE  /\ \A t \in TenantKeys : world[t] # Absent => world'[t] = world[t]
           /\ \A o \in ServiceObjects : world[o] # Absent => world'[o] # Absent
           /\ \A of, st : Together(of, st, world) \subseteq Together(of, st, world')
<1>0. TenantKeys \subseteq Objects /\ \A t : t \in TenantKeys <=> t \in Objects /\ KindOf[t] = "Tenant"
    BY DEF TenantKeys, Instance, ComponentKeys
<1>1. CASE world' = world
    BY <1>1
<1>2. CASE world' # world
    <2>1. PICK o, v : o \in Objects /\ world'[o] = v /\ (\A x \in Objects \ {o} : world'[x] = world[x]) /\ Becomes(o, v)
        BY <1>2, StayStep
    <2>2. \A t \in TenantKeys : world[t] # Absent => world'[t] = world[t]
        BY <1>0, <2>1 DEF Becomes, TenantKeys
    <2>3. \A x \in ServiceObjects : world[x] # Absent => world'[x] # Absent
        BY <2>1 DEF Becomes, ServiceObjects
    <2>4. ASSUME NEW of, NEW st, NEW t \in Together(of, st, world) PROVE t \in Together(of, st, world')
        BY <1>0, <2>2, <2>4, TogetherIn
    <2> QED
        BY <2>2, <2>3, <2>4
<1> QED
    BY <1>1, <1>2

LEMMA InitStay == Instance /\ TenantsStay(Scenes) /\ Init => StayInv
<1> SUFFICES ASSUME Instance, TenantsStay(Scenes), Init PROVE StayInv
    OBVIOUS
<1>1. PICK s \in Scenes : world = s.world
    BY DEF Init
<1>2. \A o \in Objects : world[o] = Absent \/ (Specified(o, world[o]) /\ world[o] # Error)
    BY <1>1, ScenesAssumption
<1>3. \A o \in Objects : world[o] # Error
    BY <1>2 DEF Instance
<1>4. TenantKeys \subseteq Objects /\ \A t \in TenantKeys : KindOf[t] = "Tenant"
    BY DEF TenantKeys, Instance, ComponentKeys
<1>5. ASSUME NEW t \in TenantKeys, world[t] # Absent PROVE StayingTenant(world[t]) /\ world[t].of \in ServiceObjects
    <2>1. StayingTenant(world[t]) /\ Specified(t, world[t])
        BY <1>1, <1>2, <1>4, <1>5 DEF TenantsStay
    <2> QED
        BY <1>4, <2>1 DEF StayingTenant, Specified, TenantSpec, LabelSpec
<1>6. ASSUME NEW t \in TenantKeys, world[t] # Absent, world[world[t].of] = Absent PROVE t \in queued
    <2>1. Begin(t, world) = Error
        BY <1>5, <1>6, TenantBegun DEF Instance
    <2> QED
        BY <1>6, <2>1, KeysAssumption DEF Init, Listed, TenantKeys
<1>7. ASSUME NEW t \in TenantKeys PROVE ~(at[t] > 0)
    BY DEF Init, TenantKeys
<1>8. ASSUME NEW o \in Objects, KindOf[o] = "Store", world[o] # Absent
      PROVE  Placed(o, world[o]) /\ world[o].hashes = Nil
    BY <1>1, <1>8 DEF TenantsStay, PlacedStore, Placed, Name, Pair
<1> QED
    BY <1>3, <1>5, <1>6, <1>7, <1>8 DEF StayInv

LEMMA StepStay ==
    ASSUME Instance, TenantsStay(Scenes), TypeOK, FlagInv, StorageSecrets, StayInv, [Next]_vars
    PROVE  StayInv'
<1>0. TenantKeys \subseteq Objects /\ TenantKeys \subseteq Keys /\ \A t \in TenantKeys : KindOf[t] = "Tenant"
    BY DEF TenantKeys, Instance, ComponentKeys
<1>1. /\ \A o \in Objects : world'[o] # Error
      /\ \A t \in TenantKeys : world'[t] # Absent => StayingTenant(world'[t]) /\ world'[t].of \in ServiceObjects
    <2>1. CASE world' = world
        BY <2>1 DEF StayInv
    <2>2. CASE world' # world
        <3>1. PICK o, v : o \in Objects /\ world'[o] = v /\ (\A x \in Objects \ {o} : world'[x] = world[x]) /\ Becomes(o, v)
            BY <2>2, StayStep
        <3> QED
            BY <1>0, <3>1 DEF StayInv, Becomes
    <2> QED
        BY <2>1, <2>2
<1>2. ASSUME NEW t \in TenantKeys, world'[t] # Absent, world'[world'[t].of] = Absent PROVE t \in queued'
    <2>0. t \in Keys /\ t \in ComponentKeys /\ t \in Objects
        BY <1>0 DEF Instance
    <2> SUFFICES ASSUME t \notin queued' PROVE FALSE
        OBVIOUS
    <2>1. t \notin queued \/ Start(t) \/ Restart
        BY <2>0, Dequeued
    <2>2. CASE world' = world
        <3>1. t \in queued /\ Begin(t, world) = Error
            BY <1>0, <1>1, <1>2, <2>2, TenantBegun DEF StayInv, ServiceObjects
        <3>2. ~Start(t)
            BY <3>1 DEF Start
        <3>3. ~Restart
            BY <2>0, <3>1, KeysAssumption DEF Restart, Listed
        <3> QED
            BY <2>1, <3>1, <3>2, <3>3
    <2>3. CASE world' # world
        <3>1. PICK o, v : /\ o \in Objects /\ world'[o] = v /\ (\A x \in Objects \ {o} : world'[x] = world[x])
                          /\ queued \cup (Keys \cap ComponentWakes(o, world, world')) \subseteq queued'
                          /\ Becomes(o, v)
            BY <2>3, StayStep DEF Woken
        <3>2. o # t
            BY <2>0, <3>1 DEF ComponentWakes
        <3>3. world'[t] = world[t] /\ t \notin queued
            BY <2>0, <3>1, <3>2
        <3>4. world[t].of \in ServiceObjects /\ world[world[t].of] # Absent
            BY <1>2, <3>3 DEF StayInv
        <3> QED
            BY <1>2, <3>3, <3>4, TenantsRemain
    <2> QED
        BY <2>2, <2>3
<1>3. ASSUME NEW t \in TenantKeys, at'[t] > 0 PROVE ~snap'[t].raw.deleting
    <2>1. t \in Keys
        BY <1>0
    <2>2. CASE at[t] > 0 /\ snap'[t] = snap[t]
        BY <2>2 DEF StayInv
    <2>3. CASE snap'[t] = Begin(t, world) /\ snap'[t] \notin {Nothing, Error}
        <3>1. world[t] # Absent
            BY <2>3 DEF Instance, ComponentBegin
        <3>2. StayingTenant(world[t]) /\ world[t].of \in Objects /\ world[world[t].of] # Error
            BY <3>1 DEF StayInv, ServiceObjects
        <3>3. snap'[t] = TenantBegin(t, world[world[t].of], world)
            BY <2>3, <3>1, <3>2, TenantBegun
        <3>4. snap'[t].raw = world[t]
            BY <3>3 DEF TenantBegin
        <3> QED
            BY <3>2, <3>4 DEF StayingTenant
    <2> QED
        BY <1>3, <2>1, <2>2, <2>3, StepSnap
<1>4. ASSUME NEW o \in Objects, KindOf[o] = "Store", world'[o] # Absent
      PROVE  /\ Placed(o, world'[o])
             /\ \/ world'[o].hashes = Nil
                \/ world'[o].hashes.tenants \subseteq Together(world'[o].of, world'[o].storage, world')
    <2>0. Together(world'[o].of, world'[o].storage, world) \subseteq Together(world'[o].of, world'[o].storage, world')
        BY TenantsRemain
    <2>1. CASE world'[o] = world[o]
        BY <1>4, <2>0, <2>1 DEF StayInv
    <2>2. CASE world'[o] # world[o]
        <3>1. Becomes(o, world'[o])
            BY <2>2, StayStep
        <3> QED
            BY <1>4, <2>0, <3>1 DEF Becomes, StayInv
    <2> QED
        BY <2>1, <2>2
<1> QED
    BY <1>1, <1>2, <1>3, <1>4 DEF StayInv

\* The Store of place j knows the tenants of the place.
Told(j) ==
    LET v == world[Name(j)]
    IN  v # Absent /\ v.hashes # Nil /\ v.hashes.tenants = Together(Pair(j)[1], Pair(j)[2], world)

\* The reconcile of t has still to come to the Store of place j, and knows it as it is.
Telling(t, j) ==
    /\ at[t] > 0
    /\ snap[t].listed[j] = world[Name(j)] /\ Pair(j) \in snap[t].expected
    /\ at[t] <= (IF world[Name(j)] = Absent THEN CreateAt(j) ELSE UpdateAt(j))

\* A Store is told of its tenants, or some tenant will tell it.
TenantsTold ==
    \A j \in DOMAIN Places :
        Together(Pair(j)[1], Pair(j)[2], world) # {} /\ ~Told(j) =>
            \E t \in TenantKeys : world[t] # Absent /\ (t \in queued \/ Telling(t, j))

LEMMA InitTold == Instance /\ TenantsStay(Scenes) /\ Init => TenantsTold
<1> SUFFICES ASSUME Instance, TenantsStay(Scenes), Init, NEW j \in DOMAIN Places,
                    NEW t \in Together(Pair(j)[1], Pair(j)[2], world)
             PROVE  t \in TenantKeys /\ world[t] # Absent /\ t \in queued
    BY DEF TenantsTold
<1>1. StayInv
    BY InitStay
<1>2. t \in TenantKeys /\ world[t] # Absent
    BY TogetherIn DEF TenantKeys, Instance, ComponentKeys
<1>3. StayingTenant(world[t]) /\ world[t].of \in Objects /\ world[world[t].of] # Error
    BY <1>1, <1>2 DEF StayInv, ServiceObjects
<1>4. Begin(t, world) # Nothing
    BY <1>2, <1>3, TenantBegun, KeysAssumption
<1> QED
    BY <1>2, <1>4 DEF Init, Listed, TenantKeys

\* A tenant that starts reads all Stores, and the places of all tenants.
LEMMA StartTells ==
    ASSUME Instance, TypeOK, StayInv, NEW j \in DOMAIN Places, Together(Pair(j)[1], Pair(j)[2], world) # {},
           NEW t \in TenantKeys, world[t] # Absent, Start(t)
    PROVE  Telling(t, j)'
<1> DEFINE svc == world[world[t].of]
           s == TenantBegin(t, svc, world)
<1>1. StayingTenant(world[t]) /\ world[t].of \in Objects /\ svc # Error
    BY DEF StayInv, ServiceObjects
<1>2. Begin(t, world) = s /\ s # Nothing
    BY <1>1, TenantBegun DEF Start
<1>3. at'[t] = 1 /\ snap'[t] = s /\ world' = world
    <2> HIDE DEF s
    <2> QED
        BY <1>2 DEF Start, TypeOK, TenantKeys
<1>4. s.listed[j] = world[Name(j)]
    BY DEF TenantBegin, Name
<1>5. Pair(j) \in s.expected
    <2>1. PICK u : u \in Together(Pair(j)[1], Pair(j)[2], world)
        OBVIOUS
    <2>2. /\ u \in Objects /\ KindOf[u] = "Tenant" /\ world[u] # Absent /\ ~world[u].deleting
          /\ world[u].of = Pair(j)[1] /\ world[u].storage = Pair(j)[2]
        BY <2>1, TogetherIn
    <2>3. world[u].of # Nil /\ world[u].storage \notin {Nil, "default", "local"}
        BY <2>2, PlaceTyped, ObjectsAssumption DEF ServiceObjects, StorageObjects
    <2>4. GetStorage(svc, world[u].storage) = Pair(j)[2]
        BY <2>2, <2>3 DEF GetStorage
    <2>5. <<world[u].of, GetStorage(svc, world[u].storage)>> \in sortTenantsByStorageAndService(svc, world)
        <3> HIDE DEF svc
        <3> QED
            BY <2>2, <2>3, <2>4 DEF sortTenantsByStorageAndService
    <2>6. Pair(j) \in sortTenantsByStorageAndService(svc, world)
        BY <2>2, <2>4, <2>5, PlaceTyped
    <2> QED
        BY <2>6 DEF TenantBegin
<1>6. 1 <= UpdateAt(j) /\ 1 <= CreateAt(j)
    BY PlaceTyped DEF UpdateAt, CreateAt
<1> HIDE DEF s
<1> QED
    BY <1>3, <1>4, <1>5, <1>6 DEF Telling

\* A tenant that comes to the Store changes it, or the Store has been told.
LEMMA WriteTells ==
    ASSUME Instance, TypeOK, FlagInv, StayInv, NEW j \in DOMAIN Places, NEW t \in TenantKeys,
           Telling(t, j), Write(t), world'[Name(j)] = world[Name(j)]
    PROVE  Told(j) \/ Telling(t, j)'
<1> DEFINE o == Name(j)
           c == world[o]
           n == IF c = Absent THEN CreateAt(j) ELSE UpdateAt(j)
           i == at[t]
<1>0. /\ j \in Nat /\ Len(Places) \in Nat /\ 1 <= j /\ j <= Len(Places) /\ o \in Objects /\ KindOf[o] = "Store"
      /\ t \in Keys /\ KindOf[t] = "Tenant" /\ i \in Nat /\ i > 0
    BY PlaceTyped DEF TenantKeys, TypeOK, Telling
<1>1. CASE i # n
    <2>0. Size(t) = 1 + Len(Places) + Len(Places)
        BY <1>0, TenantTable
    <2>1. n \in Nat /\ i < n /\ n <= Size(t) /\ i # Size(t)
        <3>1. i <= n
            BY DEF Telling
        <3>2. n \in {1 + j, 1 + Len(Places) + j}
            BY DEF UpdateAt, CreateAt
        <3> HIDE DEF n, i
        <3> QED
            BY <1>0, <1>1, <2>0, <3>1, <3>2
    <2>2. ~Returns(t, i)
        <3>1. i \in Functions(t)
            BY <1>0, KeysAssumption DEF Functions, TypeOK
        <3>2. Function(t, i) \in {"finalizer", "update", "create"}
            BY <1>0, <3>1, TenantTable
        <3> QED
            BY <3>2 DEF Instance, ComponentReturns
    <2>3. at'[t] = i + 1 /\ snap'[t] = snap[t]
        BY <1>0, <2>1, <2>2 DEF Write, Advance, TypeOK
    <2>4. i + 1 <= n /\ i + 1 > 0
        BY <1>0, <2>1 DEF UpdateAt, CreateAt
    <2> QED
        BY <2>3, <2>4 DEF Telling
<1>2. CASE i = n
    <2>1. PICK m, r :
             /\ m \in DOMAIN Places /\ Put(Name(m), r) /\ r # Error
             /\ \/ i = UpdateAt(m) /\ r = UpdateStore(snap[t].listed[m], snap[t].expected, world, world[Name(m)])
                \/ i = CreateAt(m) /\ r = CreateStore(Pair(m), snap[t].listed[m], snap[t].expected, world, world[Name(m)])
        <3>1. i # 1
            BY <1>0, <1>2 DEF UpdateAt, CreateAt
        <3> QED
            BY <3>1, TenantWrites
    <2>2. m \in Nat /\ 1 <= m /\ m <= Len(Places)
        BY <2>1, PlaceTyped
    <2>3. CASE c = Absent
        <3>1. i = CreateAt(m) /\ m = j
            BY <1>0, <1>2, <2>1, <2>2, <2>3 DEF UpdateAt, CreateAt
        <3>2. i # UpdateAt(m)
            BY <1>0, <2>2, <3>1 DEF UpdateAt, CreateAt
        <3>3. r = CreateStore(Pair(j), Absent, snap[t].expected, world, Absent) /\ Pair(j) \in snap[t].expected
            BY <2>1, <2>3, <3>1, <3>2 DEF Telling
        <3>4. r = [f \in DOMAIN r |-> r[f]]
            BY <2>1, <3>3 DEF CreateStore
        <3>5. r # Absent
            BY <3>4 DEF Instance
        <3>6. world'[o] = r
            BY <1>0, <2>1, <3>1 DEF Put, TypeOK
        <3> QED
            BY <2>3, <3>5, <3>6
    <2>4. CASE c # Absent
        <3> DEFINE h == StoreHashes(c.of, c.storage, world)
        <3>1. i = UpdateAt(m) /\ m = j
            BY <1>0, <1>2, <2>1, <2>2, <2>4 DEF UpdateAt, CreateAt
        <3>2. i # CreateAt(m)
            BY <1>0, <2>2, <3>1 DEF UpdateAt, CreateAt
        <3>3. r = UpdateStore(c, snap[t].expected, world, c) /\ Pair(j) \in snap[t].expected
            BY <2>1, <3>1, <3>2 DEF Telling
        <3>4. Pair(j) = <<c.of, c.storage>> /\ c.of = Pair(j)[1] /\ c.storage = Pair(j)[2]
            BY <1>0, <2>4, PlaceTyped DEF StayInv, Placed
        <3>5. r = c
            BY <1>0, <2>1, <3>1 DEF Put, TypeOK
        <3>6. "hashes" \in DOMAIN c
            <4>1. WellFormed(o, c)
                BY <1>0 DEF FlagInv, WorldFormed
            <4> QED
                BY <1>0, <2>4, <4>1 DEF WellFormed, Fields, Templated, Kinds
        <3>7. c.hashes = h
            <4>1. c.hashes = h \/ c = [c EXCEPT !.hashes = h]
                BY <2>1, <2>4, <3>3, <3>4, <3>5 DEF UpdateStore
            <4> HIDE DEF c, h
            <4> QED
                BY <3>6, <4>1
        <3>8. h.tenants = Together(c.of, c.storage, world) /\ h = [f \in DOMAIN h |-> h[f]]
            BY DEF StoreHashes, Together
        <3>9. h # Nil
            <4> HIDE DEF h
            <4> QED
                BY <3>8 DEF Instance
        <3> HIDE DEF h
        <3> QED
            BY <2>4, <3>4, <3>7, <3>8, <3>9 DEF Told
    <2> QED
        BY <2>3, <2>4
<1> QED
    BY <1>1, <1>2

LEMMA StepTold ==
    ASSUME Instance, TenantsStay(Scenes), TypeOK, FlagInv, StorageSecrets, StayInv, TenantsTold, [Next]_vars
    PROVE  TenantsTold'
<1> SUFFICES ASSUME NEW j \in DOMAIN Places, Together(Pair(j)[1], Pair(j)[2], world') # {}, ~Told(j)'
             PROVE  \E t \in TenantKeys : world'[t] # Absent /\ (t \in queued' \/ Telling(t, j)')
    BY DEF TenantsTold
<1> DEFINE o == Name(j)
           here == Together(Pair(j)[1], Pair(j)[2], world)
           then == Together(Pair(j)[1], Pair(j)[2], world')
<1>0. /\ TenantKeys \subseteq Keys /\ \A t : t \in TenantKeys <=> t \in Objects /\ KindOf[t] = "Tenant"
      /\ Keys = ComponentKeys /\ o \in Objects /\ KindOf[o] = "Store"
    BY PlaceTyped DEF TenantKeys, Instance, ComponentKeys
<1>1. CASE world'[o] # world[o]
    <2>1. TenantList(world') # {}
        BY <1>0, TogetherIn DEF TenantKeys, TenantList
    <2>2. Woken(o)
        BY <1>0, <1>1, StayStep
    <2>3. PICK t \in TenantList(world') : t \in queued'
        BY <1>0, <2>1, <2>2 DEF Woken
    <2> QED
        BY <1>0, <2>3 DEF TenantList, TenantKeys
<1>2. ASSUME NEW t, t \in then, t \notin here PROVE t \in TenantKeys /\ world'[t] # Absent /\ t \in queued'
    <2>1. t \in TenantKeys /\ world'[t] # Absent /\ t \in Objects /\ t \in Keys
        BY <1>0, <1>2, TogetherIn
    <2>2. world'[t] # world[t]
        BY <1>2, TogetherIn
    <2>3. Woken(t)
        BY <2>1, <2>2, StayStep
    <2> QED
        BY <1>0, <2>1, <2>3 DEF ComponentWakes, Woken
<1>3. CASE world'[o] = world[o] /\ then = here
    <2>1. ~Told(j) /\ here # {}
        BY <1>3 DEF Told
    <2>2. PICK t \in TenantKeys : world[t] # Absent /\ (t \in queued \/ Telling(t, j))
        BY <2>1 DEF TenantsTold
    <2>3. t \in Keys /\ world'[t] = world[t]
        BY <1>0, <2>2, TenantsRemain
    <2> SUFFICES ASSUME t \notin queued' PROVE Telling(t, j)'
        BY <2>2, <2>3
    <2>4. CASE Start(t)
        BY <2>1, <2>2, <2>4, StartTells
    <2>5. ~Restart
        <3>1. StayingTenant(world[t]) /\ world[t].of \in Objects /\ world[world[t].of] # Error
            BY <2>2 DEF StayInv, ServiceObjects
        <3>2. Begin(t, world) # Nothing
            BY <2>2, <3>1, TenantBegun, KeysAssumption
        <3> QED
            BY <2>3, <3>2 DEF Restart, Listed
    <2>6. CASE ~Start(t)
        <3>1. Telling(t, j)
            BY <2>2, <2>3, <2>5, <2>6, Dequeued
        <3>2. CASE Write(t)
            BY <1>3, <2>1, <3>1, <3>2, WriteTells
        <3>3. CASE ~Write(t)
            <4>1. at'[t] = at[t] /\ snap'[t] = snap[t]
                BY <2>3, <2>5, <2>6, <3>3, OtherSteps
            <4> QED
                BY <1>3, <3>1, <4>1 DEF Telling
        <3> QED
            BY <3>2, <3>3
    <2> QED
        BY <2>4, <2>6
<1>4. here \subseteq then
    BY TenantsRemain
<1> HIDE DEF here, then
<1> QED
    BY <1>1, <1>2, <1>3, <1>4

\* A component that a step does not queue has the same Service and storage after it.
LEMMA SameInputs ==
    ASSUME Instance, TypeOK, FlagInv, StorageSecrets, [Next]_vars, NEW k \in Keys, KindOf[k] \in Templated,
           k \notin queued', world[k] # Absent, world[k].of # Nil
    PROVE  /\ world'[k] = world[k] /\ world'[world[k].of] = world[world[k].of]
           /\ KindOf[k] \in OnStorage /\ world[k].storage # Nil =>
                 world[k].storage \in StorageObjects /\ world'[world[k].storage] = world[world[k].storage]
<1> DEFINE st == world[k].storage
<1>1. k \in ComponentKeys /\ k \in Objects /\ WellFormed(k, world[k])
    BY DEF Instance, ComponentKeys, FlagInv, WorldFormed
<1>2. KindOf[k] \in OnStorage /\ st # Nil => st \in StorageObjects
    BY <1>1 DEF WellFormed, StorageLabel
<1>3. CASE world' = world
    BY <1>2, <1>3
<1>4. CASE world' # world
    <2>1. PICK o, v : o \in Objects /\ Put(o, v)
        BY <1>4, WorldPut
    <2>2. world' = [world EXCEPT ![o] = v] /\ world[o] # v
        BY <1>4, <2>1 DEF Put, StorageSecrets
    <2>3. Unwoken(k, o, world, world')
        BY <1>1, <2>1, <2>2 DEF Unwoken, Put, Instance, TypeOK
    <2>4. world'[k] = world[k]
        BY <2>3, UnwokenSelf
    <2>5. world'[world[k].of] = world[world[k].of]
        BY <1>1, <2>3, UnwokenService
    <2>6. KindOf[k] \in OnStorage /\ st # Nil => world'[st] = world[st]
        <3> SUFFICES ASSUME KindOf[k] \in OnStorage, st # Nil, st = o PROVE FALSE
            BY <1>2, <2>3 DEF Unwoken, StorageObjects
        <3>1. KindOf[o] = "Storage"
            BY <1>2 DEF StorageObjects
        <3>2. k \in Dependents(o, world')
            BY <1>1, <2>4, <3>1 DEF Dependents, OnStorage
        <3> QED
            BY <2>3, <3>2 DEF Unwoken, ComponentWakes
    <2> QED
        BY <1>2, <2>4, <2>5, <2>6
<1> QED
    BY <1>3, <1>4

\* A reconcile that went on has read its custom resource and a Service.
LEMMA BegunLabel ==
    ASSUME Instance, FlagInv, NEW k \in Keys, KindOf[k] \in Templated, Begin(k, world) \notin {Nothing, Error}
    PROVE  /\ k \in ComponentKeys /\ k \in Objects /\ WellFormed(k, world[k])
           /\ world[k] # Absent /\ world[k].of # Nil /\ world[k].of \in ServiceObjects
           /\ world[world[k].of] # Absent
           /\ KindOf[k] \in {"Store", "Compactor"} => world[k].storage # Nil
<1>1. k \in ComponentKeys /\ k \in Objects /\ WellFormed(k, world[k])
    BY DEF Instance, ComponentKeys, FlagInv, WorldFormed
<1>2. ComponentBegin(k, world) \notin {Nothing, Error} /\ KindOf[k] # "Storage"
    BY DEF Instance, Templated
<1>3. world[k] # Absent /\ ~Skipped(k, world) /\ SetService(k, world) # Error
    BY <1>2 DEF ComponentBegin
<1> QED
    BY <1>1, <1>2, <1>3 DEF Skipped, SetService, WellFormed, LabelSpec

\* The world that a Store's StatefulSet was built in had its Service as it is, and
\* the tenants of its annotation, as they are.
TenantsNear(k, w0, w) ==
    LET v == w[k]
        old == Together(v.of, v.storage, w0)
    IN  /\ w0[v.of] = w[v.of]
        /\ \A t \in old : w0[t] = w[t]
        /\ v.hashes = Nil \/ v.hashes.tenants \subseteq old

LEMMA NearNow ==
    ASSUME StayInv, NEW k \in Objects, KindOf[k] = "Store", world[k] # Absent
    PROVE  TenantsNear(k, world, world)
BY DEF StayInv, TenantsNear

LEMMA NearStep ==
    ASSUME Instance, TenantsStay(Scenes), TypeOK, FlagInv, StorageSecrets, StayInv, [Next]_vars,
           NEW k \in Keys, KindOf[k] = "Store", k \notin queued', Begin(k, world) \notin {Nothing, Error},
           NEW w0, TenantsNear(k, w0, world)
    PROVE  TenantsNear(k, w0, world')
<1> DEFINE v == world[k]
           old == Together(v.of, v.storage, w0)
<1>1. KindOf[k] \in Templated
    BY DEF Templated, Kinds
<1>2. world'[k] = v /\ world'[v.of] = world[v.of]
    BY <1>1, BegunLabel, SameInputs
<1>3. ASSUME NEW t \in old PROVE w0[t] = world'[t]
    <2>1. t \in TenantKeys /\ w0[t] # Absent /\ w0[t] = world[t]
        BY TogetherIn DEF TenantKeys, Instance, ComponentKeys, TenantsNear
    <2> QED
        BY <2>1, TenantsRemain
<1> HIDE DEF old
<1> QED
    BY <1>2, <1>3 DEF TenantsNear, old

\* A Store's StatefulSet is what would be built in such a world.
StoresKept ==
    \A k \in Keys : \A i \in Functions(k) :
        KindOf[k] = "Store" /\ Function(k, i) = "statefulSet" /\ Passed(k, i) =>
            /\ owned[k][i] # Error
            /\ \E w0 : TenantsNear(k, w0, world) /\ owned[k][i] = Build(k, i, Begin(k, world), w0, owned[k][i])

LEMMA InitStores == Init => StoresKept
BY DEF Init, Listed, StoresKept, Passed

LEMMA StepStores ==
    ASSUME Instance, TenantsStay(Scenes), TypeOK, FlagInv, StorageSecrets, AllSound, StayInv, [Next]_vars, StoresKept
    PROVE  StoresKept'
<1> SUFFICES ASSUME NEW k \in Keys, NEW i \in Functions(k),
                    KindOf[k] = "Store", Function(k, i) = "statefulSet", Passed(k, i)'
             PROVE  /\ owned'[k][i] # Error
                    /\ \E w0 : /\ TenantsNear(k, w0, world')
                               /\ owned'[k][i] = Build(k, i, Begin(k, world'), w0, owned'[k][i])
    BY DEF StoresKept, Functions
<1>1. Sound(k) /\ Followed(k) /\ Target(k, i) = Owned /\ Watched(k, i)
    BY ComponentFollowed DEF AllSound, Instance, ComponentTarget, ComponentWatched
<1>2. Begin(k, world') = Begin(k, world) /\ k \notin queued' /\ Begin(k, world) \notin {Nothing, Error}
    <2>1. Begin(k, world') = Begin(k, world)
        BY <1>1, StepPassed
    <2> QED
        BY <2>1 DEF Passed
<1>3. CASE Passed(k, i) /\ owned'[k][i] = owned[k][i]
    <2>1. owned[k][i] # Error
        BY <1>3 DEF StoresKept
    <2>2. PICK w0 : TenantsNear(k, w0, world) /\ owned[k][i] = Build(k, i, Begin(k, world), w0, owned[k][i])
        BY <1>3 DEF StoresKept
    <2>3. TenantsNear(k, w0, world')
        BY <1>2, <2>2, NearStep
    <2> QED
        BY <1>2, <1>3, <2>1, <2>2, <2>3
<1>4. CASE /\ world' = world /\ owned'[k][i] # Error /\ owned'[k][i] = owned[k][i]
           /\ owned'[k][i] = Build(k, i, Begin(k, world), world, owned[k][i])
    <2>1. "Store" \in Templated
        BY DEF Templated, Kinds
    <2>2. TenantsNear(k, world, world)
        BY <1>2, <2>1, BegunLabel, NearNow
    <2> QED
        BY <1>4, <2>2
<1> QED
    BY <1>1, <1>3, <1>4, StepPassed

LEMMA StoreHas ==
    ASSUME NEW k \in ComponentKeys, KindOf[k] = "Store"
    PROVE  Has(k, "statefulSet", 0)
<1> DEFINE m == MaxParts
           a == Each("statefulSet", m)
           b == Each("service", m)
           t == a \o b
<1>1. FunctionTable[k] = t
    BY DEF FunctionTable, ResourceFunctions
<1>2. m \in Nat /\ 1 \in 1..m
    BY ObjectsAssumption
<1>3. IsList(a) /\ Len(a) = m /\ a[1] = <<"statefulSet", 1 - 1>> /\ IsList(b) /\ Len(b) = m
    BY <1>2, EachNames
<1> HIDE DEF a, b
<1>4. DOMAIN t = 1..(m + m) /\ \A i \in 1..(m + m) : t[i] = IF i <= m THEN a[i] ELSE b[i - m]
    <2>1. IsList(a) /\ IsList(b)
        BY <1>3
    <2>2. /\ DOMAIN (a \o b) = 1..(Len(a) + Len(b))
          /\ \A i \in 1..(Len(a) + Len(b)) : (a \o b)[i] = IF i <= Len(a) THEN a[i] ELSE b[i - Len(a)]
        BY <2>1, ConcatList, Zenon
    <2>3. Len(a) = m /\ Len(b) = m
        BY <1>3
    <2> HIDE DEF m
    <2> QED
        BY <2>2, <2>3
<1> HIDE DEF t, m
<1>5. 1 \in DOMAIN t /\ t[1] = <<"statefulSet", 0>>
    BY <1>2, <1>3, <1>4
<1> QED
    BY <1>1, <1>5 DEF Has, Function, Part

\* The tenants that a Store is told to keep are among its arguments.
LEMMA StoreKeeps ==
    ASSUME NEW cr, NEW p, NEW w, IsList(cr.flags), OtherFlags(cr.flags)
    PROVE  <<"--selector.relabel-config", StoreRelabelConfig(cr, w)>> \in DOMAIN StoreArgs(cr, p, w)
<1> DEFINE a == <<"--objstore.config", GetStorageConfig(cr.storage, w)>>
           b == <<"--min-time", p>>
           c == <<"--selector.relabel-config", StoreRelabelConfig(cr, w)>>
           args == <<a, b, c>>
           all == Args("Store", args, cr.flags)
<1>1. Clean("Store", args, {"--objstore.config", "--min-time", "--selector.relabel-config"})
    BY CleanThree
<1>2. IsList(args)
    BY <1>1 DEF Clean
<1>3. 3 \in DOMAIN args /\ args[3] = c /\ c[1] = "--selector.relabel-config"
    OBVIOUS
<1>4. StoreArgs(cr, p, w) = all
    BY DEF StoreArgs
<1> HIDE DEF args, c
<1>5. {x \in DOMAIN all : x[1] = "--selector.relabel-config"} = With(args, "--selector.relabel-config")
    BY <1>2, ArgsKeep DEF OtherFlags, OwnArgs
<1>6. c \in With(args, "--selector.relabel-config")
    BY <1>3 DEF With
<1> QED
    BY <1>4, <1>5, <1>6 DEF c

\* At rest every Store with tenants knows them.
LEMMA RestTold ==
    ASSUME TenantsTold, AtRest, NEW j \in DOMAIN Places, Together(Pair(j)[1], Pair(j)[2], world) # {}
    PROVE  Told(j)
BY DEF TenantsTold, AtRest, Resting, Telling, TenantKeys

\* What the StatefulSet of a Store's first partition has been built with.
LEMMA StoreDeployed ==
    ASSUME Instance, TypeOK, FlagInv, WorldPlain, StoresKept, AtRest, NEW s \in Live("Store")
    PROVE  \E w0 : \E a \in DOMAIN Deployed(s, "statefulSet", 0).args :
              /\ TenantsNear(s, w0, world) /\ a[1] = "--selector.relabel-config"
              /\ \A t \in Together(world[s].of, world[s].storage, w0) : w0[t].id \in a[2]
<1> DEFINE b == ComponentBegin(s, world)
           v == world[s]
<1>1. s \in Keys /\ s \in ComponentKeys /\ KindOf[s] = "Store" /\ b \notin {Nothing, Error} /\ "Store" \in Templated
    BY DEF Live, Instance, Templated, Kinds
<1>2. Begun(s, world, b)
    BY <1>1, BeginOf DEF FlagInv, WorldFormed, WorldPlain
<1>3. v # Absent /\ WellFormed(s, v) /\ "storage" \in DOMAIN v /\ v.parts \in Count
    <2>1. v # Absent /\ WellFormed(s, v)
        BY <1>1, <1>2 DEF Begun, FlagInv, WorldFormed, ComponentKeys
    <2> QED
        BY <1>1, <2>1 DEF WellFormed, OnStorage, StorageLabel
<1>4. b.cr.of = v.of /\ b.cr.storage = v.storage /\ b.cr.parts = Overlay(v.parts, Nil)
    <2>1. b.cr.storage = v.storage
        BY <1>2, <1>3 DEF Begun
    <2> QED
        BY <1>2, <2>1 DEF Begun
<1>5. IsList(b.cr.flags) /\ OtherFlags(b.cr.flags)
    BY <1>2 DEF Begun
<1>6. PICK i \in Functions(s) : /\ Deployed(s, "statefulSet", 0) = owned[s][i]
                                /\ Function(s, i) = "statefulSet" /\ Part(s, i) = 0
    BY <1>1, StoreHas, DeployedAt
<1>7. Passed(s, i) /\ Begin(s, world) = b
    BY <1>1 DEF Passed, AtRest, Resting, Instance
<1> DEFINE d == owned[s][i]
<1>8. PICK w0 : TenantsNear(s, w0, world) /\ d = Build(s, i, b, w0, d) /\ d # Error
    BY <1>1, <1>6, <1>7 DEF StoresKept
<1> HIDE DEF b, d
<1>9. d = StoreStatefulSet(b.cr, 0, w0, d)
    BY <1>1, <1>6, <1>8 DEF Instance, ComponentBuild
<1>10. ~(0 >= Overlay(b.cr.parts, 1))
    BY <1>3, <1>4 DEF Overlay, Count
<1>11. d.args = StoreArgs(b.cr, 0, w0)
    BY <1>8, <1>9, <1>10 DEF StoreStatefulSet
<1> DEFINE a == <<"--selector.relabel-config", StoreRelabelConfig(b.cr, w0)>>
<1>12. a \in DOMAIN d.args
    BY <1>5, <1>11, StoreKeeps
<1>13. ASSUME NEW t \in Together(v.of, v.storage, w0) PROVE w0[t].id \in StoreRelabelConfig(b.cr, w0)
    BY <1>4 DEF StoreRelabelConfig, Together, GetTenantHash
<1>14. a[1] = "--selector.relabel-config" /\ a[2] = StoreRelabelConfig(b.cr, w0)
    OBVIOUS
<1> HIDE DEF a
<1> QED
    BY <1>6, <1>8, <1>12, <1>13, <1>14 DEF d

LEMMA CalmServed ==
    ASSUME Instance, EveryPlace, TypeOK, FlagInv, WorldPlain, StayInv, TenantsTold, StoresKept
    PROVE  Served
<1> SUFFICES ASSUME AtRest, NEW t \in Live("Tenant"), world[t].storage \notin {Nil, "default", "local"}
             PROVE  \E s \in Live("Store") :
                        /\ world[s].of = world[t].of /\ world[s].storage = world[t].storage
                        /\ \E a \in DOMAIN Deployed(s, "statefulSet", 0).args :
                              a[1] = "--selector.relabel-config" /\ world[t].id \in a[2]
    BY DEF Served
<1> DEFINE of == world[t].of
           st == world[t].storage
<1>1. t \in TenantKeys /\ t \in Objects /\ KindOf[t] = "Tenant" /\ Begin(t, world) \notin {Nothing, Error}
    BY DEF Live, TenantKeys, Instance, ComponentKeys
<1>2. world[t] # Absent
    BY <1>1 DEF Instance, ComponentBegin
<1>3. of \in ServiceObjects /\ st \in StorageObjects /\ StayingTenant(world[t]) /\ of # Nil
    BY <1>1, <1>2 DEF StayInv, StayingTenant
<1>4. world[of] # Error /\ world[of] # Absent
    BY <1>1, <1>2, <1>3, TenantBegun DEF StayInv, ServiceObjects
<1>5. PICK j \in DOMAIN Places : Pair(j) = <<of, st>>
    BY <1>3 DEF EveryPlace, Pair
<1>6. Pair(j)[1] = of /\ Pair(j)[2] = st
    BY <1>5
<1>7. t \in Together(of, st, world)
    BY <1>1, <1>2, <1>3, TogetherIn DEF StayingTenant
<1> DEFINE s == Name(j)
           v == world[s]
<1>8. v # Absent /\ v.hashes # Nil /\ v.hashes.tenants = Together(of, st, world)
    BY <1>6, <1>7, RestTold DEF Told
<1>9. s \in Objects /\ KindOf[s] = "Store" /\ s \in ComponentKeys
    BY PlaceTyped DEF ComponentKeys
<1>10. v.of = of /\ v.storage = st
    <2>1. PICK n \in DOMAIN Places : Name(n) = s /\ Pair(n) = <<v.of, v.storage>>
        BY <1>8, <1>9 DEF StayInv, Placed
    <2>2. n = j
        BY <2>1, PlaceTyped
    <2> QED
        BY <1>6, <2>1, <2>2
<1>11. s \in Live("Store")
    <2>1. "Store" \in Templated \ {"Compactor"}
        BY DEF Templated, Kinds
    <2>2. ComponentBegin(s, world) \notin {Nothing, Error}
        BY <1>3, <1>4, <1>8, <1>9, <1>10, <2>1, BeginLive DEF FlagInv, WorldFormed, WorldPlain
    <2> QED
        BY <1>9, <2>2 DEF Live, Instance
<1>12. PICK w0, a :
          /\ a \in DOMAIN Deployed(s, "statefulSet", 0).args /\ TenantsNear(s, w0, world) /\ a[1] = "--selector.relabel-config"
          /\ \A u \in Together(v.of, v.storage, w0) : w0[u].id \in a[2]
    BY <1>11, StoreDeployed
<1>13. t \in Together(v.of, v.storage, w0) /\ w0[t] = world[t]
    BY <1>7, <1>8, <1>12 DEF TenantsNear
<1>14. world[t].id \in a[2]
    BY <1>12, <1>13
<1> QED
    BY <1>10, <1>11, <1>12, <1>14

\* When all controllers rest, every tenant that names a storage has a Store whose
\* StatefulSet keeps its blocks (Tenant.store, Store.statefulSet and its relabel
\* configuration), in whatever order tenants come, whichever of them the change of a
\* Store queues, and whatever fails meanwhile.
THEOREM ServedHolds == Instance /\ PlainScenes /\ TenantsStay(Scenes) /\ EveryPlace => (Spec => []Served)
<1> SUFFICES ASSUME Instance, PlainScenes, TenantsStay(Scenes), EveryPlace PROVE Spec => []Served
    OBVIOUS
<1>1. TypeOK /\ FlagInv /\ [Next]_vars => FlagInv'
    BY StepFlags
<1>2. TypeOK /\ FlagInv /\ WorldPlain /\ [Next]_vars => WorldPlain'
    BY StepPlain
<1>3. TypeOK /\ FlagInv /\ StorageSecrets /\ [Next]_vars => StorageSecrets'
    BY StepStorages
<1>4. TypeOK /\ FlagInv /\ StorageSecrets /\ AllSound /\ [Next]_vars => AllSound'
    BY StepAllSound
<1>5. TypeOK /\ FlagInv /\ StorageSecrets /\ StayInv /\ [Next]_vars => StayInv'
    BY StepStay
<1>6. TypeOK /\ FlagInv /\ StorageSecrets /\ StayInv /\ TenantsTold /\ [Next]_vars => TenantsTold'
    BY StepTold
<1>7. TypeOK /\ FlagInv /\ StorageSecrets /\ AllSound /\ StayInv /\ StoresKept /\ [Next]_vars => StoresKept'
    BY StepStores
<1>8. TypeOK /\ FlagInv /\ WorldPlain /\ StayInv /\ TenantsTold /\ StoresKept => Served
    BY CalmServed
<1>9. Init => WorldPlain /\ StayInv /\ TenantsTold
    BY InitPlain, InitStay, InitTold
<1> QED
    BY <1>1, <1>2, <1>3, <1>4, <1>5, <1>6, <1>7, <1>8, <1>9, InitFlags, InitStorages, InitAllSound, InitStores,
       ReconcilersTypeCorrect, PTL DEF Spec

-----------------------------------------------------------------------------
(* Storages that stay, and the hash of their credentials.                  *)

\* The hash in the annotation is of a value that the Secret had, and its values rise.
HashOld(v, w) ==
    \/ v.hash = Nil \/ v.secret = Nil
    \/ w[v.secret] # Absent /\ v.hash.secret \in Nat /\ v.hash.secret <= w[v.secret].value

SteadyInv ==
    /\ \A x \in SecretObjects : world[x] # Absent => "value" \in DOMAIN world[x] /\ world[x].value \in Nat
    /\ \A o \in StorageObjects : world[o] # Absent => "hash" \in DOMAIN world[o] /\ HashOld(world[o], world)
    /\ \A o \in StorageObjects : at[o] > 0 =>
          world[o] # Absent /\ snap[o].raw.secret = world[o].secret /\ "hash" \in DOMAIN snap[o].raw

\* The action of SecretsRise.
Rise == \A o \in SecretObjects : world[o] # Absent => world'[o] # Absent /\ world[o].value <= world'[o].value

\* What a Storage or a Secret that changes becomes.
Turns(o, v) ==
    /\ o \in StorageObjects =>
          /\ v # Absent /\ "hash" \in DOMAIN v
          /\ world[o] # Absent => v.secret = world[o].secret
          /\ \/ v.hash = Nil
             \/ world[o] # Absent /\ v.hash = world[o].hash
             \/ world[o] # Absent /\ v.hash = GetStorageHash(o, world) /\ v.hash # Error
    /\ o \in SecretObjects /\ v # Absent => "value" \in DOMAIN v /\ v.value \in Nat

LEMMA StorageKey == ASSUME Instance, NEW o \in StorageObjects PROVE o \in Keys /\ o \in Objects /\ KindOf[o] = "Storage"
BY DEF StorageObjects, Instance, ComponentKeys

LEMMA EditTurns ==
    ASSUME Instance, StoragesStay(Scenes), TypeOK, FlagInv, StorageSecrets, SteadyInv, NEW e \in open, Edit(e), world' # world
    PROVE  \E o \in Objects : \E v : Put(o, v) /\ Turns(o, v)
<1> DEFINE o == e.on
           c == world[o]
           v == ComponentChange(e, c)
<1>1. PICK s \in Scenes : e \in s.edits /\ o \in Objects /\ ComponentMay(e, c) /\ Put(o, v)
    BY EditPuts
<1>2. o \in StorageObjects =>
          /\ e.does # "delete"
          /\ e.does = "create" => e.set.hash = Nil
          /\ e.does = "change" => DOMAIN e.set \cap {"secret", "hash"} = {}
    BY <1>1 DEF StoragesStay, StorageObjects
<1>3. CASE e.does = "create"
    <2>1. v = e.set /\ c = Absent /\ v # Absent /\ Specified(o, v)
        BY <1>1, <1>3, EditsAssumption DEF ComponentChange, ComponentMay
    <2>2. o \in StorageObjects => "hash" \in DOMAIN v
        BY <2>1 DEF Specified, StorageSpec, StorageObjects
    <2>3. o \in SecretObjects => "value" \in DOMAIN v /\ v.value \in Nat
        BY <2>1 DEF Specified, SecretObjects
    <2> HIDE DEF v
    <2>4. Turns(o, v)
        BY <1>2, <1>3, <2>1, <2>2, <2>3 DEF Turns
    <2> QED
        BY <1>1, <2>4
<1>4. CASE e.does = "delete"
    <2>1. v = Absent
        BY <1>1, <1>4, EditsAssumption DEF ComponentChange
    <2> HIDE DEF v
    <2>2. Turns(o, v)
        BY <1>2, <1>4, <2>1 DEF Turns
    <2> QED
        BY <1>1, <2>2
<1>5. CASE e.does \notin {"create", "delete"}
    <2>1. e.does = "change" /\ c # Absent /\ ("value" \in DOMAIN e.set => e.set.value \in Nat)
        BY <1>1, <1>5, EditsAssumption DEF ComponentMay
    <2>2. v = [f \in DOMAIN c |-> IF f \in DOMAIN e.set THEN e.set[f] ELSE c[f]]
        BY <2>1 DEF ComponentChange
    <2>3. v = [f \in DOMAIN v |-> v[f]]
        BY <2>2
    <2>4. v # Absent
        <3> HIDE DEF v
        <3> QED
            BY <2>3 DEF Instance
    <2>5. ASSUME o \in StorageObjects PROVE "hash" \in DOMAIN v /\ v.hash = c.hash /\ v.secret = c.secret
        <3>1. {"hash", "secret"} \subseteq DOMAIN c
            BY <2>1, <2>5, StorageKey DEF SteadyInv, StorageSecrets, SecretSpec
        <3>2. \A f \in {"hash", "secret"} : f \notin DOMAIN e.set
            BY <1>2, <2>1, <2>5
        <3> HIDE DEF v, c
        <3> QED
            BY <2>2, <3>1, <3>2
    <2>6. ASSUME o \in SecretObjects PROVE "value" \in DOMAIN v /\ v.value \in Nat
        <3>1. "value" \in DOMAIN c /\ c.value \in Nat
            BY <2>1, <2>6 DEF SteadyInv
        <3> HIDE DEF v, c
        <3> QED
            BY <2>1, <2>2, <3>1
    <2> HIDE DEF v
    <2>7. Turns(o, v)
        BY <2>1, <2>4, <2>5, <2>6 DEF Turns
    <2> QED
        BY <1>1, <2>7
<1> QED
    BY <1>3, <1>4, <1>5

LEMMA HashWrites ==
    ASSUME Instance, TypeOK, StorageSecrets, NEW k \in StorageObjects, Write(k), world' # world
    PROVE  /\ GetStorageHash(k, world) # Error
           /\ Put(k, [snap[k].raw EXCEPT !.hash = GetStorageHash(k, world)])
<1> DEFINE i == at[k]
           s == snap[k]
           o == Target(k, i)
           c == Content(k, i)
<1>0. k \in Keys /\ k \in Objects /\ KindOf[k] = "Storage"
    BY StorageKey
<1>1. i \in Functions(k)
    BY <1>0, KeysAssumption DEF Write, TypeOK, Functions
<1>2. k \in ComponentKeys /\ i \in DOMAIN FunctionTable[k]
    BY <1>0, <1>1, FunctionsInTable
<1>3. PICK r : /\ r = ComponentBuild(k, i, s, world, c) /\ r # Error
               /\ \/ o = Owned /\ Store(k, r)
                  \/ o # Owned /\ Put(o, r) /\ UNCHANGED owned
    BY DEF Write, Result, Instance
<1>4. o # Owned /\ Put(o, r)
    BY <1>3 DEF Store
<1>5. o \in Objects /\ c = world[o] /\ o = ComponentTarget(k, i)
    BY <1>0, <1>1, <1>4, KeysAssumption DEF Content, Instance
<1>6. r # c
    <2> HIDE DEF o
    <2> QED
        BY <1>4, <1>5 DEF Put, StorageSecrets
<1>7. Function(k, i) = "hash"
    <2>1. KindOf[k] \in KindsWith(Function(k, i))
        BY <1>0, <1>2, NamesOf, ObjectsAssumption DEF Function, FunctionTable
    <2>2. Function(k, i) \in {"status", "recycle", "hash", "finalizer", "update", "create"}
        BY <1>4, <1>5 DEF ComponentTarget
    <2> QED
        BY <1>0, <2>1, <2>2 DEF KindsWith
<1>8. o = k
    BY <1>5, <1>7 DEF ComponentTarget
<1> HIDE DEF o, c, s
<1>9. r = updateHashAnnotation(k, s.raw, world, c)
    BY <1>3, <1>7 DEF ComponentBuild
<1>10. GetStorageHash(k, world) # Error /\ r = [s.raw EXCEPT !.hash = GetStorageHash(k, world)]
    BY <1>3, <1>6, <1>9 DEF updateHashAnnotation
<1> QED
    BY <1>4, <1>8, <1>10 DEF s

LEMMA WriteTurns ==
    ASSUME Instance, TypeOK, StorageSecrets, SteadyInv, NEW k \in Keys, Write(k), world' # world
    PROVE  \E o \in Objects : \E v : Put(o, v) /\ Turns(o, v)
<1>1. CASE k \notin StorageObjects
    <2>1. PICK o \in Objects : \E r : Put(o, r) /\ KindOf[o] # "Secret" /\ (KindOf[o] = "Storage" => o = k)
        BY WritePuts
    <2>2. o \notin StorageObjects /\ o \notin SecretObjects
        BY <1>1, <2>1 DEF StorageObjects, SecretObjects
    <2> QED
        BY <2>1, <2>2 DEF Turns
<1>2. CASE k \in StorageObjects
    <2> DEFINE h == GetStorageHash(k, world)
               raw == snap[k].raw
               v == [raw EXCEPT !.hash = h]
    <2>1. h # Error /\ Put(k, v)
        BY <1>2, HashWrites
    <2>2. at[k] > 0 /\ k \in Objects /\ k \notin SecretObjects
        BY <1>2 DEF Write, StorageObjects, SecretObjects
    <2>3. world[k] # Absent /\ raw.secret = world[k].secret /\ "hash" \in DOMAIN raw /\ "secret" \in DOMAIN raw
        BY <1>2, <2>2, StorageKey DEF SteadyInv, StorageSecrets, SecretSpec
    <2> HIDE DEF raw, h
    <2>4. v.hash = h /\ v.secret = raw.secret /\ "hash" \in DOMAIN v
        BY <2>3
    <2>5. v = [f \in DOMAIN v |-> v[f]]
        OBVIOUS
    <2> HIDE DEF v
    <2>6. v # Absent
        BY <2>5 DEF Instance
    <2>7. Turns(k, v)
        BY <2>1, <2>2, <2>3, <2>4, <2>6 DEF Turns, h
    <2> QED
        BY <2>1, <2>2, <2>7
<1> QED
    BY <1>1, <1>2

\* What a step makes of Storages and Secrets.
LEMMA SteadyStep ==
    ASSUME Instance, StoragesStay(Scenes), TypeOK, FlagInv, StorageSecrets, SteadyInv, [Next]_vars, world' # world
    PROVE  \E o \in Objects : world'[o] # world[o] /\ Turns(o, world'[o]) /\ \A x \in Objects \ {o} : world'[x] = world[x]
<1>1. \E o \in Objects : \E v : Put(o, v) /\ Turns(o, v)
    BY WorldChanges, EditTurns, WriteTurns
<1>2. PICK o, v : o \in Objects /\ Put(o, v) /\ Turns(o, v)
    BY <1>1
<1>3. world' = [world EXCEPT ![o] = v]
    BY <1>2 DEF Put
<1>4. v # world[o]
    BY <1>2, <1>3 DEF StorageSecrets
<1> QED
    BY <1>2, <1>3, <1>4 DEF TypeOK

LEMMA InitSteady == Instance /\ StoragesStay(Scenes) /\ Init => SteadyInv
<1> SUFFICES ASSUME Instance, StoragesStay(Scenes), Init PROVE SteadyInv
    OBVIOUS
<1>1. PICK s \in Scenes : world = s.world
    BY DEF Init
<1>2. \A o \in Objects : world[o] # Absent => Specified(o, world[o])
    BY <1>1, ScenesAssumption
<1>3. \A x \in SecretObjects : world[x] # Absent => "value" \in DOMAIN world[x] /\ world[x].value \in Nat
    BY <1>2 DEF Specified, SecretObjects
<1>4. \A o \in StorageObjects : world[o] # Absent => "hash" \in DOMAIN world[o]
    BY <1>2 DEF Specified, StorageSpec, StorageObjects
<1>5. \A o \in StorageObjects : world[o] # Absent => world[o].hash = Nil
    BY <1>1 DEF StoragesStay
<1>6. \A o \in StorageObjects : ~(at[o] > 0)
    <2> SUFFICES ASSUME NEW o \in StorageObjects PROVE ~(at[o] > 0)
        OBVIOUS
    <2> QED
        BY StorageKey DEF Init
<1> QED
    BY <1>3, <1>4, <1>5, <1>6 DEF SteadyInv, HashOld

LEMMA StepSteady ==
    ASSUME Instance, StoragesStay(Scenes), TypeOK, FlagInv, StorageSecrets, SteadyInv, [Next]_vars, [Rise]_world
    PROVE  SteadyInv'
<1>0. StorageSecrets'
    BY StepStorages
<1>1. /\ \A x \in SecretObjects : world'[x] # Absent => "value" \in DOMAIN world'[x] /\ world'[x].value \in Nat
      /\ \A o \in StorageObjects : world'[o] # Absent => "hash" \in DOMAIN world'[o]
      /\ \A o \in StorageObjects : world[o] # Absent => world'[o] # Absent /\ world'[o].secret = world[o].secret
    <2>1. CASE world' = world
        BY <2>1 DEF SteadyInv
    <2>2. CASE world' # world
        <3>1. PICK o \in Objects : Turns(o, world'[o]) /\ \A x \in Objects \ {o} : world'[x] = world[x]
            BY <2>2, SteadyStep
        <3> QED
            BY <3>1 DEF Turns, SteadyInv, SecretObjects, StorageObjects
    <2> QED
        BY <2>1, <2>2
<1>2. ASSUME NEW o \in StorageObjects, world'[o] # Absent PROVE HashOld(world'[o], world')
    <2> DEFINE v == world'[o]
               x == v.secret
    <2>0. x \in SecretObjects \cup {Nil} /\ o \in Objects
        BY <1>0, <1>2, StorageKey DEF StorageSecrets, SecretSpec
    <2>1. CASE world' = world
        BY <1>2, <2>1 DEF SteadyInv
    <2>2. CASE world' # world /\ v = world[o]
        <3>1. HashOld(v, world)
            BY <1>2, <2>2 DEF SteadyInv
        <3> SUFFICES ASSUME v.hash # Nil, x # Nil PROVE HashOld(v, world')
            BY DEF HashOld
        <3>2. x \in SecretObjects /\ world[x] # Absent /\ v.hash.secret \in Nat /\ v.hash.secret <= world[x].value
            BY <2>0, <3>1 DEF HashOld
        <3>3. world'[x] # Absent /\ world[x].value <= world'[x].value
            BY <2>2, <3>2 DEF Rise
        <3>4. world[x].value \in Nat /\ world'[x].value \in Nat
            BY <1>1, <3>2, <3>3 DEF SteadyInv
        <3> HIDE DEF v
        <3>5. v.hash.secret <= world'[x].value
            <4> DEFINE a == v.hash.secret
                       b == world[x].value
                       d == world'[x].value
            <4>1. a \in Nat /\ b \in Nat /\ d \in Nat /\ a <= b /\ b <= d
                BY <3>2, <3>3, <3>4
            <4> HIDE DEF a, b, d
            <4>2. a <= d
                BY <4>1
            <4> QED
                BY <4>2 DEF a, d
        <3> QED
            BY <3>2, <3>3, <3>5 DEF HashOld
    <2>3. CASE v # world[o]
        <3>1. Turns(o, v) /\ \A y \in Objects \ {o} : world'[y] = world[y]
            BY <2>0, <2>3, SteadyStep
        <3>2. x # Nil => x \in SecretObjects /\ world'[x] = world[x]
            BY <2>0, <3>1 DEF SecretObjects, StorageObjects
        <3> SUFFICES ASSUME v.hash # Nil, x # Nil PROVE HashOld(v, world')
            BY DEF HashOld
        <3>3. world[o] # Absent /\ world[o].secret = x
            BY <3>1 DEF Turns
        <3>4. CASE v.hash = world[o].hash
            <4>1. HashOld(world[o], world)
                BY <3>3 DEF SteadyInv
            <4> HIDE DEF v
            <4> QED
                BY <3>2, <3>3, <3>4, <4>1 DEF HashOld
        <3>5. CASE v.hash = GetStorageHash(o, world) /\ v.hash # Error
            <4>1. world[x] # Absent /\ v.hash.secret = world[x].value
                <5> HIDE DEF v
                <5> QED
                    BY <3>3, <3>5 DEF GetStorageHash, GetStorageConfig
            <4>2. world[x].value \in Nat
                BY <3>2, <4>1 DEF SteadyInv
            <4> HIDE DEF v
            <4>3. v.hash.secret \in Nat /\ v.hash.secret <= world'[x].value
                BY <3>2, <4>1, <4>2
            <4> QED
                BY <3>2, <4>1, <4>3 DEF HashOld
        <3> QED
            BY <3>1, <3>4, <3>5 DEF Turns
    <2> QED
        BY <2>1, <2>2, <2>3
<1>3. ASSUME NEW o \in StorageObjects, at'[o] > 0
      PROVE  world'[o] # Absent /\ snap'[o].raw.secret = world'[o].secret /\ "hash" \in DOMAIN snap'[o].raw
    <2>1. o \in Keys /\ o \in Objects /\ KindOf[o] = "Storage"
        BY StorageKey
    <2>2. CASE at[o] > 0 /\ snap'[o] = snap[o]
        BY <1>1, <2>2 DEF SteadyInv
    <2>3. CASE snap'[o] = Begin(o, world) /\ snap'[o] \notin {Nothing, Error} /\ world' = world
        <3>1. world[o] # Absent
            BY <2>3 DEF Instance, ComponentBegin
        <3>2. ~Skipped(o, world)
            BY <2>1 DEF Skipped
        <3>3. snap'[o] = [raw |-> world[o]]
            BY <2>1, <2>3, <3>1, <3>2 DEF Instance, ComponentBegin
        <3>4. snap'[o].raw = world[o]
            BY <3>3
        <3> QED
            BY <2>3, <3>1, <3>4 DEF SteadyInv
    <2> QED
        BY <1>3, <2>1, <2>2, <2>3, StepSnap
<1> QED
    BY <1>1, <1>2, <1>3 DEF SteadyInv

-----------------------------------------------------------------------------
(* What was built from more than its controller watches.                   *)

\* In w0, where a StatefulSet was built, the Storage was what it is, and its Secret
\* was no newer than now and no older than the hash in the annotation.
StorageNear(st, w0, w) ==
    LET x == w[st].secret
    IN  /\ w0[st] = w[st]
        /\ w[st] # Absent /\ x # Nil /\ w0[x] # Absent =>
              /\ w[x] # Absent /\ w0[x].value \in Nat /\ w0[x].value <= w[x].value
              /\ w[st].hash = Nil \/ w[st].hash.secret <= w0[x].value

LEMMA StorageNow ==
    ASSUME Instance, StorageSecrets, SteadyInv, NEW st \in StorageObjects
    PROVE  StorageNear(st, world, world)
<1> DEFINE v == world[st]
           x == v.secret
<1> SUFFICES ASSUME v # Absent, x # Nil, world[x] # Absent
             PROVE  /\ world[x].value \in Nat /\ world[x].value <= world[x].value
                    /\ v.hash = Nil \/ v.hash.secret <= world[x].value
    BY DEF StorageNear
<1>1. x \in SecretObjects
    BY StorageKey DEF StorageSecrets, SecretSpec
<1>2. world[x].value \in Nat
    BY <1>1 DEF SteadyInv
<1>3. HashOld(v, world)
    BY DEF SteadyInv
<1> QED
    BY <1>2, <1>3 DEF HashOld

LEMMA NearRises ==
    ASSUME Instance, StoragesStay(Scenes), TypeOK, FlagInv, StorageSecrets, SteadyInv, [Next]_vars, [Rise]_world,
           NEW st \in StorageObjects, world'[st] = world[st], NEW w0, StorageNear(st, w0, world)
    PROVE  StorageNear(st, w0, world')
<1> DEFINE v == world[st]
           x == v.secret
<1>1. CASE world' = world
    BY <1>1
<1>2. CASE world' # world
    <2> SUFFICES ASSUME v # Absent, x # Nil, w0[x] # Absent
                 PROVE  /\ world'[x] # Absent /\ w0[x].value \in Nat /\ w0[x].value <= world'[x].value
                        /\ v.hash = Nil \/ v.hash.secret <= w0[x].value
        BY DEF StorageNear
    <2>1. x \in SecretObjects
        BY StorageKey DEF StorageSecrets, SecretSpec
    <2>2. /\ world[x] # Absent /\ w0[x].value \in Nat /\ w0[x].value <= world[x].value
          /\ v.hash = Nil \/ v.hash.secret <= w0[x].value
        BY DEF StorageNear
    <2>3. world'[x] # Absent /\ world[x].value <= world'[x].value
        BY <1>2, <2>1, <2>2 DEF Rise
    <2>4. world[x].value \in Nat /\ world'[x].value \in Nat
        <3>1. SteadyInv'
            BY StepSteady
        <3> QED
            BY <2>1, <2>2, <2>3, <3>1 DEF SteadyInv
    <2> DEFINE a == w0[x].value
               b == world[x].value
               d == world'[x].value
    <2>5. a \in Nat /\ b \in Nat /\ d \in Nat /\ a <= b /\ b <= d
        BY <2>2, <2>3, <2>4
    <2> HIDE DEF a, b, d
    <2>6. a <= d
        BY <2>5
    <2> QED
        BY <2>2, <2>3, <2>6 DEF a, d
<1> QED
    BY <1>1, <1>2

Near(k, w0, w) ==
    /\ w0[w[k].of] = w[w[k].of]
    /\ KindOf[k] = "Store" => TenantsNear(k, w0, w)
    /\ w[k].storage # Nil => StorageNear(w[k].storage, w0, w)

\* A StatefulSet with a storage is what would be built in such a world.
SetsKept ==
    \A k \in Keys : \A i \in Functions(k) :
        KindOf[k] \in OnStorage /\ Function(k, i) = "statefulSet" /\ Passed(k, i) =>
            /\ owned[k][i] # Error
            /\ \E w0 : Near(k, w0, world) /\ owned[k][i] = Build(k, i, Begin(k, world), w0, owned[k][i])

LEMMA InitSets == Init => SetsKept
BY DEF Init, Listed, SetsKept, Passed

LEMMA StepSets ==
    ASSUME Instance, TenantsStay(Scenes), StoragesStay(Scenes), TypeOK, FlagInv, StorageSecrets, AllSound,
           StayInv, SteadyInv, [Next]_vars, [Rise]_world, SetsKept
    PROVE  SetsKept'
<1> SUFFICES ASSUME NEW k \in Keys, NEW i \in Functions(k),
                    KindOf[k] \in OnStorage, Function(k, i) = "statefulSet", Passed(k, i)'
             PROVE  /\ owned'[k][i] # Error
                    /\ \E w0 : /\ Near(k, w0, world')
                               /\ owned'[k][i] = Build(k, i, Begin(k, world'), w0, owned'[k][i])
    BY DEF SetsKept, Functions
<1>0. KindOf[k] \in Templated /\ KindOf[k] # "Tenant"
    BY DEF OnStorage, Templated, Kinds
<1>1. Sound(k) /\ Followed(k) /\ Target(k, i) = Owned /\ Watched(k, i)
    BY <1>0, ComponentFollowed DEF AllSound, Instance, ComponentTarget, ComponentWatched
<1>2. Begin(k, world') = Begin(k, world) /\ k \notin queued' /\ Begin(k, world) \notin {Nothing, Error}
    <2>1. Begin(k, world') = Begin(k, world)
        BY <1>1, StepPassed
    <2> QED
        BY <2>1 DEF Passed
<1> DEFINE v == world[k]
<1>3. /\ k \in Objects /\ v # Absent /\ v.of # Nil
      /\ world'[k] = v /\ world'[v.of] = world[v.of]
      /\ v.storage # Nil => v.storage \in StorageObjects /\ world'[v.storage] = world[v.storage]
    BY <1>0, <1>2, BegunLabel, SameInputs
<1>4. CASE Passed(k, i) /\ owned'[k][i] = owned[k][i]
    <2>1. owned[k][i] # Error
        BY <1>4 DEF SetsKept
    <2>2. PICK w0 : Near(k, w0, world) /\ owned[k][i] = Build(k, i, Begin(k, world), w0, owned[k][i])
        BY <1>4 DEF SetsKept
    <2>3. KindOf[k] = "Store" => TenantsNear(k, w0, world')
        BY <1>2, <2>2, NearStep DEF Near
    <2>4. v.storage # Nil => StorageNear(v.storage, w0, world')
        BY <1>3, <2>2, NearRises DEF Near
    <2>5. Near(k, w0, world')
        BY <1>3, <2>2, <2>3, <2>4 DEF Near
    <2> QED
        BY <1>2, <1>4, <2>1, <2>2, <2>5
<1>5. CASE /\ world' = world /\ owned'[k][i] # Error /\ owned'[k][i] = owned[k][i]
           /\ owned'[k][i] = Build(k, i, Begin(k, world), world, owned[k][i])
    <2>1. KindOf[k] = "Store" => TenantsNear(k, world, world)
        BY <1>3, NearNow
    <2>2. v.storage # Nil => StorageNear(v.storage, world, world)
        BY <1>3, StorageNow
    <2>3. Near(k, world, world)
        BY <2>1, <2>2 DEF Near
    <2> QED
        BY <1>5, <2>3
<1> QED
    BY <1>1, <1>4, <1>5, StepPassed

LEMMA UsersStep ==
    ASSUME Instance, UsersLast, TypeOK, FlagInv, StorageSecrets, [Next]_vars
    PROVE  UsersKept(world, world')
<1>0. Users \in Objects /\ KindOf[Users] = "Secret"
    BY ObjectsAssumption
<1>1. CASE world' = world
    BY <1>1 DEF UsersKept
<1>2. ASSUME NEW e \in open, Edit(e) PROVE UsersKept(world, world')
    <2>1. PICK s \in Scenes : /\ e \in s.edits /\ ComponentMay(e, world[e.on])
                              /\ Put(e.on, ComponentChange(e, world[e.on]))
        BY <1>2, EditPuts
    <2>2. CASE e.on = Users
        BY <2>1, <2>2 DEF UsersLast, ComponentMay, UsersKept
    <2>3. CASE e.on # Users
        BY <1>0, <2>1, <2>3 DEF Put, TypeOK, UsersKept
    <2> QED
        BY <2>2, <2>3
<1>3. ASSUME NEW k \in Keys, Write(k), world' # world PROVE UsersKept(world, world')
    <2>1. PICK o \in Objects : \E r : Put(o, r) /\ KindOf[o] # "Secret"
        BY <1>3, WritePuts
    <2> QED
        BY <1>0, <2>1 DEF Put, TypeOK, UsersKept
<1> QED
    BY <1>1, <1>2, <1>3, WorldChanges

\* Web configurations and the gateway's built-in user are what would be built now,
\* although nobody watches them.
SecretsBuilt ==
    \A k \in Keys : \A i \in Functions(k) :
        Function(k, i) \in {"webConfigSecret", "builtInUser"} /\ Passed(k, i) =>
            owned[k][i] # Error /\ Build(k, i, Begin(k, world), world, owned[k][i]) = owned[k][i]

LEMMA InitSecrets == Init => SecretsBuilt
BY DEF Init, Listed, SecretsBuilt, Passed

LEMMA StepSecrets ==
    ASSUME Instance, UsersLast, TypeOK, FlagInv, StorageSecrets, AllSound, [Next]_vars, SecretsBuilt
    PROVE  SecretsBuilt'
<1> SUFFICES ASSUME NEW k \in Keys, NEW i \in Functions(k),
                    Function(k, i) \in {"webConfigSecret", "builtInUser"}, Passed(k, i)'
             PROVE  owned'[k][i] # Error /\ Build(k, i, Begin(k, world'), world', owned'[k][i]) = owned'[k][i]
    BY DEF SecretsBuilt, Functions
<1>0. KindOf[k] # "Tenant"
    <2>1. k \in ComponentKeys /\ i \in DOMAIN FunctionTable[k] /\ KindOf[k] \in Kinds \ {"Service", "Secret"}
        BY FunctionsInTable
    <2>2. KindOf[k] \in KindsWith(Function(k, i))
        BY <2>1, NamesOf DEF Function, FunctionTable
    <2> QED
        BY <2>2 DEF KindsWith
<1>1. Sound(k) /\ Followed(k) /\ Target(k, i) = Owned
    BY <1>0, ComponentFollowed DEF AllSound, Instance, ComponentTarget
<1> DEFINE s == Begin(k, world)
           c == owned[k][i]
           d == owned'[k][i]
<1>2. Begin(k, world') = s
    BY <1>1, StepPassed
<1>3. UsersKept(world, world')
    BY UsersStep
<1> HIDE DEF s, c, d
<1>4. CASE Function(k, i) = "webConfigSecret"
    <2>1. \A w, e : Build(k, i, s, w, e) = webConfigSecret(s.cr, w)
        BY <1>4 DEF Instance, ComponentBuild
    <2>2. d # Error /\ webConfigSecret(s.cr, world) = d
        <3>1. CASE Passed(k, i) /\ d = c
            BY <1>4, <2>1, <3>1 DEF SecretsBuilt, s, c
        <3>2. CASE d # Error /\ d = Build(k, i, s, world, c)
            BY <2>1, <3>2
        <3> QED
            BY <1>1, <3>1, <3>2, StepPassed DEF s, c, d
    <2>3. webConfigSecret(s.cr, world') = d
        BY <1>3, <2>2 DEF webConfigSecret, CreateWebConfig, UsersKept
    <2> QED
        BY <1>2, <2>1, <2>2, <2>3 DEF d
<1>5. CASE Function(k, i) = "builtInUser"
    <2>1. \A w, e : Build(k, i, s, w, e) = generateBuiltInBasicAuthUserSecret(s.cr, e)
        BY <1>5 DEF Instance, ComponentBuild
    <2>2. d # Error /\ generateBuiltInBasicAuthUserSecret(s.cr, d) = d
        <3>1. CASE Passed(k, i) /\ d = c
            BY <1>5, <2>1, <3>1 DEF SecretsBuilt, s, c
        <3>2. CASE d # Error /\ d = Build(k, i, s, world, c)
            <4>1. d = generateBuiltInBasicAuthUserSecret(s.cr, c)
                BY <2>1, <3>2
            <4>2. [user |-> "random"] # Absent
                BY ObjectsAssumption
            <4> QED
                BY <3>2, <4>1, <4>2 DEF generateBuiltInBasicAuthUserSecret
        <3> QED
            BY <1>1, <3>1, <3>2, StepPassed DEF s, c, d
    <2> QED
        BY <1>2, <2>1, <2>2 DEF d
<1> QED
    BY <1>4, <1>5

LEMMA HashHas ==
    ASSUME NEW k \in ComponentKeys, KindOf[k] = "Storage"
    PROVE  Has(k, "hash", 0)
<1> DEFINE n == <<"hash", "deployment", "service">>
<1>1. FunctionTable[k] = One(n)
    BY DEF FunctionTable, ResourceFunctions
<1>2. 1 \in DOMAIN n /\ n[1] = "hash"
    OBVIOUS
<1> HIDE DEF n
<1> QED
    BY <1>1, <1>2, OneHas

\* At rest the annotation of a Storage is the hash of its configuration.
LEMMA RestHash ==
    ASSUME Instance, TypeOK, SteadyInv, Prompt, AtRest, NEW st \in StorageObjects, world[st] # Absent
    PROVE  GetStorageHash(st, world) # Error /\ world[st].hash = GetStorageHash(st, world)
<1> DEFINE v == world[st]
           s == [raw |-> v]
           h == GetStorageHash(st, world)
<1>1. st \in Keys /\ st \in ComponentKeys /\ st \in Objects /\ KindOf[st] = "Storage" /\ ~Skipped(st, world)
    BY StorageKey DEF Instance, Skipped
<1>2. Begin(st, world) = s
    BY <1>1 DEF Instance, ComponentBegin
<1>3. s = [f \in DOMAIN s |-> s[f]]
    OBVIOUS
<1>4. s # Nothing /\ s.raw = v
    <2>1. s.raw = v
        OBVIOUS
    <2> HIDE DEF s
    <2> QED
        BY <1>3, <2>1 DEF Instance
<1> HIDE DEF s
<1>5. PICK i \in Functions(st) : Function(st, i) = "hash"
    BY <1>1, HashHas, TableFunctions DEF Has
<1>6. Direct(st, i) /\ Target(st, i) = st /\ Target(st, i) # Owned
    BY <1>1, <1>5, KeysAssumption DEF Instance, ComponentDirect, ComponentTarget
<1>7. Fine(st, i, s)
    BY <1>1, <1>2, <1>4, <1>5, <1>6 DEF Prompt, DirectKeys, AtRest
<1>8. v # Error /\ updateHashAnnotation(st, v, world, v) = v
    BY <1>4, <1>5, <1>6, <1>7 DEF Fine, Content, Instance, ComponentBuild
<1>9. "hash" \in DOMAIN v
    BY DEF SteadyInv
<1>10. h # Error /\ (v.hash = h \/ v = [v EXCEPT !.hash = h])
    BY <1>8 DEF updateHashAnnotation
<1> HIDE DEF h, v
<1>11. v.hash = h
    BY <1>9, <1>10
<1> QED
    BY <1>10, <1>11 DEF h, v

\* So no credentials have changed since a StatefulSet was built.
LEMMA RestConfig ==
    ASSUME Instance, TypeOK, StorageSecrets, SteadyInv, Prompt, AtRest, NEW st \in StorageObjects,
           NEW w0, StorageNear(st, w0, world), GetStorageConfig(st, w0) # Error
    PROVE  GetStorageConfig(st, world) = GetStorageConfig(st, w0)
<1> DEFINE v == world[st]
           x == v.secret
           h == v.hash
<1>1. w0[st] = v /\ v # Absent
    BY DEF StorageNear, GetStorageConfig
<1>2. h # Error /\ h = GetStorageConfig(st, world)
    BY <1>1, RestHash DEF GetStorageHash
<1>3. GetStorageConfig(st, world) = [bucket |-> v.bucket, secret |-> IF x = Nil THEN Nil ELSE world[x].value]
    BY <1>1, <1>2 DEF GetStorageConfig
<1>4. GetStorageConfig(st, w0) = [bucket |-> v.bucket, secret |-> IF x = Nil THEN Nil ELSE w0[x].value]
    BY <1>1 DEF GetStorageConfig
<1>5. CASE x = Nil
    BY <1>3, <1>4, <1>5
<1>6. CASE x # Nil
    <2>1. w0[x] # Absent /\ x \in SecretObjects
        BY <1>1, <1>6, StorageKey DEF GetStorageConfig, StorageSecrets, SecretSpec
    <2>2. h = [f \in DOMAIN h |-> h[f]] /\ h.secret = world[x].value
        BY <1>2, <1>3, <1>6
    <2>3. h # Nil
        <3> HIDE DEF h
        <3> QED
            BY <2>2 DEF Instance
    <2>4. /\ world[x] # Absent /\ w0[x].value \in Nat /\ w0[x].value <= world[x].value
          /\ h.secret <= w0[x].value
        BY <1>1, <1>6, <2>1, <2>3 DEF StorageNear
    <2>5. world[x].value \in Nat
        BY <2>1, <2>4 DEF SteadyInv
    <2> DEFINE a == w0[x].value
               b == world[x].value
    <2>6. a \in Nat /\ b \in Nat /\ a <= b /\ b <= a
        BY <2>2, <2>4, <2>5
    <2> HIDE DEF a, b
    <2>7. a = b
        BY <2>6
    <2> QED
        BY <1>3, <1>4, <2>7 DEF a, b
<1> QED
    BY <1>5, <1>6

\* Nor have its tenants.
LEMMA RestTenants ==
    ASSUME TypeOK, StayInv, TenantsTold, AtRest, NEW k \in Objects, KindOf[k] = "Store", world[k] # Absent,
           NEW w0, TenantsNear(k, w0, world)
    PROVE  /\ Together(world[k].of, world[k].storage, w0) = Together(world[k].of, world[k].storage, world)
           /\ \A t \in Together(world[k].of, world[k].storage, world) : w0[t] = world[t]
<1> DEFINE v == world[k]
           old == Together(v.of, v.storage, w0)
           new == Together(v.of, v.storage, world)
<1>1. \A t \in old : w0[t] = world[t]
    BY DEF TenantsNear
<1>2. ASSUME NEW t \in old PROVE t \in new
    <2>1. w0[t] = world[t]
        BY <1>1
    <2> QED
        BY <2>1, TogetherIn
<1>3. CASE new = {}
    <2> HIDE DEF old, new
    <2> QED
        BY <1>2, <1>3 DEF old, new
<1>4. CASE new # {}
    <2>1. PICK j \in DOMAIN Places : Name(j) = k /\ Pair(j) = <<v.of, v.storage>>
        BY DEF StayInv, Placed
    <2>2. Pair(j)[1] = v.of /\ Pair(j)[2] = v.storage
        BY <2>1
    <2>3. v.hashes # Nil /\ v.hashes.tenants = new
        BY <1>4, <2>1, <2>2, RestTold DEF Told
    <2>4. new \subseteq old
        BY <2>3 DEF TenantsNear
    <2> HIDE DEF old, new
    <2>5. old = new
        BY <1>2, <2>4
    <2> QED
        BY <1>1, <2>5 DEF old, new
<1> QED
    BY <1>3, <1>4

\* A reconcile that goes on has the storage of its label.
LEMMA BeginStorage ==
    ASSUME NEW k, KindOf[k] \in OnStorage, NEW w, WellFormed(k, w[k]), ComponentBegin(k, w) \notin {Nothing, Error}
    PROVE  ComponentBegin(k, w).cr.storage = w[k].storage /\ ComponentBegin(k, w).cr.of = w[k].of
<1> DEFINE v == w[k]
           svc == w[v.of]
           t == ApplyDefaults(svc.tmpl[KindOf[k]], KindOf[k])
<1>0. KindOf[k] \in Templated
    BY DEF OnStorage, Templated, Kinds
<1>1. v # Absent /\ ComponentBegin(k, w).cr.of = v.of
    BY <1>0, BeginLabel
<1>2. "storage" \in DOMAIN v
    BY <1>1 DEF WellFormed, StorageLabel
<1>3. SetService(k, w) = svc
    BY <1>0 DEF ComponentBegin, SetService, Templated
<1>4. ComponentBegin(k, w) = [raw |-> v, svc |-> svc, cr |-> Merge(v, t)]
    BY <1>0, <1>3 DEF ComponentBegin, TemplatedBegin, CompactorBegin, Templated
<1> HIDE DEF t, v
<1>5. Merge(v, t).storage = v.storage
    BY <1>2 DEF Merge
<1>6. ComponentBegin(k, w).cr = Merge(v, t)
    BY <1>4
<1> QED
    BY <1>1, <1>5, <1>6 DEF v

\* A Store that is not the Service's own keeps the tenants of its place.
LEMMA OwnTenants ==
    ASSUME NEW cr, NEW w, w[cr.of].storage # cr.storage
    PROVE  StoreRelabelConfig(cr, w) = {w[t].id : t \in Together(cr.of, cr.storage, w)}
<1> DEFINE own == OfStorage("Tenant", cr.of, cr.storage, w)
<1>1. own \cup {} = own
    OBVIOUS
<1>2. StoreRelabelConfig(cr, w) = {w[t].id : t \in GetTenantHash(own \cup {}, w)}
    BY DEF StoreRelabelConfig
<1> QED
    BY <1>1, <1>2 DEF Together

\* At rest a StatefulSet with a storage is what would be built now.
LEMMA CalmSets ==
    ASSUME Instance, TypeOK, FlagInv, StorageSecrets, StayInv, SteadyInv, TenantsTold, SetsKept, Prompt, AtRest,
           NEW k \in Keys, KindOf[k] \in OnStorage, NEW i \in Functions(k), Function(k, i) = "statefulSet",
           Begin(k, world) \notin {Nothing, Error}, ~Lagging(k, i)
    PROVE  Fine(k, i, Begin(k, world))
<1> DEFINE s == ComponentBegin(k, world)
           v == world[k]
           d == owned[k][i]
           p == Part(k, i)
<1>0. KindOf[k] \in Templated
    BY DEF OnStorage, Templated, Kinds
<1>1. /\ k \in ComponentKeys /\ k \in Objects /\ WellFormed(k, v) /\ v # Absent /\ v.of \in ServiceObjects
      /\ KindOf[k] \in {"Store", "Compactor"} => v.storage # Nil
    BY <1>0, BegunLabel
<1>2. s.cr.storage = v.storage /\ s.cr.of = v.of
    BY <1>1, BeginStorage DEF Instance
<1>3. v.storage # Nil => v.storage \in StorageObjects
    BY <1>1 DEF WellFormed, StorageLabel
<1>4. Passed(k, i) /\ Begin(k, world) = s
    BY DEF Passed, AtRest, Resting, Instance
<1>5. PICK w0 : Near(k, w0, world) /\ d = Build(k, i, s, w0, d) /\ d # Error
    BY <1>4 DEF SetsKept
<1>6. v.storage # Nil /\ GetStorageConfig(v.storage, w0) # Error =>
          GetStorageConfig(v.storage, world) = GetStorageConfig(v.storage, w0)
    BY <1>3, <1>5, RestConfig DEF Near
<1>7. w0[v.of] = world[v.of]
    BY <1>5 DEF Near
<1>8. Content(k, i) = d
    BY DEF Content, Instance, ComponentTarget
<1> SUFFICES ComponentBuild(k, i, s, world, d) = d
    BY <1>4, <1>5, <1>8 DEF Fine, Instance
<1>9. d = ComponentBuild(k, i, s, w0, d)
    BY <1>5 DEF Instance
<1> DEFINE cr == s.cr
<1> HIDE DEF s, d, p
<1>13. CASE KindOf[k] = "Ingester" /\ Retiring(s.raw)
    BY <1>13 DEF ComponentBuild
<1>10. CASE KindOf[k] = "Ingester" /\ ~Retiring(s.raw)
    <2>1. \A w : ComponentBuild(k, i, s, w, d) = IngesterStatefulSet(cr, s.svc, w)
        BY <1>10 DEF ComponentBuild
    <2>2. d = IngesterStatefulSet(cr, s.svc, w0)
        BY <1>9, <2>1
    <2> HIDE DEF cr
    <2>3. cr.storage # Nil => GetStorageConfig(cr.storage, world) = GetStorageConfig(cr.storage, w0)
        <3>1. cr.storage # Nil => GetStorageConfig(cr.storage, w0) # Error
            BY <1>5, <2>2 DEF IngesterStatefulSet
        <3> QED
            BY <1>2, <1>6, <3>1 DEF cr
    <2>4. IngesterStatefulSet(cr, s.svc, world) = IngesterStatefulSet(cr, s.svc, w0)
        BY <2>3 DEF IngesterStatefulSet
    <2> QED
        BY <2>1, <2>2, <2>4
<1>11. CASE KindOf[k] = "Compactor"
    <2>1. \A w : ComponentBuild(k, i, s, w, d) = CompactorStatefulSet(cr, w)
        BY <1>11 DEF ComponentBuild
    <2>2. d = CompactorStatefulSet(cr, w0)
        BY <1>9, <2>1
    <2>3. cr.storage = v.storage /\ cr.of = v.of /\ v.storage # Nil
        BY <1>1, <1>2, <1>11
    <2> HIDE DEF cr
    <2>4. GetStorageConfig(cr.storage, world) = GetStorageConfig(cr.storage, w0)
        <3>1. GetStorageConfig(cr.storage, w0) # Error
            BY <1>5, <2>2 DEF CompactorStatefulSet
        <3> QED
            BY <1>6, <2>3, <3>1
    <2>5. CompactorRelabelConfig(cr, world) = CompactorRelabelConfig(cr, w0)
        BY <1>7, <2>3 DEF CompactorRelabelConfig
    <2>6. CompactorStatefulSet(cr, world) = CompactorStatefulSet(cr, w0)
        BY <2>4, <2>5 DEF CompactorStatefulSet, CompactorArgs, GetStorageHash
    <2> QED
        BY <2>1, <2>2, <2>6
<1>12. CASE KindOf[k] = "Store"
    <2>1. \A w : ComponentBuild(k, i, s, w, d) = StoreStatefulSet(cr, p, w, d)
        BY <1>12 DEF ComponentBuild, p
    <2>2. d = StoreStatefulSet(cr, p, w0, d)
        BY <1>9, <2>1
    <2>3. cr.storage = v.storage /\ cr.of = v.of /\ v.storage # Nil
        BY <1>1, <1>2, <1>12
    <2>4. world[v.of].storage # v.storage
        BY <1>12 DEF Lagging
    <2>5. /\ Together(v.of, v.storage, w0) = Together(v.of, v.storage, world)
          /\ \A t \in Together(v.of, v.storage, world) : w0[t] = world[t]
        BY <1>1, <1>5, <1>12, RestTenants DEF Near
    <2> HIDE DEF cr
    <2>6. CASE p >= Overlay(cr.parts, 1)
        BY <2>1, <2>2, <2>6 DEF StoreStatefulSet
    <2>7. CASE ~(p >= Overlay(cr.parts, 1))
        <3>1. GetStorageConfig(cr.storage, world) = GetStorageConfig(cr.storage, w0)
            <4>1. GetStorageConfig(cr.storage, w0) # Error
                BY <1>5, <2>2, <2>7 DEF StoreStatefulSet
            <4> QED
                BY <1>6, <2>3, <4>1
        <3>2. w0[cr.of] = world[cr.of]
            BY <1>7, <2>3
        <3>3. StoreRelabelConfig(cr, world) = StoreRelabelConfig(cr, w0)
            <4>1. StoreRelabelConfig(cr, world) = {world[t].id : t \in Together(v.of, v.storage, world)}
                BY <2>3, <2>4, OwnTenants
            <4>2. StoreRelabelConfig(cr, w0) = {w0[t].id : t \in Together(v.of, v.storage, world)}
                BY <1>7, <2>3, <2>4, <2>5, OwnTenants
            <4>3. {world[t].id : t \in Together(v.of, v.storage, world)}
                      = {w0[t].id : t \in Together(v.of, v.storage, world)}
                BY <2>5
            <4> QED
                BY <4>1, <4>2, <4>3
        <3>4. StoreArgs(cr, p, world) = StoreArgs(cr, p, w0)
            BY <3>1, <3>3 DEF StoreArgs
        <3>5. GetTenantHash(OfStorage("Tenant", cr.of, cr.storage, world), world)
                  = GetTenantHash(OfStorage("Tenant", cr.of, cr.storage, w0), w0)
            BY <2>3, <2>5 DEF Together
        <3>6. StoreStatefulSet(cr, p, world, d) = StoreStatefulSet(cr, p, w0, d)
            BY <3>1, <3>2, <3>4, <3>5 DEF StoreStatefulSet, GetStorageHash
        <3> QED
            BY <2>1, <2>2, <3>6
    <2> QED
        BY <2>6, <2>7
<1> QED
    BY <1>10, <1>11, <1>12, <1>13 DEF OnStorage

\* At rest a tenant has nothing left to do, but for the storage hash of its Store.
LEMMA CalmTenants ==
    ASSUME Instance, TypeOK, FlagInv, StayInv, TenantsTold, AtRest, NEW t \in TenantKeys, Begin(t, world) # Nothing
    PROVE  Begin(t, world) # Error /\ \A i \in Functions(t) : Lagging(t, i) \/ Fine(t, i, Begin(t, world))
<1> DEFINE v == world[t]
           svc == world[v.of]
           s == TenantBegin(t, svc, world)
<1>1. t \in Keys /\ t \in Objects /\ KindOf[t] = "Tenant"
    BY DEF TenantKeys, Instance, ComponentKeys
<1>2. v # Absent
    BY DEF Instance, ComponentBegin
<1>3. StayingTenant(v) /\ v.of \in Objects /\ svc # Error /\ svc # Absent
    BY <1>1, <1>2 DEF StayInv, ServiceObjects, AtRest, Resting
<1>4. Begin(t, world) = s /\ s # Error
    BY <1>2, <1>3, TenantBegun
<1>5. s.raw = v /\ s.expected = sortTenantsByStorageAndService(svc, world) /\ \A j \in DOMAIN Places : s.listed[j] = world[Name(j)]
    BY DEF TenantBegin, Name
<1> HIDE DEF s
<1>6. ASSUME NEW i \in Functions(t), i = 1 PROVE Fine(t, i, s)
    <2>1. Function(t, i) = "finalizer"
        BY <1>1, <1>6, TenantTable
    <2>2. Target(t, i) = t /\ Target(t, i) # Owned
        BY <1>1, <2>1, KeysAssumption DEF Instance, ComponentTarget
    <2>3. Content(t, i) = v /\ v # Error
        BY <1>1, <2>2 DEF Content, StayInv
    <2>4. Build(t, i, s, world, v) = RemoveFinalizer(v, v)
        BY <1>5, <2>1 DEF Instance, ComponentBuild
    <2>5. RemoveFinalizer(v, v) = v
        BY <1>3 DEF RemoveFinalizer, StayingTenant
    <2> QED
        BY <2>3, <2>4, <2>5 DEF Fine
<1>7. ASSUME NEW i \in Functions(t), NEW j \in DOMAIN Places, i = UpdateAt(j) PROVE Lagging(t, i)
    BY <1>1, <1>7, TenantTable DEF Lagging
<1>8. ASSUME NEW i \in Functions(t), NEW j \in DOMAIN Places, i = CreateAt(j) PROVE Fine(t, i, s)
    <2> DEFINE c == world[Name(j)]
    <2>1. j \in Nat /\ Name(j) \in Objects /\ Pair(j)[1] \in ServiceObjects /\ Pair(j)[2] \in StorageObjects
        BY PlaceTyped
    <2>2. Function(t, i) = "create" /\ Part(t, i) + 1 = j
        <3>1. Function(t, i) = "create" /\ Part(t, i) = j - 1
            BY <1>1, <1>8, TenantTable
        <3> QED
            BY <2>1, <3>1
    <2>3. Target(t, i) = Name(j) /\ Target(t, i) # Owned
        BY <2>1, <2>2, KeysAssumption DEF Instance, ComponentTarget, Name
    <2>4. Content(t, i) = c /\ c # Error
        BY <2>1, <2>3 DEF Content, StayInv
    <2>5. Build(t, i, s, world, c) = CreateStore(Pair(j), c, s.expected, world, c)
        BY <1>5, <2>2 DEF Instance, ComponentBuild, Pair
    <2>6. c # Absent \/ Pair(j) \notin s.expected
        <3> SUFFICES ASSUME c = Absent, Pair(j) \in s.expected PROVE FALSE
            OBVIOUS
        <3>1. PICK u \in Objects : /\ KindOf[u] = "Tenant" /\ world[u] # Absent /\ ~world[u].deleting
                                   /\ Pair(j) = <<world[u].of, GetStorage(svc, world[u].storage)>>
                                   /\ GetStorage(svc, world[u].storage) # "local"
            BY <1>5 DEF sortTenantsByStorageAndService
        <3>2. u \in TenantKeys
            BY <3>1 DEF TenantKeys, Instance, ComponentKeys
        <3>3. world[u].storage \in StorageObjects \cup {"local"}
            BY <3>1, <3>2 DEF StayInv, StayingTenant
        <3>4. GetStorage(svc, world[u].storage) = world[u].storage \/ world[u].storage \in {Nil, "default"}
            BY DEF GetStorage
        <3>5. world[u].storage \notin {Nil, "default"}
            <4>1. Nil \notin StorageObjects /\ "default" \notin StorageObjects
                BY ObjectsAssumption DEF StorageObjects
            <4>2. "local" \notin {Nil, "default"}
                BY ObjectsAssumption
            <4> QED
                BY <3>3, <4>1, <4>2
        <3>6. Pair(j)[1] = world[u].of /\ Pair(j)[2] = world[u].storage
            BY <3>1, <3>4, <3>5
        <3>7. u \in Together(Pair(j)[1], Pair(j)[2], world)
            BY <3>1, <3>6, TogetherIn
        <3> QED
            BY <3>7, RestTold DEF Told
    <2>7. CreateStore(Pair(j), c, s.expected, world, c) = c
        BY <2>6 DEF CreateStore
    <2> QED
        BY <2>4, <2>5, <2>7 DEF Fine
<1> QED
    BY <1>1, <1>4, <1>6, <1>7, <1>8, TenantTable

\* What is built at rest, of every kind of function.
LEMMA CalmBuilt ==
    ASSUME Instance, TypeOK, FlagInv, StorageSecrets, AllSound, StayInv, SteadyInv, TenantsTold, SetsKept,
           SecretsBuilt, Prompt
    PROVE  Built
<1> SUFFICES ASSUME AtRest, NEW k \in Keys, Begin(k, world) # Nothing
             PROVE  Begin(k, world) # Error /\ \A i \in Functions(k) : Lagging(k, i) \/ Fine(k, i, Begin(k, world))
    BY DEF Built
<1>1. CASE KindOf[k] = "Tenant"
    <2>1. k \in TenantKeys
        BY <1>1 DEF TenantKeys
    <2> QED
        BY <2>1, CalmTenants
<1>2. CASE KindOf[k] # "Tenant"
    <2>1. Resting(k) /\ Begin(k, world) # Error
        BY <1>2 DEF AtRest, Resting, AllSound, Sound
    <2>2. ASSUME NEW i \in Functions(k) PROVE Lagging(k, i) \/ Fine(k, i, Begin(k, world))
        <3>1. Passed(k, i)
            BY <2>1 DEF Passed, Resting
        <3>2. KindOf[k] \in KindsWith(Function(k, i))
            <4>1. k \in ComponentKeys /\ i \in DOMAIN FunctionTable[k] /\ KindOf[k] \in Kinds \ {"Service", "Secret"}
                BY FunctionsInTable
            <4> QED
                BY <4>1, NamesOf DEF Function, FunctionTable
        <3>3. CASE Direct(k, i)
            <4>1. k \in DirectKeys
                BY <3>3 DEF DirectKeys
            <4> QED
                BY <2>1, <3>3, <4>1 DEF Prompt
        <3>4. CASE Function(k, i) = "admission"
            BY <3>4 DEF Lagging
        <3>5. CASE Function(k, i) = "statefulSet"
            <4>1. KindOf[k] \in OnStorage \/ KindOf[k] = "Ruler"
                BY <3>2, <3>5 DEF KindsWith, OnStorage
            <4>2. CASE KindOf[k] = "Ruler"
                BY <3>5, <4>2 DEF Lagging
            <4>3. CASE KindOf[k] \in OnStorage
                BY <2>1, <3>5, <4>3, CalmSets
            <4> QED
                BY <4>1, <4>2, <4>3
        <3>6. CASE Function(k, i) \in {"webConfigSecret", "builtInUser"}
            <4>1. Content(k, i) = owned[k][i]
                BY <3>6 DEF Content, Instance, ComponentTarget
            <4> QED
                BY <3>1, <3>6, <4>1 DEF SecretsBuilt, Fine
        <3> QED
            BY <1>2, <3>3, <3>4, <3>5, <3>6 DEF Instance, ComponentDirect
    <2> QED
        BY <2>1, <2>2
<1> QED
    BY <1>1, <1>2

\* When all controllers rest, every object is what its function would build now:
\* StatefulSets have the storage configuration, with the credentials that reach them
\* by way of the hash annotation of the Storage and its controller, and the tenants
\* that reach a Store by way of the annotation a Tenant writes (GetStorageConfig,
\* Storage.updateHashAnnotation, Tenant.store); web configurations and the built-in
\* user, which nobody watches, are those of the reconcile that went before.
THEOREM BuiltHolds ==
    Instance /\ UsersLast /\ TenantsStay(Scenes) /\ StoragesStay(Scenes) => (Spec /\ SecretsRise => []Built)
<1> SUFFICES ASSUME Instance, UsersLast, TenantsStay(Scenes), StoragesStay(Scenes)
             PROVE  Spec /\ SecretsRise => []Built
    OBVIOUS
<1>1. TypeOK /\ FlagInv /\ [Next]_vars => FlagInv'
    BY StepFlags
<1>2. TypeOK /\ FlagInv /\ StorageSecrets /\ [Next]_vars => StorageSecrets'
    BY StepStorages
<1>3. TypeOK /\ FlagInv /\ StorageSecrets /\ AllSound /\ [Next]_vars => AllSound'
    BY StepAllSound
<1>4. TypeOK /\ FlagInv /\ StorageSecrets /\ StayInv /\ [Next]_vars => StayInv'
    BY StepStay
<1>5. TypeOK /\ FlagInv /\ StorageSecrets /\ StayInv /\ TenantsTold /\ [Next]_vars => TenantsTold'
    BY StepTold
<1>6. TypeOK /\ FlagInv /\ StorageSecrets /\ SteadyInv /\ [Next]_vars /\ [Rise]_world => SteadyInv'
    BY StepSteady
<1>7. /\ TypeOK /\ FlagInv /\ StorageSecrets /\ AllSound /\ StayInv /\ SteadyInv /\ SetsKept
      /\ [Next]_vars /\ [Rise]_world
      => SetsKept'
    BY StepSets
<1>8. TypeOK /\ FlagInv /\ StorageSecrets /\ AllSound /\ SecretsBuilt /\ [Next]_vars => SecretsBuilt'
    BY StepSecrets
<1>9. /\ TypeOK /\ FlagInv /\ StorageSecrets /\ AllSound /\ StayInv /\ SteadyInv /\ TenantsTold /\ SetsKept
      /\ SecretsBuilt /\ Prompt
      => Built
    BY CalmBuilt
<1>10. Init => StayInv /\ TenantsTold /\ SteadyInv
    BY InitStay, InitTold, InitSteady
<1>11. Spec => []Prompt
    BY ComponentsPrompt
<1>12. SecretsRise => [][Rise]_world
    BY PTL DEF SecretsRise, Rise
<1> QED
    BY <1>1, <1>2, <1>3, <1>4, <1>5, <1>6, <1>7, <1>8, <1>9, <1>10, <1>11, <1>12, InitFlags, InitStorages,
       InitAllSound, InitSets, InitSecrets, ReconcilersTypeCorrect, PTL DEF Spec
=============================================================================
