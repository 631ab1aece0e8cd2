----------------------------- MODULE RuleFiles -----------------------------
(***************************************************************************)
(* What the Ruler controller wants of its objects: from the selected       *)
(* PrometheusRules and the number of shards to rule files, from rule files *)
(* to ConfigMaps of bounded size, and per shard a StatefulSet that mounts  *)
(* them and a Service (pkg/controllers/resources/ruler).                   *)
(*                                                                         *)
(* A PrometheusRule is the size of each of its groups, 0 for a group it    *)
(* does not have; the size of a file is the sum of those of its groups.    *)
(* Files are numbered in the order of their names.                         *)
(***************************************************************************)
EXTENDS Naturals, FiniteSets, Functions, SequencesExt

CONSTANTS
    Rules,          \* PrometheusRules
    NFiles,         \* number of names of rule files
    FileOf,         \* the file name made of a rule's namespace and name
    Groups,         \* names of groups
    Versions,       \* of each rule: functions from Groups to sizes
    Invalid,        \* a rule that ValidateRule rejects
    Unselected,     \* no such rule, or no selector matches it
    Hash,           \* sum64 of the md5 of file and group name
    Limit,          \* maxConfigMapDataSize
    MaxShards,      \* bound: shards
    Missing         \* there is no such object

Files == 1..NFiles
Specs == UNION {Versions[r] : r \in Rules}

ASSUME RuleFilesAssumption ==
    /\ NFiles \in Nat /\ Limit \in Nat /\ MaxShards \in Nat
    /\ FileOf \in [Rules -> Files]
    /\ Versions \in [Rules -> SUBSET [Groups -> Nat]]
    /\ Hash \in [Files \X Groups -> Nat]
    /\ IsFiniteSet(Groups)
    /\ Unselected \notin Specs
    /\ Missing \notin [files : [Files -> [Groups -> Nat]], mounts : Seq(Nat)]

\* The Ruler and the PrometheusRules.
RulerInputs ==
    {i \in [shards : 1..MaxShards, rules : [Rules -> Specs \cup {Invalid, Unselected}]] :
        \A r \in Rules : i.rules[r] \in Versions[r] \cup {Invalid, Unselected}}

\* The Ruler is scaled, or one PrometheusRule changes.
RulerEdits(i) ==
    {j \in RulerInputs : \/ j.shards # i.shards /\ j.rules = i.rules
                         \/ /\ j.shards = i.shards
                            /\ \E r \in Rules : j.rules = [i.rules EXCEPT ![r] = j.rules[r]]} \ {i}

-----------------------------------------------------------------------------
(* Rule files.                                                             *)

Claims(i, f) == {r \in Rules : FileOf[r] = f /\ i.rules[r] # Unselected}

\* The first rule listed under a file name has it; the cache lists in any order.
selectPrometheusRules(i) ==
    {s \in [Files -> Specs \cup {Invalid, Unselected}] :
        \A f \in Files : IF Claims(i, f) = {} THEN s[f] = Unselected
                         ELSE \E r \in Claims(i, f) : s[f] = i.rules[r]}

NoGroups == [g \in Groups |-> 0]
NoFiles == [f \in Files |-> NoGroups]

\* Mutant: every shard gets every group.
ShardFilesAll(s, n, k) ==
    [f \in Files |-> IF s[f] = Unselected THEN NoGroups ELSE s[f]]

\* The groups of each file that fall to shard k of n.
ShardFiles(s, n, k) ==
    [f \in Files |->
        IF s[f] = Unselected THEN NoGroups
        ELSE [g \in Groups |-> IF Hash[<<f, g>>] % n = k THEN s[f][g] ELSE 0]]

Sizes(files) == [f \in Files |-> SumFunction(files[f])]

-----------------------------------------------------------------------------
(* ConfigMaps.                                                             *)

\* Mutant: the check forgets the file that is about to be added.
BucketsLate(size) ==
    LET b[f \in 0..NFiles] ==
          IF f = 0 THEN [index |-> 0, used |-> 0]
          ELSE IF b[f - 1].used > Limit
               THEN [index |-> b[f - 1].index + 1, used |-> size[f]]
               ELSE [index |-> b[f - 1].index, used |-> b[f - 1].used + size[f]]
    IN  b

\* makeRulesConfigMaps: a file that does not fit the current bucket opens the
\* next one.
Buckets(size) ==
    LET b[f \in 0..NFiles] ==
          IF f = 0 THEN [index |-> 0, used |-> 0]
          ELSE IF b[f - 1].used + size[f] > Limit
               THEN [index |-> b[f - 1].index + 1, used |-> size[f]]
               ELSE [index |-> b[f - 1].index, used |-> b[f - 1].used + size[f]]
    IN  b

\* The ConfigMaps of a shard, of which the first is always there.
MakeRulesConfigMaps(files) ==
    LET b == Buckets(Sizes(files))
    IN  [j \in 0..b[NFiles].index |->
            [f \in Files |-> IF b[f].index = j THEN files[f] ELSE NoGroups]]

\* GenerateContent refuses an invalid rule, makeRulesConfigMaps a file that is
\* too large, and with it everything.
Computable(s, n) ==
    /\ \A f \in Files : s[f] # Invalid
    /\ \A k \in 0..(n - 1) : \A f \in Files : Sizes(ShardFiles(s, n, k))[f] <= Limit

-----------------------------------------------------------------------------
(* The owned objects.                                                      *)

Shards == 0..(MaxShards - 1)
ConfigMap(k, j) == <<"ConfigMap", k, j>>
StatefulSet(k) == <<"StatefulSet", k, 0>>
Service(k) == <<"Service", k, 0>>

RulerNames ==
    ({"ConfigMap"} \X Shards \X (0..(NFiles - 1)))
    \cup ({"StatefulSet", "Service"} \X Shards \X {0})

\* Rule files of a ConfigMap, mounts of a StatefulSet.
RulerContents ==
    [files : [Files -> [Groups -> 0..Limit]], mounts : Seq(0..(NFiles - 1))]

\* statefulSet ranges over a map of names: the volumes come in any order.
Mounts(last) == SetToSeqs(0..last)

Desired(s, n, order) ==
    LET cms == [k \in 0..(n - 1) |-> MakeRulesConfigMaps(ShardFiles(s, n, k))]
    IN  [o \in RulerNames |->
            IF o[2] >= n THEN Missing
            ELSE CASE o[1] = "ConfigMap" ->
                        IF o[3] \in DOMAIN cms[o[2]]
                        THEN [files |-> cms[o[2]][o[3]], mounts |-> <<>>]
                        ELSE Missing
                   [] o[1] = "StatefulSet" -> [files |-> NoFiles, mounts |-> order[o[2]]]
                   [] o[1] = "Service" -> [files |-> NoFiles, mounts |-> <<>>]]

Orders(s, n) ==
    LET last(k) == Buckets(Sizes(ShardFiles(s, n, k)))[NFiles].index
    IN  {q \in [0..(n - 1) -> UNION {Mounts(j) : j \in 0..(NFiles - 1)}] :
            \A k \in 0..(n - 1) : q[k] \in Mounts(last(k))}

\* Ruler.Reconcile, tabulated: inputs with the states wanted.
PlanTable ==
    {<<i, UNION {{Desired(s, i.shards, q) : q \in Orders(s, i.shards)} :
                    s \in {s \in selectPrometheusRules(i) : Computable(s, i.shards)}}>> :
        i \in RulerInputs}
RulerPlans(i) == (CHOOSE entry \in PlanTable : entry[1] = i)[2]

\* ruleConfigMaps writes only ConfigMaps that differ from the listed ones.
RulerCompared == {o \in RulerNames : o[1] = "ConfigMap"}
RulerRecreated == {o \in RulerNames : o[1] = "StatefulSet"}

\* Surplus ConfigMaps go first, then the others are written in any order; of
\* StatefulSets and Services those of the shards are written first.
RulerRank(o, delete) ==
    CASE o[1] = "ConfigMap" -> IF delete THEN 0 ELSE 1
      [] o[1] = "StatefulSet" -> IF delete THEN 2 + MaxShards ELSE 2 + o[2]
      [] o[1] = "Service" -> IF delete THEN 3 + 2 * MaxShards ELSE 3 + MaxShards + o[2]
=============================================================================
