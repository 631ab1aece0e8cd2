------------------------------- MODULE Ruler -------------------------------
(***************************************************************************)
(* The Ruler controller: Resources with what RuleFiles wants, and what the *)
(* rulers then evaluate.                                                   *)
(***************************************************************************)
EXTENDS Resources, RuleFiles

ASSUME RulerAssumption ==
    /\ Names = RulerNames /\ Absent = Missing /\ Inputs = RulerInputs
    /\ \A i \in Inputs : Plans(i) = RulerPlans(i)

\* Places <<k, j>> where the StatefulSet of shard k mounts the ConfigMap j of its
\* own and finds it.
Mounted ==
    {p \in Shards \X (0..(NFiles - 1)) :
        /\ store[StatefulSet(p[1])] # Missing
        /\ p[2] \in Range(store[StatefulSet(p[1])].mounts)
        /\ store[ConfigMap(p[1], p[2])] # Missing}

\* At rest every group of every selected PrometheusRule is evaluated by exactly
\* one shard, from one file, as it is; and nothing else is evaluated.
EveryGroupOnce ==
    AtRest =>
        /\ \A r \in Rules : input.rules[r] \in Specs =>
              \A g \in {g \in Groups : input.rules[r][g] > 0} :
                 \E p \in Mounted : \A q \in Mounted :
                    store[ConfigMap(q[1], q[2])].files[FileOf[r]][g]
                       = IF q = p THEN input.rules[r][g] ELSE 0
        /\ \A p \in Mounted, f \in Files, g \in Groups :
              store[ConfigMap(p[1], p[2])].files[f][g] > 0 =>
                 \E r \in Rules : FileOf[r] = f /\ input.rules[r] \in Specs

\* At rest the groups of every selected PrometheusRule are mounted, as the
\* description of ruleSelectors says, whatever the rules are called.
SelectedMounted ==
    AtRest => \A r \in Rules : input.rules[r] \in Specs =>
                 \A g \in {g \in Groups : input.rules[r][g] > 0} :
                    \E p \in Mounted :
                       store[ConfigMap(p[1], p[2])].files[FileOf[r]][g] = input.rules[r][g]

\* No ConfigMap is ever written that is larger than the limit.
SizeBound ==
    \A k \in Shards, j \in 0..(NFiles - 1) :
        store[ConfigMap(k, j)] # Missing =>
            SumFunction(Sizes(store[ConfigMap(k, j)].files)) <= Limit
=============================================================================
