------------------------------ MODULE MCRuler ------------------------------
(***************************************************************************)
(* Small instances of Ruler for TLC.                                       *)
(***************************************************************************)
EXTENDS Ruler

MCGroups == {1, 2}
\* Rule 1 fills a ConfigMap; rule 2 is too large for one unless it is sharded, and
\* a shard then needs two.
MCVersions == [r \in Rules |-> IF r = 1 THEN {<<1, 2>>} ELSE {<<2, 2>>}]
\* The groups of a file fall to different shards.
MCHash == [p \in Files \X MCGroups |-> p[1] + p[2]]
MCFileOf == [r \in Rules |-> r]
\* Two rules whose namespaces and names join to the same file name.
MCSameFile == [r \in Rules |-> 1]
=============================================================================
