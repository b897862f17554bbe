---------------------------- MODULE MCShardScan ----------------------------
\* Two sessions of one clone, their order indifferent; three members.
EXTENDS ShardScan, TLC

SessionSymmetry == Permutations(Sessions)

\* The shards of the others have one record, the second's too new for an old ref, and
\* the third is there for the limit on shards.  At most one thing is wrong in a
\* behaviour: no opt-in, another's commit, a listing that fails or an unreadable shard.
OneTrouble ==
  LET gone == UNION {look[s].gone : s \in Sessions} \cup cache.unread
  IN  /\ gone \subseteq {1, 2}
      /\ \A shards \in {disk, branch} :
           shards[2] \subseteq {2} /\ shards[3] \subseteq (IF shards[2] = {} THEN {} ELSE {1})
      /\ Cardinality(gone) + Cardinality(foreign) + (IF enabled THEN 0 ELSE 1)
           + Cardinality({s \in Sessions : ~look[s].listed}) <= 1
=============================================================================
