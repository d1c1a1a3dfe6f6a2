----------------------------- MODULE MCErasureRun -----------------------------
(* Instances of ErasureRun for TLC: see the ErasureRun_*.cfg files. *)
EXTENDS ErasureRun, TLC

CONSTANTS i1, i2

\* Nothing tells the rows of an instance apart.
Symmetric == Permutations(Id)

Entities == {1, 2, 3}

\* Entity 1 is retained in part; entity 2 is deleted, and its deletion takes rows of 1 and 3
\* with it; entity 3, which has no identities, is anonymized.
Rules ==
    <<[deletes |-> {}, anonymizes |-> {"subject"}, retains |-> {"name"},
       level |-> "delete-fields"],
      [deletes |-> {"name"}, anonymizes |-> {}, retains |-> {}, level |-> "delete-row"],
      [deletes |-> {}, anonymizes |-> {"name"}, retains |-> {}, level |-> "delete-row"]>>

Cascades == {<<2, 1>>, <<2, 3>>}
===============================================================================
