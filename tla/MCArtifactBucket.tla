--------------------------- MODULE MCArtifactBucket ---------------------------
(* Instances of ArtifactBucket for TLC: see the ArtifactBucket_*.cfg files. *)
EXTENDS ArtifactBucket

CONSTANTS w1, w2, r1, d1, x, y
===============================================================================
