---------------------------- MODULE MCTranscendJob ----------------------------
EXTENDS TranscendJob, TLC

CONSTANTS r1, r2, w1, w2, s1, s2, f1, f2

Symmetry == Permutations({r1, r2}) \cup Permutations({w1, w2}) \cup Permutations({s1, s2})
                \cup Permutations({f1, f2})
===============================================================================
