--------------------------- MODULE MCProjectKeys ---------------------------
(* Model-checking instances of ProjectKeys: writers, sweepers, readers and  *)
(* requests are interchangeable.                                            *)
EXTENDS ProjectKeys, TLC

ActorSymmetry == Permutations(Writers) \cup Permutations(Sweepers)
                 \cup Permutations(Readers) \cup Permutations(Requests)

\* No two of a read, a second sweep and an edit request are looked at together.
ReadsApart ==
    LET reads == \E g \in Readers : reader[g].pc # "idle"
        sweeps == \A s \in Sweepers : sweep[s] # IdleSweep
        edits == \E q \in Requests : req[q] # 0
    IN ~(reads /\ sweeps) /\ ~(reads /\ edits) /\ ~(sweeps /\ edits)
=============================================================================
