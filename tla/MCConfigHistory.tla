-------------------------- MODULE MCConfigHistory --------------------------
(* Model-checking instances of ConfigHistory: keys, readers and requests    *)
(* are interchangeable.                                                     *)
EXTENDS ConfigHistory, TLC

HistorySymmetry == Permutations(Keys) \cup Permutations(Readers)
                   \cup Permutations(Promotions)

=============================================================================
