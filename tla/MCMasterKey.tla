---------------------------- MODULE MCMasterKey ----------------------------
(* Model-checking instances of MasterKey: handlers, and shares, are          *)
(* interchangeable.                                                          *)
EXTENDS MasterKey, TLC

HandlerSymmetry == Permutations(Requests) \cup Permutations(Shares)

=============================================================================
