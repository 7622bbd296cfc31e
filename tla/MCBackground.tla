---------------------------- MODULE MCBackground ----------------------------
(* What the schedulers bring about in the end: leases that have run out are  *)
(* revoked, notices are settled. The two share no variable, so a behaviour   *)
(* of one is explored, under its own fairness, while the other rests in one  *)
(* initial state: focus says which one moves.                                *)
EXTENDS DynamicLeases, Notification
VARIABLE focus

backgroundVars == <<focus, vars, notifyVars>>

BackgroundInit ==
    /\ focus \in {"leases", "notices"}
    /\ Init /\ NotifyInit
BackgroundNext ==
    \/ focus = "leases" /\ Next /\ UNCHANGED <<focus, notifyVars>>
    \/ focus = "notices" /\ NotifyNext /\ UNCHANGED <<focus, vars>>
BackgroundSpec ==
    /\ BackgroundInit /\ [][BackgroundNext]_backgroundVars
    /\ focus = "leases" => Fairness
    /\ focus = "notices" => NotifyFairness
=============================================================================
