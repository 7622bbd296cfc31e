----------------------------- MODULE MCDelivery -----------------------------
(* The ways values leave: reveals in the project tree, and syncs to external *)
(* destinations. They share no variable, so a behaviour of one is explored   *)
(* while the other rests in one initial state: focus says which one moves.   *)
EXTENDS Resolver, SecretSync, TLC
VARIABLE focus

deliveryVars == <<focus, resolverVars, syncVars>>
MCCoords == {<<HomeSlug, HomeSlug>>} \cup {<<x, HomeSlug>> : x \in Slugs}
DeliverySymmetry == Permutations(Keys) \cup Permutations(Destinations)

DeliveryInit ==
    /\ focus \in {"reveal", "sync"}
    /\ ResolverInit /\ SyncInit
    /\ focus # "reveal" => References = {} /\ \A i \in Ids : rows[i] # NoRow => rows[i].live
DeliveryNext ==
    \/ focus = "reveal" /\ ResolverNext /\ UNCHANGED <<focus, syncVars>>
    \/ focus = "sync" /\ SyncNext /\ UNCHANGED <<focus, resolverVars>>
DeliverySpec == DeliveryInit /\ [][DeliveryNext]_deliveryVars

\* Reads and clones of the tree are looked at apart, and clones with fewer changes than
\* the tree by itself unless a branch of a branch has been saved; of two
\* syncs and a verification two are under way at once, one after a disturbance.
Explored ==
    /\ read.pc # "idle" => changes <= 2 /\ clone.pc = "idle"
    /\ clone.pc # "idle" => /\ Cardinality(References) <= 1
                           /\ (changes <= 1 \/ \E c \in saved : rows[c].base = 6)
    /\ Cardinality({w \in Syncers : syncer[w].pc # "idle"})
         + (IF verifier.pc = "idle" THEN 0 ELSE 1) <= IF syncFaults > 0 THEN 1 ELSE 2
=============================================================================
