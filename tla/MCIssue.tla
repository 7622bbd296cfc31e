----------------------------- MODULE MCIssue --------------------------------
(* Passwords, second factors and sessions; federated tokens; idempotency     *)
(* keys; dynamic leases. They share no variable, so a behaviour of one is    *)
(* explored while the others rest in one initial state: focus says which one *)
(* moves. The calls of each are interchangeable, and the same model values   *)
(* stand for the calls of all.                                               *)
EXTENDS Identity, Federation, Idempotency, DynamicLeases, TLC
CONSTANTS r1, r2
VARIABLE focus

issueVars == <<focus, identityVars, fedVars, idemVars, vars>>
MCAnchors == {[audience |-> "a", ca |-> r1], [audience |-> "a", ca |-> r2]}
MCTrustRows == {[anchor |-> a, preset |-> "custom", enabled |-> TRUE] : a \in MCAnchors}
               \cup {[anchor |-> a, preset |-> "provider", enabled |-> FALSE] : a \in MCAnchors}
CallSymmetry == Permutations(Cookies) \cup Permutations(AuthCalls)

IssueInit ==
    /\ focus \in {"identity", "federation", "idempotency", "leases"}
    /\ IdentityInit /\ FederationInit /\ IdemInit /\ Init
    /\ focus # "leases" => ttl = 1 /\ maxTTL = 1
IssueNext ==
    \/ focus = "identity" /\ IdentityNext /\ UNCHANGED <<focus, fedVars, idemVars, vars>>
    \/ focus = "federation" /\ FederationNext /\ UNCHANGED <<focus, identityVars, idemVars, vars>>
    \/ focus = "idempotency" /\ IdemNext /\ UNCHANGED <<focus, identityVars, fedVars, vars>>
    \/ focus = "leases" /\ Next /\ UNCHANGED <<focus, identityVars, fedVars, idemVars>>
IssueSpec == IssueInit /\ [][IssueNext]_issueVars

\* One concern at a time: repeated failures, new passwords, or the second factor; after a
\* crash, a disabling or a console reset one request at a time.
OneConcern ==
    /\ identityFaults > 0 => \E c \in AuthCalls : \A d \in AuthCalls \ {c} : authCall[d] = IdleCall
    /\ \/ fresh.secret = 1 /\ fresh.password = 2 /\ (account.weak => recorded = 0)
       \/ fresh.secret = 1 /\ recorded <= 1
       \/ /\ fresh.password = 2 /\ recorded = 0 /\ ~account.weak
          /\ Cardinality(sessions) <= 1 /\ identityFaults = 0
\* A token is used, changed or orphaned while nothing else is under way.
TokensApart ==
    \/ seenIPs = {} /\ targets = ScopeTargets
       /\ \A t \in SvcTokens : svcTokens[t].status \in {"none", "active"}
                               /\ svcTokens[t].allow \in {{}, Addresses}
    \/ /\ replacing = NotReplacing /\ flushes = 0 /\ changes <= 1
       /\ \A x \in Exchanges : exchange[x] = IdleExchange
\* After a seal, a crash or a deletion from outside, one lease call at a time.
FaultsApart == faults > 0 => Cardinality({c \in Calls : call[c] # Idle}) <= 1
Explored == (focus = "identity" => OneConcern) /\ (focus = "federation" => TokensApart) /\ (focus = "leases" => FaultsApart)
=============================================================================
