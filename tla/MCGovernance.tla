---------------------------- MODULE MCGovernance ----------------------------
(* Four-eyes approval, the audit log and the transit keys. The three share   *)
(* no variable, so a behaviour of one is explored while the others rest in   *)
(* one initial state: focus says which one moves. The calls of each are      *)
(* interchangeable, and the same model values stand for the calls of all.    *)
EXTENDS FourEyes, Audit, Transit, TLC
VARIABLE focus

governanceVars == <<focus, vars, avars, transitVars>>
GovernanceSymmetry == Permutations(Users) \cup Permutations(AuditCalls)

GovernanceInit ==
    /\ focus \in {"foureyes", "audit", "transit"}
    /\ Init /\ AuditInit /\ TransitInit
    /\ focus # "foureyes" => ~cfgFlag /\ ~envFlag
    /\ focus # "audit" => seeded = 0 /\ floor = [events |-> 0, days |-> FALSE]
GovernanceNext ==
    \/ focus = "foureyes" /\ Next /\ UNCHANGED <<focus, avars, transitVars>>
    \/ focus = "audit" /\ AuditNext /\ UNCHANGED <<focus, vars, transitVars>>
    \/ focus = "transit" /\ TransitNext /\ UNCHANGED <<focus, vars, avars>>
GovernanceSpec == GovernanceInit /\ [][GovernanceNext]_governanceVars

\* A verification that has answered changes nothing any more: its state is checked
\* and not left. A pass of the shipper meets one call at a time. Shipping, a floor
\* on days and an alteration are explored one at a time, the latter two with one call.
OneStory ==
    /\ \A c \in AuditCalls : acall[c].at # "answered"
    /\ shipper # Resting => \E c \in AuditCalls : acall[c] = Idle
    /\ floor.days => floor.events = 0
    /\ floor.days \/ altered > 0 => \E c \in AuditCalls : \A d \in AuditCalls \ {c} : acall[d] = Idle
    /\ Cardinality({x \in {"ship", "days", "alter"} :
        \/ x = "ship" /\ (mark > seeded \/ shipper # Resting)
        \/ x = "days" /\ floor.days
        \/ x = "alter" /\ altered > 0}) <= 1

\* Nothing is asked of a transit key whose latest_version slipped back, and few
\* envelopes of a key say as much as many. A re-created key is used by one call at a time.
FewEnvelopes ==
    /\ ~slipped /\ Cardinality(issued) <= 1
    /\ keys > 1 => \E c \in TransitCalls : \A d \in TransitCalls \ {c} : call[d] = IdleCall

Explored == (focus = "audit" => OneStory) /\ (focus = "transit" => FewEnvelopes)
=============================================================================
