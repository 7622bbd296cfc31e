------------------------------ MODULE MCAccess ------------------------------
(* Roles and access reviews, passkeys, and logins through an OIDC provider.  *)
(* The three share no variable, so a behaviour of one is explored while the  *)
(* others rest in one initial state: focus says which one moves. The calls   *)
(* of each are interchangeable, and the same model values stand for the      *)
(* calls of all.                                                             *)
EXTENDS Access, Passkeys, OIDCLogin, TLC
CONSTANTS p1
VARIABLE focus

entryVars == <<focus, accessVars, passkeyVars, oidcVars>>
MCProjectOf == [e \in Envs |-> p1]
EntrySymmetry == Permutations(AccessCalls) \cup Permutations(Members) \cup Permutations(Subjects)

EntryInit ==
    /\ focus \in {"access", "passkeys", "oidc"}
    /\ AccessInit /\ PasskeyInit /\ OIDCInit
EntryNext ==
    \/ focus = "access" /\ AccessNext /\ UNCHANGED <<focus, passkeyVars, oidcVars>>
    \/ focus = "passkeys" /\ PasskeyNext /\ UNCHANGED <<focus, accessVars, oidcVars>>
    \/ focus = "oidc" /\ OIDCNext /\ UNCHANGED <<focus, accessVars, passkeyVars>>
EntrySpec == EntryInit /\ [][EntryNext]_entryVars

\* Access keeps few rows: people without teams, or teams with one owner, and two
\* calls at once only when both are about the instance.
TeamRows == Cardinality({x \in Teams \X Scopes : teamRole[x[1]][x[2]] > 0})
          + Cardinality({x \in Teams \X People : x[2] \in roster[x[1]]})
          + Cardinality(Teams \ teams) + Cardinality(fresh)
PersonRows == Cardinality({x \in People \X Scopes : direct[x[1]][x[2]] > 0}) + Cardinality(off)
Busy == {c \in AccessCalls : request[c].pc # "idle"}
FewRows ==
    /\ \A s \in Scopes \ {Instance} : direct[Oldest][s] = 0
    /\ activated > 0 => boots = 0 /\ ~crossed
    /\ crossed => \A s \in Scopes \ {Instance}, p \in People : direct[p][s] = 0
    /\ \/ /\ PersonRows <= 2 /\ TeamRows = 0
          /\ Cardinality(Busy) > 1 =>
               /\ activated = 0 /\ boots = 0 /\ off = {}
               /\ \A p \in People, s \in Scopes \ {Instance} : direct[p][s] = 0
               /\ \A c \in Busy : request[c].scope = Instance /\ request[c].op # "elevate"
       \/ TeamRows <= 2 /\ PersonRows = 1 /\ InstanceOwners = {Oldest} /\ activated = 0
          /\ Cardinality(Busy) <= 1 /\ boots = 0
\* A second provider row and a change at the provider or of an account are explored
\* together with one callback under way.
MovesApart ==
    moves > 0 /\ provider.version > 1 =>
        \E c \in Callbacks : \A d \in Callbacks \ {c} : callback[d] = IdleCallback
Explored == FewRows /\ MovesApart
=============================================================================
