----------------------------- MODULE VersionLog -----------------------------
(***************************************************************************)
(* What the version history of a config promises to its users, without     *)
(* rows, manifests or garbage collection: a numbered log of states that    *)
(* grows at the head, whose old entries may be forgotten as a whole but    *)
(* are never altered, and whose numbers are never used twice.              *)
(***************************************************************************)
EXTENDS Naturals

CONSTANTS
    States,        \* the states a version may record
    MaxVersion     \* bound on the version numbers

VARIABLES
    head,          \* the number of the newest version, 0 before the first
    remembered,    \* the versions that can be read and rolled back to
    state          \* what they record

logVars == <<head, remembered, state>>

LogInit ==
    /\ head = 0
    /\ remembered = {}
    /\ state \in [1 .. MaxVersion -> States]

\* A new version at the next number; whatever it records, it is remembered.
Append ==
    /\ head < MaxVersion
    /\ head' = head + 1
    /\ remembered' = remembered \cup {head'}
    /\ \A v \in remembered : state'[v] = state[v]

\* Any set of old versions is forgotten; never the newest, never a part of one.
Forget ==
    /\ remembered' \subseteq remembered
    /\ head \in remembered'
    /\ \A v \in remembered' : state'[v] = state[v]
    /\ UNCHANGED head

LogNext == Append \/ Forget

LogSpec == LogInit /\ [][LogNext]_logVars

=============================================================================
