------------------------------ MODULE Resolver ------------------------------
(***************************************************************************)
(* Revealing one key of a config: the inheritance chain is read config by   *)
(* config, and a value that is a reference leads on, by names, to a config  *)
(* the reader must be allowed to read as well. Nothing holds the catalog    *)
(* still meanwhile: rows are deleted, restored, re-created under a freed    *)
(* name and saved between any two reads. Resolving a whole config resolves  *)
(* its keys one after the other in the same way.                            *)
(***************************************************************************)
EXTENDS Catalog, Sequences

CONSTANT MaxDepth   \* maxDepth: the frames a resolution may stack up

ASSUME ResolverAssumption == MaxDepth \in Nat \ {0}

VARIABLES
    granted,   \* the environments the reader may read secrets of
    read       \* the resolution under way

resolverVars == <<catalogVars, granted, read>>

Frames == Ids \X Keys
\* at, key: the config and key being expanded; merged: its inheritance-merged values, and
\* from which config each comes; chain: the configs read so far, next the one to read;
\* used: history, the configs whose values have gone into the result, under which config
\* each was merged; allowed: history, the environments granted at some time since the
\* start; quiet: history, nothing has changed since the start.
NoRead == [pc |-> "idle", root |-> 0, first |-> "none", at |-> 0, key |-> "none", next |-> 0, chain |-> <<>>,
           merged |-> NoSecrets, from |-> [k \in Keys |-> 0], stack |-> <<>>, prov |-> {}, used |-> {},
           allowed |-> {}, quiet |-> TRUE, answer |-> "none"]

MayRead(e) == e \in granted

ResolverTypeOK ==
    /\ granted \subseteq Ids /\ read.prov \subseteq Ids
    /\ read.pc \in {"idle", "chain", "expand", "target", "done"}
    /\ Len(read.stack) <= MaxDepth /\ \A i \in DOMAIN read.stack : read.stack[i] \in Frames
    \* The seen-guard of the inheritance walk never fires.
    /\ \A i, j \in DOMAIN read.chain : read.chain[i].id = read.chain[j].id => i = j

ResolverInit == CatalogInit /\ granted = {2} /\ read = NoRead

\* Any answer but "value" is an error, with which nothing is returned.
Answer(a) == read' = [read EXCEPT !.pc = "done", !.answer = a]

\* The handler looks the config up live, with its environment, and authorizes the reader.
ResolveKey(c, k) ==
    /\ read.pc = "idle" /\ c \in Kind("config") /\ Live(c) /\ Live(rows[c].parent) /\ MayRead(rows[c].parent)
    /\ read' = [NoRead EXCEPT !.pc = "chain", !.root = c, !.first = k, !.at = c, !.key = k, !.next = c,
                                !.allowed = granted]
    /\ UNCHANGED <<catalogVars, granted>>

\* resolveMerged: one ReadRawByID a step; the values of the config itself win.
ReadRawByID ==
    /\ read.pc = "chain" /\ read.next # 0
    /\ IF Visible(read.next)
       THEN read' = [read EXCEPT !.next = rows[@].base,
                       !.chain = Append(@, [id |-> read.next, env |-> rows[read.next].parent, own |-> secrets[read.next]])]
       ELSE Answer(IF read.chain = <<>> THEN "missing" ELSE "broken")
    /\ UNCHANGED <<catalogVars, granted>>
Nearest(k) ==
    LET holders == {i \in DOMAIN read.chain : read.chain[i].own[k] # Absent}
    IN IF holders = {} THEN 0 ELSE CHOOSE i \in holders : \A j \in holders : i <= j
\* Mutant of RecordProvenance: only the first target is recorded.
RecordProvenanceOfFirst == IF Len(read.stack) = 1 THEN read.prov \cup {read.at} ELSE read.prov
\* A reference's target is provenance once it is known to hold the key.
RecordProvenance == IF read.stack = <<>> THEN read.prov ELSE read.prov \cup {read.at}
ResolveMerged ==
    /\ read.pc = "chain" /\ read.next = 0
    /\ IF Nearest(read.key) = 0
       THEN Answer("unresolved")
       ELSE read' = [read EXCEPT !.pc = "expand", !.chain = <<>>, !.prov = RecordProvenance,
              !.merged = [k \in Keys |-> IF Nearest(k) = 0 THEN Absent ELSE read.chain[Nearest(k)].own[k]],
              !.from = [k \in Keys |-> IF Nearest(k) = 0 THEN 0 ELSE read.chain[Nearest(k)].env]]
    /\ UNCHANGED <<catalogVars, granted>>

\* Mutant of Seen: a frame is recognized by its key alone.
SeenByKey == \E i \in DOMAIN read.stack : read.stack[i][2] = read.key
\* resolveKey: the depth, a frame met before, the key, and then the value.
Seen == \E i \in DOMAIN read.stack : read.stack[i] = <<read.at, read.key>>
Expand ==
    LET v == read.merged[read.key]
        pushed == Append(read.stack, <<read.at, read.key>>)
        used == read.used \cup {[under |-> read.at, env |-> read.from[read.key]]}
    IN /\ read.pc = "expand"
       /\ CASE Len(read.stack) >= MaxDepth -> Answer("depth")
            [] Len(read.stack) < MaxDepth /\ Seen -> Answer("cycle")
            [] OTHER ->
                 read' = CASE v = Absent -> [read EXCEPT !.pc = "done", !.answer = "unresolved"]
                           [] v.kind = "text" -> [read EXCEPT !.pc = "done", !.answer = "value", !.used = used]
                           [] v.kind = "local" -> [read EXCEPT !.key = v.key, !.stack = pushed, !.used = used]
                           [] OTHER -> [read EXCEPT !.pc = "target", !.stack = pushed, !.used = used]
       /\ UNCHANGED <<catalogVars, granted>>

\* resolveRef of an absolute reference: ReadRaw by names among live rows, and the check
\* on the config found.
Found(coord) ==
    {c \in Kind("config") : LET e == rows[c].parent IN
        /\ Visible(c) /\ rows[c].slug = coord[2] /\ rows[e].slug = coord[1]
        /\ rows[rows[e].parent].slug = HomeSlug}
ResolveRef ==
    LET v == read.merged[read.key] IN
    /\ read.pc = "target"
    /\ IF Found(v.coord) = {} THEN Answer("unresolved")
       ELSE \E c \in Found(v.coord) :
              IF ~MayRead(rows[c].parent) THEN Answer("forbidden")
              ELSE read' = [read EXCEPT !.pc = "chain", !.at = c, !.key = v.key, !.next = c]
    /\ UNCHANGED <<catalogVars, granted>>

\* recordReveal: one event for the config asked for and one per provenance.
Answered ==
    /\ read.pc = "done" /\ read' = NoRead
    /\ UNCHANGED <<catalogVars, granted>>

\* The reader is granted or refused an environment; a change of the catalog ends the quiet.
Grant(e) ==
    /\ MayChange /\ Change /\ e \in Kind("environment")
    /\ granted' = IF e \in granted THEN granted \ {e} ELSE granted \cup {e}
    /\ read' = IF read.pc = "idle" THEN read ELSE [read EXCEPT !.quiet = FALSE, !.allowed = @ \cup granted']
    /\ UNCHANGED <<rows, secrets, saved, created, unowned, creating, clone>>
CatalogMoves == CatalogNext /\ read' = [read EXCEPT !.quiet = read.pc = "idle"] /\ UNCHANGED granted

ResolverNext ==
    \/ \E c \in Kind("config"), k \in Keys : ResolveKey(c, k)
    \/ ReadRawByID \/ ResolveMerged \/ Expand \/ ResolveRef \/ Answered
    \/ \E e \in Kind("environment") : Grant(e)
    \/ CatalogMoves
ResolverSpec == ResolverInit /\ [][ResolverNext]_resolverVars

-----------------------------------------------------------------------------
(* Properties.                                                             *)

\* No value goes into an answer that belongs to an environment the reader had no grant
\* on at any time since he asked: not through names that have come to mean another
\* config, not through the base of a target, not after a grant was withdrawn.
RevealStaysInScope ==
    read.answer = "value" => \A u \in read.used : u.env \in read.allowed

\* Every config that was read through a reference is in the provenance, and so in the
\* audit log, however long the way to it; bases are covered by their branch.
ProvenanceIsWhole ==
    read.answer = "value" => \A u \in read.used : u.under \in read.prov \cup {read.root}

\* The reference: what a key means in the catalog as it stands. Effective is the value
\* under inheritance; a frame leads to the frame its reference names.
Ancestry[c \in Ids] == {c} \cup IF rows[c].base = 0 THEN {} ELSE Ancestry[rows[c].base]
Effective[c \in Ids] ==
    [k \in Keys |-> IF secrets[c][k] # Absent \/ rows[c].base = 0 THEN secrets[c][k] ELSE Effective[rows[c].base][k]]
Readable(c) == \A b \in Ancestry[c] : Visible(b)
Meant(coord) == CHOOSE c \in Found(coord) : TRUE
Ends(c, k) ==
    LET v == Effective[c][k] IN
    CASE v = Absent -> "unresolved"
      [] v.kind = "text" -> "value"
      [] v.kind = "local" -> "on"
      [] OTHER -> IF Found(v.coord) = {} THEN "unresolved"
                  ELSE IF ~MayRead(rows[Meant(v.coord)].parent) THEN "forbidden"
                  ELSE IF ~Readable(Meant(v.coord)) THEN "broken"
                  ELSE IF Effective[Meant(v.coord)][v.key] = Absent THEN "unresolved" ELSE "on"
\* The n-th frame on the way from a key, for as long as the way goes on.
Way(c, k) ==
    LET way[n \in 0 .. MaxDepth] ==
          IF n = 0 THEN <<c, k>>
          ELSE LET f == way[n - 1]
                   v == Effective[f[1]][f[2]]
               IN IF Ends(f[1], f[2]) # "on" THEN f
                  ELSE IF v.kind = "local" THEN <<f[1], v.key>> ELSE <<Meant(v.coord), v.key>>
    IN way
Truth(c, k) ==
    LET way == Way(c, k)
        ended(n) == Ends(way[n][1], way[n][2]) # "on"
        again(n) == \E m \in 0 .. n - 1 : way[m] = way[n]
        stops == {n \in 0 .. MaxDepth : n = MaxDepth \/ ended(n) \/ again(n)}
        stop == CHOOSE n \in stops : \A m \in stops : n <= m
    IN IF ~Readable(c) THEN IF Visible(c) THEN "broken" ELSE "missing"
       ELSE IF Effective[c][k] = Absent THEN "unresolved"
       ELSE IF stop = MaxDepth THEN "depth" ELSE IF again(stop) THEN "cycle" ELSE Ends(way[stop][1], way[stop][2])

\* The steps compute what the catalog means: while nothing changes, a cycle is reported
\* exactly where references run in a circle, a refusal exactly where the way leads out of
\* the grants, and a value exactly where it ends in text within maxDepth.
AnswerIsTheTruth ==
    read.pc = "done" /\ read.quiet => read.answer = Truth(read.root, read.first)

\* A reveal shows and records what it should.
RevealIsAccountedFor == ResolverTypeOK /\ RevealStaysInScope /\ ProvenanceIsWhole

=============================================================================
