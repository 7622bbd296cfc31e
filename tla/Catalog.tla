------------------------------ MODULE Catalog -------------------------------
(***************************************************************************)
(* Projects, environments and configs: the tree every other row hangs in.  *)
(* Deleting marks one row and does not reach the rows below it; names are   *)
(* unique among the live rows of a parent; a row is destroyed only when     *)
(* nothing refers to it. A branch config inherits from a base in its own    *)
(* environment, and inheritance needs no grant of its own.                  *)
(*                                                                         *)
(* The three repositories run the same statements on three tables, so one   *)
(* table of rows stands for them; ids are given in order of creation. The   *)
(* secrets of a config are what its latest version holds. Display names,    *)
(* listings and their pages are left out.                                   *)
(***************************************************************************)
EXTENDS Naturals, FiniteSets

CONSTANTS
    Slugs,       \* names of projects, environments and configs
    Keys,        \* secret keys
    Coords,      \* <<environment, config>> names that references use
    MaxRows,     \* bound on rows created
    MaxChanges,  \* bound on changes to the catalog by requests other than the clone
    MaxRefs,     \* bound on references in the catalog at the start
    MaxRefChanges \* bound on changes while the catalog holds references

ASSUME CatalogAssumption ==
    /\ MaxRows \in Nat /\ MaxRows >= 6 /\ MaxChanges \in Nat /\ MaxRefs \in Nat
    /\ MaxRefChanges \in 0 .. MaxChanges
    /\ (\E x, y \in Slugs : x # y) /\ Coords \subseteq Slugs \X Slugs

Ids == 1 .. MaxRows

VARIABLES
    rows,      \* projects, environments and configs by id
    secrets,   \* what each config's latest version holds
    saved,     \* the configs that have a version
    created,   \* rows created so far
    changes,   \* changes so far
    unowned,   \* projects made through a group whose creator has no binding yet
    creating,  \* a config creation that has passed its checks
    clone      \* the environment clone under way

catalogVars == <<rows, secrets, saved, created, changes, unowned, creating, clone>>

NoRow == [kind |-> "none", parent |-> 0, slug |-> "none", base |-> 0, live |-> FALSE]
Row(kind, parent, slug, base) == [kind |-> kind, parent |-> parent, slug |-> slug, base |-> base, live |-> TRUE]

\* A value is plain text or a reference, ${KEY} or ${projects.p.e.c.KEY} by names; Absent
\* stands for a key the version does not hold.
Value(kind, coord, key) == [kind |-> kind, coord |-> coord, key |-> key]
Absent == Value("absent", <<>>, "none")
Text == Value("text", <<>>, "none")
Values == {Text} \cup {Value("local", <<>>, k) : k \in Keys} \cup {Value("absolute", c, k) : c \in Coords, k \in Keys}
NoSecrets == [k \in Keys |-> Absent]
References == {f \in Ids \X Keys : secrets[f[1]][f[2]].kind \in {"local", "absolute"}}

NoCreation == [pc |-> "idle", env |-> 0, slug |-> "none", base |-> 0]
NoClone == [pc |-> "idle", src |-> 0, dst |-> 0, listed |-> {}, left |-> {}, later |-> {},
           read |-> [i \in Ids |-> NoRow], made |-> [i \in Ids |-> 0], from |-> 0]

Kind(k) == {i \in Ids : rows[i].kind = k}
Exists(i) == i \in Ids /\ rows[i].kind # "none"
Live(i) == Exists(i) /\ rows[i].live
ConfigsOf(e) == {c \in Kind("config") : rows[c].parent = e /\ rows[c].live}

\* resolveProject, ReadRawByID: the config, its environment and its project are live.
Visible(c) == Live(c) /\ Live(rows[c].parent) /\ Live(rows[rows[c].parent].parent)

\* The partial unique indexes: no live row of the parent has the name.
Free(kind, parent, slug) ==
    \A i \in Ids : ~(rows[i].live /\ rows[i].kind = kind /\ rows[i].parent = parent /\ rows[i].slug = slug)

\* Foreign keys restrict: nothing hangs in the row, inherits from it or is a version of it.
Unreferenced(i) == i \notin saved /\ \A j \in Ids : rows[j].parent # i /\ rows[j].base # i

CatalogTypeOK ==
    /\ created \in 0 .. MaxRows /\ changes \in 0 .. MaxChanges
    /\ saved \subseteq Kind("config") /\ unowned \subseteq Kind("project")
    /\ secrets \in [Ids -> [Keys -> Values \cup {Absent}]]
    \* No row is left without the row it hangs in or the one it inherits from.
    /\ \A i \in Kind("environment") : rows[i].parent \in Kind("project")
    /\ \A i \in Kind("config") : rows[i].parent \in Kind("environment") /\ rows[i].base \in Kind("config") \cup {0}

\* A project with two environments, a config in each and a branch of the first; a row may
\* have been deleted, where there are no references.
HomeSlug == CHOOSE x \in Slugs : TRUE
CatalogInit == \E gone \in 0 .. 6 :
    LET s == HomeSlug
        t == CHOOSE x \in Slugs : x # s
        start == [i \in Ids |->
            CASE i = 1 -> Row("project", 0, s, 0) [] i = 2 -> Row("environment", 1, s, 0)
              [] i = 3 -> Row("environment", 1, t, 0) [] i = 4 -> Row("config", 2, s, 0)
              [] i = 5 -> Row("config", 3, s, 0) [] i = 6 -> Row("config", 2, t, 4) [] OTHER -> NoRow]
    IN /\ rows = [i \in Ids |-> IF i = gone THEN [start[i] EXCEPT !.live = FALSE] ELSE start[i]]
       /\ \E f, g \in [Keys -> Values], k \in Keys :
            secrets = [i \in Ids |-> CASE i = 4 -> f [] i = 5 -> [NoSecrets EXCEPT ![k] = g[k]]
                                       [] i = 6 -> [NoSecrets EXCEPT ![k] = Text] [] OTHER -> NoSecrets]
       /\ Cardinality(References) <= IF gone = 0 THEN MaxRefs ELSE 0
       /\ saved = {4, 5, 6} /\ created = 6 /\ changes = 0
       /\ unowned = {} /\ creating = NoCreation /\ clone = NoClone

MayChange == changes < (IF References = {} THEN MaxChanges ELSE MaxRefChanges)
Change == changes' = changes + 1
Insert(row) == created < MaxRows /\ created' = created + 1 /\ rows' = [rows EXCEPT ![created + 1] = row]

-----------------------------------------------------------------------------
(* The requests. Each authorizes on the resource the path names, which is   *)
(* looked up first; what it finds decides what it may do.                   *)

\* A creator through a group gets the project bound to the group and then to himself.
CreateProject(s, delegated) ==
    /\ Change /\ Free("project", 0, s) /\ Insert(Row("project", 0, s, 0))
    /\ unowned' = IF delegated THEN unowned \cup {created + 1} ELSE unowned
    /\ UNCHANGED <<secrets, saved, creating, clone>>
SeedProjectOwnership(p) ==
    /\ p \in unowned /\ unowned' = unowned \ {p}
    /\ UNCHANGED <<rows, secrets, saved, created, changes, creating, clone>>

\* The project is not looked up: a deleted one takes environments too.
CreateEnvironment(p, s) ==
    /\ Change /\ p \in Kind("project") /\ Free("environment", p, s) /\ Insert(Row("environment", p, s, 0))
    /\ UNCHANGED <<secrets, saved, unowned, creating, clone>>

\* The environment is live, and so is the base, in that environment; the row is inserted
\* from what was read.
BaseAllowed(e, base) == base = 0 \/ (Live(base) /\ rows[base].kind = "config" /\ rows[base].parent = e)
CreateConfigChecks(e, s, base) ==
    /\ creating.pc = "idle" /\ Change /\ e \in Kind("environment") /\ Live(e) /\ BaseAllowed(e, base)
    /\ creating' = [pc |-> "checked", env |-> e, slug |-> s, base |-> base]
    /\ UNCHANGED <<rows, secrets, saved, created, unowned, clone>>
CreateConfigInserts ==
    /\ creating.pc = "checked" /\ creating' = NoCreation
    /\ IF Exists(creating.env) /\ (creating.base = 0 \/ Exists(creating.base))
          /\ Free("config", creating.env, creating.slug)
       THEN Insert(Row("config", creating.env, creating.slug, creating.base))
       ELSE UNCHANGED <<rows, created>>
    /\ UNCHANGED <<secrets, saved, changes, unowned, clone>>

SoftDelete(i) ==
    /\ Change /\ Live(i) /\ rows' = [rows EXCEPT ![i].live = FALSE]
    /\ UNCHANGED <<secrets, saved, created, unowned, creating, clone>>
\* Mutant of Undelete: the name may be taken again.
UndeleteAnyName(i) ==
    /\ Change /\ Exists(i) /\ ~rows[i].live
    /\ rows' = [rows EXCEPT ![i].live = TRUE]
    /\ UNCHANGED <<secrets, saved, created, unowned, creating, clone>>
Undelete(i) ==
    /\ Change /\ Exists(i) /\ ~rows[i].live /\ Free(rows[i].kind, rows[i].parent, rows[i].slug)
    /\ rows' = [rows EXCEPT ![i].live = TRUE]
    /\ UNCHANGED <<secrets, saved, created, unowned, creating, clone>>
\* Live or deleted.
Destroy(i) ==
    /\ Change /\ Exists(i) /\ Unreferenced(i)
    /\ rows' = [rows EXCEPT ![i] = NoRow] /\ unowned' = unowned \ {i}
    /\ UNCHANGED <<secrets, saved, created, creating, clone>>

\* SetSecrets of one key, a removal included.
SetSecrets(c, k, v) ==
    /\ Change /\ c \in Kind("config") /\ Visible(c)
    /\ secrets' = [secrets EXCEPT ![c][k] = v] /\ saved' = saved \cup {c}
    /\ UNCHANGED <<rows, created, unowned, creating, clone>>

-----------------------------------------------------------------------------
(* CloneEnvironment: a new environment, and then a config and its secrets    *)
(* at a time, as separate writes. The configs come newest first, so that a   *)
(* branch is met before its base and waits for it.                           *)

CloneBegins(e, s) ==
    /\ clone.pc = "idle" /\ e \in Kind("environment") /\ Live(e)
    /\ Free("environment", rows[e].parent, s) /\ Insert(Row("environment", rows[e].parent, s, 0))
    /\ clone' = [NoClone EXCEPT !.pc = "list", !.src = e, !.dst = created + 1]
    /\ UNCHANGED <<secrets, saved, changes, unowned, creating>>
CloneLists ==
    /\ clone.pc = "list"
    /\ clone' = [clone EXCEPT !.pc = "copy", !.listed = ConfigsOf(clone.src), !.left = ConfigsOf(clone.src),
                              !.read = [i \in Ids |-> IF i \in ConfigsOf(clone.src) THEN rows[i] ELSE NoRow]]
    /\ UNCHANGED <<rows, secrets, saved, created, changes, unowned, creating>>

\* A pass over the configs, newest first, makes those that need not wait for their base
\* and puts the others off to the next pass. When all that is left waits, bases outside
\* the listing are the reason and it is made without a base.
Waits(c) == clone.read[c].base # 0 /\ clone.made[clone.read[c].base] = 0
Pass == IF \E c \in clone.left : ~Waits(c) THEN clone.left ELSE clone.left \cup clone.later
NextToClone(c) ==
    LET ready == IF \A d \in Pass : Waits(d) THEN Pass ELSE {d \in Pass : ~Waits(d)}
    IN c \in ready /\ \A d \in ready : d <= c
PutOff(c) == {d \in Pass : d > c} \cup (IF Pass = clone.left THEN clone.later ELSE {})
NewBase(c) == IF clone.read[c].base = 0 THEN 0 ELSE clone.made[clone.read[c].base]
CloneMakes(c) ==
    /\ clone.pc = "copy" /\ NextToClone(c)
    /\ BaseAllowed(clone.dst, NewBase(c))
    /\ Exists(clone.dst) /\ Free("config", clone.dst, clone.read[c].slug)
    /\ Insert(Row("config", clone.dst, clone.read[c].slug, NewBase(c)))
    /\ clone' = [clone EXCEPT !.pc = "secrets", !.left = {d \in Pass : d < c}, !.later = PutOff(c),
                              !.made[c] = created + 1, !.from = c]
    /\ UNCHANGED <<secrets, saved, changes, unowned, creating>>
\* RevealConfig of the source, which must have a version, and SetSecrets of the copy.
CopyOwnSecrets ==
    LET c == clone.from  d == clone.made[c] IN
    /\ clone.pc = "secrets" /\ Visible(c) /\ c \in saved
    /\ IF secrets[c] = NoSecrets THEN UNCHANGED <<secrets, saved>>
       ELSE Visible(d) /\ secrets' = [secrets EXCEPT ![d] = secrets[c]] /\ saved' = saved \cup {d}
    /\ clone' = [clone EXCEPT !.pc = "copy"]
    /\ UNCHANGED <<rows, created, changes, unowned, creating>>
CloneDone ==
    /\ clone.pc = "copy" /\ clone.left \cup clone.later = {} /\ clone' = [clone EXCEPT !.pc = "done"]
    /\ UNCHANGED <<rows, secrets, saved, created, changes, unowned, creating>>
\* A failed step takes the new environment back, if it can; a stop does not.
CloneFails ==
    /\ clone.pc \in {"list", "copy", "secrets"} /\ clone' = [clone EXCEPT !.pc = "failed"]
    /\ rows' = IF Live(clone.dst) THEN [rows EXCEPT ![clone.dst].live = FALSE] ELSE rows
    /\ UNCHANGED <<secrets, saved, created, changes, unowned, creating>>
CloneStops ==
    /\ clone.pc \in {"list", "copy", "secrets"} /\ clone' = [clone EXCEPT !.pc = "stopped"]
    /\ UNCHANGED <<rows, secrets, saved, created, changes, unowned, creating>>

HierarchyStep ==
    \/ \E s \in Slugs : \/ \E d \in BOOLEAN : CreateProject(s, d)
                        \/ \E p \in Kind("project") : CreateEnvironment(p, s)
                        \/ \E e \in Kind("environment"), b \in Kind("config") \cup {0} : CreateConfigChecks(e, s, b)
    \/ \E i \in Ids : SoftDelete(i) \/ Undelete(i) \/ Destroy(i)
    \/ \E c \in Kind("config"), k \in Keys, v \in Values \cup {Absent} : SetSecrets(c, k, v)
Manage ==
    \/ MayChange /\ HierarchyStep
    \/ \E p \in unowned : SeedProjectOwnership(p)
    \/ CreateConfigInserts
Clone ==
    \/ \E e \in Kind("environment"), s \in Slugs : CloneBegins(e, s)
    \/ CloneLists \/ \E c \in clone.listed : CloneMakes(c)
    \/ CopyOwnSecrets \/ CloneDone \/ CloneFails \/ CloneStops
CatalogNext == Manage \/ Clone

-----------------------------------------------------------------------------
(* Properties.                                                             *)

\* A reference by names leads to one config at most: whatever is deleted, created under
\* the freed name and restored, no two live rows of a parent share a name.
NamesLeadToOneRow ==
    \A i \in 1 .. created : rows[i].live =>
        \A j \in 1 .. i - 1 : rows[j].live => [rows[i] EXCEPT !.base = 0] # [rows[j] EXCEPT !.base = 0]

\* Inheritance never leaves its environment and always ends, so that reading a branch
\* shows nothing of a scope the reader was not asked about, in spite of the time between
\* the check of a base and the insert of its branch.
InheritanceStaysHome ==
    \A c \in Kind("config") : rows[c].base # 0 =>
        rows[rows[c].base].parent = rows[c].parent /\ rows[c].base < c

\* A finished clone is the tree that was listed: a config under each name, whose base is
\* the copy of its base wherever that one was listed too, and had not itself to be made
\* without its base.
CloneKeepsTheTree ==
    clone.pc = "done" =>
      \A c \in clone.listed :
        LET d == clone.made[c]
            base == clone.read[c].base
        IN /\ d # 0
           /\ Exists(d) => /\ rows[d].slug = clone.read[c].slug
                           /\ base \in clone.listed =>
                                \/ rows[d].base = clone.made[base]
                                \/ clone.read[base].base # 0 /\ rows[clone.made[base]].base = 0

\* The tree holds under every sequence of changes.
TreeHolds == CatalogTypeOK /\ NamesLeadToOneRow /\ InheritanceStaysHome /\ CloneKeepsTheTree

=============================================================================
