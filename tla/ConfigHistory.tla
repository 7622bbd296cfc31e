--------------------------- MODULE ConfigHistory ---------------------------
(***************************************************************************)
(* The version history of one config: config_versions, their manifests     *)
(* (config_version_entries), the secret_values rows the manifests point    *)
(* at, and the operations that share them: saving a batch, rolling back,   *)
(* pruning, and revealing a version.                                       *)
(*                                                                         *)
(* Save, rollback and prune lock the config row FOR UPDATE, so each is one *)
(* step. So is filing a request: its foreign key takes a share lock on the *)
(* same row. A reveal is not: it reads the version row and its entries in  *)
(* separate statements, outside any transaction.                           *)
(*                                                                         *)
(* The n-th secret_values row ever written for key k is called n; a value  *)
(* is represented by the row that holds it.                                *)
(***************************************************************************)
EXTENDS Naturals, FiniteSets

CONSTANTS
    Keys,          \* secret keys
    Readers,       \* concurrent reveals
    Promotions,    \* promotion requests that name this config as their source
    Floor,         \* JANUS_SECRET_RETAIN_MIN_VERSIONS, 0 when unset
    Keeps,         \* the keep_versions a prune or an override may ask for
    MaxVersion     \* bound on the versions committed

ASSUME HistoryAssumption ==
    /\ Floor \in Nat
    /\ Keeps \subseteq Nat
    /\ MaxVersion \in Nat \ {0}

Versions == 1 .. MaxVersion
NoKeys == [k \in Keys |-> 0]

VARIABLES
    live,          \* the config is not soft-deleted
    versions,      \* the numbers in config_versions
    entries,       \* manifests: version -> key -> row, 0 when not live
    tombs,         \* manifests: version -> keys with a tombstone entry
    rows,          \* secret_values: key -> the rows that exist
    vv,            \* secret_values: key -> row -> value_version
    born,          \* key -> how many rows were ever written
    head,          \* history: the number of the last committed version
    aged,          \* versions up to this one are older than any keep_days
    override,      \* config_version_retention.min_versions, 0 when unset
    editing,       \* an edit request of this config is pending or applying
    promo,         \* promotion request -> source version, 0 when not pending
    grounded,      \* history: requests whose source existed when filed
    prune,         \* a PruneVersions call: its keep_versions, 0 when idle
    young,         \* ... and whether it has a keep_days too
    reader         \* the local state of each reveal

vars == <<live, versions, entries, tombs, rows, vv, born, head, aged, override,
          editing, promo, grounded, prune, young, reader>>

Idle == [pc |-> "idle", ver |-> 0, want |-> NoKeys, got |-> NoKeys]

\* ConfigRepo.Create: a config without versions.
Init ==
    /\ live = TRUE
    /\ versions = {} /\ head = 0 /\ aged = 0
    /\ entries = [v \in Versions |-> NoKeys]
    /\ tombs = [v \in Versions |-> {}]
    /\ rows = [k \in Keys |-> {}]
    /\ vv = [k \in Keys |-> [n \in Versions |-> 0]]
    /\ born = NoKeys
    /\ override = 0
    /\ editing = FALSE
    /\ promo = [p \in Promotions |-> 0] /\ grounded = {}
    /\ prune = 0 /\ young = FALSE
    /\ reader = [r \in Readers |-> Idle]

----------------------------------------------------------------------------
(* SaveConfigVersion and Rollback.                                         *)

\* SELECT COALESCE(MAX(version), 0) FROM config_versions.
Latest == IF versions = {} THEN 0
          ELSE CHOOSE v \in versions : \A w \in versions : w <= v

\* livePointers of the latest version; empty before the first.
Current == IF Latest = 0 THEN NoKeys ELSE entries[Latest]



\* SELECT COALESCE(MAX(value_version), 0) + 1 over the rows that exist.
NextValueVersion(k) ==
    IF rows[k] = {} THEN 1
    ELSE 1 + (CHOOSE m \in {vv[k][n] : n \in rows[k]} : \A n \in rows[k] : vv[k][n] <= m)

\* The config version and its manifest are inserted with the next number.
Commit(manifest, tombstones) ==
    /\ versions' = versions \cup {Latest + 1}
    /\ entries' = [entries EXCEPT ![Latest + 1] = manifest]
    /\ tombs' = [tombs EXCEPT ![Latest + 1] = tombstones]
    /\ head' = Latest + 1

\* One batch: sets write new rows, deletes drop live keys and leave a
\* tombstone, everything else is carried forward. An edit request approved, a
\* promotion into this config and a rotation commit the same way.
SaveConfigVersion(sets, dels) ==
    /\ live /\ Latest < MaxVersion
    /\ Commit([k \in Keys |-> IF k \in sets THEN born[k] + 1
                              ELSE IF k \in dels THEN 0 ELSE Current[k]],
              {k \in dels : Current[k] # 0})
    /\ born' = [k \in Keys |-> IF k \in sets THEN born[k] + 1 ELSE born[k]]
    /\ rows' = [k \in Keys |-> IF k \in sets THEN rows[k] \cup {born[k] + 1} ELSE rows[k]]
    /\ vv' = [k \in Keys |-> IF k \in sets
                             THEN [vv[k] EXCEPT ![born[k] + 1] = NextValueVersion(k)]
                             ELSE vv[k]]
    /\ UNCHANGED <<live, aged, override, editing, promo, grounded, prune, young, reader>>

\* Mutant of Rollback: keys the target does not have get no tombstone.
RollbackWithoutTombstones(v) ==
    /\ live /\ v \in versions /\ Latest < MaxVersion
    /\ Commit(entries[v], {})
    /\ UNCHANGED <<live, rows, vv, born, aged, override, editing, promo, grounded,
                   prune, young, reader>>

\* The target's rows are reused; keys live now but not then get a tombstone.
Rollback(v) ==
    /\ live /\ v \in versions /\ Latest < MaxVersion
    /\ Commit(entries[v], {k \in Keys : Current[k] # 0 /\ entries[v][k] = 0})
    /\ UNCHANGED <<live, rows, vv, born, aged, override, editing, promo, grounded,
                   prune, young, reader>>

----------------------------------------------------------------------------
(* PruneVersions.                                                          *)

Larger(a, b) == IF a < b THEN b ELSE a


\* The strictest of request, instance floor and override, and never below 1.
EffectiveFloor(keep) == Larger(Larger(keep, 1), Larger(Floor, override))

\* The request is checked, and the config and its override are read, before
\* the transaction begins.
BeginPrune(keep, days) ==
    /\ prune = 0 /\ live
    /\ keep # 0 \/ days
    /\ prune' = EffectiveFloor(keep) /\ young' = days
    /\ UNCHANGED <<live, versions, entries, tombs, rows, vv, born, head, aged,
                   override, editing, promo, grounded, reader>>

\* Mutant of Pinned: no version is pinned.
PinnedNone == {}

\* The versions a pending promotion request reads as its source.
Pinned == {promo[p] : p \in {q \in Promotions : promo[q] # 0}}

\* Retention rules add up: among the newest, young enough (when keep_days
\* asks for that), or pinned.
Survivors ==
    {v \in versions : \/ Cardinality({w \in versions : w > v}) < prune
                      \/ young /\ v > aged
                      \/ v \in Pinned}

\* The rows some manifest entry of these versions points at.
Referenced(k, vs) == {entries[v][k] : v \in vs} \ {0}

\* Mutant of CommitPrune: old value rows are deleted, whatever still refers to
\* them, and the manifest entries go with them through the cascade.
CommitPruneOfValues ==
    LET kept == [k \in Keys |-> rows[k] \cap Referenced(k, versions \cap {Latest})]
    IN  /\ prune # 0
        /\ prune' = 0 /\ young' = FALSE
        /\ rows' = kept
        /\ entries' = [v \in Versions |-> [k \in Keys |->
                          IF entries[v][k] \in kept[k] THEN entries[v][k] ELSE 0]]
        /\ UNCHANGED <<live, versions, tombs, vv, born, head, aged, override, editing,
                       promo, grounded, reader>>

\* Mutant of CommitPrune: the values of pruned versions are not collected.
CommitPruneKeepingValues ==
    /\ prune # 0
    /\ prune' = 0 /\ young' = FALSE
    /\ IF live /\ ~editing /\ versions # {}
       THEN /\ versions' = Survivors
            /\ entries' = [v \in Versions |->
                             IF v \in Survivors THEN entries[v] ELSE NoKeys]
            /\ tombs' = [v \in Versions |->
                             IF v \in Survivors THEN tombs[v] ELSE {}]
       ELSE UNCHANGED <<versions, entries, tombs>>
    /\ UNCHANGED <<live, rows, vv, born, head, aged, override, editing, promo, grounded, reader>>

\* The transaction: refused for a deleted config, one without versions and one
\* with an open edit request; otherwise the versions that no rule keeps go with
\* their manifests, and then the rows nothing refers to. It rolls back if that
\* would cost a survivor one of its entries.
CommitPrune ==
    LET kept == IF Survivors = versions THEN rows
                ELSE [k \in Keys |-> rows[k] \cap Referenced(k, Survivors)]
        whole == \A v \in Survivors, k \in Keys :
                    entries[v][k] # 0 => entries[v][k] \in kept[k]
    IN  /\ prune # 0
        /\ prune' = 0 /\ young' = FALSE
        /\ IF live /\ ~editing /\ versions # {} /\ whole
           THEN /\ versions' = Survivors
                /\ entries' = [v \in Versions |->
                                 IF v \in Survivors THEN entries[v] ELSE NoKeys]
                /\ tombs' = [v \in Versions |->
                                 IF v \in Survivors THEN tombs[v] ELSE {}]
                /\ rows' = kept
           ELSE UNCHANGED <<versions, entries, tombs, rows>>
        /\ UNCHANGED <<live, vv, born, head, aged, override, editing, promo, grounded, reader>>

\* SetVersionRetention, ClearVersionRetention.
SetVersionRetention(n) ==
    /\ live /\ override # n
    /\ override' = n
    /\ UNCHANGED <<live, versions, entries, tombs, rows, vv, born, head, aged,
                   editing, promo, grounded, prune, young, reader>>

----------------------------------------------------------------------------
(* RevealConfig and RevealConfigVersion.                                   *)

\* GetLatest: the number of the newest version, or ErrNotFound.
RevealLatest(r) ==
    /\ reader[r].pc = "idle" /\ live /\ Latest # 0
    /\ reader' = [reader EXCEPT ![r] = [pc |-> "version", ver |-> Latest,
                                        want |-> NoKeys, got |-> NoKeys]]
    /\ UNCHANGED <<live, versions, entries, tombs, rows, vv, born, head, aged, override,
                   editing, promo, grounded, prune, young>>

\* RollbackChanges, and promote.Plan with its pinned version.
RevealVersion(r, v) ==
    /\ reader[r].pc = "idle" /\ live
    /\ reader' = [reader EXCEPT ![r] = [pc |-> "version", ver |-> v,
                                        want |-> NoKeys, got |-> NoKeys]]
    /\ UNCHANGED <<live, versions, entries, tombs, rows, vv, born, head, aged, override,
                   editing, promo, grounded, prune, young>>

\* GetVersion's first statement: the version row, or ErrNotFound.
ReadVersion(r) ==
    /\ reader[r].pc = "version"
    /\ reader' = [reader EXCEPT ![r] =
          IF reader[r].ver \in versions
          THEN [pc |-> "entries", ver |-> reader[r].ver,
                want |-> entries[reader[r].ver], got |-> NoKeys]
          ELSE Idle]
    /\ UNCHANGED <<live, versions, entries, tombs, rows, vv, born, head, aged, override,
                   editing, promo, grounded, prune, young>>

\* Its second statement: the entries, joined with the rows that exist.
ReadEntries(r) ==
    /\ reader[r].pc = "entries"
    /\ reader' = [reader EXCEPT ![r].pc = "done",
          ![r].got = [k \in Keys |-> IF entries[reader[r].ver][k] \in rows[k]
                                     THEN entries[reader[r].ver][k] ELSE 0]]
    /\ UNCHANGED <<live, versions, entries, tombs, rows, vv, born, head, aged, override,
                   editing, promo, grounded, prune, young>>

EndReveal(r) ==
    /\ reader[r].pc = "done"
    /\ reader' = [reader EXCEPT ![r] = Idle]
    /\ UNCHANGED <<live, versions, entries, tombs, rows, vv, born, head, aged, override,
                   editing, promo, grounded, prune, young>>

----------------------------------------------------------------------------
(* The rest of the system, as far as it touches the history.               *)

\* SoftDelete and Restore of the config.
SetLive(b) ==
    /\ live # b
    /\ live' = b
    /\ UNCHANGED <<versions, entries, tombs, rows, vv, born, head, aged, override,
                   editing, promo, grounded, prune, young, reader>>

\* An edit request is filed or resolved.
SetEditing(b) ==
    /\ editing # b /\ (b => live)
    /\ editing' = b
    /\ UNCHANGED <<live, versions, entries, tombs, rows, vv, born, head, aged, override,
                   promo, grounded, prune, young, reader>>

\* CreateRequest of a promotion: the source version is not looked up.
FilePromotion(p, v) ==
    /\ promo[p] = 0 /\ live
    /\ promo' = [promo EXCEPT ![p] = v]
    /\ grounded' = IF v \in versions THEN grounded \cup {p} ELSE grounded \ {p}
    /\ UNCHANGED <<live, versions, entries, tombs, rows, vv, born, head, aged, override,
                   editing, prune, young, reader>>

\* MarkApplied or Decide of a promotion.
ClosePromotion(p) ==
    /\ promo[p] # 0
    /\ promo' = [promo EXCEPT ![p] = 0]
    /\ grounded' = grounded \ {p}
    /\ UNCHANGED <<live, versions, entries, tombs, rows, vv, born, head, aged, override,
                   editing, prune, young, reader>>

\* Days go by: one more version is older than the age floor.
Age ==
    /\ aged < head
    /\ aged' = aged + 1
    /\ UNCHANGED <<live, versions, entries, tombs, rows, vv, born, head, override,
                   editing, promo, grounded, prune, young, reader>>

----------------------------------------------------------------------------
SaveStep == \E sets, dels \in SUBSET Keys :
               sets \cap dels = {} /\ sets \cup dels # {} /\ SaveConfigVersion(sets, dels)
PruneStep == CommitPrune \/ \E n \in Keeps, d \in BOOLEAN : BeginPrune(n, d)
ReaderStep(r) == \/ RevealLatest(r) \/ ReadVersion(r) \/ ReadEntries(r) \/ EndReveal(r)
                 \/ \E v \in Versions : RevealVersion(r, v)
PromotionStep(p) == ClosePromotion(p) \/ \E v \in Versions : FilePromotion(p, v)

Next ==
    \/ SaveStep
    \/ \E v \in Versions : Rollback(v)
    \/ PruneStep
    \/ \E r \in Readers : ReaderStep(r)
    \/ \E p \in Promotions : PromotionStep(p)
    \/ \E b \in BOOLEAN : SetLive(b) \/ SetEditing(b)
    \/ \E n \in Keeps : SetVersionRetention(n)
    \/ Age

Spec == Init /\ [][Next]_vars

----------------------------------------------------------------------------
(* Properties.                                                             *)

Manifests == [Keys -> 0 .. MaxVersion]
ReaderState == [pc : {"idle", "version", "entries", "done"}, ver : 0 .. MaxVersion,
                want : Manifests, got : Manifests]

\* Every variable has its type.
TypeOK ==
    /\ live \in BOOLEAN /\ editing \in BOOLEAN /\ young \in BOOLEAN
    /\ versions \subseteq Versions
    /\ entries \in [Versions -> Manifests]
    /\ tombs \in [Versions -> SUBSET Keys]
    /\ rows \in [Keys -> SUBSET Versions]
    /\ vv \in [Keys -> [Versions -> 0 .. MaxVersion]]
    /\ born \in Manifests
    /\ head \in 0 .. MaxVersion /\ aged \in 0 .. MaxVersion
    /\ override \in Nat /\ prune \in Nat
    /\ promo \in [Promotions -> 0 .. MaxVersion] /\ grounded \subseteq Promotions
    /\ reader \in [Readers -> ReaderState]

\* The stored values are exactly those of the retained versions: each retained
\* version is restorable in full, and what only pruned versions held is gone.
ValuesAreThoseRetained == \A k \in Keys : rows[k] = Referenced(k, versions)

\* However prunes, floors and requests interleave, the newest versions up to
\* the instance floor (and the newest one always) are still there.
FloorIsRetained ==
    \A v \in Versions : v <= head /\ head - v < Larger(Floor, 1) => v \in versions

\* A pending promotion request can still read the version it was filed for.
PendingSourceRetained ==
    \A p \in Promotions : promo[p] # 0 /\ p \in grounded => promo[p] \in versions

\* The tombstones of a version are exactly the keys that went away with it.
TombstonesAreTheRemovals ==
    \A v \in versions : v - 1 \in versions =>
        tombs[v] = {k \in Keys : entries[v - 1][k] # 0 /\ entries[v][k] = 0}

\* No two rows of a key share the slot (config, key, value_version) that their
\* DEKs are bound to.
SlotsAreDistinct ==
    \A k \in Keys : \A m, n \in rows[k] : vv[k][m] = vv[k][n] => m = n

\* A reveal is whole unless the version itself was pruned between its two
\* statements, and then it returns nothing at all: never a part of a version.
RevealIsWholeOrPruned ==
    \A r \in Readers : reader[r].pc = "done" =>
        \/ reader[r].got = reader[r].want
        \/ reader[r].got = NoKeys

\* The history keeps the promise of a version log: versions are appended at
\* fresh numbers, and forgotten whole or not altered.
Log == INSTANCE VersionLog WITH remembered <- versions, state <- entries, States <- Manifests
ImplementsVersionLog == Log!LogSpec

\* Saves, rollbacks and prunes leave exactly the retained history: the values are those of
\* the retained versions, the floor is kept, and no two values share a slot.
RetentionIsExact == TypeOK /\ ValuesAreThoseRetained /\ FloorIsRetained /\ SlotsAreDistinct

=============================================================================
