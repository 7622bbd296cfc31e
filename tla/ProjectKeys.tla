---------------------------- MODULE ProjectKeys ----------------------------
(***************************************************************************)
(* The envelope encryption of one project: its KEK versions, the DEK of    *)
(* every stored value, and the actors that use them concurrently.          *)
(*                                                                         *)
(*   - SetSecrets and editreq.Create read the project row (its current     *)
(*     KEK version), do their encryption outside any transaction, and      *)
(*     insert a row that names that KEK version later;                     *)
(*   - Rotate installs a new current version and keeps the old one in      *)
(*     project_kek_versions;                                               *)
(*   - Rewrap pages through the rows below the version it found current,   *)
(*     re-wraps each page in a transaction of its own, and at the end      *)
(*     retires the kept versions nothing refers to;                        *)
(*   - GetSecret reads project, row and KEK in three separate statements,  *)
(*     and retries once when the KEK version it needs is gone.             *)
(*                                                                         *)
(* A DEK is represented by the KEK version it is wrapped under; the row's  *)
(* dek_key_version and wrapped_dek are always written together.            *)
(***************************************************************************)
EXTENDS Naturals, FiniteSets

CONSTANTS
    RowCount,      \* secret_values rows that may exist; the ids are ordered
    Requests,      \* config_edit_requests rows that may exist
    Writers,       \* concurrent SetSecrets / editreq.Create calls
    Sweepers,      \* concurrent Rewrap calls
    Readers,       \* concurrent GetSecret calls
    BatchSize,     \* rewrapBatchSize, the page size of a sweep
    MaxVersion     \* bound on the number of KEK versions

ASSUME ConstantsAssumption ==
    /\ RowCount \in Nat \ {0}
    /\ BatchSize \in Nat \ {0}
    /\ MaxVersion \in Nat \ {0}

Rows == 1 .. RowCount
Versions == 1 .. MaxVersion

VARIABLES
    kekVersion,    \* projects.kek_version
    kept,          \* the versions in project_kek_versions
    dek,           \* secret_values: row -> dek_key_version, 0 when absent
    pruned,        \* ids of deleted rows; an id (a UUID) is never used again
    req,           \* config_edit_requests: the dek_key_version of a pending or
                   \* applying request, 0 otherwise
    writer,        \* the KEK version an unfinished write holds, 0 when idle
    sweep,         \* the local state of each Rewrap call
    reader,        \* the local state of each GetSecret call
    overtaken,     \* history: reads whose retry lost its version to a retire
    lost           \* history: versions retired while a call still held them

vars == <<kekVersion, kept, dek, pruned, req, writer, sweep, reader, overtaken, lost>>

IdleSweep == [pc |-> "idle", latest |-> 0, passed |-> {},
              batch |-> {}, need |-> {}, cache |-> {}]
IdleReader == [pc |-> "idle", row |-> 1, rver |-> 0, pver |-> 0]

\* CreateProject stores the project with KEK version 1 and nothing wrapped yet.
Init ==
    /\ kekVersion = 1
    /\ kept = {}
    /\ dek = [r \in Rows |-> 0]
    /\ pruned = {}
    /\ req = [q \in Requests |-> 0]
    /\ writer = [w \in Writers |-> 0]
    /\ sweep = [s \in Sweepers |-> IdleSweep]
    /\ reader = [g \in Readers |-> IdleReader]
    /\ overtaken = {}
    /\ lost = {}

\* The KEK versions a row or a request may still be decrypted with.
Live == kept \cup {kekVersion}

\* Mutant of Referenced: the retire looks at secret_values alone.
ReferencedIgnoringRequests == {dek[r] : r \in {x \in Rows : dek[x] # 0}}

\* The versions DeleteEmpty finds referenced.
Referenced == {dek[r] : r \in {x \in Rows : dek[x] # 0}}
              \cup {req[q] : q \in {x \in Requests : req[x] # 0}}

----------------------------------------------------------------------------
(* SetSecrets and editreq.Create.                                          *)

\* resolveProject and unwrapProjectKEK: the call now holds the current KEK.
BeginWrite(w) ==
    /\ writer[w] = 0
    /\ writer' = [writer EXCEPT ![w] = kekVersion]
    /\ UNCHANGED <<kekVersion, kept, dek, pruned, req, sweep, reader, overtaken, lost>>

\* SaveConfigVersion's transaction inserts the value under the held version.
\* Ids are random, so the new row may sort anywhere among the others.
CommitSecret(w) ==
    /\ writer[w] # 0
    /\ \E r \in Rows :
          /\ dek[r] = 0 /\ r \notin pruned
          /\ dek' = [dek EXCEPT ![r] = writer[w]]
    /\ writer' = [writer EXCEPT ![w] = 0]
    /\ UNCHANGED <<kekVersion, kept, pruned, req, sweep, reader, overtaken, lost>>

\* ConfigEditRequestRepo.Create inserts the encrypted proposal.
CommitRequest(w) ==
    /\ writer[w] # 0
    /\ \E q \in Requests :
          /\ req[q] = 0
          /\ req' = [req EXCEPT ![q] = writer[w]]
    /\ writer' = [writer EXCEPT ![w] = 0]
    /\ UNCHANGED <<kekVersion, kept, dek, pruned, sweep, reader, overtaken, lost>>

\* The call fails (sealed, validation, conflict, database error): no row.
AbortWrite(w) ==
    /\ writer[w] # 0
    /\ writer' = [writer EXCEPT ![w] = 0]
    /\ UNCHANGED <<kekVersion, kept, dek, pruned, req, sweep, reader, overtaken, lost>>

\* MarkApplied or Decide: the request leaves pending/applying for good.
CloseRequest(q) ==
    /\ req[q] # 0
    /\ req' = [req EXCEPT ![q] = 0]
    /\ UNCHANGED <<kekVersion, kept, dek, pruned, writer, sweep, reader, overtaken, lost>>

\* PruneConfigVersions garbage-collects a value no retained version names.
PruneValue(r) ==
    /\ dek[r] # 0
    /\ dek' = [dek EXCEPT ![r] = 0]
    /\ pruned' = pruned \cup {r}
    /\ UNCHANGED <<kekVersion, kept, req, writer, sweep, reader, overtaken, lost>>

----------------------------------------------------------------------------
(* Rotate: one transaction under the project row lock.                     *)

Rotate ==
    /\ kekVersion < MaxVersion
    /\ kept' = kept \cup {kekVersion}
    /\ kekVersion' = kekVersion + 1
    /\ UNCHANGED <<dek, pruned, req, writer, sweep, reader, overtaken, lost>>

----------------------------------------------------------------------------
(* Rewrap.                                                                 *)

\* Mutant of BeginSweep: the sweep targets the version after the current one.
BeginSweepOffByOne(s) ==
    /\ sweep[s].pc = "idle"
    /\ sweep' = [sweep EXCEPT ![s] =
          [pc |-> "select", latest |-> kekVersion + 1, passed |-> {},
           batch |-> {}, need |-> {}, cache |-> {kekVersion}]]
    /\ UNCHANGED <<kekVersion, kept, dek, pruned, req, writer, reader, overtaken, lost>>

\* The project row is read once: latest stays what it was for the whole sweep.
BeginSweep(s) ==
    /\ sweep[s].pc = "idle"
    /\ sweep' = [sweep EXCEPT ![s] =
          [pc |-> "select", latest |-> kekVersion, passed |-> {},
           batch |-> {}, need |-> {}, cache |-> {kekVersion}]]
    /\ UNCHANGED <<kekVersion, kept, dek, pruned, req, writer, reader, overtaken, lost>>

\* The rows a page selects: below latest, after the cursor, in id order. The
\* cursor is represented by the set of ids it has passed.
Candidates(s) == {r \in Rows : /\ dek[r] # 0
                               /\ dek[r] < sweep[s].latest
                               /\ r \notin sweep[s].passed}
Page(s) == {r \in Candidates(s) :
              Cardinality({x \in Candidates(s) : x < r}) < BatchSize}

\* RewrapBatch's SELECT (no row lock): remember the rows and their versions.
SelectBatch(s) ==
    /\ sweep[s].pc = "select"
    /\ sweep' = [sweep EXCEPT
          ![s].batch = Page(s),
          ![s].need = {dek[r] : r \in Page(s)},
          ![s].pc = IF Page(s) = {} THEN "retire" ELSE "load"]
    /\ UNCHANGED <<kekVersion, kept, dek, pruned, req, writer, reader, overtaken, lost>>

\* loadKEK for every version of the page that is not cached yet. One that has
\* been retired meanwhile fails the batch, and with it the sweep.
LoadKEKs(s) ==
    /\ sweep[s].pc = "load"
    /\ sweep' = IF sweep[s].need \subseteq (sweep[s].cache \cup kept)
                THEN [sweep EXCEPT ![s].cache = @ \cup sweep[s].need,
                                   ![s].pc = "commit"]
                ELSE [sweep EXCEPT ![s] = IdleSweep]
    /\ UNCHANGED <<kekVersion, kept, dek, pruned, req, writer, reader, overtaken, lost>>

\* The UPDATEs of the page, by id alone, and the commit. A row pruned since
\* the SELECT rolls the page back and ends the sweep.
CommitBatch(s) ==
    /\ sweep[s].pc = "commit"
    /\ IF \A r \in sweep[s].batch : dek[r] # 0
       THEN /\ dek' = [r \in Rows |-> IF r \in sweep[s].batch
                                      THEN sweep[s].latest ELSE dek[r]]
            /\ sweep' = [sweep EXCEPT
                 ![s].pc = IF Cardinality(sweep[s].batch) < BatchSize
                           THEN "retire" ELSE "select",
                 ![s].passed = {x \in Rows : \E r \in sweep[s].batch : x <= r},
                 ![s].batch = {},
                 ![s].need = {}]
       ELSE /\ sweep' = [sweep EXCEPT ![s] = IdleSweep]
            /\ UNCHANGED dek
    /\ UNCHANGED <<kekVersion, kept, pruned, req, writer, reader, overtaken, lost>>

\* DeleteEmpty: one DELETE statement, then the sweep returns.
DeleteEmpty(s) ==
    LET dropped == kept \ Referenced
        inUse == {writer[w] : w \in {x \in Writers : writer[x] # 0}}
                 \cup {sweep[t].latest :
                         t \in {x \in Sweepers \ {s} : sweep[x].pc # "idle"}}
    IN  /\ sweep[s].pc = "retire"
        /\ kept' = kept \ dropped
        /\ lost' = lost \cup (dropped \cap inUse)
        /\ sweep' = [sweep EXCEPT ![s] = IdleSweep]
        /\ overtaken' = overtaken \cup
              {g \in Readers : /\ reader[g].pc \in {"project2", "kek2"}
                               /\ reader[g].rver \in dropped}
        /\ UNCHANGED <<kekVersion, dek, pruned, req, writer, reader>>

\* Any error inside the sweep (sealed keyring, database error, lost caller):
\* it stops where it is, without retiring anything.
AbortSweep(s) ==
    /\ sweep[s].pc # "idle"
    /\ sweep' = [sweep EXCEPT ![s] = IdleSweep]
    /\ UNCHANGED <<kekVersion, kept, dek, pruned, req, writer, reader, overtaken, lost>>

----------------------------------------------------------------------------
(* GetSecret and its single retry.                                         *)

\* resolveProject: the project snapshot of this read.
BeginRead(g) ==
    /\ reader[g].pc = "idle"
    /\ \E r \in Rows :
         reader' = [reader EXCEPT ![g] =
            [pc |-> "row", row |-> r, rver |-> 0, pver |-> kekVersion]]
    /\ overtaken' = overtaken \ {g}
    /\ UNCHANGED <<kekVersion, kept, dek, pruned, req, writer, sweep, lost>>

\* GetLatest: the row snapshot, or ErrNotFound.
ReadRow(g) ==
    /\ reader[g].pc = "row"
    /\ reader' = IF dek[reader[g].row] = 0
                 THEN [reader EXCEPT ![g] = IdleReader]
                 ELSE [reader EXCEPT ![g].rver = dek[reader[g].row],
                                     ![g].pc = "kek"]
    /\ UNCHANGED <<kekVersion, kept, dek, pruned, req, writer, sweep, overtaken, lost>>

\* kekResolver.forVersion: the snapshot's own KEK, a kept one, or a retire race.
ResolveKEK(g) ==
    /\ reader[g].pc \in {"kek", "kek2"}
    /\ reader' =
         IF reader[g].rver = reader[g].pver \/ reader[g].rver \in kept
         THEN [reader EXCEPT ![g] = IdleReader]
         ELSE [reader EXCEPT ![g].pc =
                  IF reader[g].pc = "kek" THEN "row2" ELSE "ErrDecrypt"]
    /\ UNCHANGED <<kekVersion, kept, dek, pruned, req, writer, sweep, overtaken, lost>>

\* Mutant of RereadRow: the retry keeps the row snapshot it already had.
RereadRowStale(g) ==
    /\ reader[g].pc = "row2"
    /\ reader' = [reader EXCEPT ![g].pc = "project2"]
    /\ UNCHANGED <<kekVersion, kept, dek, pruned, req, writer, sweep, overtaken, lost>>

\* The retry reads the row again; a row that is gone is ErrDecrypt too (the
\* reader is not left in the error state then, the value does not exist).
RereadRow(g) ==
    /\ reader[g].pc = "row2"
    /\ reader' = IF dek[reader[g].row] = 0
                 THEN [reader EXCEPT ![g] = IdleReader]
                 ELSE [reader EXCEPT ![g].rver = dek[reader[g].row],
                                     ![g].pc = "project2"]
    /\ UNCHANGED <<kekVersion, kept, dek, pruned, req, writer, sweep, overtaken, lost>>

\* ... and the project again, then resolves once more.
RereadProject(g) ==
    /\ reader[g].pc = "project2"
    /\ reader' = [reader EXCEPT ![g].pver = kekVersion, ![g].pc = "kek2"]
    /\ UNCHANGED <<kekVersion, kept, dek, pruned, req, writer, sweep, overtaken, lost>>

\* The caller has its error and the call is over.
ReportError(g) ==
    /\ reader[g].pc = "ErrDecrypt"
    /\ reader' = [reader EXCEPT ![g] = IdleReader]
    /\ UNCHANGED <<kekVersion, kept, dek, pruned, req, writer, sweep, overtaken, lost>>

----------------------------------------------------------------------------
WriterStep(w) == BeginWrite(w) \/ CommitSecret(w) \/ CommitRequest(w) \/ AbortWrite(w)
SweepStep(s) == \/ SelectBatch(s) \/ LoadKEKs(s) \/ CommitBatch(s)
                \/ DeleteEmpty(s) \/ AbortSweep(s)
ReaderStep(g) == \/ BeginRead(g) \/ ReadRow(g) \/ ResolveKEK(g)
                 \/ RereadRow(g) \/ RereadProject(g) \/ ReportError(g)

Next ==
    \/ Rotate
    \/ \E w \in Writers : WriterStep(w)
    \/ \E s \in Sweepers : BeginSweep(s) \/ SweepStep(s)
    \/ \E g \in Readers : ReaderStep(g)
    \/ \E q \in Requests : CloseRequest(q)
    \/ \E r \in Rows : PruneValue(r)

Spec == Init /\ [][Next]_vars

----------------------------------------------------------------------------
(* Properties.                                                             *)

SweepState == [pc : {"idle", "select", "load", "commit", "retire"},
               latest : 0 .. MaxVersion, passed : SUBSET Rows,
               batch : SUBSET Rows, need : SUBSET Versions, cache : SUBSET Versions]

ReaderState == [pc : {"idle", "row", "kek", "row2", "project2", "kek2", "ErrDecrypt"},
                row : Rows, rver : 0 .. MaxVersion, pver : 0 .. MaxVersion]

\* Every variable has its type; the versions stay within 0..MaxVersion.
TypeOK ==
    /\ kekVersion \in Versions
    /\ kept \subseteq Versions
    /\ dek \in [Rows -> 0 .. MaxVersion]
    /\ pruned \subseteq Rows
    /\ req \in [Requests -> 0 .. MaxVersion]
    /\ writer \in [Writers -> 0 .. MaxVersion]
    /\ sweep \in [Sweepers -> SweepState]
    /\ reader \in [Readers -> ReaderState]
    /\ overtaken \subseteq Readers
    /\ lost \subseteq Versions

\* No stored value and no open edit request ever names a KEK version that is
\* gone: what Rotate's and DeleteEmpty's comments promise of every DEK.
NoStrandedDEK ==
    /\ \A r \in Rows : dek[r] # 0 => dek[r] \in Live
    /\ \A q \in Requests : req[q] # 0 => req[q] \in Live

\* A value or an open request can be stranded in one way only: DeleteEmpty
\* retired its version while an unfinished write, or another sweep, was about
\* to wrap a DEK under it. Everything else (page boundaries, aborted sweeps,
\* rows inserted behind the cursor, rotations in mid-sweep) is harmless.
StrandedOnlyByRetiringAHeldVersion ==
    /\ \A r \in Rows : dek[r] # 0 => dek[r] \in Live \cup lost
    /\ \A q \in Requests : req[q] # 0 => req[q] \in Live \cup lost

\* decryptValue's single retry is enough: a read of an existing value ends in
\* ErrDecrypt only if the value is stranded, or a further retire removed the
\* very version the retry had just read.
RetryFailsOnlyWhenOvertaken ==
    \A g \in Readers : reader[g].pc = "ErrDecrypt" =>
        g \in overtaken \/ reader[g].rver \in lost

=============================================================================
