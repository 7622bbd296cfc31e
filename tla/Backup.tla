------------------------------- MODULE Backup -------------------------------
(***************************************************************************)
(* Backups: the scheduled engine that dumps the instance to a bucket and   *)
(* prunes it, the streamed backup, the rehearsal of a stored object, and   *)
(* the restore of an empty instance beside the init that would fill it.    *)
(*                                                                         *)
(* The database is abstracted to one row per group of tables the dump      *)
(* writes in order: seal_config, users, the project with its current KEK,  *)
(* one secret value. "By" says which initialisation a row descends from.   *)
(***************************************************************************)
EXTENDS Naturals, Sequences, FiniteSets

CONSTANTS
    Retention,     \* Config.Retention, 0 keeps everything
    HistoryCap,    \* BackupRunHistoryCap
    MaxClock,       \* bound on the clock, in the seconds of an object key
    MaxInits,      \* bound on initialisations
    MaxVersion,    \* bound on KEK versions and schema versions
    BackupFaults   \* bound on disturbances: stops, failed calls, lost databases

ASSUME BackupAssumption ==
    /\ Retention \in Nat /\ HistoryCap \in Nat \ {0} /\ MaxClock \in Nat \ {0} /\ MaxInits \in Nat
    /\ MaxVersion \in Nat \ {0} /\ BackupFaults \in Nat

VARIABLES
    db,            \* the tables; kept: the versions in project_kek_versions
    inits,         \* initialisations so far
    instanceSealed,
    clock,
    bucket,        \* the backup objects, by the timestamp in their key
    runs,          \* backup_runs, oldest first
    run,           \* the scheduler's local state
    file,          \* the artifact an operator last streamed to a file
    bootstrap,     \* initMu, and the init and the restore request in flight
    rehearsal,     \* the rehearsal request in flight
    backupFaults,
    uploaded       \* history: the timestamps an upload was confirmed for

backupVars == <<db, inits, instanceSealed, clock, bucket, runs, run, file, bootstrap, rehearsal,
                backupFaults, uploaded>>

Empty == [sealBy |-> 0, usersBy |-> 0, projectBy |-> 0, kek |-> 0, kept |-> {}, value |-> 0, schema |-> 1]
\* backupTables in dump order; project_kek_versions is not among them.
Groups == 4
Row == [sealBy : 0 .. MaxInits, usersBy : 0 .. MaxInits, projectBy : 0 .. MaxInits,
        kek : 0 .. MaxVersion, kept : SUBSET (1 .. MaxVersion), value : 0 .. MaxVersion, schema : 1 .. MaxVersion]
NoArtifact == [rows |-> Empty, cut |-> 0, is |-> FALSE]
IdleRun == [pc |-> "idle", started |-> 0, art |-> NoArtifact, victims |-> {}]
IdleBoot == [mu |-> "free", init |-> "none", restore |-> "none", art |-> NoArtifact]
IdleRehearsal == [pc |-> "idle", key |-> 0]

Artifact == [rows : Row, cut : 0 .. Groups, is : BOOLEAN]
BackupTypeOK ==
    /\ db \in Row /\ inits \in 0 .. MaxInits /\ clock \in 1 .. MaxClock /\ instanceSealed \in BOOLEAN
    /\ bucket \in [1 .. MaxClock -> Artifact]
    /\ runs \in Seq([status : {"success", "failure"}, key : 0 .. MaxClock]) /\ Len(runs) <= HistoryCap
    /\ run.pc \in {"idle", "dump", "put", "list", "delete", "record"} /\ run.started \in 0 .. clock
    /\ file \in Artifact /\ bootstrap.mu \in {"free", "init", "restore"}
    /\ rehearsal \in [pc : {"idle", "get", "done"}, key : 0 .. MaxClock] /\ backupFaults \in 0 .. BackupFaults
    /\ uploaded \subseteq 1 .. MaxClock

BackupInit ==
    /\ db = Empty /\ inits = 0 /\ instanceSealed = TRUE /\ clock = 1
    /\ bucket = [t \in 1 .. MaxClock |-> NoArtifact] /\ runs = <<>> /\ run = IdleRun
    /\ file = NoArtifact /\ bootstrap = IdleBoot /\ rehearsal = IdleRehearsal
    /\ backupFaults = 0 /\ uploaded = {}

engineVars == <<bucket, runs, run, uploaded>>
instanceVars == <<db, inits, instanceSealed, bootstrap>>
Stored == {t \in 1 .. MaxClock : bucket[t].is}
BackupDisturb == backupFaults < BackupFaults /\ backupFaults' = backupFaults + 1

-----------------------------------------------------------------------------
(* The instance.                                                           *)

IsEmptyForRestore == db.sealBy = 0 /\ db.usersBy = 0 /\ db.projectBy = 0

\* handleInit, under initMu: the seal config is looked up and then upserted, and the
\* first administrator is created after it.
BeginInit ==
    /\ bootstrap.mu = "free" /\ bootstrap.init = "none" /\ inits < MaxInits /\ db.sealBy = 0
    /\ bootstrap' = [bootstrap EXCEPT !.mu = "init", !.init = "put"]
    /\ UNCHANGED <<db, inits, instanceSealed, clock, engineVars, file, rehearsal, backupFaults>>
PutSealConfig ==
    /\ bootstrap.init = "put"
    /\ inits' = inits + 1 /\ db' = [db EXCEPT !.sealBy = inits + 1]
    /\ bootstrap' = [bootstrap EXCEPT !.init = "admin"]
    /\ UNCHANGED <<instanceSealed, clock, engineVars, file, rehearsal, backupFaults>>
BootstrapAdmin ==
    /\ bootstrap.init = "admin"
    /\ db' = [db EXCEPT !.usersBy = inits]
    /\ bootstrap' = [bootstrap EXCEPT !.mu = "free", !.init = "none"]
    /\ UNCHANGED <<inits, instanceSealed, clock, engineVars, file, rehearsal, backupFaults>>

UnsealInstance ==
    /\ instanceSealed /\ db.sealBy # 0
    /\ instanceSealed' = FALSE
    /\ UNCHANGED <<db, inits, bootstrap, clock, engineVars, file, rehearsal, backupFaults>>

\* What the instance is used for: a project, a value, KEK rotation and re-wrap.
UseInstance ==
    /\ ~instanceSealed /\ db.usersBy # 0
    /\ \/ /\ db.projectBy = 0 /\ db' = [db EXCEPT !.projectBy = db.sealBy, !.kek = 1]
       \/ /\ db.projectBy # 0 /\ db.value # db.kek /\ db' = [db EXCEPT !.value = db.kek]
       \/ /\ db.projectBy # 0 /\ db.kek < MaxVersion
          /\ db' = [db EXCEPT !.kek = @ + 1, !.kept = @ \cup {db.kek}]
       \/ /\ db.kept # {} /\ db.value \in {0, db.kek} /\ db' = [db EXCEPT !.kept = {}]
    /\ UNCHANGED <<inits, instanceSealed, bootstrap, clock, engineVars, file, rehearsal, backupFaults>>

-----------------------------------------------------------------------------
(* The dump and the restore.                                               *)

\* DumpBackup: one REPEATABLE READ snapshot, each table whole and in order; a
\* stream that breaks off ends after some of them.
Dump(cut) == [rows |-> [db EXCEPT !.kept = {}], cut |-> cut, is |-> TRUE]

\* The rows an artifact holds: those of the tables before the cut.
Rows(a) ==
    [Empty EXCEPT !.schema = a.rows.schema,
                  !.sealBy = IF a.cut >= 1 THEN a.rows.sealBy ELSE 0,
                  !.usersBy = IF a.cut >= 2 THEN a.rows.usersBy ELSE 0,
                  !.projectBy = IF a.cut >= 3 THEN a.rows.projectBy ELSE 0,
                  !.kek = IF a.cut >= 3 THEN a.rows.kek ELSE 0,
                  !.value = IF a.cut >= 4 THEN a.rows.value ELSE 0]

\* handleBackup streams to a client, which keeps what arrived.
StreamBackup(cut) ==
    /\ ~instanceSealed /\ db.usersBy # 0
    /\ file' = Dump(cut)
    /\ UNCHANGED <<instanceVars, clock, engineVars, rehearsal, backupFaults>>

\* handleRestore, under initMu: empty, a version 1 header, this server's schema.
Artifacts == {bucket[t] : t \in Stored} \cup (IF file.is THEN {file} ELSE {})
BeginRestore(a) ==
    /\ bootstrap.mu = "free" /\ IsEmptyForRestore /\ a.rows.schema = db.schema
    /\ bootstrap' = [bootstrap EXCEPT !.mu = "restore", !.restore = "tx", !.art = a]
    /\ UNCHANGED <<db, inits, instanceSealed, clock, engineVars, file, rehearsal, backupFaults>>

\* RestoreBackup: one transaction that looks at emptiness again and inserts until the
\* artifact ends. An artifact without records changes nothing and is refused.
CommitRestore ==
    /\ bootstrap.restore = "tx"
    /\ db' = IF IsEmptyForRestore THEN Rows(bootstrap.art) ELSE db
    /\ bootstrap' = [bootstrap EXCEPT !.mu = "free", !.restore = "none", !.art = NoArtifact]
    /\ UNCHANGED <<inits, instanceSealed, clock, engineVars, file, rehearsal, backupFaults>>

-----------------------------------------------------------------------------
(* RunBackup.                                                              *)

\* Only the newest HistoryCap rows are kept.
InsertRun(status, key) ==
    LET all == Append(runs, [status |-> status, key |-> key])
    IN runs' = SubSeq(all, IF Len(all) > HistoryCap THEN Len(all) - HistoryCap + 1 ELSE 1, Len(all))

StartRun ==
    /\ run.pc = "idle" /\ ~instanceSealed
    /\ run' = [IdleRun EXCEPT !.pc = "dump", !.started = clock]
    /\ UNCHANGED <<instanceVars, clock, bucket, runs, uploaded, file, rehearsal, backupFaults>>
WriteBackup ==
    /\ run.pc = "dump"
    /\ run' = [run EXCEPT !.pc = "put", !.art = Dump(Groups)]
    /\ UNCHANGED <<instanceVars, clock, bucket, runs, uploaded, file, rehearsal, backupFaults>>
PutObject ==
    /\ run.pc = "put"
    /\ bucket' = [bucket EXCEPT ![run.started] = run.art]
    /\ uploaded' = uploaded \cup {run.started}
    /\ run' = [run EXCEPT !.pc = "list", !.art = NoArtifact]
    /\ UNCHANGED <<instanceVars, clock, runs, file, rehearsal, backupFaults>>

\* A run that fails is recorded as best it can: the dump, the client, or the upload,
\* which may have been stored all the same.
RunFails ==
    /\ BackupDisturb /\ run.pc \in {"dump", "put"}
    /\ \/ InsertRun("failure", 0)
       \/ UNCHANGED runs
    /\ \/ UNCHANGED bucket
       \/ run.pc = "put" /\ bucket' = [bucket EXCEPT ![run.started] = run.art]
    /\ run' = IdleRun
    /\ UNCHANGED <<instanceVars, clock, uploaded, file, rehearsal>>

\* Mutant of Victims: the newest runs are taken for the oldest.
VictimsOldest == {t \in Stored : Retention > 0 /\ Cardinality({u \in Stored : u < t}) >= Retention}
\* prune: all but the Retention newest objects, listed once.
Victims == {t \in Stored : Retention > 0 /\ Cardinality({u \in Stored : u > t}) >= Retention}
ListBackups ==
    /\ run.pc = "list"
    /\ run' = [run EXCEPT !.pc = IF Victims = {} THEN "record" ELSE "delete", !.victims = Victims]
    /\ UNCHANGED <<instanceVars, clock, bucket, runs, uploaded, file, rehearsal, backupFaults>>
DeleteObject ==
    LET newest == CHOOSE t \in run.victims : \A u \in run.victims : u <= t
    IN /\ run.pc = "delete"
       /\ bucket' = [bucket EXCEPT ![newest] = NoArtifact]
       /\ run' = [run EXCEPT !.victims = @ \ {newest}, !.pc = IF run.victims = {newest} THEN "record" ELSE "delete"]
       /\ UNCHANGED <<instanceVars, clock, runs, uploaded, file, rehearsal, backupFaults>>
\* A failed listing or deletion ends the prune, not the run.
PruneFails ==
    /\ BackupDisturb /\ run.pc \in {"list", "delete"}
    /\ run' = [run EXCEPT !.pc = "record", !.victims = {}]
    /\ UNCHANGED <<instanceVars, clock, bucket, runs, uploaded, file, rehearsal>>
RecordRun ==
    /\ run.pc = "record"
    /\ \/ InsertRun("success", run.started) /\ UNCHANGED backupFaults
       \/ BackupDisturb /\ UNCHANGED runs
    /\ run' = IdleRun
    /\ UNCHANGED <<instanceVars, clock, bucket, uploaded, file, rehearsal>>

-----------------------------------------------------------------------------
(* The rehearsal.                                                          *)

\* The latest object under the prefix, then its download, which may find it pruned.
PickObject ==
    /\ rehearsal.pc = "idle" /\ ~instanceSealed /\ Stored # {}
    /\ rehearsal' = [pc |-> "get", key |-> CHOOSE t \in Stored : \A u \in Stored : u <= t]
    /\ UNCHANGED <<instanceVars, clock, engineVars, file, backupFaults>>

\* Verify: well-formed rows of known tables and this server's schema. The probe of the
\* first project's KEK parses wrapped_kek as base64, which the \x form that
\* row_to_json gives a bytea is not, and is passed over.
Verified(a) == Rows(a) # [Empty EXCEPT !.schema = a.rows.schema] /\ a.rows.schema = db.schema
Rehearse ==
    /\ rehearsal.pc = "get"
    /\ rehearsal' = IF bucket[rehearsal.key].is /\ Verified(bucket[rehearsal.key])
                    THEN [rehearsal EXCEPT !.pc = "done"] ELSE IdleRehearsal
    /\ UNCHANGED <<instanceVars, clock, engineVars, file, backupFaults>>

\* The answer is given.
EndRehearsal ==
    /\ rehearsal.pc = "done" /\ rehearsal' = IdleRehearsal
    /\ UNCHANGED <<instanceVars, clock, engineVars, file, backupFaults>>

-----------------------------------------------------------------------------
(* Disturbances.                                                           *)

\* The process stops: its requests and its run end, an open transaction is rolled back.
Halt ==
    /\ run' = IdleRun /\ bootstrap' = IdleBoot /\ rehearsal' = IdleRehearsal
    /\ instanceSealed' = TRUE /\ BackupDisturb
StopInstance == Halt /\ UNCHANGED <<db, inits, clock, bucket, runs, file, uploaded>>
\* A new version of the server migrates the schema at boot.
Upgrade ==
    /\ Halt /\ db.schema < MaxVersion /\ db' = [db EXCEPT !.schema = @ + 1]
    /\ UNCHANGED <<inits, clock, bucket, runs, file, uploaded>>
\* The database is lost and the server starts on a fresh one.
LoseDatabase ==
    /\ Halt /\ db.sealBy # 0 /\ db' = [Empty EXCEPT !.schema = db.schema] /\ runs' = <<>>
    /\ UNCHANGED <<inits, clock, bucket, file, uploaded>>
PassSecond ==
    /\ clock < MaxClock /\ clock' = clock + 1
    /\ UNCHANGED <<instanceVars, engineVars, file, rehearsal, backupFaults>>

Bootstrap ==
    BeginInit \/ PutSealConfig \/ BootstrapAdmin \/ CommitRestore \/ \E a \in Artifacts : BeginRestore(a)
Engine ==
    StartRun \/ WriteBackup \/ PutObject \/ RunFails \/ ListBackups \/ DeleteObject \/ PruneFails \/ RecordRun
BackupNext ==
    \/ Bootstrap \/ Engine \/ UnsealInstance \/ UseInstance \/ PassSecond
    \/ \E cut \in 0 .. Groups : StreamBackup(cut)
    \/ PickObject \/ Rehearse \/ EndRehearsal
    \/ StopInstance \/ Upgrade \/ LoseDatabase
BackupSpec == BackupInit /\ [][BackupNext]_backupVars

-----------------------------------------------------------------------------
(* Properties.                                                             *)

\* Whatever pruning does, and wherever it is cut short, the Retention newest backups
\* whose upload was confirmed are in the bucket.
NewestBackupsSurvive ==
    Retention > 0 => \A t \in uploaded : Cardinality({u \in Stored : u > t}) < Retention => bucket[t].is

\* The run the health panel calls the last success has its object in the bucket, or
\* one newer than it.
SuccessIsStored ==
    \A i \in DOMAIN runs :
        runs[i].status = "success" /\ (\A j \in DOMAIN runs : j > i => runs[j].status = "failure")
        => \E t \in Stored : t >= runs[i].key

\* An object called verified is one the restore of this server would take: rows in it,
\* under the schema the server runs.
VerifiedWouldRestore ==
    LET a == bucket[rehearsal.key] IN
    rehearsal.pc = "done" /\ a.is => a.rows.schema = db.schema /\ Rows(a).sealBy # 0

\* Init and restore never build one instance together: everything in the database
\* descends from the same initialisation.
OneOrigin ==
    Cardinality({db.sealBy, db.usersBy, db.projectBy} \ {0}) <= 1

\* A value of a restored instance opens under a KEK version the instance has.
RestoredValuesOpen ==
    db.value \in {0, db.kek} \cup db.kept

\* Backups can be counted on: the newest survive the pruning, a success is stored, what a
\* rehearsal verified would restore, and an instance has one origin.
BackupsHold ==
    BackupTypeOK /\ NewestBackupsSurvive /\ SuccessIsStored /\ VerifiedWouldRestore /\ OneOrigin

=============================================================================
