---------------------------- MODULE MCAutomation ----------------------------
(* Static rotation, backups and notifications. They share no variable, so a  *)
(* behaviour of one is explored while the others rest in one initial state:  *)
(* focus says which one moves.                                               *)
EXTENDS Rotation, Backup, Notification, TLC
CONSTANTS v1
VARIABLE focus

automationVars == <<focus, rotationVars, backupVars, notifyVars>>
AutomationSymmetry == Permutations(Credentials)

AutomationInit ==
    /\ focus \in {"rotation", "backup", "notices"}
    /\ RotationInit /\ BackupInit /\ NotifyInit
    /\ focus # "rotation" => secret = v1
AutomationNext ==
    \/ focus = "rotation" /\ RotationNext /\ UNCHANGED <<focus, backupVars, notifyVars>>
    \/ focus = "backup" /\ BackupNext /\ UNCHANGED <<focus, rotationVars, notifyVars>>
    \/ focus = "notices" /\ NotifyNext /\ UNCHANGED <<focus, rotationVars, backupVars>>
AutomationSpec == AutomationInit /\ [][AutomationNext]_automationVars

\* Backups are explored one story at a time: a streamed file or stored objects, KEK
\* rotation before the first run, rehearsals apart from init and restore.
OneBackupStory ==
    /\ backupFaults > 1 => clock <= 2
    /\ file.is => Stored = {} /\ run.pc = "idle"
    /\ db.kek > 1 => Stored = {} /\ run.pc = "idle"
    /\ rehearsal.pc # "idle" => bootstrap.mu = "free"
    /\ db.schema > 1 => clock <= 2
\* After a disturbance one attempt at a rotation runs at a time.
AttemptsApart == rotationFaults > 0 => \E a \in Attempts : \A b \in Attempts \ {a} : ~Running(b)
Explored == OneBackupStory /\ AttemptsApart
=============================================================================
