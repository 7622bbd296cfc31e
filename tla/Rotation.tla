------------------------------ MODULE Rotation ------------------------------
(***************************************************************************)
(* Static rotation of one secret: its rotation_policies row, the           *)
(* credentials its target system accepts, and the attempts that change     *)
(* both, made by the scheduler's pass and by rotate-now requests.          *)
(*                                                                         *)
(* An attempt touches three places in turn (the row's pending value, the   *)
(* target, the secret) with nothing around them, and it can stop between   *)
(* any two. Intervals and backoff only delay an attempt: an active policy  *)
(* may be due at any moment.                                               *)
(***************************************************************************)
EXTENDS Naturals, FiniteSets

CONSTANTS
    Rotators,      \* the types policies are created with, of RotatorTypes
    Credentials,   \* the values there are: a bound on how many are in play at once
    NoValue,       \* no credential
    RotateCalls,   \* concurrent rotate-now requests
    Threshold,     \* failureThreshold
    MaxKEK,        \* bound on the project's KEK versions
    RotationFaults \* bound on disturbances: crashes, seals, failed calls, deletions,
                   \* unusable configs, KEK rotations

RotatorTypes == {"postgres", "mysql", "redis", "webhook", "oauth", "aws_iam"}

ASSUME RotationAssumption ==
    /\ NoValue \notin Credentials /\ Rotators \subseteq RotatorTypes
    /\ Threshold \in Nat \ {0} /\ MaxKEK \in Nat \ {0} /\ RotationFaults \in Nat

Scheduler == "scheduler"
Attempts == RotateCalls \cup {Scheduler}

VARIABLES
    policy,        \* the row: status, type, failure_count, pending value, the KEK
                   \* versions the two blobs are sealed under, and whether the
                   \* config blob passes its rotator's own checks
    policyID,      \* the id the next policy gets
    secret,        \* the value of the secret's latest version
    accepted,      \* the credentials the target system accepts
    attempt,       \* the local state of each attempt
    projectKEK,    \* projects.kek_version
    configLive,    \* the config is not soft-deleted
    keyringSealed,
    rotationFaults,
    excused,       \* history: since the last attempt that ran alone and succeeded,
                   \* attempts overlapped, the policy was deleted or the KEK rotated
    orphaned       \* history: minted credentials whose attempt never stored them

rotationVars == <<policy, policyID, secret, accepted, attempt, projectKEK, configLive,
                  keyringSealed, rotationFaults, excused, orphaned>>

\* rotatorFor: four types apply a value Janus generates, two have the external
\* system mint it.
Generating == {"oauth", "aws_iam"}

NoPolicy == [id |-> 0, st |-> "none", type |-> "none", fails |-> 0, pending |-> NoValue,
             pendingKEK |-> 0, configKEK |-> 0, config |-> "none"]
IdleAttempt == [id |-> 0, pc |-> "idle", pending |-> NoValue, configKEK |-> 0, pendingKEK |-> 0,
                config |-> "none", type |-> "none", kek |-> 0, val |-> NoValue, old |-> {}]

RotationInit ==
    /\ policy = NoPolicy /\ policyID = 1
    /\ secret \in Credentials /\ accepted = {secret}
    /\ attempt = [a \in Attempts |-> IdleAttempt]
    /\ projectKEK = 1 /\ configLive = TRUE /\ keyringSealed = FALSE
    /\ rotationFaults = 0 /\ excused = FALSE /\ orphaned = {}

Exists == policy.st # "none"
Fault == rotationFaults < RotationFaults /\ rotationFaults' = rotationFaults + 1
Running(a) == attempt[a].pc # "idle"
\* The row the attempt was started for is still there.
Mine(a) == policy.id = attempt[a].id

\* generatePassword, or the external system's mint: a credential nobody has.
FreshValues ==
    Credentials \ ({secret, policy.pending} \cup accepted
                   \cup UNION {{attempt[a].val, attempt[a].pending} : a \in Attempts})

----------------------------------------------------------------------------
(* The policy row and its handlers.                                        *)

\* validateConfig: each type's minimum shape.
ValidateConfig(type, config) == type \in RotatorTypes /\ config = "complete"

\* RotationRepo.Create; the unique index on (config, key) admits one policy.
InsertPolicy(row) == ~Exists /\ policy' = row

\* Service.Create: the config blob is sealed under the project's KEK.
CreatePolicy(type, config) ==
    /\ ~keyringSealed
    /\ ValidateConfig(type, config)
    /\ InsertPolicy([NoPolicy EXCEPT !.id = policyID, !.st = "active", !.type = type,
                                     !.configKEK = projectKEK, !.config = config])

\* handleRotationCreate resolves the config first: a soft-deleted one is not found.
RotationCreate(type, config) ==
    /\ configLive
    /\ CreatePolicy(type, config)
    /\ policyID' = policyID + 1
    /\ UNCHANGED <<secret, accepted, attempt, projectKEK, configLive, keyringSealed,
                   rotationFaults, excused, orphaned>>

\* rotationResource: the policy, by way of its config.
RotationResource == Exists /\ configLive

\* RotationRepo.Update: COALESCE of what is given with what is there.
Coalesce(status, config) ==
    [policy EXCEPT !.st = IF status = "unchanged" THEN @ ELSE status,
                   !.config = IF config = "unchanged" THEN @ ELSE config,
                   !.configKEK = IF config = "unchanged" THEN @ ELSE projectKEK]

\* Service.Update: the status may be set to active or paused, and either part may be
\* left out. A new config blob is sealed under the current KEK, without
\* validateConfig; the pending value stays.
UpdatePolicy(status, config) ==
    /\ status \in {"active", "paused", "unchanged"}
    /\ config = "unchanged" \/ ~keyringSealed
    /\ policy' = Coalesce(status, config)
RotationUpdate(status, config) ==
    /\ RotationResource
    /\ UpdatePolicy(status, config)
    /\ IF config = "incomplete" \/ status = "paused" THEN Fault ELSE UNCHANGED rotationFaults
    /\ UNCHANGED <<secret, accepted, attempt, projectKEK, configLive,
                   keyringSealed, excused, orphaned, policyID>>

\* handleRotationDelete: the pending value goes with the row.
RotationDelete ==
    /\ RotationResource
    /\ policy' = NoPolicy
    /\ excused' = TRUE /\ Fault
    /\ UNCHANGED <<secret, accepted, attempt, projectKEK, configLive, keyringSealed, orphaned, policyID>>

----------------------------------------------------------------------------
(* Starting an attempt.                                                    *)

\* The row as an attempt has read it; p in the code.
Snapshot == [IdleAttempt EXCEPT !.id = policy.id, !.pc = "open", !.pending = policy.pending,
                !.configKEK = policy.configKEK, !.pendingKEK = policy.pendingKEK,
                !.config = policy.config, !.type = policy.type]

Alone(a) == \A b \in Attempts \ {a} : ~Running(b)

\* ClaimDue selects the active policies that are due, which is any active one sooner
\* or later.
ClaimDuePolicy == policy.st = "active"

\* RunDue: nothing while sealed.
RunDueRotation ==
    /\ ~Running(Scheduler)
    /\ ~keyringSealed /\ ClaimDuePolicy
    /\ attempt' = [attempt EXCEPT ![Scheduler] = Snapshot]
    /\ excused' = (excused \/ ~Alone(Scheduler))
    /\ UNCHANGED <<policy, secret, accepted, projectKEK, configLive,
                   keyringSealed, rotationFaults, orphaned, policyID>>


\* PrepareRotateNow: due at once; a failed policy is active again with a clean count.
PrepareRotateNow ==
    policy' = IF policy.st = "failed" THEN [policy EXCEPT !.st = "active", !.fails = 0]
              ELSE policy

\* handleRotationRotateNow and RotateNow up to the attempt.
RotateNow(a) ==
    /\ ~Running(a)
    /\ RotationResource /\ ~keyringSealed
    /\ PrepareRotateNow
    /\ attempt' = [attempt EXCEPT ![a] = Snapshot]
    /\ excused' = (excused \/ ~Alone(a))
    /\ UNCHANGED <<secret, accepted, projectKEK, configLive, keyringSealed, rotationFaults, orphaned, policyID>>

----------------------------------------------------------------------------
(* Service.rotate, step by step.                                           *)

Goto(a, pc) == attempt' = [attempt EXCEPT ![a].pc = pc]
End(a) == attempt' = [attempt EXCEPT ![a] = IdleAttempt]

\* openConfig: the blob opens under the project's CURRENT KEK only. A sealed
\* keyring ends the attempt without a trace.
OpenConfig(a) ==
    /\ attempt[a].pc = "open"
    /\ \/ keyringSealed /\ End(a)
       \/ ~keyringSealed /\ attempt[a].configKEK # projectKEK /\ Goto(a, "fail")
       \/ /\ ~keyringSealed /\ attempt[a].configKEK = projectKEK
          /\ attempt' = [attempt EXCEPT ![a].kek = projectKEK, ![a].configKEK = 0,
                ![a].pc = IF attempt[a].type \in Generating THEN "mint" ELSE "stage"]
    /\ UNCHANGED <<policy, secret, accepted, projectKEK, configLive,
                   keyringSealed, rotationFaults, excused, orphaned, policyID>>

\* openPending: the value of an interrupted attempt is used again, if its blob is
\* sealed under the KEK just read.
ReusePending(a) ==
    /\ attempt[a].pc = "stage" /\ attempt[a].pending # NoValue
    /\ attempt' = [attempt EXCEPT ![a].val = attempt[a].pending, ![a].pending = NoValue,
          ![a].pendingKEK = 0, ![a].kek = 0,
          ![a].pc = IF attempt[a].pendingKEK = attempt[a].kek THEN "apply" ELSE "fail"]
    /\ UNCHANGED <<policy, secret, accepted, projectKEK, configLive,
                   keyringSealed, rotationFaults, excused, orphaned, policyID>>

\* Mutant of SetPending: the value is handed to the target before it is stored.
SetPendingLater(a, v) ==
    /\ policy' = policy
    /\ attempt' = [attempt EXCEPT ![a].val = v, ![a].pc = "apply"]

\* sealPending and SetPending; the row may have been deleted meanwhile.
SetPending(a, v) ==
    /\ policy' = IF Mine(a)
                 THEN [policy EXCEPT !.pending = v, !.pendingKEK = attempt[a].kek] ELSE policy
    /\ attempt' = [attempt EXCEPT ![a].val = v, ![a].kek = 0, ![a].pc = IF Mine(a) THEN "apply" ELSE "fail"]
Stage(a) ==
    /\ attempt[a].pc = "stage" /\ attempt[a].pending = NoValue
    /\ \E v \in FreshValues : SetPending(a, v)
    /\ UNCHANGED <<secret, accepted, projectKEK, configLive, keyringSealed,
                   rotationFaults, excused, orphaned, policyID>>

\* What a rotator makes of the target: the one password is replaced. An error leaves
\* it as it was, or is only the answer that was lost.
Replaces(v, ok) == accepted' \in (IF ok THEN {{v}} ELSE {{v}, accepted})

\* ALTER ROLE; ALTER USER after a ping; AUTH and one ACL SETUSER; a signed POST the
\* receiver is trusted to have acted on when it answers 2xx.
PostgresApply(v, ok) == Replaces(v, ok)
MySQLApply(v, ok) == Replaces(v, ok)
RedisApply(v, ok) == Replaces(v, ok)
WebhookApply(v, ok) == Replaces(v, ok)
ApplyValue(type, v, ok) ==
    \/ type = "postgres" /\ PostgresApply(v, ok)
    \/ type = "mysql" /\ MySQLApply(v, ok)
    \/ type = "redis" /\ RedisApply(v, ok)
    \/ type = "webhook" /\ WebhookApply(v, ok)

\* apply succeeds; a rotator first checks its config again.
RotatorApplies(a) ==
    /\ attempt[a].pc = "apply" /\ attempt[a].config = "complete"
    /\ ApplyValue(attempt[a].type, attempt[a].val, TRUE)
    /\ Goto(a, "commit")
    /\ UNCHANGED <<policy, secret, projectKEK, configLive, keyringSealed,
                   rotationFaults, excused, orphaned, policyID>>
ApplyInvalid(a) ==
    /\ attempt[a].pc = "apply" /\ attempt[a].config # "complete"
    /\ Goto(a, "fail")
    /\ UNCHANGED <<policy, secret, accepted, projectKEK, configLive,
                   keyringSealed, rotationFaults, excused, orphaned, policyID>>
ApplyFails(a) ==
    /\ attempt[a].pc = "apply" /\ attempt[a].config = "complete"
    /\ rotationFaults < RotationFaults /\ rotationFaults' = rotationFaults + 1
    /\ ApplyValue(attempt[a].type, attempt[a].val, FALSE)
    /\ Goto(a, "fail")
    /\ UNCHANGED <<policy, secret, projectKEK, configLive, keyringSealed, excused, orphaned, policyID>>

\* oauthRotator.generate: one more token is valid; those nobody knows are left out.
OAuthGenerate(a) ==
    /\ attempt[a].pc = "mint" /\ attempt[a].type = "oauth" /\ attempt[a].config = "complete"
    /\ \E v \in FreshValues :
          /\ accepted' = {v} \cup (accepted \cap ({secret} \cup {attempt[b].val : b \in Attempts}))
          /\ attempt' = [attempt EXCEPT ![a].val = v, ![a].kek = 0, ![a].pc = "commit"]
    /\ UNCHANGED <<policy, secret, projectKEK, configLive, keyringSealed,
                   rotationFaults, excused, orphaned, policyID>>

\* awsiamRotator.generate: the keys are listed, a new one is created ...
ListAccessKeys(a) ==
    /\ attempt[a].pc = "mint" /\ attempt[a].type = "aws_iam" /\ attempt[a].config = "complete"
    /\ attempt' = [attempt EXCEPT ![a].old = accepted, ![a].pc = "create"]
    /\ UNCHANGED <<policy, secret, accepted, projectKEK, configLive,
                   keyringSealed, rotationFaults, excused, orphaned, policyID>>

\* ... unless the user already has the two AWS allows ...
KeyCap == 2
CreateAccessKey(a) ==
    /\ attempt[a].pc = "create"
    /\ \/ /\ Cardinality(accepted) < KeyCap
          /\ \E v \in FreshValues :
                /\ accepted' = accepted \cup {v}
                /\ attempt' = [attempt EXCEPT ![a].val = v, ![a].kek = 0, ![a].pc = "prune"]
       \/ Cardinality(accepted) >= KeyCap /\ Goto(a, "fail") /\ UNCHANGED accepted
    /\ UNCHANGED <<policy, secret, projectKEK, configLive, keyringSealed,
                   rotationFaults, excused, orphaned, policyID>>

\* ... and the old ones are deleted, one call each. Deleting one that is already
\* gone is an error like any other, and the new key is then dropped.
DeleteAccessKey(a) ==
    /\ attempt[a].pc = "prune"
    /\ \/ attempt[a].old = {} /\ Goto(a, "commit") /\ UNCHANGED accepted
       \/ \E k \in attempt[a].old :
            IF k \in accepted
            THEN /\ accepted' = accepted \ {k}
                 /\ attempt' = [attempt EXCEPT ![a].old = @ \ {k}]
            ELSE Goto(a, "fail") /\ UNCHANGED accepted
    /\ UNCHANGED <<policy, secret, projectKEK, configLive, keyringSealed,
                   rotationFaults, excused, orphaned, policyID>>

\* Any other error of a generating rotator, before or after its side effect.
GenerateFails(a) ==
    /\ attempt[a].pc \in {"mint", "create", "prune"}
    /\ \/ attempt[a].config # "complete" /\ UNCHANGED rotationFaults
       \/ rotationFaults < RotationFaults /\ rotationFaults' = rotationFaults + 1
    /\ Goto(a, "fail")
    /\ UNCHANGED <<policy, secret, accepted, projectKEK, configLive,
                   keyringSealed, excused, orphaned, policyID>>

\* SetSecrets: a new version of the config with the value.
CommitValue(a) ==
    /\ attempt[a].pc = "commit"
    /\ IF configLive /\ ~keyringSealed
       THEN secret' = attempt[a].val /\ Goto(a, "mark")
       ELSE UNCHANGED secret /\ Goto(a, "fail")
    /\ UNCHANGED <<policy, accepted, projectKEK, configLive, keyringSealed,
                   rotationFaults, excused, orphaned, policyID>>

\* A credential that was minted for this attempt and has not become the secret.
Unstored(a) == IF attempt[a].type \in Generating THEN {attempt[a].val} \ {NoValue, secret} ELSE {}

\* MarkRotated: pending cleared, counters reset, status active whatever it was, and
\* the next rotation an interval away.
MarkRotated(a) ==
    /\ attempt[a].pc = "mark"
    /\ IF Mine(a)
       THEN /\ policy' = [policy EXCEPT !.st = "active", !.fails = 0, !.pending = NoValue,
                                        !.pendingKEK = 0]
            /\ End(a)
       ELSE UNCHANGED policy /\ Goto(a, "fail")
    /\ excused' = (excused /\ ~(Alone(a) /\ secret \in accepted))
    /\ orphaned' = orphaned \cap accepted
    /\ UNCHANGED <<secret, accepted, projectKEK, configLive, keyringSealed, rotationFaults, policyID>>

\* failure_count + 1; counts past the threshold are not told apart.
CountFailure == IF policy.fails < Threshold THEN policy.fails + 1 ELSE policy.fails


\* MarkFailure: the retry is a backoff away, and at the threshold there is none.
MarkFailure(a) ==
    /\ attempt[a].pc = "fail"
    /\ policy' = IF ~Mine(a) THEN policy
                 ELSE [policy EXCEPT !.fails = CountFailure,
                         !.st = IF policy.fails + 1 >= Threshold THEN "failed" ELSE @]
    /\ End(a)
    /\ orphaned' = orphaned \cup Unstored(a)
    /\ UNCHANGED <<secret, accepted, projectKEK, configLive, keyringSealed, rotationFaults, excused, policyID>>

----------------------------------------------------------------------------
(* The rest of the system.                                                 *)

\* The process stops: attempts are gone, rows and target are not.
ProcessCrash ==
    /\ Fault
    /\ attempt' = [a \in Attempts |-> IdleAttempt]
    /\ orphaned' = orphaned \cup UNION {Unstored(a) : a \in Attempts}
    /\ keyringSealed' = TRUE
    /\ UNCHANGED <<policy, secret, accepted, projectKEK, configLive, excused, policyID>>
SealServer ==
    /\ Fault /\ ~keyringSealed /\ keyringSealed' = TRUE
    /\ UNCHANGED <<policy, secret, accepted, attempt, projectKEK, configLive, excused, orphaned, policyID>>
UnsealServer ==
    /\ keyringSealed /\ keyringSealed' = FALSE
    /\ UNCHANGED <<policy, secret, accepted, attempt, projectKEK, configLive,
                   rotationFaults, excused, orphaned, policyID>>

\* The config is soft-deleted or restored.
SetConfigLive(b) ==
    /\ configLive # b /\ configLive' = b
    /\ IF b THEN UNCHANGED rotationFaults ELSE Fault
    /\ UNCHANGED <<policy, secret, accepted, attempt, projectKEK, keyringSealed, excused, orphaned, policyID>>

\* projectkeys.Rotate: nothing re-seals the policy's blobs.
RotateProjectKEK ==
    /\ projectKEK < MaxKEK /\ ~keyringSealed
    /\ projectKEK' = projectKEK + 1
    /\ excused' = TRUE /\ Fault
    /\ UNCHANGED <<policy, secret, accepted, attempt, configLive, keyringSealed, orphaned, policyID>>

AttemptStep(a) ==
    \/ OpenConfig(a) \/ ReusePending(a) \/ Stage(a)
    \/ RotatorApplies(a) \/ ApplyInvalid(a) \/ ApplyFails(a)
    \/ OAuthGenerate(a) \/ ListAccessKeys(a) \/ CreateAccessKey(a) \/ DeleteAccessKey(a)
    \/ GenerateFails(a) \/ CommitValue(a) \/ MarkRotated(a) \/ MarkFailure(a)

RotationNext ==
    \/ \E t \in Rotators, c \in {"complete", "incomplete"} : RotationCreate(t, c)
    \/ \E s \in {"active", "paused", "unchanged"}, c \in {"complete", "incomplete", "unchanged"} :
          RotationUpdate(s, c)
    \/ RotationDelete
    \/ RunDueRotation \/ \E a \in RotateCalls : RotateNow(a)
    \/ \E a \in Attempts : AttemptStep(a)
    \/ ProcessCrash \/ SealServer \/ UnsealServer
    \/ \E b \in BOOLEAN : SetConfigLive(b)
    \/ RotateProjectKEK

RotationSpec == RotationInit /\ [][RotationNext]_rotationVars

----------------------------------------------------------------------------
(* Properties.                                                             *)

\* Every variable has its type.
RotationTypeOK ==
    /\ policy.st \in {"none", "active", "paused", "failed"}
    /\ policy.type \in RotatorTypes \cup {"none"} /\ policy.fails \in Nat
    /\ policy.pending \in Credentials \cup {NoValue}
    /\ {policy.pendingKEK, policy.configKEK} \subseteq 0 .. MaxKEK
    /\ {configLive, keyringSealed} \subseteq BOOLEAN
    /\ secret \in Credentials /\ accepted \subseteq Credentials /\ projectKEK \in 1 .. MaxKEK
    /\ \A a \in Attempts : attempt[a].val \in Credentials \cup {NoValue} /\ attempt[a].old \subseteq Credentials

\* The secret Janus serves is one the target refuses.
Drift == secret \notin accepted

\* Whatever stops an attempt, and wherever, the way back exists: when the target
\* refuses the stored secret, an applied value is still in the row to be stored, or
\* an IAM user has room for a new key, or one is on its way to be stored. The
\* exceptions: two attempts overlapped, the policy was deleted, the project's KEK was
\* rotated, or two minted IAM keys in a row were lost and fill the user's quota.
DriftIsRecoverable ==
    Drift => \/ excused
             \/ policy.type \notin Generating /\ policy.pending \in accepted
             \/ /\ policy.type \in Generating
                /\ \/ Cardinality(accepted) < KeyCap \/ accepted \subseteq orphaned
                   \/ \E a \in Attempts : attempt[a].val \in accepted

\* Through every failure a credential that works is stored or pending.
RotationRecovers == RotationTypeOK /\ DriftIsRecoverable

=============================================================================
