----------------------------- MODULE SecretSync -----------------------------
(***************************************************************************)
(* One-way sync of a config to an external store, and its drift verifier.  *)
(*                                                                         *)
(* A target row names a destination; an attempt reads the row, resolves    *)
(* the config, and pushes key by key unless the fingerprint of the last    *)
(* success is that of the config now. Nothing ties the row, the config and *)
(* the destination together while an attempt runs. Values are small        *)
(* numbers, 0 for an absent key; the fingerprint (a keyed HMAC over the    *)
(* sorted, length-prefixed pairs) is the map it stands for.                *)
(***************************************************************************)
EXTENDS Naturals, FiniteSets

CONSTANTS
    SyncProviders,   \* the providers targets are created with
    SyncKeys,        \* key names
    ReservedNames,   \* those GitHub does not accept as a secret's name
    MaxSyncValue,    \* values are 1 .. MaxSyncValue
    Destinations,    \* what an address may point to
    SyncCalls,       \* concurrent sync-now requests
    SyncThreshold,   \* failureThreshold
    MaxEdits,        \* bound on saves of the config
    SyncFaults       \* bound on crashes, seals, failed calls, foreign writes and updates

ProviderRegistry == {"github", "k8s", "gitlab", "aws_ssm", "cloudflare",
                     "aws_secrets", "vercel", "netlify"}

ASSUME SyncAssumption ==
    /\ SyncProviders \subseteq ProviderRegistry /\ ReservedNames \subseteq SyncKeys
    /\ {MaxSyncValue, SyncThreshold} \subseteq Nat \ {0} /\ {MaxEdits, SyncFaults} \subseteq Nat

SyncScheduler == "sync_scheduler"
Syncers == SyncCalls \cup {SyncScheduler}
Missing == 0
Hidden == MaxSyncValue + 1   \* a value the destination holds and refuses to return
Maps == [SyncKeys -> 0 .. MaxSyncValue]
KeysOf(m) == {k \in SyncKeys : m[k] # Missing}

VARIABLES
    target,       \* the sync_targets row: status, provider, prune, failure_count, addr,
                  \* managed_keys, the fingerprint's map, whether the KEK still opens the
                  \* credentials
    config,       \* the resolved config
    remote,       \* what each destination holds
    ssaOwned,     \* Kubernetes: the keys whose field manager is janus
    syncer,       \* the local state of each attempt
    verifier,     \* the verify pass: idle, or the map it resolved
    verifyRow,    \* sync_verify_state: enabled, last_status (outdated once what it speaks
                  \* about has moved)
    syncSealed,
    targetID,     \* the id the next target gets
    edits, syncFaults,
    unsure,       \* history: since the last undisturbed success a push was cut short, attempts
                  \* overlapped, the address changed or somebody else wrote to the destination
    placed        \* history: the keys Janus has put at each destination, or takes for put
                  \* there because managed_keys does not say where they were pushed

syncVars == <<target, config, remote, ssaOwned, syncer, verifier, verifyRow, syncSealed,
              targetID, edits, syncFaults, unsure, placed>>

\* No fingerprint yet: a map no config can have.
NoPrint == [k \in SyncKeys |-> Hidden]
NoTarget == [id |-> 0, st |-> "none", provider |-> "none", prune |-> FALSE, fails |-> 0,
             addr |-> "none", managed |-> {}, print |-> NoPrint,
             creds |-> "none"]
IdleSyncer == [pc |-> "idle", row |-> NoTarget, force |-> FALSE, want |-> NoPrint,
               put |-> {}, del |-> {}, sound |-> FALSE]
IdleVerifier == [pc |-> "idle", row |-> NoTarget, want |-> NoPrint]

SyncInit ==
    /\ target = NoTarget /\ config = [k \in SyncKeys |-> 1]
    /\ remote = [d \in Destinations |-> [k \in SyncKeys |-> Missing]]
    /\ ssaOwned = [d \in Destinations |-> {}]
    /\ syncer = [w \in Syncers |-> IdleSyncer]
    /\ verifier = IdleVerifier /\ verifyRow = [on |-> TRUE, st |-> "none"]
    /\ syncSealed = FALSE /\ targetID = 1 /\ edits = 0 /\ syncFaults = 0
    /\ unsure = FALSE /\ placed = [d \in Destinations |-> {}]

HasTarget == target.st # "none"
\* The config, the target or the destination moves: what the verifier found, or is
\* about to find, is no longer about it.
Outdate ==
    /\ verifyRow' = [verifyRow EXCEPT !.st = IF @ \in {"clean", "drift"} THEN "outdated" ELSE @]
    /\ verifier' = IF verifier.pc = "fetch"
                   THEN [IdleVerifier EXCEPT !.pc = "moved", !.row.id = verifier.row.id] ELSE verifier
\* The row as an attempt reads it, and what of it an attempt still needs once it pushes.
ReadRow(t) == [t EXCEPT !.st = "read", !.fails = 0]
Addressed(t) == [NoTarget EXCEPT !.id = t.id, !.provider = t.provider, !.prune = t.prune,
                                 !.addr = t.addr]
Pushing == {w \in Syncers : syncer[w].pc \notin {"idle", "read"}}
Current(row) == row.id = target.id /\ row.addr = target.addr
Disturb == syncFaults < SyncFaults /\ syncFaults' = syncFaults + 1
Unsettle == unsure' = TRUE /\ syncer' = [w \in Syncers |-> [syncer[w] EXCEPT !.sound = FALSE]]

----------------------------------------------------------------------------
(* What each provider's Apply does: the keys it writes and those it        *)
(* removes, given the config, the keys it manages and the prune flag.      *)

Mirror(want, managed, prune) ==
    [put |-> KeysOf(want), del |-> IF prune THEN managed \ KeysOf(want) ELSE {}]

\* GitHub: a name outside its rules is neither pushed nor pruned.
GitHubApply(want, managed, prune) ==
    [put |-> KeysOf(want) \ ReservedNames,
     del |-> IF prune THEN managed \ (KeysOf(want) \cup ReservedNames) ELSE {}]
\* POST, or PUT after a 409; DELETE, a 404 being success.
GitLabApply(want, managed, prune) == Mirror(want, managed, prune)
CloudflareApply(want, managed, prune) == Mirror(want, managed, prune)
NetlifyApply(want, managed, prune) == Mirror(want, managed, prune)
\* PutParameter with overwrite; names are removed ten to a call.
AWSSSMApply(want, managed, prune) == Mirror(want, managed, prune)
\* PutSecretValue, or CreateSecret where there is none.
AWSSecretsApply(want, managed, prune) == Mirror(want, managed, prune)
\* Upserts; only when something may go are the ids listed, and an unlisted key is gone.
VercelApply(want, managed, prune) == Mirror(want, managed, prune)

\* providerFor and the dispatch to Apply.
Plan(p, want, managed, prune) ==
    CASE p = "github" -> GitHubApply(want, managed, prune)
      [] p = "gitlab" -> GitLabApply(want, managed, prune)
      [] p = "cloudflare" -> CloudflareApply(want, managed, prune)
      [] p = "netlify" -> NetlifyApply(want, managed, prune)
      [] p = "aws_ssm" -> AWSSSMApply(want, managed, prune)
      [] p = "aws_secrets" -> AWSSecretsApply(want, managed, prune)
      [] p = "vercel" -> VercelApply(want, managed, prune)
      [] p = "k8s" -> [put |-> {}, del |-> {}]  \* one request, see K8sApply

----------------------------------------------------------------------------
(* The target row.                                                         *)

\* SyncTargetRepo.Create, with the column defaults.
InsertTarget(provider, addr, prune) ==
    target' = [NoTarget EXCEPT !.id = targetID, !.st = "active", !.provider = provider,
                               !.addr = addr, !.prune = prune, !.creds = "open"]
\* Service.Create: validateInput, then the credentials are sealed under the KEK.
CreateTarget(provider, addr, prune) ==
    /\ provider \in ProviderRegistry
    /\ ~syncSealed
    /\ InsertTarget(provider, addr, prune)
SyncCreate(provider, addr, prune) ==
    /\ ~HasTarget
    /\ CreateTarget(provider, addr, prune)
    /\ targetID' = targetID + 1
    /\ verifyRow' = [on |-> TRUE, st |-> "none"]
    /\ UNCHANGED <<config, remote, ssaOwned, syncer, verifier, syncSealed, edits, syncFaults,
                   unsure, placed>>

\* Service.Update and its COALESCE statement: what is not given stays, managed_keys and
\* the fingerprint always do.
UpdateTarget(status, prune, addr, reseal) ==
    /\ reseal => ~syncSealed
    /\ target' = [target EXCEPT !.st = status, !.prune = prune, !.addr = addr,
                    !.creds = IF reseal THEN "open" ELSE @]
SyncUpdate(status, prune, addr, reseal) ==
    /\ HasTarget /\ status \in {"active", "paused", target.st}
    /\ Disturb
    /\ UpdateTarget(status, prune, addr, reseal)
    /\ IF addr = target.addr THEN UNCHANGED <<unsure, syncer>> ELSE Unsettle
    /\ placed' = [placed EXCEPT ![addr] = @ \cup target.managed]
    /\ Outdate
    /\ UNCHANGED <<config, remote, ssaOwned, syncSealed, edits, targetID>>

SyncDelete ==
    /\ HasTarget /\ Disturb
    /\ target' = NoTarget /\ verifyRow' = [on |-> TRUE, st |-> "none"]
    /\ Unsettle
    /\ UNCHANGED <<config, remote, ssaOwned, verifier, syncSealed, edits, placed, targetID>>

----------------------------------------------------------------------------
(* An attempt.                                                             *)

\* ClaimDue: active and due, which an active target is sooner or later.
ClaimDueTargets == target.st = "active"
RunDueSync ==
    /\ syncer[SyncScheduler].pc = "idle"
    /\ ~syncSealed /\ ClaimDueTargets
    /\ syncer' = [syncer EXCEPT ![SyncScheduler] =
                    [IdleSyncer EXCEPT !.pc = "read", !.row = ReadRow(target)]]
    /\ UNCHANGED <<target, config, remote, ssaOwned, verifier, verifyRow, syncSealed, edits,
                   syncFaults, unsure, placed, targetID>>

\* PrepareSyncNow: due at once; a failed target is active again, a paused one stays paused.
PrepareSyncNow == IF target.st = "failed" THEN [target EXCEPT !.st = "active", !.fails = 0]
                  ELSE target
SyncNow(w) ==
    /\ syncer[w].pc = "idle"
    /\ HasTarget /\ ~syncSealed
    /\ target' = PrepareSyncNow
    /\ syncer' = [syncer EXCEPT ![w] =
                    [IdleSyncer EXCEPT !.pc = "read", !.row = ReadRow(target), !.force = TRUE]]
    /\ UNCHANGED <<config, remote, ssaOwned, verifier, verifyRow, syncSealed, edits,
                   syncFaults, unsure, placed, targetID>>

Stop(w) == syncer' = [syncer EXCEPT ![w] = IdleSyncer]
Step(w, pc) == syncer' = [syncer EXCEPT ![w] = [IdleSyncer EXCEPT !.pc = pc, !.row = Addressed(syncer[w].row)]]

\* The change detection of reconcile; sync-now skips it.
FingerprintDiffers(row, want, force) == force \/ row.print # want

\* openCreds, resolveDesired, fingerprint: sealed ends the attempt without a trace, an
\* unchanged config ends it without touching the row.
ReadDesired(w) ==
    LET row == syncer[w].row
        plan == Plan(row.provider, config, row.managed, row.prune)
    IN  /\ syncer[w].pc = "read"
        /\ \/ syncSealed /\ Stop(w) /\ UNCHANGED unsure
           \/ ~syncSealed /\ row.creds # "open" /\ Step(w, "fail") /\ UNCHANGED unsure
           \/ /\ ~syncSealed /\ row.creds = "open" /\ ~FingerprintDiffers(row, config, syncer[w].force)
              /\ Stop(w) /\ UNCHANGED unsure
           \/ /\ ~syncSealed /\ row.creds = "open" /\ FingerprintDiffers(row, config, syncer[w].force)
              /\ syncer' = [v \in Syncers |->
                    IF v = w THEN [syncer[w] EXCEPT !.pc = IF row.provider = "k8s" THEN "patch" ELSE "push",
                                     !.row = Addressed(row), !.want = config,
                                     !.put = plan.put, !.del = plan.del,
                                     !.sound = Pushing = {} /\ Current(row)]
                    ELSE [syncer[v] EXCEPT !.sound = FALSE]]
              /\ unsure' = (unsure \/ Pushing # {} \/ ~Current(row))
        /\ UNCHANGED <<target, config, remote, ssaOwned, verifier, verifyRow, syncSealed,
                       edits, syncFaults, placed, targetID>>

\* One upsert call of a provider that has one per key.
PutKey(w) ==
    LET d == syncer[w].row.addr IN
    /\ syncer[w].pc = "push"
    /\ \E k \in syncer[w].put :
          /\ remote' = [remote EXCEPT ![d][k] = syncer[w].want[k]]
          /\ placed' = [placed EXCEPT ![d] = @ \cup {k}]
          /\ syncer' = [syncer EXCEPT ![w].put = @ \ {k}]
    /\ Outdate
    /\ UNCHANGED <<target, config, ssaOwned, syncSealed, edits,
                   syncFaults, unsure, targetID>>

\* One delete call; AWS SSM removes them together.
DeleteKey(w) ==
    LET d == syncer[w].row.addr IN
    /\ syncer[w].pc = "push" /\ syncer[w].put = {}
    /\ \E ks \in IF syncer[w].row.provider = "aws_ssm" THEN {syncer[w].del} \ {{}}
                 ELSE {{k} : k \in syncer[w].del} :
          /\ remote' = [remote EXCEPT ![d] =
                          [k \in SyncKeys |-> IF k \in ks THEN Missing ELSE @[k]]]
          /\ syncer' = [syncer EXCEPT ![w].del = @ \ ks]
    /\ Outdate
    /\ UNCHANGED <<target, config, ssaOwned, syncSealed, edits,
                   syncFaults, unsure, placed, targetID>>

\* Mutant of K8sApply: the Secret is replaced as a whole.
K8sApplyReplaces(w) ==
    LET d == syncer[w].row.addr
        want == syncer[w].want
        gone == IF syncer[w].row.prune THEN SyncKeys \ KeysOf(want) ELSE {}
    IN  /\ syncer[w].pc = "patch"
        /\ remote' = [remote EXCEPT ![d] = [k \in SyncKeys |->
                        IF k \in KeysOf(want) THEN want[k]
                        ELSE IF k \in gone THEN Missing ELSE @[k]]]
        /\ ssaOwned' = IF syncer[w].row.prune THEN [ssaOwned EXCEPT ![d] = KeysOf(want)]
                       ELSE ssaOwned
        /\ placed' = [placed EXCEPT ![d] = @ \cup KeysOf(want)]
        /\ syncer' = [syncer EXCEPT ![w].pc = "push"]
        /\ Outdate
        /\ UNCHANGED <<target, config, syncSealed, edits, syncFaults, unsure, targetID>>

\* k8sProvider.Apply: one PATCH. With prune it is a server-side apply, which also drops
\* the keys janus owns and no longer names; without, a merge patch, which owns nothing.
K8sApply(w) ==
    LET d == syncer[w].row.addr
        want == syncer[w].want
        gone == IF syncer[w].row.prune THEN ssaOwned[d] \ KeysOf(want) ELSE {}
    IN  /\ syncer[w].pc = "patch"
        /\ remote' = [remote EXCEPT ![d] = [k \in SyncKeys |->
                        IF k \in KeysOf(want) THEN want[k]
                        ELSE IF k \in gone THEN Missing ELSE @[k]]]
        /\ ssaOwned' = IF syncer[w].row.prune THEN [ssaOwned EXCEPT ![d] = KeysOf(want)]
                       ELSE ssaOwned
        /\ placed' = [placed EXCEPT ![d] = @ \cup KeysOf(want)]
        /\ syncer' = [syncer EXCEPT ![w].pc = "push"]
        /\ Outdate
        /\ UNCHANGED <<target, config, syncSealed, edits, syncFaults, unsure, targetID>>

\* Any call may fail; whatever went before it stays at the destination.
PushFails(w) ==
    /\ syncer[w].pc \in {"patch", "push"} /\ Disturb
    /\ Step(w, "fail") /\ unsure' = TRUE
    /\ UNCHANGED <<target, config, remote, ssaOwned, verifier, verifyRow, syncSealed, edits,
                   placed, targetID>>

\* The keys ApplyResult.Applied names.
Applied(w) == IF syncer[w].row.provider = "github" THEN KeysOf(syncer[w].want) \ ReservedNames
              ELSE KeysOf(syncer[w].want)

\* Mutant of MarkSynced: the row records the config of the moment.
MarkSyncedLatest(w) ==
    /\ syncer[w].pc = "push" /\ syncer[w].put = {} /\ syncer[w].del = {}
    /\ IF target.id = syncer[w].row.id
       THEN /\ target' = [target EXCEPT !.st = "active", !.fails = 0,
                            !.managed = Applied(w), !.print = config]
            /\ placed' = [placed EXCEPT ![target.addr] = @ \cup Applied(w)]
       ELSE UNCHANGED <<target, placed>>
    /\ unsure' = (unsure /\ ~syncer[w].sound)
    /\ Stop(w)
    /\ UNCHANGED <<config, remote, ssaOwned, verifier, verifyRow, syncSealed, edits,
                   syncFaults, targetID>>

\* MarkSynced: the keys written and the fingerprint read at the start, with the status
\* active whatever it was. A deleted row makes it an error nobody can count.
MarkSynced(w) ==
    /\ syncer[w].pc = "push" /\ syncer[w].put = {} /\ syncer[w].del = {}
    /\ IF target.id = syncer[w].row.id
       THEN /\ target' = [target EXCEPT !.st = "active", !.fails = 0,
                            !.managed = Applied(w), !.print = syncer[w].want]
            /\ placed' = [placed EXCEPT ![target.addr] = @ \cup Applied(w)]
       ELSE UNCHANGED <<target, placed>>
    /\ unsure' = (unsure /\ ~syncer[w].sound)
    /\ Stop(w)
    /\ UNCHANGED <<config, remote, ssaOwned, verifier, verifyRow, syncSealed, edits,
                   syncFaults, targetID>>


\* MarkFailure: a later retry, or none from the threshold on.
MarkSyncFailure(w) ==
    /\ syncer[w].pc = "fail"
    /\ target' = IF target.id # syncer[w].row.id THEN target
                 ELSE [target EXCEPT
                         !.fails = IF @ < SyncThreshold THEN @ + 1 ELSE @,
                         !.st = IF target.fails + 1 >= SyncThreshold THEN "failed" ELSE @]
    /\ Stop(w)
    /\ UNCHANGED <<config, remote, ssaOwned, verifier, verifyRow, syncSealed, edits,
                   syncFaults, unsure, placed, targetID>>

----------------------------------------------------------------------------
(* The verifier.                                                           *)

\* What Fetch returns: names and values, or names only where values cannot be read back.
GitHubFetch(r) == [names |-> KeysOf(r), values |-> {}]
CloudflareFetch(r) == [names |-> KeysOf(r), values |-> {}]
ReadBack(r) == [names |-> KeysOf(r), values |-> {k \in KeysOf(r) : r[k] # Hidden}]
K8sFetch(r) == ReadBack(r)
GitLabFetch(r) == ReadBack(r)
AWSSSMFetch(r) == ReadBack(r)
AWSSecretsFetch(r) == ReadBack(r)
VercelFetch(r) == ReadBack(r)
NetlifyFetch(r) == ReadBack(r)
Fetch(p, r) ==
    CASE p = "github" -> GitHubFetch(r) [] p = "cloudflare" -> CloudflareFetch(r)
      [] p = "k8s" -> K8sFetch(r) [] p = "gitlab" -> GitLabFetch(r)
      [] p = "aws_ssm" -> AWSSSMFetch(r) [] p = "aws_secrets" -> AWSSecretsFetch(r)
      [] p = "vercel" -> VercelFetch(r) [] p = "netlify" -> NetlifyFetch(r)
NamesOnly == {"github", "cloudflare"}


\* computeDrift: missing and modified keys, and those the config does not have.
ComputeDrift(row, want, r) ==
    LET f == Fetch(row.provider, r) IN
    [missing |-> KeysOf(want) \ f.names,
     modified |-> {k \in KeysOf(want) \cap f.values : r[k] # want[k]},
     extra |-> f.names \ KeysOf(want)]
\* Drift.Status: an extra key is drift only where prune makes Janus its owner.
DriftStatus(row, drift) ==
    IF drift.missing # {} \/ drift.modified # {} \/ (row.prune /\ drift.extra # {})
    THEN "drift" ELSE "clean"

\* Verify, up to the resolved config: the scheduled pass or the handler.
VerifyStart(scheduled) ==
    /\ verifier.pc = "idle" /\ HasTarget /\ ~syncSealed
    /\ scheduled => target.st = "active" /\ verifyRow.on
    /\ verifier' = IF target.creds = "open"
                   THEN [pc |-> "fetch", row |-> Addressed(target), want |-> config]
                   ELSE [IdleVerifier EXCEPT !.pc = "error", !.row = Addressed(target)]
    /\ UNCHANGED <<target, config, remote, ssaOwned, syncer, verifyRow, syncSealed, edits,
                   syncFaults, unsure, placed, targetID>>

\* RecordVerifyRun; it fails on the foreign key if the target is gone, and a sealed
\* keyring ends the pass without a record.
RecordVerify(st) ==
    /\ verifyRow' = IF target.id = verifier.row.id THEN [verifyRow EXCEPT !.st = st]
                    ELSE verifyRow
    /\ verifier' = IdleVerifier
VerifyFetch ==
    /\ verifier.pc = "fetch"
    /\ IF syncSealed THEN verifier' = IdleVerifier /\ UNCHANGED verifyRow
       ELSE RecordVerify(DriftStatus(verifier.row,
                 ComputeDrift(verifier.row, verifier.want, remote[verifier.row.addr])))
    /\ UNCHANGED <<target, config, remote, ssaOwned, syncer, syncSealed, edits, syncFaults,
                   unsure, placed, targetID>>
VerifyMoved == \* it compared two moments; the verdict may be either
    /\ verifier.pc = "moved"
    /\ IF syncSealed THEN verifier' = IdleVerifier /\ UNCHANGED verifyRow
       ELSE RecordVerify("outdated")
    /\ UNCHANGED <<target, config, remote, ssaOwned, syncer, syncSealed, edits, syncFaults,
                   unsure, placed, targetID>>
VerifyFails ==
    /\ \/ verifier.pc = "error" /\ UNCHANGED syncFaults
       \/ verifier.pc \in {"fetch", "moved"} /\ Disturb
    /\ RecordVerify("error")
    /\ UNCHANGED <<target, config, remote, ssaOwned, syncer, syncSealed, edits, unsure,
                   placed, targetID>>

SetVerifySchedule(on) ==
    /\ HasTarget /\ verifyRow.on # on
    /\ verifyRow' = [verifyRow EXCEPT !.on = on]
    /\ Disturb
    /\ UNCHANGED <<target, config, remote, ssaOwned, syncer, verifier, syncSealed, edits,
                   unsure, placed, targetID>>

----------------------------------------------------------------------------
(* The rest of the system.                                                 *)

\* A save of the config changes one key.
EditConfig(k, v) ==
    /\ edits < MaxEdits /\ edits' = edits + 1
    /\ config[k] # v /\ config' = [config EXCEPT ![k] = v]
    /\ Outdate
    /\ UNCHANGED <<target, remote, ssaOwned, syncer, syncSealed,
                   syncFaults, unsure, placed, targetID>>

\* Somebody else writes to the destination.
ForeignWrite(d, k, v) ==
    /\ Disturb
    /\ remote[d][k] # v /\ remote' = [remote EXCEPT ![d][k] = v]
    /\ ssaOwned' = [ssaOwned EXCEPT ![d] = @ \ {k}]
    /\ Outdate /\ Unsettle
    /\ UNCHANGED <<target, config, syncSealed, edits, placed, targetID>>

\* projectkeys.Rotate: the credentials no longer open.
RotateSyncKEK ==
    /\ HasTarget /\ target.creds = "open" /\ ~syncSealed /\ Disturb
    /\ target' = [target EXCEPT !.creds = "stale"]
    /\ syncer' = [w \in Syncers |-> IF syncer[w].pc = "read"
                     THEN [syncer[w] EXCEPT !.row.creds = "stale"] ELSE syncer[w]]
    /\ UNCHANGED <<config, remote, ssaOwned, verifier, verifyRow, syncSealed, edits,
                   unsure, placed, targetID>>

SyncCrash ==
    /\ Disturb
    /\ syncer' = [w \in Syncers |-> IdleSyncer] /\ verifier' = IdleVerifier
    /\ unsure' = (unsure \/ Pushing # {})
    /\ syncSealed' = TRUE
    /\ UNCHANGED <<target, config, remote, ssaOwned, verifyRow, edits, placed, targetID>>
SyncSeal(b) ==
    /\ syncSealed # b /\ syncSealed' = b
    /\ IF b THEN Disturb ELSE UNCHANGED syncFaults
    /\ UNCHANGED <<target, config, remote, ssaOwned, syncer, verifier, verifyRow, edits,
                   unsure, placed, targetID>>

SyncerStep(w) ==
    \/ ReadDesired(w) \/ PutKey(w) \/ DeleteKey(w) \/ K8sApply(w)
    \/ PushFails(w) \/ MarkSynced(w) \/ MarkSyncFailure(w)

SyncNext ==
    \/ \E p \in SyncProviders, d \in Destinations, b \in BOOLEAN : SyncCreate(p, d, b)
    \/ \E s \in {"active", "paused", "failed"}, b \in BOOLEAN, d \in Destinations, c \in BOOLEAN :
          SyncUpdate(s, b, d, c)
    \/ SyncDelete \/ RunDueSync \/ \E w \in SyncCalls : SyncNow(w)
    \/ \E w \in Syncers : SyncerStep(w)
    \/ \E b \in BOOLEAN : VerifyStart(b)
    \/ VerifyFetch \/ VerifyMoved \/ VerifyFails \/ \E b \in BOOLEAN : SetVerifySchedule(b)
    \/ \E k \in SyncKeys, v \in 0 .. MaxSyncValue : EditConfig(k, v)
    \/ \E d \in Destinations, k \in SyncKeys, v \in {Missing, Hidden} : ForeignWrite(d, k, v)
    \/ RotateSyncKEK \/ SyncCrash \/ \E b \in BOOLEAN : SyncSeal(b)

SyncSpec == SyncInit /\ [][SyncNext]_syncVars

----------------------------------------------------------------------------
(* Properties.                                                             *)

\* Every variable has its type.
SyncTypeOK ==
    /\ target.st \in {"none", "active", "paused", "failed"} /\ target.managed \subseteq SyncKeys
    /\ config \in Maps /\ remote \in [Destinations -> [SyncKeys -> 0 .. Hidden]]
    /\ \A w \in Syncers : syncer[w].pc \in {"idle", "read", "patch", "push", "fail"}
    /\ verifyRow.st \in {"none", "clean", "drift", "outdated", "error"}

\* Change detection may be trusted: while nothing is being pushed, the destination holds
\* for every pushed key what the stored fingerprint stands for, so the attempt that
\* skips leaves nothing undone. The exceptions are those of unsure: a push that was cut
\* short and a config then put back to what it was are taken for "unchanged" although
\* the destination holds a mixture, and so is a new address.
UnchangedMeansMirrored ==
    HasTarget /\ target.print # NoPrint /\ Pushing = {} /\ ~unsure =>
        \A k \in target.managed : remote[target.addr][k] = target.print[k]

\* A verdict is about what was looked at: as long as neither the config, the target nor
\* the destination has moved since, clean is recorded exactly when the destination has
\* every key with its value (its name, where values cannot be read; a value withheld is
\* no drift), and under prune no other.
VerdictIsTheTruth ==
    HasTarget /\ verifyRow.st \in {"clean", "drift"} =>
        LET r == remote[target.addr] IN
        verifyRow.st = "clean" <=>
            /\ KeysOf(config) \subseteq KeysOf(r)
            /\ target.provider \in NamesOnly \/ \A k \in KeysOf(config) : r[k] \in {config[k], Hidden}
            /\ target.prune => KeysOf(r) \subseteq KeysOf(config)

\* Janus removes from a destination only keys it put there itself, never one it shares
\* the destination with. The exception is an address that changed: managed_keys does not
\* say where the keys were pushed.
RemovesOnlyItsOwn ==
    [][\A d \in Destinations, k \in SyncKeys :
          (remote[d][k] # Missing /\ remote'[d][k] = Missing /\ syncFaults' = syncFaults)
             => k \in placed[d]]_syncVars

\* What is reported of a destination is so: a sync skipped as unchanged finds it mirrored,
\* and the verdict of a verification is what was there.
MirrorIsHonest == SyncTypeOK /\ UnchangedMeansMirrored /\ VerdictIsTheTruth

=============================================================================
