--------------------------- MODULE DeliveryProofs ---------------------------
(***************************************************************************)
(* What is where, and who is shown it. What a sync leaves at its           *)
(* destination, for any providers, keys and destinations; the tree of      *)
(* projects, environments and configs, for any names and any number of     *)
(* rows and changes; and what revealing one key of a config shows,         *)
(* records and means while both change.                                    *)
(***************************************************************************)
EXTENDS Resolver, SecretSync, WellFoundedInduction, TLAPS

-----------------------------------------------------------------------------
(* Sync: the inductive invariant.                                          *)

Grows(p, q) == \A d \in Destinations : p[d] \subseteq q[d]

\* A row an attempt or the verifier works from: a target that was created before the n-th,
\* with keys to remove only where Janus put them.
RowFits(t, p, n) ==
    /\ t \in [id : Nat \ {0}, st : {t.st}, provider : ProviderRegistry, prune : {t.prune},
              fails : {t.fails}, addr : Destinations, managed : SUBSET SyncKeys,
              print : {t.print}, creds : {t.creds}]
    /\ t.id < n
    /\ t.managed \subseteq p[t.addr]
TargetFits ==
    target = NoTarget
    \/ (RowFits(target, placed, targetID) /\ target.st \in {"active", "paused", "failed"})

Writing == {"patch", "push"}
\* The keys a successful attempt reports as applied.
Reported(p, want) == IF p = "github" THEN KeysOf(want) \ ReservedNames ELSE KeysOf(want)
Reports(q) == Reported(q.row.provider, q.want)

\* What holds of an attempt between its steps, given the target's row, the destinations and
\* the keys placed. One that nobody disturbed has put in place every key it will report and
\* no longer has to put.
AttemptShape(q) ==
    q \in [pc : {"idle", "read", "patch", "push", "fail"}, row : {q.row}, force : {q.force},
           want : {q.want}, put : SUBSET SyncKeys, del : SUBSET SyncKeys, sound : {q.sound}]
Prepared(q, p) ==
    /\ q.want \in Maps /\ q.put \subseteq KeysOf(q.want)
    /\ q.del \cap KeysOf(q.want) = {} /\ q.del \subseteq p[q.row.addr]
Undisturbed(q, t, r) ==
    /\ q.pc \in Writing /\ q.row.id = t.id /\ q.row.addr = t.addr
    /\ q.pc = "push" => \A k \in Reports(q) \ q.put : r[q.row.addr][k] = q.want[k]
AttemptFits(q, t, r, p, n) ==
    /\ AttemptShape(q)
    /\ q.pc # "idle" => RowFits(q.row, p, n)
    /\ q.pc \in Writing => Prepared(q, p)
    /\ q.sound => Undisturbed(q, t, r)
AttemptsFit ==
    /\ syncer = [w \in Syncers |-> syncer[w]]
    /\ \A w \in Syncers : AttemptFits(syncer[w], target, remote, placed, targetID)

\* An undisturbed attempt is the only one that writes, and while nothing is unsure every
\* one that writes is undisturbed.
SoleWriter ==
    \A w, v \in Syncers : syncer[w].sound /\ w # v => syncer[v].pc \notin Writing
SureIsSound == ~unsure => \A w \in Syncers : syncer[w].pc \in Writing => syncer[w].sound

\* Between the attempts the destination holds what the row says.
Mirrored ==
    HasTarget /\ ~unsure /\ (\A w \in Syncers : syncer[w].pc \notin Writing) =>
        \A k \in target.managed : remote[target.addr][k] = target.print[k]

\* The verifier that is about to compare has read the config of now and, if the target is
\* still the one it read, the target of now.
VerifierFits ==
    /\ verifier \in [pc : {"idle", "fetch", "moved", "error"}, row : {verifier.row}, want : {verifier.want}]
    /\ verifier.pc = "fetch" =>
         /\ verifier.row.id \in Nat \ {0} /\ verifier.row.id < targetID /\ verifier.want = config
         /\ verifier.row.id = target.id =>
              /\ verifier.row.provider = target.provider /\ verifier.row.prune = target.prune
              /\ verifier.row.addr = target.addr
VerifyRowFits ==
    verifyRow \in [on : {verifyRow.on}, st : {"none", "clean", "drift", "outdated", "error"}]
Verifying == VerifierFits /\ VerifyRowFits /\ VerdictIsTheTruth

Stores ==
    /\ config \in Maps /\ remote \in [Destinations -> [SyncKeys -> 0 .. Hidden]]
    /\ ssaOwned \in [Destinations -> SUBSET SyncKeys] /\ placed \in [Destinations -> SUBSET SyncKeys]
    /\ \A d \in Destinations : ssaOwned[d] \subseteq placed[d]
    /\ targetID \in Nat \ {0} /\ syncFaults \in Nat

Attempting == AttemptsFit /\ SoleWriter /\ SureIsSound /\ Mirrored
SyncInv == Stores /\ TargetFits /\ Attempting /\ Verifying

-----------------------------------------------------------------------------
(* Sync: lemmas on rows and attempts.                                      *)

LEMMA SyncNat ==
    /\ MaxSyncValue \in Nat \ {0} /\ Hidden \in Nat /\ 0 .. MaxSyncValue \subseteq 0 .. Hidden
    /\ SyncProviders \subseteq ProviderRegistry /\ ReservedNames \subseteq SyncKeys
<1>1. MaxSyncValue \in Nat \ {0} /\ SyncProviders \subseteq ProviderRegistry /\ ReservedNames \subseteq SyncKeys
  BY Zenon, SyncAssumption DEF SyncAssumption
<1> QED
  BY <1>1 DEF Hidden

LEMMA RowKept ==
    ASSUME NEW t, NEW p, NEW n \in Nat, RowFits(t, p, n),
           NEW q, NEW m \in Nat, n <= m, Grows(p, q)
    PROVE  RowFits(t, q, m)
BY DEF RowFits, Grows

LEMMA GrowsSame == \A p : Grows(p, p)
BY DEF Grows

\* What an attempt keeps of its row once it pushes.
LEMMA AddressedFits ==
    ASSUME NEW t, NEW p, NEW n \in Nat, RowFits(t, p, n)
    PROVE  /\ RowFits(Addressed(t), p, n)
           /\ Addressed(t).id = t.id /\ Addressed(t).addr = t.addr
           /\ Addressed(t).provider = t.provider /\ Addressed(t).prune = t.prune
<1>1. /\ Addressed(t).id = t.id /\ Addressed(t).addr = t.addr /\ Addressed(t).managed = {}
      /\ Addressed(t).provider = t.provider /\ Addressed(t).prune = t.prune
  BY DEF Addressed, NoTarget
<1>2. Addressed(t) \in [id : {t.id}, st : {Addressed(t).st}, provider : {t.provider}, prune : {t.prune},
         fails : {Addressed(t).fails}, addr : {t.addr}, managed : {{}},
         print : {Addressed(t).print}, creds : {Addressed(t).creds}]
  BY DEF Addressed, NoTarget
<1> QED
  BY <1>1, <1>2 DEF RowFits

LEMMA ReadRowFits ==
    ASSUME NEW t, NEW p, NEW n \in Nat, RowFits(t, p, n)
    PROVE  RowFits(ReadRow(t), p, n)
BY DEF RowFits, ReadRow

\* Nothing is claimed of an attempt that is over.
LEMMA IdleFits == \A t, r, p, n : AttemptFits(IdleSyncer, t, r, p, n) /\ ~IdleSyncer.sound /\ IdleSyncer.pc = "idle"
BY DEF AttemptFits, AttemptShape, IdleSyncer, Writing

\* What holds of an attempt still does after a step of somebody else that leaves its
\* target and its destination alone.
LEMMA AttemptKept ==
    ASSUME NEW q, NEW t, NEW r, NEW p, NEW n \in Nat, AttemptFits(q, t, r, p, n),
           NEW u, NEW s, NEW o, NEW m \in Nat, n <= m, Grows(p, o),
           q.sound => u.id = t.id /\ u.addr = t.addr /\ s[q.row.addr] = r[q.row.addr]
    PROVE  AttemptFits(q, u, s, o, m)
<1>1. q.pc # "idle" => RowFits(q.row, o, m)
  BY RowKept DEF AttemptFits
<1>2. q.pc \in Writing => Prepared(q, o)
  BY DEF AttemptFits, Prepared, Grows, RowFits, Writing
<1>3. q.sound => Undisturbed(q, u, s)
  BY DEF AttemptFits, Undisturbed
<1> QED
  BY <1>1, <1>2, <1>3 DEF AttemptFits

\* A disturbed attempt keeps all the rest.
LEMMA AttemptUnsettled ==
    ASSUME NEW q, NEW t, NEW r, NEW p, NEW n \in Nat, AttemptFits(q, t, r, p, n),
           NEW u, NEW s, NEW o, NEW m \in Nat, n <= m, Grows(p, o)
    PROVE  LET z == [q EXCEPT !.sound = FALSE] IN
           AttemptFits(z, u, s, o, m) /\ z.pc = q.pc /\ ~z.sound
<1> DEFINE z == [q EXCEPT !.sound = FALSE]
<1>0. AttemptShape(q)
  BY DEF AttemptFits
<1>1. z.pc = q.pc /\ z.row = q.row /\ z.force = q.force /\ z.want = q.want /\ z.put = q.put
      /\ z.del = q.del /\ z.sound = FALSE
  BY <1>0 DEF AttemptShape
<1>2. AttemptShape(z)
  BY <1>0, <1>1 DEF AttemptShape
<1> HIDE DEF z
<1>3. z.pc # "idle" => RowFits(z.row, o, m)
  BY <1>1, RowKept DEF AttemptFits
<1>4. z.pc \in Writing => Prepared(z, o)
  BY <1>1 DEF AttemptFits, Prepared, Grows, RowFits, Writing
<1>5. AttemptFits(z, u, s, o, m) /\ z.pc = q.pc /\ ~z.sound
  BY <1>1, <1>2, <1>3, <1>4 DEF AttemptFits
<1> QED
  BY <1>5 DEF z

-----------------------------------------------------------------------------
(* Sync: what the kinds of step do to the attempts and to the verifier.    *)

\* The row still names the same target at the same address, with the same keys.
SameTarget ==
    /\ target'.id = target.id /\ target'.addr = target.addr
    /\ target'.managed = target.managed /\ target'.print = target.print
    /\ HasTarget' = HasTarget
SameQuestion ==
    /\ target'.id = target.id /\ target'.addr = target.addr
    /\ target'.provider = target.provider /\ target'.prune = target.prune
    /\ HasTarget' = HasTarget

\* A verdict stands as long as nothing it speaks about moves.
LEMMA VerifyingStays ==
    ASSUME Verifying, targetID \in Nat, targetID' \in Nat, targetID <= targetID', SameQuestion,
           UNCHANGED <<config, remote, verifier, verifyRow>>
    PROVE  Verifying'
<1>1. VerifierFits'
  BY DEF Verifying, VerifierFits, SameQuestion
<1>2. VerifyRowFits'
  BY DEF Verifying, VerifyRowFits
<1>3. VerdictIsTheTruth'
  BY DEF Verifying, VerdictIsTheTruth, SameQuestion, HasTarget, NamesOnly
<1> QED
  BY <1>1, <1>2, <1>3 DEF Verifying

\* Where something moves, no verdict is left.
LEMMA OutdateVerifies ==
    ASSUME Verifying, Outdate
    PROVE  Verifying'
<1>1. /\ verifyRow'.st \in {"none", "outdated", "error"}
      /\ VerifyRowFits'
  <2>1. verifyRow \in [on : {verifyRow.on}, st : {"none", "clean", "drift", "outdated", "error"}]
    BY DEF Verifying, VerifyRowFits
  <2>2. verifyRow' = [verifyRow EXCEPT !.st = IF verifyRow.st \in {"clean", "drift"} THEN "outdated" ELSE verifyRow.st]
    BY DEF Outdate
  <2> QED
    BY <2>1, <2>2 DEF VerifyRowFits
<1>2. VerifierFits'
  <2>1. CASE verifier.pc = "fetch"
    <3>1. verifier' = [IdleVerifier EXCEPT !.pc = "moved", !.row.id = verifier.row.id]
      BY <2>1 DEF Outdate
    <3>2. verifier'.pc = "moved" /\ verifier' \in [pc : {"moved"}, row : {verifier'.row}, want : {verifier'.want}]
      BY <3>1 DEF IdleVerifier
    <3> QED
      BY <3>2 DEF VerifierFits
  <2>2. CASE verifier.pc # "fetch"
    BY <2>2 DEF Outdate, Verifying, VerifierFits
  <2> QED
    BY <2>1, <2>2
<1> QED
  BY <1>1, <1>2 DEF Verifying, VerdictIsTheTruth

\* A step that leaves the attempts alone.
LEMMA AttemptingStays ==
    ASSUME Attempting, targetID \in Nat, targetID' = targetID, Grows(placed, placed'), SameTarget,
           UNCHANGED <<syncer, remote, unsure>>
    PROVE  Attempting'
<1>1. AttemptsFit'
  <2>1. \A w \in Syncers : AttemptFits(syncer[w], target', remote', placed', targetID')
    BY AttemptKept DEF Attempting, AttemptsFit, SameTarget
  <2> QED
    BY <2>1 DEF Attempting, AttemptsFit
<1>2. SoleWriter' /\ SureIsSound' /\ Mirrored'
  BY DEF Attempting, SoleWriter, SureIsSound, Mirrored, SameTarget
<1> QED
  BY <1>1, <1>2 DEF Attempting

\* A step that disturbs every attempt.
LEMMA UnsettleAttempts ==
    ASSUME Attempting, targetID \in Nat, targetID' = targetID, Grows(placed, placed'), Unsettle
    PROVE  Attempting'
<1>1. \A w \in Syncers : /\ AttemptFits(syncer'[w], target', remote', placed', targetID')
                         /\ syncer'[w].pc = syncer[w].pc /\ ~syncer'[w].sound
  <2> SUFFICES ASSUME NEW w \in Syncers
               PROVE  /\ AttemptFits(syncer'[w], target', remote', placed', targetID')
                      /\ syncer'[w].pc = syncer[w].pc /\ ~syncer'[w].sound
    OBVIOUS
  <2>1. syncer'[w] = [syncer[w] EXCEPT !.sound = FALSE]
    BY DEF Unsettle
  <2>2. AttemptFits(syncer[w], target, remote, placed, targetID)
    BY DEF Attempting, AttemptsFit
  <2> QED
    BY <2>1, <2>2, AttemptUnsettled
<1>2. syncer' = [w \in Syncers |-> syncer'[w]] /\ unsure'
  BY DEF Unsettle
<1> QED
  BY <1>1, <1>2 DEF Attempting, AttemptsFit, SoleWriter, SureIsSound, Mirrored

\* A step of an attempt that writes neither before nor after it.
LEMMA ReaderSteps ==
    ASSUME Attempting, targetID \in Nat, SameTarget, UNCHANGED <<remote, unsure, placed, targetID>>,
           NEW w \in Syncers, syncer[w].pc \notin Writing,
           NEW q, syncer' = [syncer EXCEPT ![w] = q], q.pc \notin Writing, ~q.sound,
           AttemptFits(q, target, remote, placed, targetID)
    PROVE  Attempting'
<1>0. \A v \in Syncers : syncer'[v] = IF v = w THEN q ELSE syncer[v]
  BY DEF Attempting, AttemptsFit
<1>1. AttemptsFit'
  <2>1. \A v \in Syncers : AttemptFits(syncer'[v], target, remote, placed, targetID)
    BY <1>0 DEF Attempting, AttemptsFit
  <2>2. \A v \in Syncers : AttemptFits(syncer'[v], target', remote', placed', targetID')
    BY <2>1, AttemptKept, GrowsSame DEF SameTarget
  <2>3. syncer' = [v \in Syncers |-> syncer'[v]]
    BY DEF Attempting, AttemptsFit
  <2> QED
    BY <2>2, <2>3 DEF AttemptsFit
<1>2. ~syncer[w].sound
  BY DEF Attempting, AttemptsFit, AttemptFits, Undisturbed
<1>3. SoleWriter' /\ SureIsSound'
  BY <1>0 DEF Attempting, SoleWriter, SureIsSound
<1>4. Mirrored'
  BY <1>0 DEF Attempting, Mirrored, SameTarget
<1> QED
  BY <1>1, <1>3, <1>4 DEF Attempting

\* A step of an attempt that is writing: whatever it does to its destination, no other
\* attempt relied on it.
LEMMA WriterSteps ==
    ASSUME Attempting, targetID \in Nat, targetID' = targetID, Grows(placed, placed'),
           NEW w \in Syncers, syncer[w].pc \in Writing,
           NEW q, syncer' = [syncer EXCEPT ![w] = q],
           AttemptFits(q, target', remote', placed', targetID'),
           q.sound => syncer[w].sound,
           q.pc \in Writing => unsure' = unsure /\ q.sound = syncer[w].sound,
           ~unsure' => ~unsure \/ syncer[w].sound,
           q.pc \notin Writing /\ ~unsure' /\ HasTarget' =>
              \A k \in target'.managed : remote'[target'.addr][k] = target'.print[k]
    PROVE  Attempting'
<1>0. \A v \in Syncers : syncer'[v] = IF v = w THEN q ELSE syncer[v]
  BY DEF Attempting, AttemptsFit
<1>1. \A v \in Syncers \ {w} : ~syncer[v].sound
  BY DEF Attempting, SoleWriter
<1>2. AttemptsFit'
  <2>1. \A v \in Syncers \ {w} : AttemptFits(syncer[v], target', remote', placed', targetID')
    BY <1>1, AttemptKept DEF Attempting, AttemptsFit
  <2>2. \A v \in Syncers : AttemptFits(syncer'[v], target', remote', placed', targetID')
    BY <1>0, <2>1
  <2>3. syncer' = [v \in Syncers |-> syncer'[v]]
    BY DEF Attempting, AttemptsFit
  <2> QED
    BY <2>2, <2>3 DEF AttemptsFit
<1>3. SoleWriter'
  BY <1>0, <1>1 DEF Attempting, SoleWriter
<1>4. SureIsSound'
  <2> SUFFICES ASSUME ~unsure', NEW v \in Syncers, syncer'[v].pc \in Writing PROVE syncer'[v].sound
    BY DEF SureIsSound
  <2>1. CASE v = w
    BY <1>0, <2>1 DEF Attempting, SureIsSound
  <2>2. CASE v # w
    <3>1. syncer[v].pc \in Writing /\ ~syncer[v].sound
      BY <1>0, <1>1, <2>2
    <3>2. unsure
      BY <3>1 DEF Attempting, SureIsSound
    <3>3. syncer[w].sound
      BY <3>2
    <3> QED
      BY <2>2, <3>1, <3>3 DEF Attempting, SoleWriter
  <2> QED
    BY <2>1, <2>2
<1>5. Mirrored'
  BY <1>0 DEF Mirrored
<1> QED
  BY <1>2, <1>3, <1>4, <1>5 DEF Attempting

-----------------------------------------------------------------------------
(* Sync: the steps of an attempt.                                          *)

\* Every provider's plan removes only managed keys, and none it puts; all but Kubernetes,
\* which has one request for everything, put what they will report.
PlanIsFit(plan, p, want, managed) ==
    /\ plan.put \subseteq KeysOf(want) /\ plan.del \subseteq managed
    /\ plan.del \cap KeysOf(want) = {}
    /\ p # "k8s" => plan.put = Reported(p, want)
LEMMA PlanFits ==
    ASSUME NEW p \in ProviderRegistry, NEW want \in Maps, NEW managed \in SUBSET SyncKeys, NEW prune
    PROVE  PlanIsFit(Plan(p, want, managed, prune), p, want, managed)
<1> DEFINE plan == Plan(p, want, managed, prune)
<1>1. CASE p = "github"
  <2>1. plan = GitHubApply(want, managed, prune)
    BY <1>1 DEF Plan
  <2>2. /\ plan.put = KeysOf(want) \ ReservedNames
        /\ plan.del = IF prune THEN managed \ (KeysOf(want) \cup ReservedNames) ELSE {}
    BY <2>1 DEF GitHubApply
  <2> HIDE DEF plan
  <2>3. /\ plan.put \subseteq KeysOf(want) /\ plan.del \subseteq managed
        /\ plan.del \cap KeysOf(want) = {}
    BY <2>2 DEF KeysOf
  <2> QED
    BY <1>1, <2>2, <2>3 DEF plan, Reported, PlanIsFit
<1>2. CASE p = "k8s"
  <2>1. plan = [put |-> {}, del |-> {}]
    BY <1>2 DEF Plan
  <2> QED
    BY <1>2, <2>1 DEF PlanIsFit
<1>3. CASE p \notin {"github", "k8s"}
  <2>1. plan = Mirror(want, managed, prune)
    <3>1. p \in {"gitlab", "aws_ssm", "cloudflare", "aws_secrets", "vercel", "netlify"}
      BY <1>3 DEF ProviderRegistry
    <3> QED
      BY <3>1 DEF Plan, GitLabApply, CloudflareApply, NetlifyApply, AWSSSMApply, AWSSecretsApply, VercelApply
  <2>2. /\ plan.put = KeysOf(want)
        /\ plan.del = IF prune THEN managed \ KeysOf(want) ELSE {}
    BY <2>1 DEF Mirror
  <2> HIDE DEF plan
  <2>3. /\ plan.put \subseteq KeysOf(want) /\ plan.del \subseteq managed
        /\ plan.del \cap KeysOf(want) = {}
    BY <2>2 DEF KeysOf
  <2> QED
    BY <1>3, <2>2, <2>3 DEF plan, Reported, PlanIsFit
<1> QED
  BY <1>1, <1>2, <1>3

LEMMA HasTargetFits ==
    ASSUME TargetFits, HasTarget
    PROVE  RowFits(target, placed, targetID) /\ target.st \in {"active", "paused", "failed"}
BY DEF TargetFits, HasTarget, NoTarget

\* A row the target is recognised by is a target's.
LEMMA SameIdFits ==
    ASSUME TargetFits, NEW t, RowFits(t, placed, targetID), target.id = t.id
    PROVE  HasTarget /\ RowFits(target, placed, targetID)
BY DEF TargetFits, HasTarget, NoTarget, RowFits

\* An attempt that has read the row.
LEMMA ReadingFits ==
    ASSUME TargetFits, HasTarget, targetID \in Nat,
           NEW q, AttemptShape(q), q.pc = "read", q.row = ReadRow(target), ~q.sound
    PROVE  AttemptFits(q, target, remote, placed, targetID)
BY HasTargetFits, ReadRowFits DEF AttemptFits, Writing

\* One whose next step is to record a failure.
LEMMA FailingFits ==
    ASSUME targetID \in Nat, NEW t, RowFits(t, placed, targetID)
    PROVE  LET q == [IdleSyncer EXCEPT !.pc = "fail", !.row = Addressed(t)] IN
           AttemptFits(q, target, remote, placed, targetID) /\ q.pc = "fail" /\ ~q.sound
<1> DEFINE q == [IdleSyncer EXCEPT !.pc = "fail", !.row = Addressed(t)]
<1>1. RowFits(Addressed(t), placed, targetID)
  BY AddressedFits
<1>2. q.pc = "fail" /\ q.row = Addressed(t) /\ q.put = {} /\ q.del = {} /\ q.sound = FALSE
  BY DEF IdleSyncer
<1>3. AttemptShape(q)
  BY DEF IdleSyncer, AttemptShape
<1> HIDE DEF q
<1>4. AttemptFits(q, target, remote, placed, targetID) /\ q.pc = "fail" /\ ~q.sound
  BY <1>1, <1>2, <1>3 DEF AttemptFits, Writing
<1> QED
  BY <1>4 DEF q

LEMMA RunDueSyncKeeps ==
    ASSUME SyncInv, RunDueSync
    PROVE  SyncInv'
<1>0. HasTarget /\ SyncScheduler \in Syncers /\ targetID \in Nat
  BY DEF RunDueSync, ClaimDueTargets, HasTarget, Syncers, SyncInv, Stores
<1> DEFINE q == [IdleSyncer EXCEPT !.pc = "read", !.row = ReadRow(target)]
<1>1. AttemptShape(q) /\ q.pc = "read" /\ q.row = ReadRow(target) /\ ~q.sound
  BY DEF IdleSyncer, AttemptShape
<1>2. AttemptFits(q, target, remote, placed, targetID) /\ q.pc = "read" /\ ~q.sound
  BY <1>0, <1>1, ReadingFits DEF SyncInv
<1>3. /\ syncer' = [syncer EXCEPT ![SyncScheduler] = q] /\ syncer[SyncScheduler].pc = "idle"
      /\ UNCHANGED <<target, config, remote, ssaOwned, verifier, verifyRow, placed, targetID, unsure, syncFaults>>
  BY DEF RunDueSync
<1> HIDE DEF q
<1>4. Attempting'
  <2>1. SameTarget /\ q.pc \notin Writing /\ syncer[SyncScheduler].pc \notin Writing
    BY <1>2, <1>3 DEF SameTarget, HasTarget, Writing
  <2> QED
    BY <1>0, <1>2, <1>3, <2>1, ReaderSteps DEF SyncInv
<1>5. Verifying'
  <2>1. SameQuestion
    BY <1>3 DEF SameQuestion, HasTarget
  <2> QED
    BY <1>0, <1>3, <2>1, VerifyingStays DEF SyncInv
<1>6. Stores' /\ TargetFits'
  BY <1>3 DEF SyncInv, Stores, TargetFits
<1> QED
  BY <1>4, <1>5, <1>6 DEF SyncInv

LEMMA SyncNowKeeps ==
    ASSUME SyncInv, NEW w \in SyncCalls, SyncNow(w)
    PROVE  SyncInv'
<1>0. HasTarget /\ w \in Syncers /\ targetID \in Nat
  BY DEF SyncNow, Syncers, SyncInv, Stores
<1> DEFINE q == [IdleSyncer EXCEPT !.pc = "read", !.row = ReadRow(target), !.force = TRUE]
<1>1. AttemptShape(q) /\ q.pc = "read" /\ q.row = ReadRow(target) /\ ~q.sound
  BY DEF IdleSyncer, AttemptShape
<1>2. AttemptFits(q, target, remote, placed, targetID) /\ q.pc = "read" /\ ~q.sound
  BY <1>0, <1>1, ReadingFits DEF SyncInv
<1>3. /\ syncer' = [syncer EXCEPT ![w] = q] /\ syncer[w].pc = "idle" /\ target' = PrepareSyncNow
      /\ UNCHANGED <<config, remote, ssaOwned, verifier, verifyRow, placed, targetID, unsure, syncFaults>>
  BY DEF SyncNow
<1> HIDE DEF q
<1>4. /\ SameTarget /\ SameQuestion
      /\ RowFits(target', placed, targetID) /\ target'.st \in {"active", "paused", "failed"}
  <2>1. RowFits(target, placed, targetID) /\ target.st \in {"active", "paused", "failed"}
    BY <1>0, HasTargetFits DEF SyncInv
  <2>2. CASE target.st = "failed"
    <3>1. target' = [target EXCEPT !.st = "active", !.fails = 0]
      BY <1>3, <2>2 DEF PrepareSyncNow
    <3> QED
      BY <2>1, <3>1 DEF RowFits, SameTarget, SameQuestion, HasTarget
  <2>3. CASE target.st # "failed"
    BY <1>3, <2>1, <2>3 DEF PrepareSyncNow, SameTarget, SameQuestion, HasTarget
  <2> QED
    BY <2>2, <2>3
<1>5. Attempting'
  <2>1. q.pc \notin Writing /\ syncer[w].pc \notin Writing
    BY <1>2, <1>3 DEF Writing
  <2> QED
    BY <1>0, <1>2, <1>3, <1>4, <2>1, ReaderSteps DEF SyncInv
<1>6. Verifying'
  BY <1>0, <1>3, <1>4, VerifyingStays DEF SyncInv
<1>7. Stores' /\ TargetFits'
  BY <1>3, <1>4 DEF SyncInv, Stores, TargetFits
<1> QED
  BY <1>5, <1>6, <1>7 DEF SyncInv

\* The attempt that begins to write.
LEMMA BeginFits ==
    ASSUME targetID \in Nat, config \in Maps, NEW row, RowFits(row, placed, targetID), NEW plan,
           PlanIsFit(plan, row.provider, config, row.managed),
           NEW z, z \in [pc : {z.pc}, row : {z.row}, force : {z.force}, want : {z.want}, put : {z.put},
                         del : {z.del}, sound : {z.sound}],
           z.pc = IF row.provider = "k8s" THEN "patch" ELSE "push",
           z.row = Addressed(row), z.want = config, z.put = plan.put, z.del = plan.del,
           z.sound => Current(row)
    PROVE  AttemptFits(z, target, remote, placed, targetID)
<1>1. row.provider \in ProviderRegistry /\ row.managed \in SUBSET SyncKeys /\ row.managed \subseteq placed[row.addr]
  BY DEF RowFits
<1>2. AttemptShape(z)
  BY <1>1 DEF AttemptShape, KeysOf, PlanIsFit
<1>3. /\ RowFits(z.row, placed, targetID)
      /\ z.row.id = row.id /\ z.row.addr = row.addr /\ z.row.provider = row.provider
  BY AddressedFits
<1>4. Prepared(z, placed)
  BY <1>1, <1>3 DEF Prepared, PlanIsFit
<1>5. z.sound => Undisturbed(z, target, remote)
  BY <1>3 DEF Undisturbed, Current, Reports, Writing, PlanIsFit
<1> QED
  BY <1>2, <1>3, <1>4, <1>5 DEF AttemptFits

LEMMA ReadDesiredKeeps ==
    ASSUME SyncInv, NEW w \in Syncers, ReadDesired(w)
    PROVE  SyncInv'
<1> DEFINE q == syncer[w]
           row == q.row
           plan == Plan(row.provider, config, row.managed, row.prune)
           fail == [IdleSyncer EXCEPT !.pc = "fail", !.row = Addressed(row)]
           start == [q EXCEPT !.pc = IF row.provider = "k8s" THEN "patch" ELSE "push",
                              !.row = Addressed(row), !.want = config,
                              !.put = plan.put, !.del = plan.del,
                              !.sound = Pushing = {} /\ Current(row)]
<1>0. /\ targetID \in Nat /\ config \in Maps
      /\ AttemptFits(q, target, remote, placed, targetID) /\ q.pc = "read"
      /\ RowFits(row, placed, targetID) /\ q.pc \notin Writing
  BY DEF SyncInv, Stores, Attempting, AttemptsFit, AttemptFits, ReadDesired, Writing
<1>1. UNCHANGED <<target, config, remote, ssaOwned, verifier, verifyRow, placed, targetID, syncFaults>>
  BY DEF ReadDesired
<1>2. SameTarget /\ SameQuestion
  BY <1>1 DEF SameTarget, SameQuestion, HasTarget
<1>3. Stores' /\ TargetFits' /\ Verifying'
  <2>1. Verifying'
    BY <1>0, <1>1, <1>2, VerifyingStays DEF SyncInv
  <2> QED
    BY <1>1, <2>1 DEF SyncInv, Stores, TargetFits
<1>4. Attempting'
  <2>1. CASE Stop(w) /\ UNCHANGED unsure
    <3>1. syncer' = [syncer EXCEPT ![w] = IdleSyncer] /\ IdleSyncer.pc \notin Writing /\ ~IdleSyncer.sound
      BY <2>1 DEF Stop, IdleSyncer, Writing
    <3> QED
      BY <1>0, <1>1, <1>2, <2>1, <3>1, IdleFits, ReaderSteps DEF SyncInv
  <2>2. CASE Step(w, "fail") /\ UNCHANGED unsure
    <3>1. syncer' = [syncer EXCEPT ![w] = fail]
      BY <2>2 DEF Step
    <3>2. AttemptFits(fail, target, remote, placed, targetID) /\ fail.pc \notin Writing /\ ~fail.sound
      BY <1>0, FailingFits DEF Writing
    <3> HIDE DEF fail
    <3> QED
      BY <1>0, <1>1, <1>2, <2>2, <3>1, <3>2, ReaderSteps DEF SyncInv
  <2>3. CASE /\ syncer' = [v \in Syncers |-> IF v = w THEN start ELSE [syncer[v] EXCEPT !.sound = FALSE]]
             /\ unsure' = (unsure \/ Pushing # {} \/ ~Current(row))
    <3>1. /\ start.pc = IF row.provider = "k8s" THEN "patch" ELSE "push"
          /\ start.row = Addressed(row) /\ start.force = q.force /\ start.want = config
          /\ start.put = plan.put /\ start.del = plan.del
      BY <1>0 DEF AttemptFits, AttemptShape
    <3>2. start.sound = (Pushing = {} /\ Current(row))
      BY <1>0 DEF AttemptFits, AttemptShape
    <3>3. start \in [pc : {start.pc}, row : {start.row}, force : {start.force}, want : {start.want},
                     put : {start.put}, del : {start.del}, sound : {start.sound}]
      BY <1>0 DEF AttemptFits, AttemptShape
    <3> HIDE DEF start
    <3>4. PlanIsFit(plan, row.provider, config, row.managed)
      <4>1. row.provider \in ProviderRegistry /\ row.managed \in SUBSET SyncKeys
        BY <1>0 DEF RowFits
      <4> QED
        BY <1>0, <4>1, PlanFits
    <3> HIDE DEF plan
    <3>5. AttemptFits(start, target, remote, placed, targetID)
      BY <1>0, <3>1, <3>2, <3>3, <3>4, BeginFits
    <3>6. \A v \in Syncers \ {w} :
             /\ AttemptFits(syncer'[v], target, remote, placed, targetID)
             /\ syncer'[v].pc = syncer[v].pc /\ ~syncer'[v].sound
      <4> SUFFICES ASSUME NEW v \in Syncers \ {w}
                   PROVE  /\ AttemptFits(syncer'[v], target, remote, placed, targetID)
                          /\ syncer'[v].pc = syncer[v].pc /\ ~syncer'[v].sound
        OBVIOUS
      <4>1. syncer'[v] = [syncer[v] EXCEPT !.sound = FALSE]
        BY <2>3
      <4>2. AttemptFits(syncer[v], target, remote, placed, targetID)
        BY DEF SyncInv, Attempting, AttemptsFit
      <4> QED
        BY <1>0, <4>1, <4>2, GrowsSame, AttemptUnsettled
    <3>7. syncer'[w] = start
      BY <2>3
    <3>8. AttemptsFit'
      <4>1. syncer' = [v \in Syncers |-> syncer'[v]]
        BY <2>3
      <4>2. \A v \in Syncers : AttemptFits(syncer'[v], target, remote, placed, targetID)
        BY <3>5, <3>6, <3>7
      <4> QED
        BY <1>1, <4>1, <4>2 DEF AttemptsFit
    <3>9. Pushing = {} => \A v \in Syncers : syncer[v].pc \notin Writing
      BY DEF Pushing, Writing
    <3>10. SoleWriter'
      BY <3>2, <3>6, <3>7, <3>9 DEF SoleWriter
    <3>11. SureIsSound'
      BY <2>3, <3>2, <3>6, <3>7, <3>9 DEF SureIsSound
    <3>12. Mirrored'
      BY <3>1, <3>7 DEF Mirrored, Writing
    <3> QED
      BY <3>8, <3>10, <3>11, <3>12 DEF Attempting
  <2> QED
    BY <2>1, <2>2, <2>3 DEF ReadDesired
<1> QED
  BY <1>3, <1>4 DEF SyncInv

LEMMA PutKeyKeeps ==
    ASSUME SyncInv, NEW w \in Syncers, PutKey(w)
    PROVE  SyncInv'
<1> DEFINE q == syncer[w]
           d == q.row.addr
<1>0. /\ Stores /\ targetID \in Nat
      /\ AttemptFits(q, target, remote, placed, targetID) /\ q.pc = "push"
      /\ AttemptShape(q) /\ RowFits(q.row, placed, targetID) /\ Prepared(q, placed) /\ q.pc \in Writing
  BY DEF SyncInv, Stores, Attempting, AttemptsFit, AttemptFits, PutKey, Writing
<1>1. d \in Destinations /\ q.put \subseteq SyncKeys /\ q.want \in Maps
  BY <1>0 DEF RowFits, AttemptShape, Prepared
<1>2. PICK k \in q.put : /\ remote' = [remote EXCEPT ![d][k] = q.want[k]]
                         /\ placed' = [placed EXCEPT ![d] = @ \cup {k}]
                         /\ syncer' = [syncer EXCEPT ![w].put = @ \ {k}]
  BY DEF PutKey
<1>3. /\ UNCHANGED <<target, config, ssaOwned, targetID, unsure, syncFaults>> /\ Outdate
  BY DEF PutKey
<1>4. Grows(placed, placed')
  BY <1>0, <1>1, <1>2 DEF Stores, Grows
<1>5. Stores'
  <2>1. q.want[k] \in 0 .. Hidden
    BY <1>1, SyncNat DEF Maps
  <2>2. remote' \in [Destinations -> [SyncKeys -> 0 .. Hidden]]
    BY <1>0, <1>1, <1>2, <2>1 DEF Stores
  <2>3. placed' \in [Destinations -> SUBSET SyncKeys]
    BY <1>0, <1>1, <1>2 DEF Stores
  <2> QED
    BY <1>0, <1>3, <1>4, <2>2, <2>3 DEF Stores, Grows
<1>6. TargetFits'
  BY <1>0, <1>3, <1>4, RowKept DEF SyncInv, TargetFits
<1>7. Attempting'
  <2> DEFINE z == [q EXCEPT !.put = @ \ {k}]
  <2>1. syncer' = [syncer EXCEPT ![w] = z]
    BY <1>2
  <2>2. /\ z.pc = q.pc /\ z.row = q.row /\ z.want = q.want /\ z.del = q.del /\ z.sound = q.sound
        /\ z.force = q.force /\ z.put = q.put \ {k}
    BY <1>0 DEF AttemptShape
  <2>3. AttemptShape(z)
    BY <1>0, <2>2 DEF AttemptShape
  <2> HIDE DEF z
  <2>4. RowFits(z.row, placed', targetID') /\ Prepared(z, placed')
    <3>1. RowFits(z.row, placed', targetID')
      BY <1>0, <1>3, <1>4, <2>2, RowKept
    <3> QED
      BY <1>0, <1>1, <1>4, <2>2, <3>1 DEF Prepared, Grows
  <2>5. z.sound => Undisturbed(z, target', remote')
    <3> SUFFICES ASSUME z.sound PROVE Undisturbed(z, target', remote')
      OBVIOUS
    <3>1. Undisturbed(q, target, remote)
      BY <1>0, <2>2 DEF AttemptFits
    <3>2. Reports(z) = Reports(q) /\ Reports(q) \subseteq SyncKeys
      BY <2>2 DEF Reports, Reported, KeysOf
    <3>3. \A j \in Reports(z) \ z.put : remote'[d][j] = z.want[j]
      BY <1>0, <1>1, <1>2, <2>2, <3>1, <3>2 DEF Undisturbed, Stores
    <3> QED
      BY <1>3, <2>2, <3>1, <3>3 DEF Undisturbed
  <2>6. AttemptFits(z, target', remote', placed', targetID')
    BY <2>3, <2>4, <2>5 DEF AttemptFits
  <2> QED
    BY <1>0, <1>3, <1>4, <2>1, <2>2, <2>6, WriterSteps DEF SyncInv
<1> QED
  BY <1>3, <1>5, <1>6, <1>7, OutdateVerifies DEF SyncInv

\* The state a step of a writing attempt starts from.
LEMMA WriterState ==
    ASSUME SyncInv, NEW w \in Syncers, syncer[w].pc \in Writing
    PROVE  LET q == syncer[w] IN
           /\ Stores /\ targetID \in Nat
           /\ AttemptFits(q, target, remote, placed, targetID) /\ AttemptShape(q)
           /\ RowFits(q.row, placed, targetID) /\ Prepared(q, placed)
           /\ q.row.addr \in Destinations /\ q.want \in Maps
           /\ q.put \subseteq KeysOf(q.want) /\ q.del \subseteq SyncKeys /\ q.del \subseteq placed[q.row.addr]
           /\ q.del \cap KeysOf(q.want) = {} /\ Reports(q) \subseteq KeysOf(q.want)
           /\ KeysOf(q.want) \subseteq SyncKeys
<1>1. /\ Stores /\ targetID \in Nat
      /\ AttemptFits(syncer[w], target, remote, placed, targetID) /\ AttemptShape(syncer[w])
      /\ RowFits(syncer[w].row, placed, targetID) /\ Prepared(syncer[w], placed)
  BY DEF SyncInv, Stores, Attempting, AttemptsFit, AttemptFits, Writing
<1> QED
  BY <1>1 DEF RowFits, AttemptShape, Prepared, Reports, Reported, KeysOf

LEMMA DeleteKeyKeeps ==
    ASSUME SyncInv, NEW w \in Syncers, DeleteKey(w)
    PROVE  SyncInv'
<1> DEFINE q == syncer[w]
           d == q.row.addr
<1>0. q.pc = "push" /\ q.pc \in Writing /\ q.put = {}
  BY DEF DeleteKey, Writing
<1>1. /\ Stores /\ targetID \in Nat
      /\ AttemptFits(q, target, remote, placed, targetID) /\ AttemptShape(q)
      /\ RowFits(q.row, placed, targetID) /\ Prepared(q, placed)
      /\ d \in Destinations /\ q.del \subseteq SyncKeys /\ q.del \cap KeysOf(q.want) = {}
      /\ Reports(q) \subseteq KeysOf(q.want) /\ KeysOf(q.want) \subseteq SyncKeys
  BY <1>0, WriterState
<1> DEFINE calls == IF q.row.provider = "aws_ssm" THEN {q.del} \ {{}} ELSE {{k} : k \in q.del}
<1>2. PICK ks \in calls :
         /\ remote' = [remote EXCEPT ![d] = [k \in SyncKeys |-> IF k \in ks THEN Missing ELSE @[k]]]
         /\ syncer' = [syncer EXCEPT ![w].del = @ \ ks]
  BY DEF DeleteKey
<1>3. ks \subseteq q.del
  BY <1>2
<1>4. /\ UNCHANGED <<target, config, ssaOwned, placed, targetID, unsure, syncFaults>> /\ Outdate
  BY DEF DeleteKey
<1> HIDE DEF calls
<1>5. Stores'
  <2>1. remote[d] \in [SyncKeys -> 0 .. Hidden] /\ Missing \in 0 .. Hidden
    BY <1>1, SyncNat DEF Stores, Missing
  <2>2. [k \in SyncKeys |-> IF k \in ks THEN Missing ELSE remote[d][k]] \in [SyncKeys -> 0 .. Hidden]
    BY <2>1
  <2>3. remote' \in [Destinations -> [SyncKeys -> 0 .. Hidden]]
    BY <1>1, <1>2, <2>2 DEF Stores
  <2> QED
    BY <1>1, <1>4, <2>3 DEF Stores
<1>6. TargetFits'
  BY <1>4 DEF SyncInv, TargetFits
<1>7. Attempting'
  <2> DEFINE z == [q EXCEPT !.del = @ \ ks]
  <2>1. syncer' = [syncer EXCEPT ![w] = z]
    BY <1>2
  <2>2. /\ z.pc = q.pc /\ z.row = q.row /\ z.want = q.want /\ z.del = q.del \ ks /\ z.sound = q.sound
        /\ z.force = q.force /\ z.put = q.put
    BY <1>1 DEF AttemptShape
  <2>3. AttemptShape(z)
    BY <1>1, <2>2 DEF AttemptShape
  <2> HIDE DEF z
  <2>4. RowFits(z.row, placed', targetID') /\ Prepared(z, placed')
    BY <1>1, <1>4, <2>2 DEF Prepared
  <2>5. z.sound => Undisturbed(z, target', remote')
    <3> SUFFICES ASSUME z.sound PROVE Undisturbed(z, target', remote')
      OBVIOUS
    <3>1. Undisturbed(q, target, remote)
      BY <1>1, <2>2 DEF AttemptFits
    <3>2. Reports(z) = Reports(q)
      BY <2>2 DEF Reports
    <3>3. \A j \in Reports(q) : j \notin ks /\ j \in SyncKeys
      BY <1>1, <1>3
    <3>4. remote'[d] = [k \in SyncKeys |-> IF k \in ks THEN Missing ELSE remote[d][k]]
      BY <1>1, <1>2 DEF Stores
    <3>5. \A j \in Reports(z) \ z.put : remote'[d][j] = z.want[j]
      BY <1>0, <2>2, <3>1, <3>2, <3>3, <3>4 DEF Undisturbed
    <3> QED
      BY <1>4, <2>2, <3>1, <3>5 DEF Undisturbed
  <2>6. AttemptFits(z, target', remote', placed', targetID')
    BY <2>3, <2>4, <2>5 DEF AttemptFits
  <2>7. Grows(placed, placed')
    BY <1>4, GrowsSame
  <2> QED
    BY <1>0, <1>1, <1>4, <2>1, <2>2, <2>6, <2>7, WriterSteps DEF SyncInv
<1> QED
  BY <1>4, <1>5, <1>6, <1>7, OutdateVerifies DEF SyncInv

LEMMA K8sApplyKeeps ==
    ASSUME SyncInv, NEW w \in Syncers, K8sApply(w)
    PROVE  SyncInv'
<1> DEFINE q == syncer[w]
           d == q.row.addr
           ks == KeysOf(q.want)
           gone == IF q.row.prune THEN ssaOwned[d] \ ks ELSE {}
<1>0. q.pc = "patch" /\ q.pc \in Writing
  BY DEF K8sApply, Writing
<1>1. /\ Stores /\ targetID \in Nat
      /\ AttemptFits(q, target, remote, placed, targetID) /\ AttemptShape(q)
      /\ RowFits(q.row, placed, targetID) /\ Prepared(q, placed)
      /\ d \in Destinations /\ q.want \in Maps
      /\ Reports(q) \subseteq ks /\ ks \subseteq SyncKeys
  BY <1>0, WriterState
<1>2. /\ remote' = [remote EXCEPT ![d] = [k \in SyncKeys |->
                      IF k \in ks THEN q.want[k] ELSE IF k \in gone THEN Missing ELSE @[k]]]
      /\ ssaOwned' = IF q.row.prune THEN [ssaOwned EXCEPT ![d] = ks] ELSE ssaOwned
      /\ placed' = [placed EXCEPT ![d] = @ \cup ks]
      /\ syncer' = [syncer EXCEPT ![w].pc = "push"]
      /\ UNCHANGED <<target, config, targetID, unsure, syncFaults>> /\ Outdate
  BY DEF K8sApply
<1> HIDE DEF ks
<1>3. Grows(placed, placed')
  BY <1>1, <1>2 DEF Stores, Grows
<1>4. Stores'
  <2>1. /\ remote[d] \in [SyncKeys -> 0 .. Hidden] /\ Missing \in 0 .. Hidden
        /\ \A k \in SyncKeys : q.want[k] \in 0 .. MaxSyncValue
    BY <1>1, SyncNat DEF Stores, Missing, Maps
  <2>2. [k \in SyncKeys |-> IF k \in ks THEN q.want[k] ELSE IF k \in gone THEN Missing ELSE remote[d][k]]
           \in [SyncKeys -> 0 .. Hidden]
    BY <2>1, SyncNat
  <2>3. remote' \in [Destinations -> [SyncKeys -> 0 .. Hidden]]
    BY <1>1, <1>2, <2>2 DEF Stores
  <2>4. placed' \in [Destinations -> SUBSET SyncKeys] /\ ks \subseteq placed'[d]
    BY <1>1, <1>2 DEF Stores
  <2>5. ssaOwned' \in [Destinations -> SUBSET SyncKeys] /\ \A e \in Destinations : ssaOwned'[e] \subseteq placed'[e]
    <3>1. CASE q.row.prune
      <4>1. ssaOwned' = [ssaOwned EXCEPT ![d] = ks]
        BY <1>2, <3>1
      <4> QED
        BY <1>1, <1>3, <2>4, <4>1 DEF Stores, Grows
    <3>2. CASE ~q.row.prune
      <4>1. ssaOwned' = ssaOwned
        BY <1>2, <3>2
      <4> QED
        BY <1>1, <1>3, <4>1 DEF Stores, Grows
    <3> QED
      BY <3>1, <3>2
  <2> QED
    BY <1>1, <1>2, <2>3, <2>4, <2>5 DEF Stores
<1>5. TargetFits'
  BY <1>1, <1>2, <1>3, RowKept DEF SyncInv, TargetFits
<1>6. Attempting'
  <2> DEFINE z == [q EXCEPT !.pc = "push"]
  <2>1. syncer' = [syncer EXCEPT ![w] = z]
    BY <1>2
  <2>2. /\ z.pc = "push" /\ z.row = q.row /\ z.want = q.want /\ z.del = q.del /\ z.sound = q.sound
        /\ z.force = q.force /\ z.put = q.put
    BY <1>1 DEF AttemptShape
  <2>3. AttemptShape(z)
    BY <1>1, <2>2 DEF AttemptShape
  <2> HIDE DEF z
  <2>4. RowFits(z.row, placed', targetID')
    BY <1>1, <1>2, <1>3, <2>2, RowKept
  <2>5. Prepared(z, placed')
    BY <1>1, <1>3, <2>2 DEF Prepared, Grows
  <2>6. z.sound => Undisturbed(z, target', remote')
    <3> SUFFICES ASSUME z.sound PROVE Undisturbed(z, target', remote')
      OBVIOUS
    <3>1. Undisturbed(q, target, remote)
      BY <1>1, <2>2 DEF AttemptFits
    <3>2. Reports(z) \subseteq ks
      BY <1>1, <2>2 DEF Reports
    <3>3. \A j \in ks : remote'[d][j] = q.want[j]
      BY <1>1, <1>2 DEF Stores
    <3>4. q.row.id = target'.id /\ q.row.addr = target'.addr
      BY <1>2, <3>1 DEF Undisturbed
    <3>5. \A j \in Reports(z) : remote'[z.row.addr][j] = z.want[j]
      BY <2>2, <3>2, <3>3
    <3> QED
      BY <2>2, <3>4, <3>5 DEF Undisturbed, Writing
  <2>7. AttemptFits(z, target', remote', placed', targetID')
    BY <2>3, <2>4, <2>5, <2>6 DEF AttemptFits
  <2>8. z.pc \in Writing
    BY <2>2 DEF Writing
  <2> QED
    BY <1>0, <1>1, <1>2, <1>3, <2>1, <2>2, <2>7, <2>8, WriterSteps DEF SyncInv
<1> QED
  BY <1>2, <1>4, <1>5, <1>6, OutdateVerifies DEF SyncInv

LEMMA PushFailsKeeps ==
    ASSUME SyncInv, NEW w \in Syncers, PushFails(w)
    PROVE  SyncInv'
<1> DEFINE q == syncer[w]
           z == [IdleSyncer EXCEPT !.pc = "fail", !.row = Addressed(q.row)]
<1>0. q.pc \in Writing
  BY DEF PushFails, Writing
<1>1. Stores /\ targetID \in Nat /\ RowFits(q.row, placed, targetID)
  BY <1>0, WriterState
<1>2. /\ syncer' = [syncer EXCEPT ![w] = z] /\ unsure' = TRUE /\ syncFaults' = syncFaults + 1
      /\ UNCHANGED <<target, config, remote, ssaOwned, verifier, verifyRow, placed, targetID>>
  BY DEF PushFails, Step, Disturb
<1>3. AttemptFits(z, target, remote, placed, targetID) /\ z.pc = "fail" /\ ~z.sound
  BY <1>1, FailingFits
<1> HIDE DEF z
<1>4. Attempting'
  <2>1. Grows(placed, placed') /\ z.pc \notin Writing
    BY <1>2, <1>3, GrowsSame DEF Writing
  <2> QED
    BY <1>0, <1>1, <1>2, <1>3, <2>1, WriterSteps DEF SyncInv
<1>5. Verifying'
  <2>1. SameQuestion
    BY <1>2 DEF SameQuestion, HasTarget
  <2> QED
    BY <1>1, <1>2, <2>1, VerifyingStays DEF SyncInv
<1>6. Stores' /\ TargetFits'
  BY <1>1, <1>2 DEF SyncInv, Stores, TargetFits
<1> QED
  BY <1>4, <1>5, <1>6 DEF SyncInv

LEMMA MarkSyncedKeeps ==
    ASSUME SyncInv, NEW w \in Syncers, MarkSynced(w)
    PROVE  SyncInv'
<1> DEFINE q == syncer[w]
<1>0. q.pc = "push" /\ q.pc \in Writing /\ q.put = {}
  BY DEF MarkSynced, Writing
<1>1. /\ Stores /\ targetID \in Nat
      /\ AttemptFits(q, target, remote, placed, targetID)
      /\ RowFits(q.row, placed, targetID)
      /\ Reports(q) \subseteq KeysOf(q.want) /\ KeysOf(q.want) \subseteq SyncKeys
  BY <1>0, WriterState
<1>2. /\ syncer' = [syncer EXCEPT ![w] = IdleSyncer] /\ unsure' = (unsure /\ ~q.sound)
      /\ UNCHANGED <<config, remote, ssaOwned, verifier, verifyRow, targetID, syncFaults>>
      /\ Applied(w) = Reports(q)
  BY DEF MarkSynced, Stop, Applied, Reports, Reported
<1>3. CASE target.id = q.row.id
  <2>1. /\ target' = [target EXCEPT !.st = "active", !.fails = 0, !.managed = Reports(q), !.print = q.want]
        /\ placed' = [placed EXCEPT ![target.addr] = @ \cup Reports(q)]
    BY <1>2, <1>3 DEF MarkSynced
  <2>2. HasTarget /\ RowFits(target, placed, targetID) /\ target.addr \in Destinations
    BY <1>1, <1>3, SameIdFits DEF SyncInv, RowFits
  <2>3. /\ target'.id = target.id /\ target'.addr = target.addr /\ target'.provider = target.provider
        /\ target'.prune = target.prune /\ target'.managed = Reports(q) /\ target'.print = q.want
        /\ target'.st = "active"
    BY <2>1, <2>2 DEF RowFits
  <2>4. Grows(placed, placed') /\ Reports(q) \subseteq placed'[target.addr] /\ placed' \in [Destinations -> SUBSET SyncKeys]
    BY <1>1, <2>1, <2>2 DEF Stores, Grows
  <2>5. TargetFits'
    <3>1. RowFits(target', placed', targetID')
      BY <1>1, <1>2, <2>1, <2>2, <2>3, <2>4 DEF RowFits
    <3> QED
      BY <2>3, <3>1 DEF TargetFits
  <2>6. Stores'
    BY <1>1, <1>2, <2>4 DEF Stores, Grows
  <2>7. ~unsure' => \A k \in target'.managed : remote'[target'.addr][k] = target'.print[k]
    <3> SUFFICES ASSUME ~unsure' PROVE \A k \in target'.managed : remote'[target'.addr][k] = target'.print[k]
      OBVIOUS
    <3>1. q.sound
      BY <1>0, <1>2 DEF SyncInv, Attempting, SureIsSound
    <3>2. Undisturbed(q, target, remote)
      BY <1>1, <3>1 DEF AttemptFits
    <3> QED
      BY <1>0, <1>2, <2>3, <3>2 DEF Undisturbed
  <2>8. Attempting'
    <3>1. AttemptFits(IdleSyncer, target', remote', placed', targetID') /\ ~IdleSyncer.sound /\ IdleSyncer.pc \notin Writing
      BY IdleFits DEF Writing
    <3> QED
      BY <1>0, <1>1, <1>2, <2>4, <2>7, <3>1, WriterSteps DEF SyncInv
  <2>9. Verifying'
    <3>1. SameQuestion
      BY <2>2, <2>3 DEF SameQuestion, HasTarget
    <3> QED
      BY <1>1, <1>2, <3>1, VerifyingStays DEF SyncInv
  <2> QED
    BY <2>5, <2>6, <2>8, <2>9 DEF SyncInv
<1>4. CASE target.id # q.row.id
  <2>1. UNCHANGED <<target, placed>>
    BY <1>4 DEF MarkSynced
  <2>2. unsure'
    BY <1>0, <1>1, <1>2, <1>4 DEF SyncInv, Attempting, SureIsSound, AttemptFits, Undisturbed
  <2>3. Attempting'
    <3>1. AttemptFits(IdleSyncer, target', remote', placed', targetID') /\ ~IdleSyncer.sound /\ IdleSyncer.pc \notin Writing
      BY IdleFits DEF Writing
    <3>2. Grows(placed, placed')
      BY <2>1, GrowsSame
    <3> QED
      BY <1>0, <1>1, <1>2, <2>2, <3>1, <3>2, WriterSteps DEF SyncInv
  <2>4. Verifying'
    <3>1. SameQuestion
      BY <2>1 DEF SameQuestion, HasTarget
    <3> QED
      BY <1>1, <1>2, <3>1, VerifyingStays DEF SyncInv
  <2> QED
    BY <1>1, <1>2, <2>1, <2>3, <2>4 DEF SyncInv, Stores, TargetFits
<1> QED
  BY <1>3, <1>4

LEMMA MarkSyncFailureKeeps ==
    ASSUME SyncInv, NEW w \in Syncers, MarkSyncFailure(w)
    PROVE  SyncInv'
<1> DEFINE q == syncer[w]
<1>0. q.pc = "fail" /\ q.pc \notin Writing
  BY DEF MarkSyncFailure, Writing
<1>1. Stores /\ targetID \in Nat /\ RowFits(q.row, placed, targetID)
  BY <1>0 DEF SyncInv, Stores, Attempting, AttemptsFit, AttemptFits
<1>2. /\ syncer' = [syncer EXCEPT ![w] = IdleSyncer]
      /\ UNCHANGED <<config, remote, ssaOwned, verifier, verifyRow, unsure, placed, targetID, syncFaults>>
  BY DEF MarkSyncFailure, Stop
<1>3. SameTarget /\ SameQuestion /\ TargetFits'
  <2>1. CASE target.id # q.row.id
    <3>1. target' = target
      BY <2>1 DEF MarkSyncFailure
    <3> QED
      BY <1>2, <3>1 DEF SyncInv, SameTarget, SameQuestion, HasTarget, TargetFits
  <2>2. CASE target.id = q.row.id
    <3>1. HasTarget /\ RowFits(target, placed, targetID) /\ target.st \in {"active", "paused", "failed"}
      BY <1>1, <2>2, SameIdFits, HasTargetFits DEF SyncInv
    <3>2. PICK f, s : target' = [target EXCEPT !.fails = f, !.st = s] /\ s \in {"failed", target.st}
      BY <2>2 DEF MarkSyncFailure
    <3>3. /\ target'.id = target.id /\ target'.addr = target.addr /\ target'.provider = target.provider
          /\ target'.prune = target.prune /\ target'.managed = target.managed /\ target'.print = target.print
          /\ target'.st \in {"active", "paused", "failed"}
      BY <3>1, <3>2 DEF RowFits
    <3>4. RowFits(target', placed', targetID')
      BY <1>2, <3>1, <3>2, <3>3 DEF RowFits
    <3> QED
      BY <3>1, <3>3, <3>4 DEF SameTarget, SameQuestion, HasTarget, TargetFits
  <2> QED
    BY <2>1, <2>2
<1>4. Attempting'
  <2>1. AttemptFits(IdleSyncer, target, remote, placed, targetID) /\ ~IdleSyncer.sound /\ IdleSyncer.pc \notin Writing
    BY IdleFits DEF Writing
  <2> QED
    BY <1>0, <1>1, <1>2, <1>3, <2>1, ReaderSteps DEF SyncInv
<1>5. Verifying'
  BY <1>1, <1>2, <1>3, VerifyingStays DEF SyncInv
<1> QED
  BY <1>1, <1>2, <1>3, <1>4, <1>5 DEF SyncInv, Stores

-----------------------------------------------------------------------------
(* Sync: the target row.                                                   *)

LEMMA SyncCreateKeeps ==
    ASSUME SyncInv, NEW p \in SyncProviders, NEW d \in Destinations, NEW b \in BOOLEAN, SyncCreate(p, d, b)
    PROVE  SyncInv'
<1>0. Stores /\ targetID \in Nat \ {0} /\ target = NoTarget /\ p \in ProviderRegistry
  BY SyncNat DEF SyncInv, Stores, SyncCreate, TargetFits, HasTarget, CreateTarget
<1>1. /\ target' = [NoTarget EXCEPT !.id = targetID, !.st = "active", !.provider = p,
                               !.addr = d, !.prune = b, !.creds = "open"]
      /\ targetID' = targetID + 1 /\ verifyRow' = [on |-> TRUE, st |-> "none"]
      /\ UNCHANGED <<config, remote, ssaOwned, syncer, verifier, syncFaults, unsure, placed>>
  BY DEF SyncCreate, CreateTarget, InsertTarget
<1>2. /\ target'.id = targetID /\ target'.st = "active" /\ target'.provider = p /\ target'.addr = d
      /\ target'.prune = b /\ target'.managed = {}
      /\ target' \in [id : {targetID}, st : {"active"}, provider : {p}, prune : {b},
              fails : {target'.fails}, addr : {d}, managed : {{}},
              print : {target'.print}, creds : {target'.creds}]
  BY <1>1 DEF NoTarget
<1>3. TargetFits'
  <2>1. RowFits(target', placed', targetID')
    BY <1>0, <1>1, <1>2 DEF RowFits
  <2> QED
    BY <1>2, <2>1 DEF TargetFits
<1>4. \A w \in Syncers : ~syncer[w].sound
  <2> SUFFICES ASSUME NEW w \in Syncers, syncer[w].sound PROVE FALSE
    OBVIOUS
  <2>1. AttemptFits(syncer[w], target, remote, placed, targetID)
    BY DEF SyncInv, Attempting, AttemptsFit
  <2>2. syncer[w].pc # "idle" /\ syncer[w].row.id = target.id
    BY <2>1 DEF AttemptFits, Undisturbed, Writing
  <2>3. RowFits(syncer[w].row, placed, targetID)
    BY <2>1, <2>2 DEF AttemptFits
  <2> QED
    BY <1>0, <2>2, <2>3 DEF RowFits, NoTarget
<1>5. Attempting'
  <2>1. Grows(placed, placed') /\ targetID' \in Nat /\ targetID <= targetID'
    BY <1>0, <1>1, GrowsSame
  <2>2. \A w \in Syncers : AttemptFits(syncer[w], target', remote', placed', targetID')
    BY <1>0, <1>4, <2>1, AttemptKept DEF SyncInv, Attempting, AttemptsFit
  <2>3. AttemptsFit'
    BY <1>1, <2>2 DEF SyncInv, Attempting, AttemptsFit
  <2> QED
    BY <1>1, <1>2, <2>3 DEF SyncInv, Attempting, SoleWriter, SureIsSound, Mirrored
<1>6. Verifying'
  <2>1. VerifyRowFits' /\ VerdictIsTheTruth'
    BY <1>1 DEF VerifyRowFits, VerdictIsTheTruth
  <2>2. VerifierFits'
    BY <1>0, <1>1, <1>2 DEF SyncInv, Verifying, VerifierFits
  <2> QED
    BY <2>1, <2>2 DEF Verifying
<1> QED
  BY <1>0, <1>1, <1>3, <1>5, <1>6 DEF SyncInv, Stores

LEMMA SyncUpdateKeeps ==
    ASSUME SyncInv, NEW s \in {"active", "paused", "failed"}, NEW b \in BOOLEAN, NEW d \in Destinations,
           NEW c \in BOOLEAN, SyncUpdate(s, b, d, c)
    PROVE  SyncInv'
<1>0. /\ Stores /\ targetID \in Nat /\ HasTarget /\ RowFits(target, placed, targetID)
  BY HasTargetFits DEF SyncInv, Stores, SyncUpdate
<1>1. /\ placed' = [placed EXCEPT ![d] = @ \cup target.managed] /\ Outdate /\ syncFaults' = syncFaults + 1
      /\ UNCHANGED <<config, remote, ssaOwned, targetID>>
  BY DEF SyncUpdate, Disturb
<1>2. PICK x : target' = [target EXCEPT !.st = s, !.prune = b, !.addr = d, !.creds = x]
  BY DEF SyncUpdate, UpdateTarget
<1>3. /\ target'.id = target.id /\ target'.st = s /\ target'.addr = d
      /\ target'.managed = target.managed /\ target'.print = target.print
  BY <1>0, <1>2 DEF RowFits
<1>4. /\ Grows(placed, placed') /\ target.managed \subseteq placed'[d]
      /\ placed' \in [Destinations -> SUBSET SyncKeys]
  BY <1>0, <1>1 DEF Stores, Grows, RowFits
<1>5. TargetFits'
  <2>1. RowFits(target', placed', targetID')
    BY <1>0, <1>1, <1>2, <1>3, <1>4 DEF RowFits
  <2> QED
    BY <1>3, <2>1 DEF TargetFits
<1>6. Attempting'
  <2>1. CASE d = target.addr
    <3>1. UNCHANGED <<unsure, syncer>>
      BY <2>1 DEF SyncUpdate
    <3>2. SameTarget
      BY <1>0, <1>3, <2>1 DEF SameTarget, HasTarget
    <3> QED
      BY <1>0, <1>1, <1>4, <3>1, <3>2, AttemptingStays DEF SyncInv
  <2>2. CASE d # target.addr
    <3>1. Unsettle
      BY <2>2 DEF SyncUpdate
    <3> QED
      BY <1>0, <1>1, <1>4, <3>1, UnsettleAttempts DEF SyncInv
  <2> QED
    BY <2>1, <2>2
<1>7. Stores'
  BY <1>0, <1>1, <1>4 DEF Stores, Grows
<1> QED
  BY <1>1, <1>5, <1>6, <1>7, OutdateVerifies DEF SyncInv

LEMMA SyncDeleteKeeps ==
    ASSUME SyncInv, SyncDelete
    PROVE  SyncInv'
<1>0. Stores /\ targetID \in Nat
  BY DEF SyncInv, Stores
<1>1. /\ target' = NoTarget /\ verifyRow' = [on |-> TRUE, st |-> "none"] /\ Unsettle
      /\ syncFaults' = syncFaults + 1
      /\ UNCHANGED <<config, remote, ssaOwned, verifier, placed, targetID>>
  BY DEF SyncDelete, Disturb
<1>2. Attempting'
  BY <1>0, <1>1, GrowsSame, UnsettleAttempts DEF SyncInv
<1>3. Verifying'
  <2>1. VerifyRowFits' /\ VerdictIsTheTruth'
    BY <1>1 DEF VerifyRowFits, VerdictIsTheTruth
  <2>2. VerifierFits'
    BY <1>1 DEF SyncInv, Verifying, VerifierFits, NoTarget
  <2> QED
    BY <2>1, <2>2 DEF Verifying
<1> QED
  BY <1>0, <1>1, <1>2, <1>3 DEF SyncInv, Stores, TargetFits

-----------------------------------------------------------------------------
(* Sync: the verifier.                                                     *)

\* The status is clean exactly when every key is there with its value, as far as it can be
\* read, and under prune no other.
LEMMA DriftIsTheTruth ==
    ASSUME NEW row, row.provider \in ProviderRegistry, NEW want \in Maps, NEW r
    PROVE  LET st == DriftStatus(row, ComputeDrift(row, want, r)) IN
           /\ st \in {"clean", "drift"}
           /\ st = "clean" <=>
                /\ KeysOf(want) \subseteq KeysOf(r)
                /\ row.provider \in NamesOnly \/ \A k \in KeysOf(want) : r[k] \in {want[k], Hidden}
                /\ row.prune => KeysOf(r) \subseteq KeysOf(want)
<1> DEFINE f == Fetch(row.provider, r)
           drift == ComputeDrift(row, want, r)
           st == DriftStatus(row, drift)
<1>1. /\ f.names = KeysOf(r)
      /\ f.values = IF row.provider \in NamesOnly THEN {} ELSE {k \in KeysOf(r) : r[k] # Hidden}
  <2>1. CASE row.provider \in NamesOnly
    <3>1. f = [names |-> KeysOf(r), values |-> {}]
      BY <2>1 DEF Fetch, NamesOnly, GitHubFetch, CloudflareFetch
    <3> QED
      BY <2>1, <3>1
  <2>2. CASE row.provider \notin NamesOnly
    <3>1. row.provider \in {"k8s", "gitlab", "aws_ssm", "aws_secrets", "vercel", "netlify"}
      BY <2>2 DEF NamesOnly, ProviderRegistry
    <3>2. f = ReadBack(r)
      BY <3>1 DEF Fetch, K8sFetch, GitLabFetch, AWSSSMFetch, AWSSecretsFetch, VercelFetch, NetlifyFetch
    <3> QED
      BY <2>2, <3>2 DEF ReadBack
  <2> QED
    BY <2>1, <2>2
<1> HIDE DEF f
<1>2. /\ drift.missing = KeysOf(want) \ f.names
      /\ drift.modified = {k \in KeysOf(want) \cap f.values : r[k] # want[k]}
      /\ drift.extra = f.names \ KeysOf(want)
  BY DEF ComputeDrift, f
<1> HIDE DEF drift
<1>3. /\ st \in {"clean", "drift"}
      /\ st = "clean" <=>
            drift.missing = {} /\ drift.modified = {} /\ (row.prune => drift.extra = {})
  BY DEF DriftStatus
<1> HIDE DEF st
<1>4. drift.missing = {} <=> KeysOf(want) \subseteq KeysOf(r)
  BY <1>1, <1>2
<1>5. drift.extra = {} <=> KeysOf(r) \subseteq KeysOf(want)
  BY <1>1, <1>2
<1>6. CASE row.provider \in NamesOnly
  <2>1. drift.modified = {}
    BY <1>1, <1>2, <1>6
  <2> QED
    BY <1>3, <1>4, <1>5, <1>6, <2>1 DEF st, drift
<1>7. CASE row.provider \notin NamesOnly
  <2>1. KeysOf(want) \subseteq KeysOf(r) =>
           (drift.modified = {} <=> \A k \in KeysOf(want) : r[k] \in {want[k], Hidden})
    BY <1>1, <1>2, <1>7
  <2> QED
    BY <1>3, <1>4, <1>5, <1>7, <2>1 DEF st, drift
<1> QED
  BY <1>6, <1>7

\* Nothing but the verifier and its record moves.
VerifierMoves ==
    /\ UNCHANGED <<target, config, remote, ssaOwned, syncer, unsure, placed, targetID>>
    /\ syncFaults' \in Nat
LEMMA VerifierMovesKeeps ==
    ASSUME SyncInv, VerifierMoves, Verifying'
    PROVE  SyncInv'
<1>1. SameTarget /\ targetID \in Nat /\ Grows(placed, placed')
  BY GrowsSame DEF VerifierMoves, SameTarget, HasTarget, SyncInv, Stores
<1>2. Attempting'
  BY <1>1, AttemptingStays DEF SyncInv, VerifierMoves
<1> QED
  BY <1>2 DEF SyncInv, Stores, TargetFits, VerifierMoves

LEMMA VerifyStartKeeps ==
    ASSUME SyncInv, NEW b \in BOOLEAN, VerifyStart(b)
    PROVE  SyncInv'
<1>0. /\ RowFits(target, placed, targetID) /\ targetID \in Nat /\ syncFaults \in Nat
      /\ UNCHANGED <<target, config, remote, ssaOwned, syncer, unsure, placed, targetID, syncFaults, verifyRow>>
  BY HasTargetFits DEF VerifyStart, SyncInv, Stores
<1>1. /\ RowFits(Addressed(target), placed, targetID)
      /\ Addressed(target).id = target.id /\ Addressed(target).addr = target.addr
      /\ Addressed(target).provider = target.provider /\ Addressed(target).prune = target.prune
  BY <1>0, AddressedFits
<1>2. VerifierFits'
  <2>1. CASE verifier' = [pc |-> "fetch", row |-> Addressed(target), want |-> config]
    BY <1>0, <1>1, <2>1 DEF VerifierFits, RowFits
  <2>2. CASE verifier' = [IdleVerifier EXCEPT !.pc = "error", !.row = Addressed(target)]
    <3>1. verifier'.pc = "error" /\ verifier' \in [pc : {"error"}, row : {verifier'.row}, want : {verifier'.want}]
      BY <2>2 DEF IdleVerifier
    <3> QED
      BY <3>1 DEF VerifierFits
  <2> QED
    BY <2>1, <2>2 DEF VerifyStart
<1>3. VerifyRowFits' /\ VerdictIsTheTruth'
  BY <1>0 DEF SyncInv, Verifying, VerifyRowFits, VerdictIsTheTruth, HasTarget, NamesOnly
<1> QED
  BY <1>0, <1>2, <1>3, VerifierMovesKeeps DEF VerifierMoves, Verifying

\* A pass that ends with something other than a verdict.
LEMMA NoVerdictKeeps ==
    ASSUME SyncInv, VerifierMoves, verifier' = IdleVerifier,
           \/ verifyRow' = verifyRow
           \/ \E st \in {"outdated", "error"} : verifyRow' = [verifyRow EXCEPT !.st = st]
    PROVE  SyncInv'
<1>1. VerifierFits'
  BY DEF VerifierFits, IdleVerifier
<1>2. VerifyRowFits' /\ VerdictIsTheTruth'
  <2>1. CASE verifyRow' = verifyRow
    BY <2>1 DEF SyncInv, VerifierMoves, Verifying, VerifyRowFits, VerdictIsTheTruth, HasTarget, NamesOnly
  <2>2. CASE \E st \in {"outdated", "error"} : verifyRow' = [verifyRow EXCEPT !.st = st]
    <3>1. PICK st \in {"outdated", "error"} : verifyRow' = [verifyRow EXCEPT !.st = st]
      BY <2>2
    <3>2. verifyRow'.st = st /\ VerifyRowFits'
      BY <3>1 DEF SyncInv, Verifying, VerifyRowFits
    <3> QED
      BY <3>2 DEF VerdictIsTheTruth
  <2> QED
    BY <2>1, <2>2
<1> QED
  BY <1>1, <1>2, VerifierMovesKeeps DEF Verifying

LEMMA VerifyFetchKeeps ==
    ASSUME SyncInv, VerifyFetch
    PROVE  SyncInv'
<1>0. VerifierMoves /\ Stores /\ verifier.pc = "fetch"
  BY DEF VerifyFetch, VerifierMoves, SyncInv, Stores
<1> DEFINE row == verifier.row
           st == DriftStatus(row, ComputeDrift(row, verifier.want, remote[row.addr]))
<1>1. CASE syncSealed \/ target.id # row.id
  <2>1. verifier' = IdleVerifier /\ verifyRow' = verifyRow
    BY <1>1 DEF VerifyFetch, RecordVerify
  <2> QED
    BY <1>0, <2>1, NoVerdictKeeps
<1>2. CASE ~syncSealed /\ target.id = row.id
  <2>1. verifier' = IdleVerifier /\ verifyRow' = [verifyRow EXCEPT !.st = st]
    BY <1>2 DEF VerifyFetch, RecordVerify
  <2>2. /\ row.id \in Nat \ {0} /\ verifier.want = config
        /\ row.provider = target.provider /\ row.prune = target.prune /\ row.addr = target.addr
    BY <1>0, <1>2 DEF SyncInv, Verifying, VerifierFits
  <2>3. target.provider \in ProviderRegistry
    BY <1>2, <2>2 DEF SyncInv, TargetFits, RowFits, NoTarget
  <2>4. /\ st \in {"clean", "drift"}
        /\ st = "clean" <=>
             /\ KeysOf(config) \subseteq KeysOf(remote[target.addr])
             /\ target.provider \in NamesOnly \/ \A k \in KeysOf(config) : remote[target.addr][k] \in {config[k], Hidden}
             /\ target.prune => KeysOf(remote[target.addr]) \subseteq KeysOf(config)
    <3>1. row.provider \in ProviderRegistry /\ verifier.want \in Maps
      BY <1>0, <2>2, <2>3 DEF Stores
    <3>2. /\ st \in {"clean", "drift"}
          /\ st = "clean" <=>
                /\ KeysOf(verifier.want) \subseteq KeysOf(remote[row.addr])
                /\ row.provider \in NamesOnly
                   \/ \A k \in KeysOf(verifier.want) : remote[row.addr][k] \in {verifier.want[k], Hidden}
                /\ row.prune => KeysOf(remote[row.addr]) \subseteq KeysOf(verifier.want)
      BY <3>1, DriftIsTheTruth
    <3> HIDE DEF st
    <3> QED
      BY <2>2, <3>2
  <2> HIDE DEF st
  <2>5. verifyRow'.st = st /\ VerifyRowFits'
    BY <2>1, <2>4 DEF SyncInv, Verifying, VerifyRowFits
  <2>6. VerdictIsTheTruth'
    <3>1. UNCHANGED <<target, config, remote>>
      BY <1>0 DEF VerifierMoves
    <3> QED
      BY <2>4, <2>5, <3>1 DEF VerdictIsTheTruth, NamesOnly
  <2>7. VerifierFits'
    BY <2>1 DEF VerifierFits, IdleVerifier
  <2> QED
    BY <1>0, <2>5, <2>6, <2>7, VerifierMovesKeeps DEF Verifying
<1> QED
  BY <1>1, <1>2

LEMMA VerifyEndsKeeps ==
    ASSUME SyncInv, VerifyMoved \/ VerifyFails
    PROVE  SyncInv'
<1>1. VerifierMoves
  BY DEF VerifyMoved, VerifyFails, VerifierMoves, Disturb, SyncInv, Stores
<1>2. verifier' = IdleVerifier
  BY DEF VerifyMoved, VerifyFails, RecordVerify
<1>3. \/ verifyRow' = verifyRow
      \/ \E st \in {"outdated", "error"} : verifyRow' = [verifyRow EXCEPT !.st = st]
  BY DEF VerifyMoved, VerifyFails, RecordVerify
<1> QED
  BY <1>1, <1>2, <1>3, NoVerdictKeeps

LEMMA SetVerifyScheduleKeeps ==
    ASSUME SyncInv, NEW b \in BOOLEAN, SetVerifySchedule(b)
    PROVE  SyncInv'
<1>1. VerifierMoves /\ verifier' = verifier /\ verifyRow' = [verifyRow EXCEPT !.on = b]
  BY DEF SetVerifySchedule, VerifierMoves, Disturb, SyncInv, Stores
<1>2. verifyRow'.st = verifyRow.st /\ VerifyRowFits'
  BY <1>1 DEF SyncInv, Verifying, VerifyRowFits
<1>3. VerifierFits'
  BY <1>1 DEF VerifierMoves, SyncInv, Verifying, VerifierFits
<1>4. VerdictIsTheTruth'
  BY <1>1, <1>2 DEF VerifierMoves, SyncInv, Verifying, VerdictIsTheTruth, HasTarget, NamesOnly
<1> QED
  BY <1>1, <1>2, <1>3, <1>4, VerifierMovesKeeps DEF Verifying

-----------------------------------------------------------------------------
(* Sync: the rest of the system.                                           *)

LEMMA EditConfigKeeps ==
    ASSUME SyncInv, NEW k \in SyncKeys, NEW v \in 0 .. MaxSyncValue, EditConfig(k, v)
    PROVE  SyncInv'
<1>1. /\ config' = [config EXCEPT ![k] = v] /\ Outdate
      /\ UNCHANGED <<target, remote, ssaOwned, syncer, syncFaults, unsure, placed, targetID>>
  BY DEF EditConfig
<1>2. SameTarget /\ targetID \in Nat /\ Grows(placed, placed')
  BY <1>1, GrowsSame DEF SameTarget, HasTarget, SyncInv, Stores
<1>3. Attempting'
  BY <1>1, <1>2, AttemptingStays DEF SyncInv
<1>4. Stores' /\ TargetFits'
  BY <1>1 DEF SyncInv, Stores, TargetFits, Maps
<1> QED
  BY <1>1, <1>3, <1>4, OutdateVerifies DEF SyncInv

LEMMA ForeignWriteKeeps ==
    ASSUME SyncInv, NEW d \in Destinations, NEW k \in SyncKeys, NEW v \in {Missing, Hidden}, ForeignWrite(d, k, v)
    PROVE  SyncInv'
<1>1. /\ remote' = [remote EXCEPT ![d][k] = v] /\ ssaOwned' = [ssaOwned EXCEPT ![d] = @ \ {k}]
      /\ Outdate /\ Unsettle /\ syncFaults' = syncFaults + 1
      /\ UNCHANGED <<target, config, placed, targetID>>
  BY DEF ForeignWrite, Disturb
<1>2. Attempting'
  BY <1>1, GrowsSame, UnsettleAttempts DEF SyncInv, Stores
<1>3. v \in 0 .. Hidden
  BY SyncNat DEF Missing
<1>4. Stores'
  <2>1. remote' \in [Destinations -> [SyncKeys -> 0 .. Hidden]]
    BY <1>1, <1>3 DEF SyncInv, Stores
  <2>2. ssaOwned' \in [Destinations -> SUBSET SyncKeys] /\ \A e \in Destinations : ssaOwned'[e] \subseteq placed'[e]
    BY <1>1 DEF SyncInv, Stores
  <2> QED
    BY <1>1, <2>1, <2>2 DEF SyncInv, Stores
<1>5. TargetFits'
  BY <1>1 DEF SyncInv, TargetFits
<1> QED
  BY <1>1, <1>2, <1>4, <1>5, OutdateVerifies DEF SyncInv

LEMMA RotateSyncKEKKeeps ==
    ASSUME SyncInv, RotateSyncKEK
    PROVE  SyncInv'
<1>0. Stores /\ targetID \in Nat /\ HasTarget /\ RowFits(target, placed, targetID)
      /\ target.st \in {"active", "paused", "failed"}
  BY HasTargetFits DEF SyncInv, Stores, RotateSyncKEK
<1>1. /\ target' = [target EXCEPT !.creds = "stale"] /\ syncFaults' = syncFaults + 1
      /\ syncer' = [w \in Syncers |-> IF syncer[w].pc = "read"
                       THEN [syncer[w] EXCEPT !.row.creds = "stale"] ELSE syncer[w]]
      /\ UNCHANGED <<config, remote, ssaOwned, verifier, verifyRow, unsure, placed, targetID>>
  BY DEF RotateSyncKEK, Disturb
<1>2. /\ target'.id = target.id /\ target'.addr = target.addr /\ target'.provider = target.provider
      /\ target'.prune = target.prune /\ target'.managed = target.managed /\ target'.print = target.print
      /\ target'.st = target.st
      /\ RowFits(target', placed, targetID)
  BY <1>0, <1>1 DEF RowFits
<1>3. Grows(placed, placed') /\ targetID <= targetID' /\ targetID' \in Nat
  BY <1>0, <1>1, GrowsSame
<1>4. SameTarget /\ SameQuestion
  BY <1>2 DEF SameTarget, SameQuestion, HasTarget
<1>5. \A w \in Syncers :
         /\ AttemptFits(syncer'[w], target', remote', placed', targetID')
         /\ syncer'[w].pc = syncer[w].pc /\ syncer'[w].sound = syncer[w].sound
  <2> SUFFICES ASSUME NEW w \in Syncers
               PROVE  /\ AttemptFits(syncer'[w], target', remote', placed', targetID')
                      /\ syncer'[w].pc = syncer[w].pc /\ syncer'[w].sound = syncer[w].sound
    OBVIOUS
  <2> DEFINE q == syncer[w]
             z == syncer'[w]
  <2>1. AttemptFits(q, target, remote, placed, targetID)
    BY DEF SyncInv, Attempting, AttemptsFit
  <2>2. CASE q.pc = "read"
    <3>1. z = [q EXCEPT !.row = [q.row EXCEPT !.creds = "stale"]]
      BY <1>1, <2>2
    <3>2. AttemptShape(q) /\ RowFits(q.row, placed, targetID) /\ ~q.sound
      BY <2>1, <2>2 DEF AttemptFits, Undisturbed, Writing
    <3>3. /\ z.pc = q.pc /\ z.row = [q.row EXCEPT !.creds = "stale"] /\ z.want = q.want /\ z.del = q.del
          /\ z.sound = q.sound /\ z.force = q.force /\ z.put = q.put
      BY <3>1, <3>2 DEF AttemptShape
    <3>4. AttemptShape(z)
      BY <3>1, <3>2, <3>3 DEF AttemptShape
    <3>5. RowFits(z.row, placed, targetID)
      BY <3>2, <3>3 DEF RowFits
    <3> HIDE DEF z
    <3>6. AttemptFits(z, target', remote', placed', targetID')
      BY <1>1, <2>2, <3>2, <3>3, <3>4, <3>5 DEF AttemptFits, Writing
    <3> QED
      BY <3>3, <3>6 DEF z
  <2>3. CASE q.pc # "read"
    <3>1. z = q
      BY <1>1, <2>3
    <3>2. AttemptFits(q, target', remote', placed', targetID')
      BY <1>0, <1>1, <1>2, <1>3, <2>1, AttemptKept
    <3> QED
      BY <3>1, <3>2
  <2> QED
    BY <2>2, <2>3
<1>6. Attempting'
  <2>1. AttemptsFit'
    BY <1>1, <1>5 DEF AttemptsFit
  <2>2. SoleWriter' /\ SureIsSound'
    BY <1>1, <1>5 DEF SyncInv, Attempting, SoleWriter, SureIsSound
  <2>3. Mirrored'
    BY <1>1, <1>4, <1>5 DEF SyncInv, Attempting, Mirrored, SameTarget
  <2> QED
    BY <2>1, <2>2, <2>3 DEF Attempting
<1>7. Verifying'
  BY <1>0, <1>1, <1>4, VerifyingStays DEF SyncInv
<1> QED
  BY <1>0, <1>1, <1>2, <1>6, <1>7 DEF SyncInv, Stores, TargetFits

LEMMA SyncCrashKeeps ==
    ASSUME SyncInv, SyncCrash
    PROVE  SyncInv'
<1>1. /\ syncer' = [w \in Syncers |-> IdleSyncer] /\ verifier' = IdleVerifier
      /\ unsure' = (unsure \/ Pushing # {}) /\ syncFaults' = syncFaults + 1
      /\ UNCHANGED <<target, config, remote, ssaOwned, verifyRow, placed, targetID>>
  BY DEF SyncCrash, Disturb
<1>2. AttemptsFit' /\ SoleWriter' /\ SureIsSound'
  BY <1>1, IdleFits DEF AttemptsFit, SoleWriter, SureIsSound, Writing
<1>3. Mirrored'
  <2>1. Pushing = {} => \A w \in Syncers : syncer[w].pc \notin Writing
    BY DEF Pushing, Writing
  <2> QED
    BY <1>1, <2>1 DEF SyncInv, Attempting, Mirrored, HasTarget
<1>4. Verifying'
  <2>1. VerifierFits'
    BY <1>1 DEF VerifierFits, IdleVerifier
  <2> QED
    BY <1>1, <2>1 DEF SyncInv, Verifying, VerifyRowFits, VerdictIsTheTruth, HasTarget, NamesOnly
<1> QED
  BY <1>1, <1>2, <1>3, <1>4 DEF SyncInv, Stores, TargetFits, Attempting

LEMMA SyncSealKeeps ==
    ASSUME SyncInv, NEW b \in BOOLEAN, SyncSeal(b)
    PROVE  SyncInv'
<1>1. VerifierMoves /\ UNCHANGED <<verifier, verifyRow>>
  BY DEF SyncSeal, VerifierMoves, Disturb, SyncInv, Stores
<1>2. SameQuestion /\ targetID \in Nat
  BY <1>1 DEF VerifierMoves, SameQuestion, HasTarget, SyncInv, Stores
<1>3. Verifying'
  BY <1>1, <1>2, VerifyingStays DEF SyncInv, VerifierMoves
<1> QED
  BY <1>1, <1>3, VerifierMovesKeeps

LEMMA SyncInitInv == SyncInit => SyncInv
<1> SUFFICES ASSUME SyncInit PROVE SyncInv
  OBVIOUS
<1>1. Stores
  <2>1. config \in Maps
    BY SyncNat DEF SyncInit, Maps
  <2>2. [k \in SyncKeys |-> Missing] \in [SyncKeys -> 0 .. Hidden]
    BY SyncNat DEF Missing
  <2>3. remote \in [Destinations -> [SyncKeys -> 0 .. Hidden]]
    BY <2>2 DEF SyncInit
  <2> QED
    BY <2>1, <2>3 DEF SyncInit, Stores
<1>2. TargetFits /\ ~HasTarget
  BY DEF SyncInit, TargetFits, HasTarget, NoTarget
<1>3. Attempting
  BY <1>2, IdleFits DEF SyncInit, Attempting, AttemptsFit, SoleWriter, SureIsSound, Mirrored, Writing
<1>4. Verifying
  BY <1>2 DEF SyncInit, Verifying, VerifierFits, IdleVerifier, VerifyRowFits, VerdictIsTheTruth
<1> QED
  BY <1>1, <1>2, <1>3, <1>4 DEF SyncInv

LEMMA SyncStepInv ==
    ASSUME SyncInv, SyncNext
    PROVE  SyncInv'
<1>1. ASSUME NEW w \in Syncers, SyncerStep(w) PROVE SyncInv'
  BY <1>1, ReadDesiredKeeps, PutKeyKeeps, DeleteKeyKeeps, K8sApplyKeeps, PushFailsKeeps,
     MarkSyncedKeeps, MarkSyncFailureKeeps DEF SyncerStep
<1>2. CASE \E p \in SyncProviders, d \in Destinations, b \in BOOLEAN : SyncCreate(p, d, b)
  BY <1>2, SyncCreateKeeps
<1>3. CASE \E s \in {"active", "paused", "failed"}, b \in BOOLEAN, d \in Destinations, c \in BOOLEAN :
             SyncUpdate(s, b, d, c)
  BY <1>3, SyncUpdateKeeps
<1>4. CASE SyncDelete \/ RunDueSync \/ \E w \in SyncCalls : SyncNow(w)
  BY <1>4, SyncDeleteKeeps, RunDueSyncKeeps, SyncNowKeeps
<1>5. CASE \/ \E b \in BOOLEAN : VerifyStart(b)
           \/ VerifyFetch \/ VerifyMoved \/ VerifyFails \/ \E b \in BOOLEAN : SetVerifySchedule(b)
  BY <1>5, VerifyStartKeeps, VerifyFetchKeeps, VerifyEndsKeeps, SetVerifyScheduleKeeps
<1>6. CASE \/ \E k \in SyncKeys, v \in 0 .. MaxSyncValue : EditConfig(k, v)
           \/ \E d \in Destinations, k \in SyncKeys, v \in {Missing, Hidden} : ForeignWrite(d, k, v)
  BY <1>6, EditConfigKeeps, ForeignWriteKeeps
<1>7. CASE RotateSyncKEK \/ SyncCrash \/ \E b \in BOOLEAN : SyncSeal(b)
  BY <1>7, RotateSyncKEKKeeps, SyncCrashKeeps, SyncSealKeeps
<1> QED
  BY <1>1, <1>2, <1>3, <1>4, <1>5, <1>6, <1>7 DEF SyncNext

LEMMA SyncInvHolds == SyncSpec => []SyncInv
<1>1. SyncInv /\ [SyncNext]_syncVars => SyncInv'
  <2>1. ASSUME SyncInv, UNCHANGED syncVars PROVE SyncInv'
    <3>1. VerifierMoves /\ UNCHANGED <<verifier, verifyRow>>
      BY <2>1 DEF syncVars, VerifierMoves, SyncInv, Stores
    <3>2. SameQuestion /\ targetID \in Nat
      BY <2>1, <3>1 DEF VerifierMoves, SameQuestion, HasTarget, SyncInv, Stores
    <3>3. Verifying'
      BY <2>1, <3>1, <3>2, VerifyingStays DEF SyncInv, VerifierMoves
    <3> QED
      BY <2>1, <3>1, <3>3, VerifierMovesKeeps
  <2> QED
    BY <2>1, SyncStepInv
<1> QED
  BY <1>1, SyncInitInv, PTL DEF SyncSpec

\* Whatever the providers, keys, destinations and concurrent sync-now requests, and whatever
\* calls, crashes, seals and strangers interfere: a sync that is skipped as unchanged finds
\* at the destination what the fingerprint stands for, and the recorded verdict is what the
\* destination held (reconcile, MarkSynced, Verify).
THEOREM MirrorHolds == SyncSpec => []MirrorIsHonest
<1>1. SyncInv => MirrorIsHonest
  <2> SUFFICES ASSUME SyncInv PROVE MirrorIsHonest
    OBVIOUS
  <2>1. SyncTypeOK
    <3>1. target.st \in {"none", "active", "paused", "failed"} /\ target.managed \subseteq SyncKeys
      BY DEF SyncInv, TargetFits, RowFits, NoTarget
    <3> QED
      BY <3>1 DEF SyncInv, Stores, Attempting, AttemptsFit, AttemptFits, AttemptShape, Verifying,
            VerifyRowFits, SyncTypeOK
  <2>2. UnchangedMeansMirrored
    <3>1. Pushing = {} => \A w \in Syncers : syncer[w].pc \notin Writing
      BY DEF Pushing, Writing
    <3> QED
      BY <3>1 DEF SyncInv, Attempting, Mirrored, UnchangedMeansMirrored
  <2> QED
    BY <2>1, <2>2 DEF SyncInv, Verifying, MirrorIsHonest
<1> QED
  BY <1>1, SyncInvHolds, PTL

\* Every step that removes a key from a destination, other than a stranger's, removes one
\* that Janus put there or takes for its own since the address changed (the providers'
\* Apply, with managed_keys and the field manager as the only record).
THEOREM OnlyItsOwnHolds == SyncSpec => RemovesOnlyItsOwn
<1>1. SyncInv /\ [SyncNext]_syncVars =>
        [\A d \in Destinations, k \in SyncKeys :
            (remote[d][k] # Missing /\ remote'[d][k] = Missing /\ syncFaults' = syncFaults)
               => k \in placed[d]]_syncVars
  <2> SUFFICES ASSUME SyncInv, SyncNext, NEW d \in Destinations, NEW k \in SyncKeys,
                      remote[d][k] # Missing, remote'[d][k] = Missing, syncFaults' = syncFaults
               PROVE  k \in placed[d]
    OBVIOUS
  <2>0. Stores /\ remote' # remote
    BY DEF SyncInv
  <2>1. CASE \E w \in Syncers : PutKey(w)
    <3>1. PICK w \in Syncers : PutKey(w)
      BY <2>1
    <3> DEFINE q == syncer[w]
    <3>2. q.pc \in Writing
      BY <3>1 DEF PutKey, Writing
    <3>3. q.row.addr \in Destinations /\ q.put \subseteq KeysOf(q.want) /\ KeysOf(q.want) \subseteq SyncKeys
      BY <3>2, WriterState
    <3>4. PICK j \in q.put : remote' = [remote EXCEPT ![q.row.addr][j] = q.want[j]]
      BY <3>1 DEF PutKey
    <3>5. q.want[j] # Missing /\ j \in SyncKeys
      BY <3>3, <3>4 DEF KeysOf
    <3> QED
      BY <2>0, <3>3, <3>4, <3>5 DEF Stores
  <2>2. CASE \E w \in Syncers : DeleteKey(w)
    <3>1. PICK w \in Syncers : DeleteKey(w)
      BY <2>2
    <3> DEFINE q == syncer[w]
               calls == IF q.row.provider = "aws_ssm" THEN {q.del} \ {{}} ELSE {{j} : j \in q.del}
    <3>2. q.pc \in Writing
      BY <3>1 DEF DeleteKey, Writing
    <3>3. q.row.addr \in Destinations /\ q.del \subseteq placed[q.row.addr]
      BY <3>2, WriterState
    <3>4. PICK ks \in calls :
             remote' = [remote EXCEPT ![q.row.addr] = [j \in SyncKeys |-> IF j \in ks THEN Missing ELSE @[j]]]
      BY <3>1 DEF DeleteKey
    <3>5. ks \subseteq q.del
      BY <3>4
    <3> HIDE DEF calls
    <3> QED
      BY <2>0, <3>3, <3>4, <3>5 DEF Stores
  <2>3. CASE \E w \in Syncers : K8sApply(w)
    <3>1. PICK w \in Syncers : K8sApply(w)
      BY <2>3
    <3> DEFINE q == syncer[w]
               ks == KeysOf(q.want)
               gone == IF q.row.prune THEN ssaOwned[q.row.addr] \ ks ELSE {}
    <3>2. q.pc \in Writing
      BY <3>1 DEF K8sApply, Writing
    <3>3. q.row.addr \in Destinations
      BY <3>2, WriterState
    <3>4. remote' = [remote EXCEPT ![q.row.addr] = [j \in SyncKeys |->
                       IF j \in ks THEN q.want[j] ELSE IF j \in gone THEN Missing ELSE @[j]]]
      BY <3>1 DEF K8sApply
    <3>5. \A j \in ks : q.want[j] # Missing
      BY DEF KeysOf
    <3>6. gone \subseteq placed[q.row.addr]
      BY <2>0, <3>3 DEF Stores
    <3> HIDE DEF ks, gone
    <3> QED
      BY <2>0, <3>3, <3>4, <3>5, <3>6 DEF Stores
  <2>4. CASE \E e \in Destinations, j \in SyncKeys, v \in {Missing, Hidden} : ForeignWrite(e, j, v)
    BY <2>0, <2>4 DEF ForeignWrite, Disturb, Stores
  <2>5. CASE /\ ~\E w \in Syncers : PutKey(w) \/ DeleteKey(w) \/ K8sApply(w)
             /\ ~\E e \in Destinations, j \in SyncKeys, v \in {Missing, Hidden} : ForeignWrite(e, j, v)
    <3>1. remote' = remote
      BY <2>5 DEF SyncNext, SyncerStep, SyncCreate, SyncUpdate, SyncDelete, RunDueSync, SyncNow, ReadDesired,
            PushFails, MarkSynced, MarkSyncFailure, VerifyStart, VerifyFetch, VerifyMoved, VerifyFails,
            SetVerifySchedule, EditConfig, RotateSyncKEK, SyncCrash, SyncSeal
    <3> QED
      BY <2>0, <3>1
  <2> QED
    BY <2>1, <2>2, <2>3, <2>4, <2>5
<1> QED
  BY <1>1, SyncInvHolds, PTL DEF SyncSpec, RemovesOnlyItsOwn

-----------------------------------------------------------------------------
(* Catalog: the inductive invariant.                                       *)

\* A row, and what never changes of it once it is there: a row is deleted, restored and
\* destroyed, and its id is not given again.
EntryFits(r) ==
    /\ r = [kind |-> r.kind, parent |-> r.parent, slug |-> r.slug, base |-> r.base, live |-> r.live]
    /\ r.kind \in {"none", "project", "environment", "config"} /\ r.live \in BOOLEAN
    /\ r.parent \in 0 .. MaxRows /\ r.base \in 0 .. MaxRows
    /\ r.kind = "none" => r.base = 0 /\ ~r.live
Same(r, q) == q.kind = r.kind /\ q.parent = r.parent /\ q.slug = r.slug /\ q.base = r.base
Kept(r, q) == q = NoRow \/ Same(r, q)

RowsFit(rs, n) ==
    /\ rs = [i \in Ids |-> rs[i]] /\ n \in 6 .. MaxRows
    /\ \A i \in Ids : EntryFits(rs[i]) /\ (i > n => rs[i].kind = "none")
\* The parents and bases of rows are there; projects have none.
Hangs(rs) ==
    \A i \in Ids :
        /\ rs[i].kind = "project" => rs[i].parent = 0
        /\ rs[i].kind = "environment" => rs[i].parent \in Ids /\ rs[rs[i].parent].kind = "project"
        /\ rs[i].kind = "config" => rs[i].parent \in Ids /\ rs[rs[i].parent].kind = "environment"
        /\ rs[i].base # 0 => /\ rs[i].base < i /\ rs[rs[i].base].kind = "config"
                             /\ rs[rs[i].base].parent = rs[i].parent
Unique(rs) ==
    \A i, j \in Ids : rs[i].live /\ rs[j].live /\ i # j =>
        ~ (rs[i].kind = rs[j].kind /\ rs[i].parent = rs[j].parent /\ rs[i].slug = rs[j].slug)

\* What a request or a clone has read of a row holds as long as the row is there.
IsOr(kind, i, rs, n) == i \in 1 .. n /\ rs[i].kind \in {"none", kind}
CreationFits(k, rs, n) ==
    k.pc = "checked" =>
        /\ IsOr("environment", k.env, rs, n)
        /\ k.base # 0 => /\ IsOr("config", k.base, rs, n)
                         /\ rs[k.base].kind = "config" => rs[k.base].parent = k.env

\* A copy made without a base whose base is still to be copied: from then on every config
\* left waits for its base, and will be made without one too.
Stuck(k) ==
    \E c \in k.listed : k.made[c] # 0 /\ k.read[c].base # 0 /\ k.made[k.read[c].base] = 0
CopyFits(k, c, rs) ==
    LET d == k.made[c]
        base == k.read[c].base
    IN rs[d].kind # "none" =>
         /\ rs[d].kind = "config" /\ rs[d].slug = k.read[c].slug
         /\ base \in k.listed =>
              \/ rs[d].base = k.made[base]
              \/ k.read[base].base # 0 /\ k.made[base] # 0 /\ rs[k.made[base]].base = 0
CloneShape(k) ==
    /\ k = [pc |-> k.pc, src |-> k.src, dst |-> k.dst, listed |-> k.listed, left |-> k.left, later |-> k.later,
            read |-> k.read, made |-> k.made, from |-> k.from]
    /\ k.pc \in {"idle", "list", "copy", "secrets", "done", "failed", "stopped"}
    /\ k.listed \subseteq Ids /\ k.left \subseteq k.listed /\ k.later \subseteq k.listed
    /\ k.read = [i \in Ids |-> k.read[i]] /\ k.made = [i \in Ids |-> k.made[i]]
    /\ \A c \in k.listed : k.read[c].base \in 0 .. c - 1
    /\ \A i \in Ids : k.made[i] \in Nat /\ (k.made[i] # 0 => i \in k.listed)
CloneFits(k, rs, n) ==
    /\ CloneShape(k)
    /\ k.pc # "idle" => IsOr("environment", k.dst, rs, n)
    /\ k.pc = "list" => k.listed = {}
    /\ k.pc = "secrets" => k.from \in k.listed /\ k.made[k.from] # 0
    /\ k.left \cap k.later = {}
    /\ \A c \in k.listed : k.made[c] # 0 <=> c \notin k.left \cup k.later
    /\ \A c \in k.listed : k.made[c] # 0 => k.made[c] \in 1 .. n /\ CopyFits(k, c, rs)
    /\ Stuck(k) => \A d \in k.left \cup k.later : k.read[d].base # 0 /\ k.made[k.read[d].base] = 0
    /\ k.pc = "done" => k.left \cup k.later = {}

CatalogInv ==
    /\ RowsFit(rows, created) /\ Hangs(rows) /\ Unique(rows)
    /\ secrets \in [Ids -> [Keys -> Values \cup {Absent}]]
    /\ saved \subseteq Kind("config") /\ unowned \subseteq Kind("project") /\ changes \in 0 .. MaxChanges
    /\ CreationFits(creating, rows, created)
    /\ CloneFits(clone, rows, created)

-----------------------------------------------------------------------------
(* Catalog: what happens to the rows.                                      *)

LEMMA RowIs ==
    ASSUME NEW kind \in {"project", "environment", "config"}, NEW parent \in 0 .. MaxRows, NEW slug,
           NEW base \in 0 .. MaxRows
    PROVE  LET r == Row(kind, parent, slug, base) IN
           EntryFits(r) /\ r.kind = kind /\ r.parent = parent /\ r.slug = slug /\ r.base = base /\ r.live
<1>1. TRUE \in BOOLEAN
  OBVIOUS
<1> QED
  BY <1>1 DEF Row, EntryFits

LEMMA NoRowFits == EntryFits(NoRow) /\ NoRow.kind = "none" /\ NoRow.base = 0 /\ ~NoRow.live
<1>1. FALSE \in BOOLEAN /\ 0 \in 0 .. MaxRows
  BY CatalogAssumption
<1> QED
  BY <1>1 DEF NoRow, EntryFits

\* A row is inserted under the next id, its name free and its parent and base there.
LEMMA InsertedRow ==
    ASSUME NEW rs, NEW n, RowsFit(rs, n), Hangs(rs), Unique(rs), n < MaxRows,
           NEW row, EntryFits(row), row.kind # "none",
           row.kind = "project" => row.parent = 0,
           row.kind = "environment" => row.parent \in Ids /\ rs[row.parent].kind = "project",
           row.kind = "config" => row.parent \in Ids /\ rs[row.parent].kind = "environment",
           row.base # 0 => rs[row.base].kind = "config" /\ rs[row.base].parent = row.parent,
           \A i \in Ids : ~ (rs[i].live /\ rs[i].kind = row.kind /\ rs[i].parent = row.parent /\ rs[i].slug = row.slug)
    PROVE  LET q == [rs EXCEPT ![n + 1] = row] IN
           /\ RowsFit(q, n + 1) /\ Hangs(q) /\ Unique(q)
           /\ n + 1 \in Ids /\ q[n + 1] = row /\ \A i \in Ids \ {n + 1} : q[i] = rs[i]
           /\ \A i \in 1 .. n : Kept(rs[i], q[i])
<1> DEFINE q == [rs EXCEPT ![n + 1] = row]
<1>1. n \in Nat /\ MaxRows \in Nat /\ n + 1 \in Ids /\ n + 1 \in 6 .. MaxRows /\ rs[n + 1].kind = "none"
  BY CatalogAssumption DEF RowsFit, Ids
<1>2. q = [i \in Ids |-> q[i]] /\ q[n + 1] = row /\ \A i \in Ids \ {n + 1} : q[i] = rs[i]
  BY <1>1 DEF RowsFit
<1> HIDE DEF q
<1>3. RowsFit(q, n + 1)
  <2>1. \A i \in Ids : EntryFits(q[i]) /\ (i > n + 1 => q[i].kind = "none")
    BY <1>1, <1>2 DEF RowsFit, Ids
  <2> QED
    BY <1>1, <1>2, <2>1 DEF RowsFit
<1>4. \A i \in Ids : rs[i].kind # "none" => q[i] = rs[i] /\ i < n + 1
  BY <1>1, <1>2 DEF RowsFit, Ids
<1>5. row.base # 0 => row.base \in Ids
  BY DEF EntryFits, Ids
<1>6. \A i \in Ids : rs[i].base # 0 => rs[i].base \in Ids
  BY DEF RowsFit, EntryFits, Ids
<1>7. Hangs(q)
  <2> SUFFICES ASSUME NEW i \in Ids
               PROVE  /\ q[i].kind = "project" => q[i].parent = 0
                      /\ q[i].kind = "environment" => q[i].parent \in Ids /\ q[q[i].parent].kind = "project"
                      /\ q[i].kind = "config" => q[i].parent \in Ids /\ q[q[i].parent].kind = "environment"
                      /\ q[i].base # 0 => /\ q[i].base < i /\ q[q[i].base].kind = "config"
                                          /\ q[q[i].base].parent = q[i].parent
    BY DEF Hangs
  <2>1. CASE i = n + 1
    BY <1>2, <1>4, <1>5, <2>1
  <2>2. CASE i # n + 1
    <3>1. q[i] = rs[i]
      BY <1>2, <2>2
    <3> QED
      BY <1>4, <1>6, <3>1 DEF Hangs
  <2> QED
    BY <2>1, <2>2
<1>8. Unique(q)
  BY <1>2 DEF Unique
<1>9. \A i \in 1 .. n : Kept(rs[i], q[i])
  <2>1. \A i \in 1 .. n : i \in Ids \ {n + 1}
    BY <1>1 DEF Ids
  <2> QED
    BY <1>2, <2>1 DEF Kept, Same
<1> QED
  BY <1>1, <1>2, <1>3, <1>7, <1>8, <1>9 DEF q

\* A row is deleted or restored.
LEMMA ChangedRow ==
    ASSUME NEW rs, NEW n, RowsFit(rs, n), Hangs(rs), Unique(rs), NEW i \in Ids, rs[i].kind # "none",
           NEW live \in BOOLEAN,
           live => \A j \in Ids : ~ (rs[j].live /\ rs[j].kind = rs[i].kind
                                      /\ rs[j].parent = rs[i].parent /\ rs[j].slug = rs[i].slug)
    PROVE  LET q == [rs EXCEPT ![i].live = live] IN
           RowsFit(q, n) /\ Hangs(q) /\ Unique(q) /\ \A j \in Ids : Same(rs[j], q[j])
<1> DEFINE q == [rs EXCEPT ![i].live = live]
           r == [rs[i] EXCEPT !.live = live]
<1>1. EntryFits(rs[i]) /\ rs = [j \in Ids |-> rs[j]]
  BY DEF RowsFit
<1>2. r = [kind |-> rs[i].kind, parent |-> rs[i].parent, slug |-> rs[i].slug, base |-> rs[i].base, live |-> live]
  BY <1>1 DEF EntryFits
<1>3. EntryFits(r) /\ Same(rs[i], r) /\ r.live = live
  BY <1>1, <1>2 DEF EntryFits, Same
<1>4. q = [j \in Ids |-> q[j]] /\ q[i] = r /\ \A j \in Ids \ {i} : q[j] = rs[j]
  BY <1>1
<1> HIDE DEF q, r
<1>5. \A j \in Ids : Same(rs[j], q[j])
  BY <1>3, <1>4 DEF Same
<1>6. RowsFit(q, n)
  <2>1. \A j \in Ids : EntryFits(q[j]) /\ (j > n => q[j].kind = "none")
    BY <1>3, <1>4, <1>5 DEF RowsFit, Same
  <2> QED
    BY <1>4, <2>1 DEF RowsFit
<1>7. Hangs(q)
  <2>1. \A j \in Ids : rs[j].base # 0 => rs[j].base \in Ids
    BY DEF RowsFit, EntryFits, Ids
  <2> QED
    BY <1>5, <2>1 DEF Hangs, Same
<1>8. Unique(q)
  BY <1>3, <1>4 DEF Unique, Same
<1> QED
  BY <1>5, <1>6, <1>7, <1>8 DEF q

\* A row that nothing hangs in or inherits from is destroyed.
LEMMA DestroyedRow ==
    ASSUME NEW rs, NEW n, RowsFit(rs, n), Hangs(rs), Unique(rs), NEW i \in Ids,
           \A j \in Ids : rs[j].parent # i /\ rs[j].base # i
    PROVE  LET q == [rs EXCEPT ![i] = NoRow] IN
           /\ RowsFit(q, n) /\ Hangs(q) /\ Unique(q)
           /\ q[i] = NoRow /\ \A j \in Ids \ {i} : q[j] = rs[j]
<1> DEFINE q == [rs EXCEPT ![i] = NoRow]
<1>1. q = [j \in Ids |-> q[j]] /\ q[i] = NoRow /\ \A j \in Ids \ {i} : q[j] = rs[j]
  BY DEF RowsFit
<1> HIDE DEF q
<1>2. RowsFit(q, n)
  BY <1>1, NoRowFits DEF RowsFit
<1>3. Hangs(q)
  <2>1. \A j \in Ids : rs[j].base # 0 => rs[j].base \in Ids
    BY DEF RowsFit, EntryFits, Ids
  <2>2. \A j \in Ids : q[j].kind \in {"project", "environment", "config"} \/ q[j].base # 0 => j # i /\ q[j] = rs[j]
    BY <1>1, NoRowFits
  <2> QED
    BY <1>1, <2>1, <2>2 DEF Hangs
<1>4. Unique(q)
  BY <1>1, NoRowFits DEF Unique
<1> QED
  BY <1>1, <1>2, <1>3, <1>4 DEF q

\* What was read of the rows is still so when some have come and gone.
LEMMA LaterRows ==
    ASSUME NEW rs, NEW n, NEW q, NEW m, RowsFit(rs, n), RowsFit(q, m), n <= m,
           \A i \in 1 .. n : Kept(rs[i], q[i])
    PROVE  /\ \A k : CreationFits(k, rs, n) => CreationFits(k, q, m)
           /\ \A k : CloneFits(k, rs, n) => CloneFits(k, q, m)
<1>1. n \in Nat /\ m \in Nat
  BY DEF RowsFit
<1>2. \A i \in 1 .. n : i \in 1 .. m /\ (q[i].kind # "none" => Same(rs[i], q[i]))
  BY <1>1, NoRowFits DEF Kept
<1>3. \A kind, i : IsOr(kind, i, rs, n) => IsOr(kind, i, q, m)
  BY <1>2 DEF IsOr, Same
<1>4. ASSUME NEW k, CreationFits(k, rs, n) PROVE CreationFits(k, q, m)
  BY <1>2, <1>3, <1>4 DEF CreationFits, IsOr, Same
<1>5. ASSUME NEW k, CloneFits(k, rs, n) PROVE CloneFits(k, q, m)
  <2>1. ASSUME NEW c \in k.listed, k.made[c] # 0 PROVE k.made[c] \in 1 .. m /\ CopyFits(k, c, q)
    <3>1. k.made[c] \in 1 .. n /\ CopyFits(k, c, rs)
      BY <1>5, <2>1 DEF CloneFits
    <3>2. \A b \in k.listed : k.made[b] # 0 /\ rs[k.made[b]].base = 0 => q[k.made[b]].base = 0
      <4> SUFFICES ASSUME NEW b \in k.listed, k.made[b] # 0, rs[k.made[b]].base = 0
                   PROVE  q[k.made[b]].base = 0
        OBVIOUS
      <4>1. k.made[b] \in 1 .. n
        BY <1>5 DEF CloneFits
      <4>2. Kept(rs[k.made[b]], q[k.made[b]])
        BY <4>1
      <4> QED
        BY <4>2, NoRowFits DEF Kept, Same
    <3> QED
      BY <1>2, <3>1, <3>2 DEF CopyFits, Same
  <2> QED
    BY <1>3, <1>5, <2>1 DEF CloneFits
<1> QED
  BY <1>4, <1>5

-----------------------------------------------------------------------------
(* Catalog: the requests.                                                  *)

\* A step keeps the invariant if the rows still fit and nothing that was read of them is wrong.
LEMMA RowsMove ==
    ASSUME CatalogInv, RowsFit(rows', created'), Hangs(rows'), Unique(rows'), created <= created',
           \A i \in 1 .. created : Kept(rows[i], rows'[i]),
           secrets' \in [Ids -> [Keys -> Values \cup {Absent}]],
           \A i \in saved' : i \in Ids /\ rows'[i].kind = "config",
           \A i \in unowned' : i \in Ids /\ rows'[i].kind = "project",
           changes' \in 0 .. MaxChanges,
           creating' = creating \/ CreationFits(creating', rows', created'),
           clone' = clone \/ CloneFits(clone', rows', created')
    PROVE  CatalogInv'
<1>1. RowsFit(rows, created) /\ CreationFits(creating, rows, created) /\ CloneFits(clone, rows, created)
  BY DEF CatalogInv
<1>2. CreationFits(creating, rows', created') /\ CloneFits(clone, rows', created')
  BY <1>1, LaterRows
<1>3. CreationFits(creating', rows', created') /\ CloneFits(clone', rows', created')
  BY <1>2
<1>4. saved' \subseteq Kind("config")' /\ unowned' \subseteq Kind("project")'
  BY DEF Kind
<1> QED
  BY <1>3, <1>4 DEF CatalogInv

LEMMA RowsStay ==
    ASSUME CatalogInv, UNCHANGED <<rows, created>>,
           secrets' \in [Ids -> [Keys -> Values \cup {Absent}]],
           \A i \in saved' : i \in Ids /\ rows[i].kind = "config",
           \A i \in unowned' : i \in Ids /\ rows[i].kind = "project",
           changes' \in 0 .. MaxChanges,
           creating' = creating \/ CreationFits(creating', rows, created),
           clone' = clone \/ CloneFits(clone', rows, created)
    PROVE  CatalogInv'
<1>1. saved' \subseteq Kind("config")' /\ unowned' \subseteq Kind("project")'
  BY DEF Kind
<1> QED
  BY <1>1 DEF CatalogInv

LEMMA RestFits ==
    ASSUME CatalogInv
    PROVE  /\ RowsFit(rows, created) /\ Hangs(rows) /\ Unique(rows) /\ created \in Nat
           /\ secrets \in [Ids -> [Keys -> Values \cup {Absent}]] /\ changes \in 0 .. MaxChanges
           /\ \A i \in saved : i \in Ids /\ rows[i].kind = "config"
           /\ \A i \in unowned : i \in Ids /\ rows[i].kind = "project"
           /\ CreationFits(creating, rows, created) /\ CloneFits(clone, rows, created)
           /\ \A i \in Ids : rows[i].kind # "none" => i \in 1 .. created
<1>1. created \in Nat
  BY DEF CatalogInv, RowsFit
<1>2. \A i \in Ids : rows[i].kind # "none" => i \in 1 .. created
  BY <1>1 DEF CatalogInv, RowsFit, Ids
<1> QED
  BY <1>1, <1>2 DEF CatalogInv, Kind

LEMMA Changed == ASSUME CatalogInv, MayChange, Change PROVE changes' \in 0 .. MaxChanges
<1>1. changes \in 0 .. MaxChanges
  BY DEF CatalogInv
<1> QED
  BY <1>1, CatalogAssumption DEF MayChange, Change

\* What every insert does.
LEMMA InsertMoves ==
    ASSUME CatalogInv, NEW kind \in {"project", "environment", "config"}, NEW parent \in 0 .. MaxRows,
           NEW slug, NEW base \in 0 .. MaxRows,
           Insert(Row(kind, parent, slug, base)), Free(kind, parent, slug),
           kind = "project" => parent = 0,
           kind = "environment" => parent \in Ids /\ rows[parent].kind = "project",
           kind = "config" => parent \in Ids /\ rows[parent].kind = "environment",
           base # 0 => rows[base].kind = "config" /\ rows[base].parent = parent
    PROVE  LET r == Row(kind, parent, slug, base) IN
           /\ RowsFit(rows', created') /\ Hangs(rows') /\ Unique(rows')
           /\ created' = created + 1 /\ created <= created' /\ created + 1 \in Ids
           /\ rows'[created + 1] = r /\ r.kind = kind /\ r.slug = slug /\ r.base = base
           /\ \A i \in Ids \ {created + 1} : rows'[i] = rows[i]
           /\ \A i \in 1 .. created : Kept(rows[i], rows'[i])
           /\ \A i \in Ids : rows[i].kind # "none" => rows'[i] = rows[i]
<1> DEFINE r == Row(kind, parent, slug, base)
<1>1. /\ EntryFits(r) /\ r.kind = kind /\ r.parent = parent /\ r.slug = slug /\ r.base = base
  BY RowIs
<1>2. /\ created < MaxRows /\ created' = created + 1 /\ rows' = [rows EXCEPT ![created + 1] = r]
  BY DEF Insert
<1> HIDE DEF r
<1>3. /\ RowsFit(rows, created) /\ Hangs(rows) /\ Unique(rows) /\ created \in Nat
      /\ \A i \in Ids : rows[i].kind # "none" => i \in 1 .. created
  BY RestFits
<1>4. \A i \in Ids : ~ (rows[i].live /\ rows[i].kind = r.kind /\ rows[i].parent = r.parent /\ rows[i].slug = r.slug)
  BY <1>1 DEF Free
<1>5. /\ RowsFit(rows', created + 1) /\ Hangs(rows') /\ Unique(rows')
      /\ created + 1 \in Ids /\ rows'[created + 1] = r /\ \A i \in Ids \ {created + 1} : rows'[i] = rows[i]
      /\ \A i \in 1 .. created : Kept(rows[i], rows'[i])
  <2>1. /\ r.kind # "none" /\ (r.kind = "project" => r.parent = 0)
        /\ (r.kind = "environment" => r.parent \in Ids /\ rows[r.parent].kind = "project")
        /\ r.kind = "config" => r.parent \in Ids /\ rows[r.parent].kind = "environment"
        /\ r.base # 0 => rows[r.base].kind = "config" /\ rows[r.base].parent = r.parent
    BY <1>1
  <2> DEFINE q == [rows EXCEPT ![created + 1] = r]
  <2>2. /\ RowsFit(q, created + 1) /\ Hangs(q) /\ Unique(q)
        /\ created + 1 \in Ids /\ q[created + 1] = r /\ \A i \in Ids \ {created + 1} : q[i] = rows[i]
        /\ \A i \in 1 .. created : Kept(rows[i], q[i])
    BY <1>1, <1>2, <1>3, <1>4, <2>1, InsertedRow
  <2>3. rows' = q
    BY <1>2
  <2> HIDE DEF q
  <2> QED
    BY <2>2, <2>3
<1>6. \A i \in Ids : rows[i].kind # "none" => rows'[i] = rows[i]
  BY <1>3, <1>5
<1> QED
  BY <1>1, <1>2, <1>3, <1>5, <1>6 DEF r

LEMMA CreateProjectKeeps ==
    ASSUME CatalogInv, MayChange, NEW s \in Slugs, NEW delegated \in BOOLEAN, CreateProject(s, delegated)
    PROVE  CatalogInv'
<1>1. /\ Change /\ Free("project", 0, s) /\ Insert(Row("project", 0, s, 0))
      /\ unowned' \subseteq unowned \cup {created + 1}
      /\ UNCHANGED <<secrets, saved, creating, clone>>
  BY DEF CreateProject
<1>2. 0 \in 0 .. MaxRows
  BY CatalogAssumption
<1>3. /\ RowsFit(rows', created') /\ Hangs(rows') /\ Unique(rows')
      /\ created <= created' /\ created + 1 \in Ids /\ rows'[created + 1].kind = "project"
      /\ \A i \in 1 .. created : Kept(rows[i], rows'[i])
      /\ \A i \in Ids : rows[i].kind # "none" => rows'[i] = rows[i]
  BY <1>1, <1>2, InsertMoves
<1>4. changes' \in 0 .. MaxChanges
  BY <1>1, Changed
<1>5. /\ \A i \in saved' : i \in Ids /\ rows'[i].kind = "config"
      /\ \A i \in unowned' : i \in Ids /\ rows'[i].kind = "project"
      /\ secrets' \in [Ids -> [Keys -> Values \cup {Absent}]]
  BY <1>1, <1>3, RestFits
<1> QED
  BY <1>1, <1>3, <1>4, <1>5, RowsMove

LEMMA CreateEnvironmentKeeps ==
    ASSUME CatalogInv, MayChange, NEW p \in Kind("project"), NEW s \in Slugs, CreateEnvironment(p, s)
    PROVE  CatalogInv'
<1>1. /\ Change /\ Free("environment", p, s) /\ Insert(Row("environment", p, s, 0))
      /\ UNCHANGED <<secrets, saved, unowned, creating, clone>>
  BY DEF CreateEnvironment
<1>2. 0 \in 0 .. MaxRows /\ p \in 0 .. MaxRows /\ p \in Ids /\ rows[p].kind = "project"
  BY CatalogAssumption DEF Kind, Ids
<1>3. /\ RowsFit(rows', created') /\ Hangs(rows') /\ Unique(rows') /\ created <= created'
      /\ \A i \in 1 .. created : Kept(rows[i], rows'[i])
      /\ \A i \in Ids : rows[i].kind # "none" => rows'[i] = rows[i]
  BY <1>1, <1>2, InsertMoves
<1>4. changes' \in 0 .. MaxChanges
  BY <1>1, Changed
<1>5. /\ \A i \in saved' : i \in Ids /\ rows'[i].kind = "config"
      /\ \A i \in unowned' : i \in Ids /\ rows'[i].kind = "project"
      /\ secrets' \in [Ids -> [Keys -> Values \cup {Absent}]]
  BY <1>1, <1>3, RestFits
<1> QED
  BY <1>1, <1>3, <1>4, <1>5, RowsMove

LEMMA CreateConfigChecksKeeps ==
    ASSUME CatalogInv, MayChange, NEW e \in Kind("environment"), NEW s \in Slugs,
           NEW base \in Kind("config") \cup {0}, CreateConfigChecks(e, s, base)
    PROVE  CatalogInv'
<1>1. /\ Change /\ Live(e) /\ BaseAllowed(e, base)
      /\ creating' = [pc |-> "checked", env |-> e, slug |-> s, base |-> base]
      /\ UNCHANGED <<rows, secrets, saved, created, unowned, clone>>
  BY DEF CreateConfigChecks
<1>2. \A i \in Ids : rows[i].kind # "none" => i \in 1 .. created
  BY RestFits
<1>3. IsOr("environment", e, rows, created)
  BY <1>2 DEF Kind, IsOr
<1>4. base # 0 => IsOr("config", base, rows, created) /\ rows[base].parent = e
  BY <1>1, <1>2 DEF BaseAllowed, Live, Exists, IsOr
<1>5. CreationFits(creating', rows, created)
  BY <1>1, <1>3, <1>4 DEF CreationFits
<1>6. changes' \in 0 .. MaxChanges
  BY <1>1, Changed
<1> QED
  BY <1>1, <1>5, <1>6, RestFits, RowsStay

\* The environment and the base may have been destroyed since they were checked.
LEMMA CreateConfigInsertsKeeps ==
    ASSUME CatalogInv, CreateConfigInserts
    PROVE  CatalogInv'
<1>1. /\ creating.pc = "checked" /\ creating' = NoCreation
      /\ UNCHANGED <<secrets, saved, changes, unowned, clone>>
  BY DEF CreateConfigInserts
<1>2. CreationFits(creating', rows', created')
  BY <1>1 DEF CreationFits, NoCreation
<1>3. CASE UNCHANGED <<rows, created>>
  <2>1. CreationFits(creating', rows, created)
    BY <1>2, <1>3
  <2> QED
    BY <1>1, <1>3, <2>1, RestFits, RowsStay
<1>4. CASE /\ Exists(creating.env) /\ (creating.base = 0 \/ Exists(creating.base))
           /\ Free("config", creating.env, creating.slug)
           /\ Insert(Row("config", creating.env, creating.slug, creating.base))
  <2>1. CreationFits(creating, rows, created)
    BY RestFits
  <2>2. creating.env \in Ids /\ creating.env \in 0 .. MaxRows /\ rows[creating.env].kind = "environment"
    BY <1>1, <1>4, <2>1 DEF CreationFits, IsOr, Exists, Ids
  <2>3. creating.base # 0 => rows[creating.base].kind = "config" /\ rows[creating.base].parent = creating.env
    BY <1>1, <1>4, <2>1 DEF CreationFits, IsOr, Exists
  <2>4. creating.base \in 0 .. MaxRows
    BY <1>4, CatalogAssumption DEF Exists, Ids
  <2>5. /\ RowsFit(rows', created') /\ Hangs(rows') /\ Unique(rows') /\ created <= created'
        /\ \A i \in 1 .. created : Kept(rows[i], rows'[i])
        /\ \A i \in Ids : rows[i].kind # "none" => rows'[i] = rows[i]
    BY <1>4, <2>2, <2>3, <2>4, InsertMoves
  <2>6. /\ \A i \in saved' : i \in Ids /\ rows'[i].kind = "config"
        /\ \A i \in unowned' : i \in Ids /\ rows'[i].kind = "project"
        /\ secrets' \in [Ids -> [Keys -> Values \cup {Absent}]] /\ changes' \in 0 .. MaxChanges
    BY <1>1, <2>5, RestFits
  <2> QED
    BY <1>1, <1>2, <2>5, <2>6, RowsMove
<1> QED
  BY <1>3, <1>4 DEF CreateConfigInserts

LEMMA SoftDeleteMoves ==
    ASSUME CatalogInv, NEW i \in Ids, Live(i), rows' = [rows EXCEPT ![i].live = FALSE]
    PROVE  /\ RowsFit(rows', created) /\ Hangs(rows') /\ Unique(rows')
           /\ \A j \in Ids : Same(rows[j], rows'[j])
<1>1. RowsFit(rows, created) /\ Hangs(rows) /\ Unique(rows) /\ rows[i].kind # "none"
  BY RestFits DEF Live, Exists
<1>2. FALSE \in BOOLEAN
  OBVIOUS
<1> QED
  BY <1>1, <1>2, ChangedRow

LEMMA SameRowsKeep ==
    ASSUME CatalogInv, RowsFit(rows', created), Hangs(rows'), Unique(rows'),
           \A j \in Ids : Same(rows[j], rows'[j]), changes' \in 0 .. MaxChanges,
           UNCHANGED <<secrets, saved, created, unowned, creating>>,
           clone' = clone \/ CloneFits(clone', rows', created)
    PROVE  CatalogInv'
<1>1. \A j \in 1 .. created : j \in Ids
  BY CatalogAssumption DEF CatalogInv, RowsFit, Ids
<1>2. \A j \in 1 .. created : Kept(rows[j], rows'[j])
  BY <1>1 DEF Kept
<1>3. /\ \A j \in saved' : j \in Ids /\ rows'[j].kind = "config"
      /\ \A j \in unowned' : j \in Ids /\ rows'[j].kind = "project"
      /\ secrets' \in [Ids -> [Keys -> Values \cup {Absent}]] /\ created <= created'
  BY RestFits DEF Same
<1>4. created' = created /\ creating' = creating
  OBVIOUS
<1> QED
  BY <1>2, <1>3, <1>4, RowsMove

LEMMA SoftDeleteKeeps ==
    ASSUME CatalogInv, MayChange, NEW i \in Ids, SoftDelete(i)
    PROVE  CatalogInv'
<1>1. /\ Change /\ Live(i) /\ rows' = [rows EXCEPT ![i].live = FALSE]
      /\ UNCHANGED <<secrets, saved, created, unowned, creating, clone>>
  BY DEF SoftDelete
<1>2. changes' \in 0 .. MaxChanges
  BY <1>1, Changed
<1>3. /\ RowsFit(rows', created) /\ Hangs(rows') /\ Unique(rows')
      /\ \A j \in Ids : Same(rows[j], rows'[j])
  BY <1>1, SoftDeleteMoves
<1> QED
  BY <1>1, <1>2, <1>3, SameRowsKeep

LEMMA UndeleteKeeps ==
    ASSUME CatalogInv, MayChange, NEW i \in Ids, Undelete(i)
    PROVE  CatalogInv'
<1>1. /\ Change /\ Exists(i) /\ Free(rows[i].kind, rows[i].parent, rows[i].slug)
      /\ rows' = [rows EXCEPT ![i].live = TRUE]
      /\ UNCHANGED <<secrets, saved, created, unowned, creating, clone>>
  BY DEF Undelete
<1>2. changes' \in 0 .. MaxChanges
  BY <1>1, Changed
<1>3. RowsFit(rows, created) /\ Hangs(rows) /\ Unique(rows) /\ rows[i].kind # "none" /\ TRUE \in BOOLEAN
  BY <1>1, RestFits DEF Exists
<1>4. \A j \in Ids : ~ (rows[j].live /\ rows[j].kind = rows[i].kind
                        /\ rows[j].parent = rows[i].parent /\ rows[j].slug = rows[i].slug)
  BY <1>1 DEF Free
<1>5. /\ RowsFit(rows', created) /\ Hangs(rows') /\ Unique(rows')
      /\ \A j \in Ids : Same(rows[j], rows'[j])
  BY <1>1, <1>3, <1>4, ChangedRow
<1> QED
  BY <1>1, <1>2, <1>5, SameRowsKeep

LEMMA DestroyKeeps ==
    ASSUME CatalogInv, MayChange, NEW i \in Ids, Destroy(i)
    PROVE  CatalogInv'
<1>1. /\ Change /\ i \notin saved /\ (\A j \in Ids : rows[j].parent # i /\ rows[j].base # i)
      /\ rows' = [rows EXCEPT ![i] = NoRow] /\ unowned' = unowned \ {i}
      /\ UNCHANGED <<secrets, saved, created, creating, clone>>
  BY DEF Destroy, Unreferenced
<1>2. changes' \in 0 .. MaxChanges
  BY <1>1, Changed
<1>3. /\ RowsFit(rows', created) /\ Hangs(rows') /\ Unique(rows')
      /\ rows'[i] = NoRow /\ \A j \in Ids \ {i} : rows'[j] = rows[j]
  <2> DEFINE q == [rows EXCEPT ![i] = NoRow]
  <2>1. /\ RowsFit(q, created) /\ Hangs(q) /\ Unique(q)
        /\ q[i] = NoRow /\ \A j \in Ids \ {i} : q[j] = rows[j]
    <3>1. RowsFit(rows, created) /\ Hangs(rows) /\ Unique(rows)
      BY RestFits
    <3>2. \A j \in Ids : rows[j].parent # i /\ rows[j].base # i
      BY <1>1
    <3> QED
      BY <3>1, <3>2, DestroyedRow
  <2>2. rows' = q
    BY <1>1
  <2> HIDE DEF q
  <2> QED
    BY <2>1, <2>2
<1>4. \A j \in 1 .. created : j \in Ids /\ Kept(rows[j], rows'[j])
  <2>1. \A j \in 1 .. created : j \in Ids
    BY CatalogAssumption DEF CatalogInv, RowsFit, Ids
  <2> QED
    BY <1>3, <2>1 DEF Kept, Same
<1>5. /\ \A j \in saved' : j \in Ids /\ rows'[j].kind = "config"
      /\ \A j \in unowned' : j \in Ids /\ rows'[j].kind = "project"
      /\ secrets' \in [Ids -> [Keys -> Values \cup {Absent}]] /\ created <= created'
  BY <1>1, <1>3, RestFits
<1> QED
  BY <1>1, <1>2, <1>3, <1>4, <1>5, RowsMove

LEMMA SetSecretsKeeps ==
    ASSUME CatalogInv, MayChange, NEW c \in Kind("config"), NEW k \in Keys, NEW v \in Values \cup {Absent},
           SetSecrets(c, k, v)
    PROVE  CatalogInv'
<1>1. /\ Change /\ secrets' = [secrets EXCEPT ![c][k] = v] /\ saved' = saved \cup {c}
      /\ UNCHANGED <<rows, created, unowned, creating, clone>>
  BY DEF SetSecrets
<1>2. changes' \in 0 .. MaxChanges
  BY <1>1, Changed
<1>3. c \in Ids /\ rows[c].kind = "config"
  BY DEF Kind
<1>4. /\ secrets' \in [Ids -> [Keys -> Values \cup {Absent}]]
      /\ \A i \in saved' : i \in Ids /\ rows[i].kind = "config"
      /\ \A i \in unowned' : i \in Ids /\ rows[i].kind = "project"
  <2>1. secrets \in [Ids -> [Keys -> Values \cup {Absent}]]
    BY RestFits
  <2>2. secrets' \in [Ids -> [Keys -> Values \cup {Absent}]]
    BY <1>1, <1>3, <2>1
  <2> QED
    BY <1>1, <1>3, <2>2, RestFits
<1> QED
  BY <1>1, <1>2, <1>4, RowsStay

LEMMA SeedKeeps ==
    ASSUME CatalogInv, NEW p \in unowned, SeedProjectOwnership(p)
    PROVE  CatalogInv'
<1>1. unowned' = unowned \ {p} /\ UNCHANGED <<rows, secrets, saved, created, changes, creating, clone>>
  BY DEF SeedProjectOwnership
<1> QED
  BY <1>1, RestFits, RowsStay

LEMMA HierarchyKeeps ==
    ASSUME CatalogInv, Manage
    PROVE  CatalogInv'
<1>1. CASE MayChange /\ HierarchyStep
  BY <1>1, CreateProjectKeeps, CreateEnvironmentKeeps, CreateConfigChecksKeeps, SoftDeleteKeeps, UndeleteKeeps,
     DestroyKeeps, SetSecretsKeeps DEF HierarchyStep
<1> QED
  BY <1>1, SeedKeeps, CreateConfigInsertsKeeps DEF Manage

-----------------------------------------------------------------------------
(* Catalog: cloning an environment.                                        *)

LEMMA CloneBeginsKeeps ==
    ASSUME CatalogInv, NEW e \in Kind("environment"), NEW s \in Slugs, CloneBegins(e, s)
    PROVE  CatalogInv'
<1> DEFINE p == rows[e].parent
<1>1. /\ Free("environment", p, s) /\ Insert(Row("environment", p, s, 0))
      /\ clone' = [NoClone EXCEPT !.pc = "list", !.src = e, !.dst = created + 1]
      /\ UNCHANGED <<secrets, saved, changes, unowned, creating>>
  BY DEF CloneBegins
<1>2. p \in Ids /\ p \in 0 .. MaxRows /\ rows[p].kind = "project" /\ 0 \in 0 .. MaxRows
  BY RestFits, CatalogAssumption DEF Kind, Hangs, Ids
<1>3. /\ RowsFit(rows', created') /\ Hangs(rows') /\ Unique(rows') /\ created <= created'
      /\ created' = created + 1 /\ rows'[created + 1].kind = "environment"
      /\ \A i \in 1 .. created : Kept(rows[i], rows'[i])
      /\ \A i \in Ids : rows[i].kind # "none" => rows'[i] = rows[i]
  BY <1>1, <1>2, InsertMoves
<1>4. CloneFits(clone', rows', created')
  <2>1. clone' = [pc |-> "list", src |-> e, dst |-> created + 1, listed |-> {}, left |-> {}, later |-> {},
                  read |-> [i \in Ids |-> NoRow], made |-> [i \in Ids |-> 0], from |-> 0]
    BY <1>1 DEF NoClone
  <2>2. CloneShape(clone')
    BY <2>1 DEF CloneShape
  <2>3. IsOr("environment", created + 1, rows', created')
    BY <1>3, RestFits DEF IsOr
  <2>4. ~ Stuck(clone')
    BY <2>1 DEF Stuck
  <2> QED
    BY <2>1, <2>2, <2>3, <2>4 DEF CloneFits
<1>5. /\ \A i \in saved' : i \in Ids /\ rows'[i].kind = "config"
      /\ \A i \in unowned' : i \in Ids /\ rows'[i].kind = "project"
      /\ secrets' \in [Ids -> [Keys -> Values \cup {Absent}]] /\ changes' \in 0 .. MaxChanges
  BY <1>1, <1>3, RestFits
<1> QED
  BY <1>1, <1>3, <1>4, <1>5, RowsMove

\* A step of the clone that leaves the rows alone.
LEMMA CloneMoves ==
    ASSUME CatalogInv, CloneFits(clone', rows, created),
           UNCHANGED <<rows, secrets, saved, created, changes, unowned, creating>>
    PROVE  CatalogInv'
BY RestFits, RowsStay

\* A clone goes on or ends with what it has copied.
LEMMA PcMoves ==
    ASSUME CloneFits(clone, rows, created), clone.pc # "idle",
           \/ \E p \in {"copy", "failed", "stopped"} : clone' = [clone EXCEPT !.pc = p]
           \/ clone.left \cup clone.later = {} /\ clone' = [clone EXCEPT !.pc = "done"]
    PROVE  CloneFits(clone', rows, created)
<1> DEFINE z == clone'
<1>1. CloneShape(clone)
  BY DEF CloneFits
<1>2. /\ z = [pc |-> z.pc, src |-> clone.src, dst |-> clone.dst, listed |-> clone.listed, left |-> clone.left,
              later |-> clone.later, read |-> clone.read, made |-> clone.made, from |-> clone.from]
      /\ z.pc \in {"copy", "failed", "stopped", "done"}
      /\ z.pc = "done" => clone.left \cup clone.later = {}
  BY <1>1 DEF CloneShape
<1>3. CloneShape(z)
  BY <1>1, <1>2 DEF CloneShape
<1>4. Stuck(z) => Stuck(clone)
  BY <1>2 DEF Stuck
<1>5. \A c : CopyFits(clone, c, rows) => CopyFits(z, c, rows)
  BY <1>2 DEF CopyFits
<1>6. IsOr("environment", z.dst, rows, created)
  BY <1>2 DEF CloneFits
<1> HIDE DEF z
<1>7. CloneFits(z, rows, created)
  BY <1>2, <1>3, <1>4, <1>5, <1>6 DEF CloneFits
<1> QED
  BY <1>7 DEF z

LEMMA CloneListsKeeps ==
    ASSUME CatalogInv, CloneLists
    PROVE  CatalogInv'
<1> DEFINE cs == ConfigsOf(clone.src)
           was == [i \in Ids |-> IF i \in cs THEN rows[i] ELSE NoRow]
<1>1. /\ clone.pc = "list"
      /\ clone' = [clone EXCEPT !.pc = "copy", !.listed = cs, !.left = cs, !.read = was]
      /\ UNCHANGED <<rows, secrets, saved, created, changes, unowned, creating>>
  BY DEF CloneLists
<1>2. /\ CloneFits(clone, rows, created) /\ Hangs(rows) /\ RowsFit(rows, created)
  BY RestFits
<1>3. clone.listed = {} /\ clone.later = {} /\ \A i \in Ids : clone.made[i] = 0
  BY <1>1, <1>2 DEF CloneFits, CloneShape
<1>4. cs \subseteq Ids /\ (\A c \in cs : rows[c].kind = "config")
  BY DEF ConfigsOf, Kind
<1> HIDE DEF cs
<1>5. /\ clone' = [pc |-> "copy", src |-> clone.src, dst |-> clone.dst, listed |-> cs, left |-> cs, later |-> {},
                   read |-> was, made |-> clone.made, from |-> clone.from]
      /\ clone.made = [i \in Ids |-> clone.made[i]]
  BY <1>1, <1>2, <1>3 DEF CloneFits, CloneShape
<1>6. \A c \in cs : was[c].base \in 0 .. c - 1
  <2> SUFFICES ASSUME NEW c \in cs PROVE rows[c].base \in 0 .. c - 1
    BY <1>4
  <2>1. c \in Nat \ {0} /\ rows[c].base \in Nat /\ (rows[c].base # 0 => rows[c].base < c)
    BY <1>2, <1>4, CatalogAssumption DEF Hangs, RowsFit, EntryFits, Ids
  <2> QED
    BY <2>1
<1>7. was = [i \in Ids |-> was[i]]
  OBVIOUS
<1> HIDE DEF was
<1>8. CloneShape(clone')
  BY <1>3, <1>4, <1>5, <1>6, <1>7 DEF CloneShape
<1>9. ~ Stuck(clone')
  BY <1>3, <1>4, <1>5 DEF Stuck
<1>10. CloneFits(clone', rows, created)
  BY <1>1, <1>2, <1>3, <1>4, <1>5, <1>8, <1>9 DEF CloneFits
<1> QED
  BY <1>1, <1>10, CloneMoves

\* What the next config to be copied does to those left: it is taken out, and either it has
\* its base, or it is the newest of them all and every one waits.
LEMMA NextIs ==
    ASSUME CloneShape(clone), clone.left \cap clone.later = {}, NEW c, NextToClone(c)
    PROVE  LET before == {d \in Pass : d < c} IN
           /\ c \in clone.left \cup clone.later
           /\ before \cup PutOff(c) = (clone.left \cup clone.later) \ {c} /\ before \cap PutOff(c) = {}
           /\ Waits(c) => \A d \in clone.left \cup clone.later : Waits(d) /\ d <= c
<1>1. \A d \in clone.left \cup clone.later : d \in Int
  BY DEF CloneShape, Ids
<1>2. \/ Pass = clone.left /\ \E d \in clone.left : ~Waits(d)
      \/ Pass = clone.left \cup clone.later
  BY DEF Pass
<1>3. c \in Pass /\ (Waits(c) => \A d \in Pass : Waits(d) /\ d <= c)
  BY DEF NextToClone
<1>4. CASE Pass = clone.left /\ \E d \in clone.left : ~Waits(d)
  <2>1. PutOff(c) = {d \in clone.left : d > c} \cup clone.later
    BY <1>4 DEF PutOff
  <2> QED
    BY <1>1, <1>3, <1>4, <2>1
<1>5. CASE Pass = clone.left \cup clone.later
  <2>1. Pass = clone.left => clone.later = {}
    BY <1>5
  <2>2. PutOff(c) = {d \in Pass : d > c}
    BY <2>1 DEF PutOff
  <2> QED
    BY <1>1, <1>3, <1>5, <2>2
<1> QED
  BY <1>2, <1>4, <1>5

LEMMA CloneMakesMoves ==
    ASSUME CatalogInv, NEW c \in clone.listed, CloneMakes(c)
    PROVE  /\ CloneFits(clone', rows', created') /\ UNCHANGED <<secrets, saved, changes, unowned, creating>>
           /\ RowsFit(rows', created') /\ Hangs(rows') /\ Unique(rows') /\ created <= created'
           /\ \A i \in 1 .. created : Kept(rows[i], rows'[i])
           /\ \A i \in Ids : rows[i].kind # "none" => rows'[i] = rows[i]
<1> DEFINE k == clone
           z == clone'
           n == created + 1
           base == NewBase(c)
           before == {d \in Pass : d < c}
<1>1. /\ k.pc = "copy" /\ NextToClone(c) /\ BaseAllowed(k.dst, base) /\ Exists(k.dst)
      /\ Free("config", k.dst, k.read[c].slug) /\ Insert(Row("config", k.dst, k.read[c].slug, base))
      /\ z = [k EXCEPT !.pc = "secrets", !.left = before, !.later = PutOff(c), !.made[c] = n, !.from = c]
      /\ UNCHANGED <<secrets, saved, changes, unowned, creating>>
  BY DEF CloneMakes
<1>2. CloneFits(k, rows, created) /\ CloneShape(k) /\ created \in Nat /\ c \in Ids /\ 0 \notin Ids
  BY RestFits DEF CloneFits, CloneShape, Ids
<1>3. /\ c \in k.left \cup k.later /\ k.made[c] = 0
      /\ before \cup PutOff(c) = (k.left \cup k.later) \ {c} /\ before \cap PutOff(c) = {}
      /\ Waits(c) => \A d \in k.left \cup k.later : Waits(d) /\ d <= c
  BY <1>1, <1>2, NextIs DEF CloneFits
<1> HIDE DEF before
<1>4. /\ base = IF k.read[c].base = 0 THEN 0 ELSE k.made[k.read[c].base]
      /\ base # 0 => base \in Ids /\ rows[base].kind = "config" /\ rows[base].parent = k.dst
      /\ k.dst \in Ids /\ k.dst \in 0 .. MaxRows /\ rows[k.dst].kind = "environment" /\ base \in 0 .. MaxRows
  <2>1. k.dst \in Ids /\ rows[k.dst].kind = "environment"
    BY <1>1, <1>2 DEF CloneFits, IsOr, Exists
  <2>2. base # 0 => base \in Ids /\ rows[base].kind = "config" /\ rows[base].parent = k.dst
    BY <1>1 DEF BaseAllowed, Live, Exists
  <2>3. base \in 0 .. MaxRows /\ k.dst \in 0 .. MaxRows
    BY <2>1, <2>2, CatalogAssumption DEF Ids
  <2> QED
    BY <2>1, <2>2, <2>3 DEF NewBase
<1> HIDE DEF base
<1>5. /\ RowsFit(rows', created') /\ Hangs(rows') /\ Unique(rows') /\ created <= created' /\ created' = n
      /\ n \in Ids /\ rows'[n].kind = "config" /\ rows'[n].slug = k.read[c].slug /\ rows'[n].base = base
      /\ \A i \in Ids \ {n} : rows'[i] = rows[i]
      /\ \A i \in 1 .. created : Kept(rows[i], rows'[i])
      /\ \A i \in Ids : rows[i].kind # "none" => rows'[i] = rows[i]
  <2>1. Free("config", k.dst, k.read[c].slug) /\ Insert(Row("config", k.dst, k.read[c].slug, base))
    BY <1>1
  <2>2. /\ base # 0 => rows[base].kind = "config" /\ rows[base].parent = k.dst
        /\ k.dst \in Ids /\ k.dst \in 0 .. MaxRows /\ rows[k.dst].kind = "environment" /\ base \in 0 .. MaxRows
    BY <1>4
  <2> HIDE DEF k
  <2> QED
    BY <2>1, <2>2, InsertMoves
<1>6. /\ z = [pc |-> "secrets", src |-> k.src, dst |-> k.dst, listed |-> k.listed, left |-> before,
                later |-> PutOff(c), read |-> k.read, made |-> z.made, from |-> c]
      /\ z.made = [i \in Ids |-> IF i = c THEN n ELSE k.made[i]]
  BY <1>1, <1>2 DEF CloneShape
<1>7. CloneShape(z)
  <2>1. before \subseteq k.listed /\ PutOff(c) \subseteq k.listed
    BY <1>2, <1>3 DEF CloneShape
  <2>2. \A i \in Ids : z.made[i] \in Nat /\ (z.made[i] # 0 => i \in k.listed)
    BY <1>2, <1>6 DEF CloneShape
  <2>3. z.made = [i \in Ids |-> z.made[i]]
    BY <1>6
  <2> QED
    BY <1>2, <1>6, <2>1, <2>2, <2>3 DEF CloneShape
<1>8. \A x \in k.listed : z.made[x] # 0 <=> x \notin before \cup PutOff(c)
  <2>1. \A x \in k.listed : x \in Ids /\ (k.made[x] # 0 <=> x \notin k.left \cup k.later)
    BY <1>2 DEF CloneFits, CloneShape
  <2>2. n # 0
    BY <1>2
  <2> QED
    BY <1>3, <1>6, <2>1, <2>2
<1>9. ASSUME NEW x \in k.listed, z.made[x] # 0 PROVE z.made[x] \in 1 .. n /\ CopyFits(z, x, rows')
  <2> DEFINE b == k.read[x].base
  <2>1. x \in Ids /\ b \in 0 .. x - 1
    BY <1>2 DEF CloneShape
  <2>2. CASE x = c
    <3>1. z.made[x] = n
      BY <1>6, <2>1, <2>2
    <3>2. b \in k.listed => rows'[n].base = z.made[b]
      <4>1. b \in k.listed => b # 0 /\ b \in Ids /\ b # c
        BY <1>2, <2>1, <2>2 DEF CloneShape, Ids
      <4> QED
        BY <1>4, <1>5, <1>6, <2>2, <4>1
    <3> QED
      BY <1>2, <1>5, <1>6, <2>2, <3>1, <3>2 DEF CopyFits
  <2>3. CASE x # c
    <3>1. z.made[x] = k.made[x] /\ k.made[x] \in 1 .. created /\ CopyFits(k, x, rows)
      BY <1>2, <1>6, <1>9, <2>1, <2>3 DEF CloneFits
    <3>2. \A i \in 1 .. created : i \in Ids /\ rows'[i] = rows[i]
      BY <1>2, <1>5, CatalogAssumption DEF Ids
    <3>3. CASE b \notin k.listed \/ b # c
      <4>1. b \in k.listed => z.made[b] = k.made[b] /\ (k.made[b] # 0 => rows'[k.made[b]] = rows[k.made[b]])
        BY <1>2, <1>6, <3>2, <3>3 DEF CloneFits, CloneShape
      <4>2. z.read = k.read /\ z.listed = k.listed /\ created <= n
        BY <1>2, <1>6
      <4>3. rows'[k.made[x]] = rows[k.made[x]] /\ z.made[x] \in 1 .. n
        BY <1>2, <3>1, <3>2
      <4> HIDE DEF k, z, n
      <4> QED
        BY <3>1, <4>1, <4>2, <4>3 DEF CopyFits
    <3>4. CASE b = c
      <4>1. Stuck(k)
        BY <1>2, <1>3, <3>1, <3>4 DEF Stuck
      <4>2. k.read[c].base # 0 /\ k.made[k.read[c].base] = 0
        BY <1>2, <1>3, <4>1 DEF CloneFits
      <4>3. rows'[n].base = 0 /\ z.made[c] = n /\ n # 0
        BY <1>2, <1>4, <1>5, <1>6, <4>2
      <4> QED
        BY <1>2, <1>6, <3>1, <3>2, <3>4, <4>2, <4>3 DEF CopyFits
    <3> QED
      BY <1>2, <3>1, <3>3, <3>4
  <2> QED
    BY <2>2, <2>3
<1>10. Stuck(z) => \A d \in before \cup PutOff(c) : z.read[d].base # 0 /\ z.made[z.read[d].base] = 0
  <2> SUFFICES ASSUME Stuck(z), NEW d \in before \cup PutOff(c)
               PROVE  k.read[d].base # 0 /\ z.made[k.read[d].base] = 0
    BY <1>6
  <2>1. PICK x \in k.listed : z.made[x] # 0 /\ k.read[x].base # 0 /\ z.made[k.read[x].base] = 0
    BY <1>6 DEF Stuck
  <2>2. /\ x \in Ids /\ k.read[x].base \in 0 .. x - 1 /\ k.read[x].base \in Ids
        /\ k.made[k.read[x].base] = 0
    <3>1. x \in Ids /\ k.read[x].base \in 0 .. x - 1
      BY <1>2 DEF CloneShape
    <3>2. k.read[x].base \in Ids
      BY <2>1, <3>1, CatalogAssumption DEF Ids
    <3> QED
      BY <1>2, <1>6, <2>1, <3>1, <3>2
  <2>3. Waits(c)
    <3>1. CASE x = c
      BY <2>1, <2>2, <3>1 DEF Waits
    <3>2. CASE x # c
      <4>1. k.made[x] # 0
        BY <1>6, <2>1, <2>2, <3>2
      <4>2. Stuck(k)
        BY <2>1, <2>2, <4>1 DEF Stuck
      <4> QED
        BY <1>2, <1>3, <4>2 DEF CloneFits, Waits
    <3> QED
      BY <3>1, <3>2
  <2>4. Waits(d) /\ d <= c /\ d # c /\ d \in k.listed /\ d \in Ids
    BY <1>2, <1>3, <2>3 DEF CloneShape
  <2>5. k.read[d].base \in 0 .. d - 1 /\ k.read[d].base # 0 /\ k.made[k.read[d].base] = 0
    BY <1>2, <2>4 DEF CloneShape, Waits
  <2>6. k.read[d].base \in Ids /\ k.read[d].base # c
    BY <1>2, <2>4, <2>5, CatalogAssumption DEF Ids
  <2> QED
    BY <1>6, <2>5, <2>6
<1>11. CloneFits(clone', rows', created')
  <2>1. IsOr("environment", z.dst, rows', n)
    <3>1. k.dst \in 1 .. created /\ z.dst = k.dst /\ rows'[k.dst] = rows[k.dst]
      <4>1. k.dst \in 1 .. created
        BY <1>1, <1>2 DEF CloneFits, IsOr
      <4>2. z.dst = k.dst
        BY <1>6
      <4> QED
        BY <1>4, <1>5, <4>1, <4>2
    <3> QED
      BY <1>2, <1>4, <3>1 DEF IsOr
  <2>2. c \in k.listed /\ z.made[c] # 0
    BY <1>2, <1>6
  <2>3. CloneFits(z, rows', n)
    BY <1>3, <1>6, <1>7, <1>8, <1>9, <1>10, <2>1, <2>2 DEF CloneFits
  <2> QED
    BY <1>5, <2>3
<1> QED
  BY <1>1, <1>5, <1>11

LEMMA CloneMakesKeeps ==
    ASSUME CatalogInv, NEW c \in clone.listed, CloneMakes(c)
    PROVE  CatalogInv'
<1>1. /\ CloneFits(clone', rows', created') /\ UNCHANGED <<secrets, saved, changes, unowned, creating>>
      /\ RowsFit(rows', created') /\ Hangs(rows') /\ Unique(rows') /\ created <= created'
      /\ \A i \in 1 .. created : Kept(rows[i], rows'[i])
      /\ \A i \in Ids : rows[i].kind # "none" => rows'[i] = rows[i]
  BY CloneMakesMoves
<1>2. /\ \A i \in saved' : i \in Ids /\ rows'[i].kind = "config"
      /\ \A i \in unowned' : i \in Ids /\ rows'[i].kind = "project"
      /\ secrets' \in [Ids -> [Keys -> Values \cup {Absent}]] /\ changes' \in 0 .. MaxChanges
  BY <1>1, RestFits
<1> QED
  BY <1>1, <1>2, RowsMove

LEMMA CopyOwnSecretsKeeps ==
    ASSUME CatalogInv, CopyOwnSecrets
    PROVE  CatalogInv'
<1> DEFINE c == clone.from
           d == clone.made[c]
<1>1. /\ clone.pc = "secrets"
      /\ \/ UNCHANGED <<secrets, saved>>
         \/ Visible(d) /\ secrets' = [secrets EXCEPT ![d] = secrets[c]] /\ saved' = saved \cup {d}
      /\ clone' = [clone EXCEPT !.pc = "copy"] /\ UNCHANGED <<rows, created, changes, unowned, creating>>
  BY DEF CopyOwnSecrets
<1>2. CloneFits(clone, rows, created) /\ CloneShape(clone)
  BY RestFits DEF CloneFits
<1>3. c \in Ids /\ CopyFits(clone, c, rows)
  BY <1>1, <1>2 DEF CloneFits, CloneShape
<1>4. CloneFits(clone', rows, created)
  BY <1>1, <1>2, PcMoves
<1>5. /\ secrets' \in [Ids -> [Keys -> Values \cup {Absent}]]
      /\ \A i \in saved' : i \in Ids /\ rows[i].kind = "config"
  <2>1. CASE UNCHANGED <<secrets, saved>>
    BY <2>1, RestFits
  <2>2. CASE Visible(d) /\ secrets' = [secrets EXCEPT ![d] = secrets[c]] /\ saved' = saved \cup {d}
    <3>1. d \in Ids /\ rows[d].kind = "config"
      BY <1>3, <2>2 DEF CopyFits, Visible, Live, Exists
    <3>2. secrets \in [Ids -> [Keys -> Values \cup {Absent}]] /\ secrets[c] \in [Keys -> Values \cup {Absent}]
      BY <1>3, RestFits
    <3>3. secrets' \in [Ids -> [Keys -> Values \cup {Absent}]]
      BY <2>2, <3>2
    <3> QED
      BY <2>2, <3>1, <3>3, RestFits
  <2> QED
    BY <1>1, <2>1, <2>2
<1>6. /\ \A i \in unowned' : i \in Ids /\ rows[i].kind = "project"
      /\ changes' \in 0 .. MaxChanges
  BY <1>1, RestFits
<1> QED
  BY <1>1, <1>4, <1>5, <1>6, RowsStay

LEMMA CloneEndsKeeps ==
    ASSUME CatalogInv, CloneDone \/ CloneFails \/ CloneStops
    PROVE  CatalogInv'
<1>1. CloneFits(clone, rows, created) /\ CloneShape(clone)
  BY RestFits DEF CloneFits
<1>2. CASE CloneDone
  <2>1. CloneFits(clone', rows, created)
    BY <1>1, <1>2, PcMoves DEF CloneDone
  <2> QED
    BY <1>2, <2>1, CloneMoves DEF CloneDone
<1>3. CASE CloneStops
  <2>1. CloneFits(clone', rows, created)
    BY <1>1, <1>3, PcMoves DEF CloneStops
  <2> QED
    BY <1>3, <2>1, CloneMoves DEF CloneStops
<1>4. CASE CloneFails
  <2>1. CloneFits(clone', rows, created)
    BY <1>1, <1>4, PcMoves DEF CloneFails
  <2>2. /\ UNCHANGED <<secrets, saved, created, changes, unowned, creating>>
        /\ \/ rows' = rows
           \/ Live(clone.dst) /\ rows' = [rows EXCEPT ![clone.dst].live = FALSE]
    BY <1>4 DEF CloneFails
  <2>3. CASE rows' = rows
    BY <2>1, <2>2, <2>3, CloneMoves
  <2>4. CASE Live(clone.dst) /\ rows' = [rows EXCEPT ![clone.dst].live = FALSE]
    <3>1. clone.dst \in Ids
      BY <2>4 DEF Live, Exists
    <3>2. /\ RowsFit(rows', created) /\ Hangs(rows') /\ Unique(rows')
          /\ \A j \in Ids : Same(rows[j], rows'[j])
      BY <2>4, <3>1, SoftDeleteMoves
    <3>3. \A j \in 1 .. created : Kept(rows[j], rows'[j])
      BY <3>2, CatalogAssumption DEF Kept, CatalogInv, RowsFit, Ids
    <3>4. CloneFits(clone', rows', created)
      BY <2>1, <3>2, <3>3, RestFits, LaterRows
    <3>5. changes' \in 0 .. MaxChanges
      BY <2>2, RestFits
    <3> QED
      BY <2>2, <3>2, <3>4, <3>5, SameRowsKeep
  <2> QED
    BY <2>2, <2>3, <2>4
<1> QED
  BY <1>2, <1>3, <1>4

LEMMA CloneKeeps ==
    ASSUME CatalogInv, Clone
    PROVE  CatalogInv'
BY CloneBeginsKeeps, CloneListsKeeps, CloneMakesKeeps, CopyOwnSecretsKeeps, CloneEndsKeeps DEF Clone

-----------------------------------------------------------------------------
(* Catalog: the tree.                                                      *)

LEMMA CatalogInitInv == CatalogInit => CatalogInv
<1> SUFFICES ASSUME CatalogInit PROVE CatalogInv
  OBVIOUS
<1> DEFINE s == HomeSlug
           t == CHOOSE x \in Slugs : x # s
           start == [i \in Ids |->
            CASE i = 1 -> Row("project", 0, s, 0) [] i = 2 -> Row("environment", 1, s, 0)
              [] i = 3 -> Row("environment", 1, t, 0) [] i = 4 -> Row("config", 2, s, 0)
              [] i = 5 -> Row("config", 3, s, 0) [] i = 6 -> Row("config", 2, t, 4) [] OTHER -> NoRow]
<1>1. PICK gone \in 0 .. 6 :
        /\ rows = [i \in Ids |-> IF i = gone THEN [start[i] EXCEPT !.live = FALSE] ELSE start[i]]
        /\ \E f, g \in [Keys -> Values], k \in Keys :
             secrets = [i \in Ids |-> CASE i = 4 -> f [] i = 5 -> [NoSecrets EXCEPT ![k] = g[k]]
                                        [] i = 6 -> [NoSecrets EXCEPT ![k] = Text] [] OTHER -> NoSecrets]
        /\ saved = {4, 5, 6} /\ created = 6 /\ changes = 0
        /\ unowned = {} /\ creating = NoCreation /\ clone = NoClone
  BY DEF CatalogInit
<1>2. s \in Slugs /\ t \in Slugs /\ t # s
  <2>1. s \in Slugs /\ \E x \in Slugs : x # s
    BY CatalogAssumption DEF HomeSlug
  <2> QED
    BY <2>1
<1>3. 1 .. 6 \subseteq Ids /\ 0 .. 6 \subseteq 0 .. MaxRows /\ MaxRows \in Nat /\ 6 \in 6 .. MaxRows
  BY CatalogAssumption DEF Ids
<1> HIDE DEF s, t
<1>4. /\ start = [i \in Ids |-> start[i]]
      /\ start[1] = Row("project", 0, s, 0) /\ start[2] = Row("environment", 1, s, 0)
      /\ start[3] = Row("environment", 1, t, 0) /\ start[4] = Row("config", 2, s, 0)
      /\ start[5] = Row("config", 3, s, 0) /\ start[6] = Row("config", 2, t, 4)
      /\ \A i \in Ids : i > 6 => start[i] = NoRow
      /\ \A i \in Ids : i \in 1 .. 6 \/ i > 6
  BY <1>3 DEF Ids
<1> HIDE DEF start
<1>5. RowsFit(start, 6) /\ Hangs(start) /\ Unique(start)
  <2>1. /\ EntryFits(start[1]) /\ start[1].kind = "project" /\ start[1].parent = 0 /\ start[1].base = 0
        /\ EntryFits(start[2]) /\ start[2].kind = "environment" /\ start[2].parent = 1
        /\ start[2].slug = s /\ start[2].base = 0
        /\ EntryFits(start[3]) /\ start[3].kind = "environment" /\ start[3].parent = 1
        /\ start[3].slug = t /\ start[3].base = 0
    BY <1>3, <1>4, RowIs
  <2>2. /\ EntryFits(start[4]) /\ start[4].kind = "config" /\ start[4].parent = 2
        /\ start[4].slug = s /\ start[4].base = 0
        /\ EntryFits(start[5]) /\ start[5].kind = "config" /\ start[5].parent = 3 /\ start[5].base = 0
        /\ EntryFits(start[6]) /\ start[6].kind = "config" /\ start[6].parent = 2
        /\ start[6].slug = t /\ start[6].base = 4
    BY <1>3, <1>4, RowIs
  <2>3. \A i \in Ids : i \in {1, 2, 3, 4, 5, 6} \/ (i > 6 /\ start[i] = NoRow)
    BY <1>4
  <2>4. RowsFit(start, 6)
    BY <1>3, <1>4, <2>1, <2>2, <2>3, NoRowFits DEF RowsFit
  <2>5. Hangs(start)
    BY <1>3, <2>1, <2>2, <2>3, NoRowFits DEF Hangs
  <2>6. Unique(start)
    BY <1>2, <2>1, <2>2, <2>3, NoRowFits DEF Unique
  <2> QED
    BY <2>4, <2>5, <2>6
<1>6. RowsFit(rows, 6) /\ Hangs(rows) /\ Unique(rows) /\ \A i \in Ids : Same(start[i], rows[i])
  <2>1. CASE gone = 0
    <3>1. \A i \in Ids : i # gone
      BY <1>3, <2>1 DEF Ids
    <3>2. rows = start
      BY <1>1, <1>4, <3>1
    <3> QED
      BY <1>5, <3>2 DEF Same
  <2>2. CASE gone # 0
    <3>1. gone \in Ids /\ gone \in {1, 2, 3, 4, 5, 6}
      BY <1>3, <2>2
    <3>2. rows = [start EXCEPT ![gone].live = FALSE]
      BY <1>1, <1>4, <3>1
    <3>3. start[gone].kind # "none" /\ FALSE \in BOOLEAN
      BY <1>3, <1>4, <3>1, RowIs
    <3> DEFINE q == [start EXCEPT ![gone].live = FALSE]
    <3>4. RowsFit(q, 6) /\ Hangs(q) /\ Unique(q) /\ \A i \in Ids : Same(start[i], q[i])
      BY <1>5, <3>1, <3>3, ChangedRow
    <3> HIDE DEF q
    <3>5. rows = q
      BY <3>2 DEF q
    <3> QED
      BY <3>4, <3>5
  <2> QED
    BY <2>1, <2>2
<1>7. secrets \in [Ids -> [Keys -> Values \cup {Absent}]]
  <2>1. PICK f \in [Keys -> Values], g \in [Keys -> Values], k \in Keys :
          secrets = [i \in Ids |-> CASE i = 4 -> f [] i = 5 -> [NoSecrets EXCEPT ![k] = g[k]]
                                     [] i = 6 -> [NoSecrets EXCEPT ![k] = Text] [] OTHER -> NoSecrets]
    BY <1>1
  <2>2. Text \in Values /\ NoSecrets \in [Keys -> Values \cup {Absent}]
    BY DEF Values, NoSecrets
  <2>3. /\ [NoSecrets EXCEPT ![k] = g[k]] \in [Keys -> Values \cup {Absent}]
        /\ [NoSecrets EXCEPT ![k] = Text] \in [Keys -> Values \cup {Absent}]
        /\ f \in [Keys -> Values \cup {Absent}]
    BY <2>2
  <2> DEFINE a == [NoSecrets EXCEPT ![k] = g[k]]
             b == [NoSecrets EXCEPT ![k] = Text]
             M == [Keys -> Values \cup {Absent}]
  <2>4. secrets = [i \in Ids |-> CASE i = 4 -> f [] i = 5 -> a [] i = 6 -> b [] OTHER -> NoSecrets]
    BY <2>1
  <2>5. a \in M /\ b \in M /\ f \in M /\ NoSecrets \in M
    BY <2>2, <2>3
  <2> HIDE DEF a, b, M
  <2>6. secrets \in [Ids -> M]
    BY <2>4, <2>5
  <2> QED
    BY <2>6 DEF M
<1>8. saved \subseteq Kind("config")
  <2>1. start[4].kind = "config" /\ start[5].kind = "config" /\ start[6].kind = "config"
    BY <1>3, <1>4, RowIs
  <2>2. {4, 5, 6} \subseteq Ids
    BY <1>3
  <2> QED
    BY <1>1, <1>6, <2>1, <2>2 DEF Kind, Same
<1>9. CloneFits(clone, rows, 6)
  <2>1. CloneShape(clone)
    BY <1>1 DEF NoClone, CloneShape
  <2>2. ~ Stuck(clone)
    BY <1>1 DEF NoClone, Stuck
  <2> QED
    BY <1>1, <2>1, <2>2 DEF NoClone, CloneFits
<1> QED
  BY <1>1, <1>3, <1>6, <1>7, <1>8, <1>9, CatalogAssumption DEF CatalogInv, CreationFits, NoCreation

LEMMA CatalogStepInv ==
    ASSUME CatalogInv, CatalogNext
    PROVE  CatalogInv'
BY HierarchyKeeps, CloneKeeps DEF CatalogNext

LEMMA TheTree == CatalogInv => TreeHolds
<1> SUFFICES ASSUME CatalogInv PROVE TreeHolds
  OBVIOUS
<1>1. CatalogTypeOK
  <2>1. created \in 0 .. MaxRows
    BY CatalogAssumption DEF CatalogInv, RowsFit
  <2>2. \A i \in Ids : rows[i].base # 0 => rows[i].base \in Ids /\ rows[rows[i].base].kind = "config"
    BY DEF CatalogInv, Hangs, RowsFit, EntryFits, Ids
  <2>3. \A i \in Ids : /\ rows[i].kind = "environment" => rows[i].parent \in Ids /\ rows[rows[i].parent].kind = "project"
                       /\ rows[i].kind = "config" => rows[i].parent \in Ids /\ rows[rows[i].parent].kind = "environment"
    BY DEF CatalogInv, Hangs
  <2> QED
    BY <2>1, <2>2, <2>3 DEF CatalogInv, CatalogTypeOK, Kind
<1>2. NamesLeadToOneRow
  <2> SUFFICES ASSUME NEW i \in 1 .. created, rows[i].live, NEW j \in 1 .. i - 1, rows[j].live,
                      [rows[i] EXCEPT !.base = 0] = [rows[j] EXCEPT !.base = 0]
               PROVE  FALSE
    BY DEF NamesLeadToOneRow
  <2>1. i \in Ids /\ j \in Ids /\ i # j
    BY CatalogAssumption DEF CatalogInv, RowsFit, Ids
  <2>2. EntryFits(rows[i]) /\ EntryFits(rows[j])
    BY <2>1 DEF CatalogInv, RowsFit
  <2>3. rows[i].kind = rows[j].kind /\ rows[i].parent = rows[j].parent /\ rows[i].slug = rows[j].slug
    <3> DEFINE a == [rows[i] EXCEPT !.base = 0]
               b == [rows[j] EXCEPT !.base = 0]
    <3>1. a.kind = rows[i].kind /\ a.parent = rows[i].parent /\ a.slug = rows[i].slug
      BY <2>2 DEF EntryFits
    <3>2. b.kind = rows[j].kind /\ b.parent = rows[j].parent /\ b.slug = rows[j].slug
      BY <2>2 DEF EntryFits
    <3> QED
      BY <3>1, <3>2
  <2> QED
    BY <2>1, <2>3 DEF CatalogInv, Unique
<1>3. InheritanceStaysHome
  BY DEF CatalogInv, Hangs, Kind, InheritanceStaysHome
<1>4. CloneKeepsTheTree
  <2> SUFFICES ASSUME clone.pc = "done", NEW c \in clone.listed
               PROVE  clone.made[c] # 0 /\ CopyFits(clone, c, rows)
    BY DEF CloneKeepsTheTree, CopyFits, Exists
  <2> QED
    BY DEF CatalogInv, CloneFits
<1> QED
  BY <1>1, <1>2, <1>3, <1>4 DEF TreeHolds

-----------------------------------------------------------------------------
(* Resolver: the inductive invariant.                                      *)

\* What is read of a config: its id, its environment and its own values.
Links == [id : Ids, env : 0 .. MaxRows, own : [Keys -> Values \cup {Absent}]]
ReadShape(r) ==
    /\ r = [pc |-> r.pc, root |-> r.root, first |-> r.first, at |-> r.at, key |-> r.key, next |-> r.next,
            chain |-> r.chain, merged |-> r.merged, from |-> r.from, stack |-> r.stack, prov |-> r.prov,
            used |-> r.used, allowed |-> r.allowed, quiet |-> r.quiet, answer |-> r.answer]
    /\ r.pc \in {"idle", "chain", "expand", "target", "done"} /\ r.prov \subseteq Ids
    /\ r.stack \in Seq(Frames) /\ Len(r.stack) <= MaxDepth
    /\ r.chain \in Seq(Links)
    /\ r.pc # "idle" => r.at \in Ids /\ r.key \in Keys
    /\ r.pc \in {"expand", "target"} => r.chain = <<>> /\ r.merged \in [Keys -> Values \cup {Absent}]

\* An environment is read because the reader had it at some time since he asked, or because
\* a base is in its branch's; ids fall from a branch to its base; and a config is used under
\* a target that is in the provenance.
Nexts(r, rs, n) ==
    r.pc = "chain" =>
        /\ r.next # 0 => /\ IsOr("config", r.next, rs, n)
                         /\ rs[r.next].kind = "config" => rs[r.next].parent \in r.allowed
        /\ \A i \in DOMAIN r.chain : r.next < r.chain[i].id
ReadFits(r, g, rs, n) ==
    /\ ReadShape(r)
    /\ r.pc # "idle" => g \subseteq r.allowed
    /\ \A i, j \in DOMAIN r.chain : i < j => r.chain[j].id < r.chain[i].id
    /\ Nexts(r, rs, n)
    /\ \A i \in DOMAIN r.chain : r.chain[i].env \in r.allowed
    /\ r.pc = "chain" /\ r.stack = <<>> => r.at = r.root
    /\ r.pc \in {"expand", "target"} => /\ r.at \in r.prov \cup {r.root}
                                        /\ \A k \in Keys : r.merged[k] # Absent => r.from[k] \in r.allowed
    /\ r.pc = "target" => r.stack # <<>> /\ r.merged[r.key] # Absent /\ r.merged[r.key].kind = "absolute"
    /\ \A u \in r.used : u.env \in r.allowed /\ u.under \in r.prov \cup {r.root}

ResolverInv == CatalogInv /\ granted \subseteq Ids /\ ReadFits(read, granted, rows, created)

-----------------------------------------------------------------------------
(* Resolver: the catalog moves under the reader.                           *)

\* A row, once it is there, is deleted, restored or destroyed, and nothing else.
LEMMA RowsComeAndGo ==
    ASSUME CatalogNext
    PROVE  \/ UNCHANGED <<rows, created>>
           \/ \E r : Insert(r)
           \/ created' = created /\ \E i \in Ids, b \in BOOLEAN : rows' = [rows EXCEPT ![i].live = b]
           \/ created' = created /\ \E i \in Ids : rows' = [rows EXCEPT ![i] = NoRow]
<1>1. TRUE \in BOOLEAN /\ FALSE \in BOOLEAN
  OBVIOUS
<1>2. CASE HierarchyStep
  BY <1>1, <1>2 DEF HierarchyStep, CreateProject, CreateEnvironment, CreateConfigChecks, SoftDelete, Undelete,
                    Destroy, SetSecrets
<1>3. CASE \E p \in unowned : SeedProjectOwnership(p)
  BY <1>3 DEF SeedProjectOwnership
<1>4. CASE CreateConfigInserts
  BY <1>4 DEF CreateConfigInserts
<1>5. CASE CloneFails
  BY <1>1, <1>5 DEF CloneFails, Live, Exists
<1>6. CASE Clone /\ ~ CloneFails
  BY <1>6 DEF Clone, CloneBegins, CloneLists, CloneMakes, CopyOwnSecrets, CloneDone, CloneStops
<1> QED
  BY <1>2, <1>3, <1>4, <1>5, <1>6 DEF CatalogNext, Manage

LEMMA RowsAreKept ==
    ASSUME CatalogInv, CatalogNext
    PROVE  created <= created' /\ \A i \in 1 .. created : Kept(rows[i], rows'[i])
<1>1. RowsFit(rows, created) /\ created \in Nat /\ \A i \in 1 .. created : i \in Ids
  BY RestFits, CatalogAssumption DEF RowsFit, Ids
<1>2. CASE UNCHANGED <<rows, created>>
  BY <1>1, <1>2 DEF Kept, Same
<1>3. ASSUME NEW r, Insert(r) PROVE created <= created' /\ \A i \in 1 .. created : rows'[i] = rows[i]
  BY <1>1, <1>3 DEF Insert, RowsFit
<1>4. ASSUME created' = created, NEW j \in Ids, NEW b \in BOOLEAN, rows' = [rows EXCEPT ![j].live = b],
             NEW i \in 1 .. created
      PROVE  Same(rows[i], rows'[i])
  <2>1. i \in Ids /\ EntryFits(rows[i])
    BY <1>1 DEF RowsFit
  <2>2. rows'[i] = rows[i] \/ rows'[i] = [rows[i] EXCEPT !.live = b]
    BY <1>1, <1>4, <2>1 DEF RowsFit
  <2> QED
    BY <2>1, <2>2 DEF Same, EntryFits
<1>5. ASSUME created' = created, NEW j \in Ids, rows' = [rows EXCEPT ![j] = NoRow], NEW i \in 1 .. created
      PROVE  Kept(rows[i], rows'[i])
  BY <1>1, <1>5 DEF RowsFit, Kept, Same
<1> QED
  BY <1>1, <1>2, <1>3, <1>4, <1>5, RowsComeAndGo DEF Kept, Same

\* What a reader has read of the rows holds when some have come and gone, whatever else he
\* has been granted since.
LEMMA ReadStands ==
    ASSUME NEW r, NEW q, NEW g, NEW h, NEW rs, NEW n, NEW ts, NEW m,
           ReadFits(r, g, rs, n), n \in Nat, m \in Nat, n <= m, \A i \in 1 .. n : Kept(rs[i], ts[i]),
           q = [pc |-> r.pc, root |-> r.root, first |-> r.first, at |-> r.at, key |-> r.key, next |-> r.next,
                chain |-> r.chain, merged |-> r.merged, from |-> r.from, stack |-> r.stack, prov |-> r.prov,
                used |-> r.used, allowed |-> q.allowed, quiet |-> q.quiet, answer |-> r.answer],
           r.allowed \subseteq q.allowed, r.pc # "idle" => h \subseteq q.allowed
    PROVE  ReadFits(q, h, ts, m)
<1>1. /\ q.pc = r.pc /\ q.root = r.root /\ q.at = r.at /\ q.key = r.key /\ q.next = r.next /\ q.chain = r.chain
      /\ q.merged = r.merged /\ q.from = r.from /\ q.stack = r.stack /\ q.prov = r.prov /\ q.used = r.used
      /\ q.first = r.first /\ q.answer = r.answer
  OBVIOUS
<1>2. ReadShape(q)
  BY <1>1 DEF ReadFits, ReadShape
<1>3. \A i \in 1 .. n : i \in 1 .. m /\ (ts[i].kind # "none" => Same(rs[i], ts[i]))
  BY NoRowFits DEF Kept
<1>4. Nexts(q, ts, m)
  BY <1>1, <1>3 DEF ReadFits, Nexts, IsOr, Same
<1> QED
  BY <1>1, <1>2, <1>4 DEF ReadFits

LEMMA ReadIs ==
    ASSUME ReadShape(read)
    PROVE  read = [pc |-> read.pc, root |-> read.root, first |-> read.first, at |-> read.at, key |-> read.key,
                   next |-> read.next, chain |-> read.chain, merged |-> read.merged, from |-> read.from,
                   stack |-> read.stack, prov |-> read.prov, used |-> read.used, allowed |-> read.allowed,
                   quiet |-> read.quiet, answer |-> read.answer]
BY DEF ReadShape

LEMMA CatalogMovesKeeps ==
    ASSUME ResolverInv, CatalogMoves
    PROVE  ResolverInv'
<1>1. /\ CatalogNext /\ read' = [read EXCEPT !.quiet = read.pc = "idle"] /\ granted' = granted
  BY DEF CatalogMoves
<1>2. CatalogInv /\ granted \subseteq Ids /\ ReadFits(read, granted, rows, created)
  BY DEF ResolverInv
<1>3. CatalogInv'
  BY <1>1, <1>2, CatalogStepInv
<1>4. created \in Nat /\ created' \in Nat /\ created <= created' /\ \A i \in 1 .. created : Kept(rows[i], rows'[i])
  <2>1. RowsFit(rows, created) /\ RowsFit(rows', created')
    BY <1>2, <1>3 DEF CatalogInv
  <2>2. created \in Nat /\ created' \in Nat
    BY <2>1 DEF RowsFit
  <2> QED
    BY <1>1, <1>2, <2>2, RowsAreKept
<1>5. ReadShape(read)
  BY <1>2 DEF ReadFits
<1>6. /\ read' = [pc |-> read.pc, root |-> read.root, first |-> read.first, at |-> read.at, key |-> read.key,
                  next |-> read.next, chain |-> read.chain, merged |-> read.merged, from |-> read.from,
                  stack |-> read.stack, prov |-> read.prov, used |-> read.used, allowed |-> read'.allowed,
                  quiet |-> read'.quiet, answer |-> read.answer]
      /\ read'.allowed = read.allowed
  BY <1>1, <1>5, ReadIs
<1>7. read.pc # "idle" => granted \subseteq read'.allowed
  BY <1>2, <1>6 DEF ReadFits
<1>8. ReadFits(read', granted, rows', created')
  BY <1>2, <1>4, <1>6, <1>7, ReadStands
<1> QED
  BY <1>1, <1>2, <1>3, <1>8 DEF ResolverInv

LEMMA GrantKeeps ==
    ASSUME ResolverInv, NEW e \in Kind("environment"), Grant(e)
    PROVE  ResolverInv'
<1>1. /\ MayChange /\ Change /\ granted' \subseteq granted \cup {e}
      /\ read' = IF read.pc = "idle" THEN read ELSE [read EXCEPT !.quiet = FALSE, !.allowed = @ \cup granted']
      /\ UNCHANGED <<rows, secrets, saved, created, unowned, creating, clone>>
  BY DEF Grant
<1>2. CatalogInv /\ granted \subseteq Ids /\ ReadFits(read, granted, rows, created) /\ created \in Nat
  BY RestFits DEF ResolverInv
<1>3. CatalogInv'
  <2>1. changes' \in 0 .. MaxChanges
    BY <1>1, <1>2, Changed
  <2> QED
    BY <1>1, <1>2, <2>1, RestFits, RowsStay
<1>4. granted' \subseteq Ids
  BY <1>1, <1>2 DEF Kind
<1>5. ReadShape(read)
  BY <1>2 DEF ReadFits
<1>6. /\ read' = [pc |-> read.pc, root |-> read.root, first |-> read.first, at |-> read.at, key |-> read.key,
                  next |-> read.next, chain |-> read.chain, merged |-> read.merged, from |-> read.from,
                  stack |-> read.stack, prov |-> read.prov, used |-> read.used, allowed |-> read'.allowed,
                  quiet |-> read'.quiet, answer |-> read.answer]
      /\ read.allowed \subseteq read'.allowed
      /\ read.pc # "idle" => granted' \subseteq read'.allowed
  BY <1>1, <1>5, ReadIs
<1>7. \A i \in 1 .. created : Kept(rows[i], rows[i])
  BY DEF Kept, Same
<1>8. ReadFits(read', granted', rows, created)
  BY <1>2, <1>6, <1>7, ReadStands
<1> QED
  BY <1>1, <1>3, <1>4, <1>8 DEF ResolverInv

-----------------------------------------------------------------------------
(* Resolver: the steps of the reader.                                      *)

\* A step of the reader keeps the invariant if what he has read still fits.
LEMMA ReaderMoves ==
    ASSUME ResolverInv, UNCHANGED <<catalogVars, granted>>, ReadFits(read', granted, rows, created)
    PROVE  ResolverInv'
<1>1. /\ rows' = rows /\ secrets' = secrets /\ saved' = saved /\ created' = created /\ changes' = changes
      /\ unowned' = unowned /\ creating' = creating /\ clone' = clone /\ granted' = granted
  BY DEF catalogVars
<1>2. CatalogInv /\ granted \subseteq Ids
  BY DEF ResolverInv
<1>3. CatalogInv'
  BY <1>1, <1>2, RestFits, RowsStay
<1> QED
  BY <1>1, <1>2, <1>3 DEF ResolverInv

LEMMA ReaderFits ==
    ASSUME ResolverInv
    PROVE  /\ ReadFits(read, granted, rows, created) /\ ReadShape(read) /\ granted \subseteq Ids
           /\ RowsFit(rows, created) /\ Hangs(rows) /\ created \in Nat
           /\ secrets \in [Ids -> [Keys -> Values \cup {Absent}]]
           /\ \A i \in Ids : rows[i].kind # "none" => i \in 1 .. created
<1>1. CatalogInv /\ granted \subseteq Ids /\ ReadFits(read, granted, rows, created)
  BY DEF ResolverInv
<1>2. ReadShape(read)
  BY <1>1 DEF ReadFits
<1> QED
  BY <1>1, <1>2, RestFits

\* An answer ends the reading and leaves what was read.
LEMMA AnswerFits ==
    ASSUME ReadFits(read, granted, rows, created), read.pc # "idle", NEW a, Answer(a)
    PROVE  ReadFits(read', granted, rows, created)
<1> DEFINE q == [pc |-> "done", root |-> read.root, first |-> read.first, at |-> read.at, key |-> read.key,
                 next |-> read.next, chain |-> read.chain, merged |-> read.merged, from |-> read.from,
                 stack |-> read.stack, prov |-> read.prov, used |-> read.used, allowed |-> read.allowed,
                 quiet |-> read.quiet, answer |-> a]
<1>1. ReadShape(read)
  BY DEF ReadFits
<1>2. read' = q
  BY <1>1, ReadIs DEF Answer
<1>3. ReadShape(q)
  BY <1>1 DEF ReadShape
<1>4. ReadFits(q, granted, rows, created)
  BY <1>3 DEF ReadFits, Nexts
<1> HIDE DEF q
<1> QED
  BY <1>2, <1>4

LEMMA NoReadFits == ReadFits(NoRead, granted, rows, created)
<1>1. NoRead.stack = <<>> /\ NoRead.chain = <<>> /\ NoRead.pc = "idle" /\ NoRead.prov = {} /\ NoRead.used = {}
  BY DEF NoRead
<1>2. <<>> \in Seq(Frames) /\ <<>> \in Seq(Links) /\ Len(<<>>) = 0 /\ DOMAIN <<>> = {}
  OBVIOUS
<1>3. ReadShape(NoRead)
  BY <1>1, <1>2, ResolverAssumption DEF NoRead, ReadShape
<1> QED
  BY <1>1, <1>2, <1>3 DEF ReadFits, Nexts

LEMMA ResolveKeyFits ==
    ASSUME ResolverInv, NEW c \in Kind("config"), NEW k \in Keys, ResolveKey(c, k)
    PROVE  ReadFits(read', granted, rows, created)
<1> DEFINE q == [pc |-> "chain", root |-> c, first |-> k, at |-> c, key |-> k, next |-> c, chain |-> <<>>,
                 merged |-> NoSecrets, from |-> [x \in Keys |-> 0], stack |-> <<>>, prov |-> {}, used |-> {},
                 allowed |-> granted, quiet |-> TRUE, answer |-> "none"]
<1>1. read' = q /\ rows[c].parent \in granted
  BY DEF ResolveKey, NoRead, MayRead
<1>2. c \in Ids /\ rows[c].kind = "config" /\ c \in 1 .. created
  BY ReaderFits DEF Kind
<1>3. <<>> \in Seq(Frames) /\ <<>> \in Seq(Links) /\ Len(<<>>) = 0 /\ DOMAIN <<>> = {}
  OBVIOUS
<1>4. ReadShape(q)
  BY <1>2, <1>3, ResolverAssumption DEF ReadShape
<1>5. Nexts(q, rows, created)
  BY <1>1, <1>2, <1>3 DEF Nexts, IsOr
<1>6. ReadFits(q, granted, rows, created)
  BY <1>3, <1>4, <1>5 DEF ReadFits
<1> HIDE DEF q
<1> QED
  BY <1>1, <1>6

\* A base has a smaller id and is in the environment of its branch.
LEMMA ReadRawByIDFits ==
    ASSUME ResolverInv, ReadRawByID
    PROVE  ReadFits(read', granted, rows, created)
<1>1. read.pc = "chain" /\ read.next # 0
  BY DEF ReadRawByID
<1>2. ReadFits(read, granted, rows, created)
  BY ReaderFits
<1>3. CASE ~ Visible(read.next)
  <2>1. \E a : Answer(a)
    BY <1>3 DEF ReadRawByID
  <2> QED
    BY <1>1, <1>2, <2>1, AnswerFits
<1>4. CASE Visible(read.next)
  <2> DEFINE i == read.next
             link == [id |-> i, env |-> rows[i].parent, own |-> secrets[i]]
             chain == Append(read.chain, link)
             q == [pc |-> "chain", root |-> read.root, first |-> read.first, at |-> read.at, key |-> read.key,
                   next |-> rows[i].base, chain |-> chain, merged |-> read.merged, from |-> read.from,
                   stack |-> read.stack, prov |-> read.prov, used |-> read.used, allowed |-> read.allowed,
                   quiet |-> read.quiet, answer |-> read.answer]
  <2>1. read' = q
    BY <1>1, <1>4, ReaderFits, ReadIs DEF ReadRawByID
  <2>2. ReadShape(read) /\ Nexts(read, rows, created)
    BY <1>2 DEF ReadFits
  <2>3. i \in Ids /\ rows[i].kind = "config" /\ rows[i].parent \in read.allowed
    <3>1. IsOr("config", i, rows, created) /\ (rows[i].kind = "config" => rows[i].parent \in read.allowed)
      BY <1>1, <2>2 DEF Nexts
    <3> QED
      BY <1>4, <3>1 DEF IsOr, Visible, Live, Exists
  <2>4. /\ rows[i].parent \in 0 .. MaxRows /\ rows[i].base \in 0 .. MaxRows
        /\ rows[i].base # 0 => /\ rows[i].base \in 1 .. created /\ rows[i].base < i
                               /\ rows[rows[i].base].kind = "config" /\ rows[rows[i].base].parent = rows[i].parent
    <3>1. EntryFits(rows[i])
      BY <2>3, ReaderFits DEF RowsFit
    <3>2. rows[i].base # 0 => /\ rows[i].base \in Ids /\ rows[i].base < i
                              /\ rows[rows[i].base].kind = "config" /\ rows[rows[i].base].parent = rows[i].parent
      BY <2>3, <3>1, ReaderFits DEF Hangs, EntryFits, Ids
    <3> QED
      BY <3>1, <3>2, ReaderFits DEF EntryFits
  <2>5. link \in Links
    BY <2>3, <2>4, ReaderFits DEF Links
  <2>6. /\ read.chain \in Seq(Links) /\ Len(read.chain) \in Nat /\ DOMAIN read.chain = 1 .. Len(read.chain)
        /\ i \in Nat /\ rows[i].base \in Nat
    BY <2>2, <2>3, <2>4, CatalogAssumption DEF ReadShape, Ids
  <2> HIDE DEF link
  <2>7. /\ chain \in Seq(Links) /\ DOMAIN chain = 1 .. Len(read.chain) + 1
        /\ chain[Len(read.chain) + 1] = link /\ \A j \in DOMAIN read.chain : chain[j] = read.chain[j]
    BY <2>5, <2>6
  <2>8. link.id = i /\ link.env = rows[i].parent
    BY DEF link
  <2> HIDE DEF i, chain
  <2>9. \A j \in DOMAIN read.chain : i < read.chain[j].id /\ read.chain[j].id \in Nat
    <3>1. \A j \in DOMAIN read.chain : read.chain[j] \in Links
      BY <2>6
    <3>2. \A j \in DOMAIN read.chain : read.chain[j].id \in Nat
      BY <3>1, CatalogAssumption DEF Links, Ids
    <3> QED
      BY <1>1, <2>2, <3>2 DEF Nexts, i
  <2>10. ReadShape(q)
    BY <1>1, <2>2, <2>7 DEF ReadShape
  <2>11. \A j, l \in DOMAIN chain : j < l => chain[l].id < chain[j].id
    <3>1. \A j, l \in DOMAIN read.chain : j < l => read.chain[l].id < read.chain[j].id
      BY <1>2 DEF ReadFits
    <3>2. \A j \in DOMAIN chain : j \in DOMAIN read.chain \/ j = Len(read.chain) + 1
      BY <2>6, <2>7
    <3> QED
      BY <2>6, <2>7, <2>8, <2>9, <3>1, <3>2
  <2>12. Nexts(q, rows, created)
    <3>1. rows[i].base < i
      BY <2>3, <2>4, <2>6 DEF Ids
    <3>2. \A j \in DOMAIN read.chain : rows[i].base < read.chain[j].id
      BY <2>6, <2>9, <3>1
    <3>3. \A j \in DOMAIN chain : j \in DOMAIN read.chain \/ j = Len(read.chain) + 1
      BY <2>6, <2>7
    <3>4. \A j \in DOMAIN chain : rows[i].base < chain[j].id
      BY <2>7, <2>8, <3>1, <3>2, <3>3
    <3> QED
      BY <2>3, <2>4, <3>4 DEF Nexts, IsOr
  <2>13. \A j \in DOMAIN chain : chain[j].env \in read.allowed
    BY <1>2, <2>3, <2>6, <2>7, <2>8 DEF ReadFits
  <2>14. ReadFits(q, granted, rows, created)
    BY <1>1, <1>2, <2>10, <2>11, <2>12, <2>13 DEF ReadFits
  <2> HIDE DEF q
  <2> QED
    BY <2>1, <2>14
<1> QED
  BY <1>3, <1>4

\* A set of numbers that is not empty has a smallest one.
LEMMA SmallestOf ==
    ASSUME NEW S, S \subseteq Nat, S # {}
    PROVE  \E m \in S : \A j \in S : m <= j
<1> DEFINE R == {ss \in Nat \X Nat : ss[1] < ss[2]}
<1>1. IsWellFoundedOn(R, Nat)
  BY NatLessThanWellFounded DEF OpToRel
<1>2. PICK m \in S : \A y \in S : ~ (<<y, m>> \in R)
  <2> HIDE DEF R
  <2> QED
    BY <1>1, WFMin
<1>3. ASSUME NEW j \in S PROVE m <= j
  <2>1. m \in Nat /\ j \in Nat /\ ~ (<<j, m>> \in R)
    BY <1>2
  <2>2. <<j, m>> \in Nat \X Nat
    BY <2>1
  <2>3. ~ (j < m)
    BY <2>1, <2>2
  <2> QED
    BY <2>1, <2>3
<1> QED
  BY <1>3

\* The nearest config that holds the key was read, and none before it holds the key.
LEMMA NearestIs ==
    ASSUME read.chain \in Seq(Links), NEW k
    PROVE  /\ Nearest(k) = 0 => \A i \in DOMAIN read.chain : read.chain[i].own[k] = Absent
           /\ Nearest(k) # 0 => /\ Nearest(k) \in DOMAIN read.chain /\ read.chain[Nearest(k)].own[k] # Absent
                                /\ \A i \in DOMAIN read.chain : read.chain[i].own[k] # Absent => Nearest(k) <= i
<1> DEFINE holders == {i \in DOMAIN read.chain : read.chain[i].own[k] # Absent}
<1>1. Nearest(k) = IF holders = {} THEN 0 ELSE CHOOSE i \in holders : \A j \in holders : i <= j
  BY DEF Nearest
<1>2. holders \subseteq Nat /\ 0 \notin holders
  OBVIOUS
<1>3. holders # {} => Nearest(k) \in holders /\ \A j \in holders : Nearest(k) <= j
  <2> HIDE DEF holders
  <2> QED
    BY <1>1, <1>2, SmallestOf
<1>4. Nearest(k) = 0 <=> holders = {}
  <2> HIDE DEF holders
  <2> QED
    BY <1>1, <1>2, <1>3
<1> QED
  BY <1>3, <1>4

LEMMA ResolveMergedFits ==
    ASSUME ResolverInv, ResolveMerged
    PROVE  ReadFits(read', granted, rows, created)
<1>1. read.pc = "chain" /\ ReadFits(read, granted, rows, created) /\ ReadShape(read)
  BY ReaderFits DEF ResolveMerged
<1>2. CASE Nearest(read.key) = 0
  <2>1. Answer("unresolved")
    BY <1>2 DEF ResolveMerged
  <2> QED
    BY <1>1, <2>1, AnswerFits
<1>3. CASE Nearest(read.key) # 0
  <2> DEFINE merged == [k \in Keys |-> IF Nearest(k) = 0 THEN Absent ELSE read.chain[Nearest(k)].own[k]]
             from == [k \in Keys |-> IF Nearest(k) = 0 THEN 0 ELSE read.chain[Nearest(k)].env]
             prov == RecordProvenance
             q == [pc |-> "expand", root |-> read.root, first |-> read.first, at |-> read.at, key |-> read.key,
                   next |-> read.next, chain |-> <<>>, merged |-> merged, from |-> from,
                   stack |-> read.stack, prov |-> prov, used |-> read.used, allowed |-> read.allowed,
                   quiet |-> read.quiet, answer |-> read.answer]
  <2>1. read' = q
    <3>1. read' = [read EXCEPT !.pc = "expand", !.chain = <<>>, !.prov = prov, !.merged = merged, !.from = from]
      BY <1>3 DEF ResolveMerged
    <3> HIDE DEF merged, from, prov
    <3> QED
      BY <1>1, <3>1, ReadIs
  <2>2. \A k \in Keys : Nearest(k) # 0 =>
          Nearest(k) \in DOMAIN read.chain /\ read.chain[Nearest(k)].own[k] # Absent
    BY <1>1, NearestIs DEF ReadShape
  <2>3. \A i \in DOMAIN read.chain : read.chain[i].own \in [Keys -> Values \cup {Absent}]
    <3>1. \A i \in DOMAIN read.chain : read.chain[i] \in Links
      BY <1>1 DEF ReadShape
    <3> QED
      BY <3>1 DEF Links
  <2>4. merged \in [Keys -> Values \cup {Absent}]
    BY <2>2, <2>3
  <2>5. \A k \in Keys : merged[k] # Absent => from[k] \in read.allowed
    BY <1>1, <2>2 DEF ReadFits
  <2>6. /\ prov \subseteq Ids /\ read.prov \subseteq prov /\ read.at \in prov \cup {read.root}
    BY <1>1 DEF RecordProvenance, ReadShape, ReadFits
  <2> HIDE DEF merged, from, prov
  <2>7. <<>> \in Seq(Links) /\ DOMAIN <<>> = {}
    OBVIOUS
  <2>8. ReadShape(q)
    BY <1>1, <2>4, <2>6, <2>7 DEF ReadShape
  <2>9. ReadFits(q, granted, rows, created)
    BY <1>1, <2>5, <2>6, <2>7, <2>8 DEF ReadFits, Nexts
  <2> HIDE DEF q
  <2> QED
    BY <2>1, <2>9
<1> QED
  BY <1>2, <1>3

\* A value leads to keys.
LEMMA ValueLeads == \A v \in Values : v.kind # "text" => v.key \in Keys /\ v.kind \in {"local", "absolute"}
BY DEF Values, Value, Text

LEMMA ExpandFits ==
    ASSUME ResolverInv, Expand
    PROVE  ReadFits(read', granted, rows, created)
<1> DEFINE v == read.merged[read.key]
           pushed == Append(read.stack, <<read.at, read.key>>)
           used == read.used \cup {[under |-> read.at, env |-> read.from[read.key]]}
<1>1. read.pc = "expand" /\ ReadFits(read, granted, rows, created) /\ ReadShape(read)
  BY ReaderFits DEF Expand
<1>2. CASE \E a : Answer(a)
  BY <1>1, <1>2, AnswerFits
<1>3. CASE v = Absent /\ read' = [read EXCEPT !.pc = "done", !.answer = "unresolved"]
  BY <1>1, <1>3, AnswerFits DEF Answer
<1>4. ASSUME Len(read.stack) < MaxDepth, v # Absent,
             NEW pc \in {"done", "expand", "target"}, NEW key \in Keys, NEW stack \in {read.stack, pushed}, NEW a,
             pc = "target" => stack = pushed /\ key = read.key /\ v.kind = "absolute",
             read' = [pc |-> pc, root |-> read.root, first |-> read.first, at |-> read.at, key |-> key,
                   next |-> read.next, chain |-> read.chain, merged |-> read.merged, from |-> read.from,
                   stack |-> stack, prov |-> read.prov, used |-> used, allowed |-> read.allowed,
                   quiet |-> read.quiet, answer |-> a]
      PROVE  ReadFits(read', granted, rows, created)
  <2> DEFINE q == [pc |-> pc, root |-> read.root, first |-> read.first, at |-> read.at, key |-> key,
                   next |-> read.next, chain |-> read.chain, merged |-> read.merged, from |-> read.from,
                   stack |-> stack, prov |-> read.prov, used |-> used, allowed |-> read.allowed,
                   quiet |-> read.quiet, answer |-> a]
  <2>1. /\ read.at \in Ids /\ read.key \in Keys /\ read.stack \in Seq(Frames) /\ Len(read.stack) \in Nat
        /\ <<read.at, read.key>> \in Frames
    BY <1>1 DEF ReadShape, Frames
  <2>2. pushed \in Seq(Frames) /\ Len(pushed) = Len(read.stack) + 1 /\ pushed # <<>>
    BY <2>1
  <2>3. stack \in Seq(Frames) /\ Len(stack) <= MaxDepth
    <3>1. Len(read.stack) + 1 <= MaxDepth /\ Len(read.stack) <= MaxDepth
      BY <1>4, <2>1, ResolverAssumption
    <3>2. CASE stack = read.stack
      BY <2>1, <3>1, <3>2
    <3>3. CASE stack = pushed
      <4> HIDE DEF pushed
      <4> QED
        BY <2>2, <3>1, <3>3
    <3> QED
      BY <1>4, <3>2, <3>3
  <2>4. \A u \in used : u.env \in read.allowed /\ u.under \in read.prov \cup {read.root}
    BY <1>1, <1>4, <2>1 DEF ReadFits
  <2> HIDE DEF used, pushed
  <2>5. ReadShape(q)
    BY <1>1, <2>1, <2>3 DEF ReadShape
  <2>6. ReadFits(q, granted, rows, created)
    BY <1>1, <1>4, <2>2, <2>4, <2>5 DEF ReadFits, Nexts
  <2>7. read' = q
    BY <1>4
  <2> HIDE DEF q
  <2> QED
    BY <2>6, <2>7
<1>5. CASE /\ Len(read.stack) < MaxDepth /\ v # Absent
           /\ read' = CASE v.kind = "text" -> [read EXCEPT !.pc = "done", !.answer = "value", !.used = used]
                        [] v.kind = "local" -> [read EXCEPT !.key = v.key, !.stack = pushed, !.used = used]
                        [] OTHER -> [read EXCEPT !.pc = "target", !.stack = pushed, !.used = used]
  <2>1. read.key \in Keys /\ v \in Values
    BY <1>1, <1>5 DEF ReadShape
  <2>2. CASE v.kind = "text"
    <3>1. read' = [read EXCEPT !.pc = "done", !.answer = "value", !.used = used]
      BY <1>5, <2>2
    <3>2. read' = [pc |-> "done", root |-> read.root, first |-> read.first, at |-> read.at, key |-> read.key,
                   next |-> read.next, chain |-> read.chain, merged |-> read.merged, from |-> read.from,
                   stack |-> read.stack, prov |-> read.prov, used |-> used, allowed |-> read.allowed,
                   quiet |-> read.quiet, answer |-> "value"]
      BY <1>1, <3>1, ReadIs
    <3> HIDE DEF used, pushed, v
    <3> QED
      BY <1>4, <1>5, <2>1, <3>2
  <2>3. CASE v.kind = "local"
    <3>1. read' = [read EXCEPT !.key = v.key, !.stack = pushed, !.used = used] /\ v.key \in Keys
      BY <1>5, <2>1, <2>3, ValueLeads
    <3>2. read' = [pc |-> "expand", root |-> read.root, first |-> read.first, at |-> read.at, key |-> v.key,
                   next |-> read.next, chain |-> read.chain, merged |-> read.merged, from |-> read.from,
                   stack |-> pushed, prov |-> read.prov, used |-> used, allowed |-> read.allowed,
                   quiet |-> read.quiet, answer |-> read.answer]
      BY <1>1, <3>1, ReadIs
    <3> HIDE DEF used, pushed, v
    <3> QED
      BY <1>4, <1>5, <3>1, <3>2
  <2>4. CASE v.kind = "absolute"
    <3>1. read' = [read EXCEPT !.pc = "target", !.stack = pushed, !.used = used]
      BY <1>5, <2>4
    <3>2. read' = [pc |-> "target", root |-> read.root, first |-> read.first, at |-> read.at, key |-> read.key,
                   next |-> read.next, chain |-> read.chain, merged |-> read.merged, from |-> read.from,
                   stack |-> pushed, prov |-> read.prov, used |-> used, allowed |-> read.allowed,
                   quiet |-> read.quiet, answer |-> read.answer]
      BY <1>1, <3>1, ReadIs
    <3> HIDE DEF used, pushed, v
    <3> QED
      BY <1>4, <1>5, <2>1, <2>4, <3>2
  <2> QED
    BY <2>1, <2>2, <2>3, <2>4, ValueLeads
<1>6. \/ \E a : Answer(a)
      \/ v = Absent /\ read' = [read EXCEPT !.pc = "done", !.answer = "unresolved"]
      \/ /\ Len(read.stack) < MaxDepth /\ v # Absent
         /\ read' = CASE v.kind = "text" -> [read EXCEPT !.pc = "done", !.answer = "value", !.used = used]
                      [] v.kind = "local" -> [read EXCEPT !.key = v.key, !.stack = pushed, !.used = used]
                      [] OTHER -> [read EXCEPT !.pc = "target", !.stack = pushed, !.used = used]
  <2> DEFINE next == CASE v = Absent -> [read EXCEPT !.pc = "done", !.answer = "unresolved"]
                       [] v.kind = "text" -> [read EXCEPT !.pc = "done", !.answer = "value", !.used = used]
                       [] v.kind = "local" -> [read EXCEPT !.key = v.key, !.stack = pushed, !.used = used]
                       [] OTHER -> [read EXCEPT !.pc = "target", !.stack = pushed, !.used = used]
             onward == CASE v.kind = "text" -> [read EXCEPT !.pc = "done", !.answer = "value", !.used = used]
                         [] v.kind = "local" -> [read EXCEPT !.key = v.key, !.stack = pushed, !.used = used]
                         [] OTHER -> [read EXCEPT !.pc = "target", !.stack = pushed, !.used = used]
  <2>1. Len(read.stack) \in Nat
    BY <1>1 DEF ReadShape
  <2>2. CASE Len(read.stack) >= MaxDepth \/ Seen
    <3>1. \E a : Answer(a)
      BY <2>1, <2>2, ResolverAssumption DEF Expand
    <3> QED
      BY <3>1
  <2>3. CASE Len(read.stack) < MaxDepth /\ ~ Seen
    <3>1. read' = next
      <4>1. ~ (Len(read.stack) >= MaxDepth)
        BY <2>1, <2>3, ResolverAssumption
      <4> QED
        BY <2>3, <4>1 DEF Expand
    <3>2. CASE v = Absent
      <4>1. next = [read EXCEPT !.pc = "done", !.answer = "unresolved"]
        <5>1. v.kind = "absent"
          BY <3>2 DEF Absent, Value
        <5> HIDE DEF v, used, pushed
        <5> QED
          BY <3>2, <5>1
      <4> QED
        BY <3>1, <3>2, <4>1
    <3>3. CASE v # Absent
      <4>1. next = onward
        <5>1. v \in Values
          BY <1>1, <3>3 DEF ReadShape
        <5>2. v.kind \in {"text", "local", "absolute"}
          BY <5>1, ValueLeads
        <5> HIDE DEF v, used, pushed
        <5> QED
          BY <3>3, <5>2
      <4> QED
        BY <2>3, <3>1, <3>3, <4>1
    <3> QED
      BY <3>2, <3>3
  <2> QED
    BY <2>1, <2>2, <2>3, ResolverAssumption
<1> QED
  BY <1>2, <1>3, <1>5, <1>6

LEMMA ResolveRefFits ==
    ASSUME ResolverInv, ResolveRef
    PROVE  ReadFits(read', granted, rows, created)
<1> DEFINE v == read.merged[read.key]
<1>1. read.pc = "target" /\ ReadFits(read, granted, rows, created) /\ ReadShape(read)
  BY ReaderFits DEF ResolveRef
<1>2. CASE \E a : Answer(a)
  BY <1>1, <1>2, AnswerFits
<1>3. ASSUME NEW c \in Found(v.coord), MayRead(rows[c].parent),
             read' = [read EXCEPT !.pc = "chain", !.at = c, !.key = v.key, !.next = c]
      PROVE  ReadFits(read', granted, rows, created)
  <2> DEFINE q == [pc |-> "chain", root |-> read.root, first |-> read.first, at |-> c, key |-> v.key, next |-> c,
                   chain |-> read.chain, merged |-> read.merged, from |-> read.from, stack |-> read.stack,
                   prov |-> read.prov, used |-> read.used, allowed |-> read.allowed, quiet |-> read.quiet,
                   answer |-> read.answer]
  <2>1. c \in Ids /\ rows[c].kind = "config" /\ c \in 1 .. created
    BY <1>3, ReaderFits DEF Found, Kind
  <2>2. rows[c].parent \in read.allowed
    BY <1>1, <1>3 DEF MayRead, ReadFits
  <2>3. v.key \in Keys
    <3>1. v \in Values /\ v.kind = "absolute"
      BY <1>1 DEF ReadShape, ReadFits
    <3> HIDE DEF v
    <3> QED
      BY <3>1, ValueLeads
  <2>4. read' = q
    BY <1>1, <1>3, ReadIs
  <2> HIDE DEF v
  <2>5. read.chain = <<>> /\ read.stack # <<>>
    BY <1>1 DEF ReadShape, ReadFits
  <2>6. ReadShape(q)
    BY <1>1, <2>1, <2>3 DEF ReadShape
  <2>7. Nexts(q, rows, created)
    BY <2>1, <2>2, <2>5 DEF Nexts, IsOr
  <2>8. ReadFits(q, granted, rows, created)
    BY <1>1, <2>5, <2>6, <2>7 DEF ReadFits
  <2> HIDE DEF q
  <2> QED
    BY <2>4, <2>8
<1> QED
  BY <1>2, <1>3 DEF ResolveRef

LEMMA ResolverInitInv == ResolverInit => ResolverInv
<1> SUFFICES ASSUME ResolverInit PROVE ResolverInv
  OBVIOUS
<1>1. CatalogInv /\ granted = {2} /\ read = NoRead
  BY CatalogInitInv DEF ResolverInit
<1>2. 2 \in Ids
  BY CatalogAssumption DEF Ids
<1> QED
  BY <1>1, <1>2, NoReadFits DEF ResolverInv

LEMMA ResolverStepInv ==
    ASSUME ResolverInv, [ResolverNext]_resolverVars
    PROVE  ResolverInv'
<1>1. ASSUME NEW c \in Kind("config"), NEW k \in Keys, ResolveKey(c, k) PROVE ResolverInv'
  BY <1>1, ResolveKeyFits, ReaderMoves DEF ResolveKey
<1>2. CASE ReadRawByID
  BY <1>2, ReadRawByIDFits, ReaderMoves DEF ReadRawByID
<1>3. CASE ResolveMerged
  BY <1>3, ResolveMergedFits, ReaderMoves DEF ResolveMerged
<1>4. CASE Expand
  BY <1>4, ExpandFits, ReaderMoves DEF Expand
<1>5. CASE ResolveRef
  BY <1>5, ResolveRefFits, ReaderMoves DEF ResolveRef
<1>6. CASE Answered
  BY <1>6, NoReadFits, ReaderMoves DEF Answered
<1>7. ASSUME NEW e \in Kind("environment"), Grant(e) PROVE ResolverInv'
  BY <1>7, GrantKeeps
<1>8. CASE CatalogMoves
  BY <1>8, CatalogMovesKeeps
<1>9. CASE UNCHANGED resolverVars
  <2>1. UNCHANGED <<catalogVars, granted>> /\ read' = read
    BY <1>9 DEF resolverVars
  <2> QED
    BY <2>1, ReaderFits, ReaderMoves
<1> QED
  BY <1>1, <1>2, <1>3, <1>4, <1>5, <1>6, <1>7, <1>8, <1>9 DEF ResolverNext

\* The tree under every reading and change of it: names lead to one live row at most, a
\* branch's base is older and in its environment, and a finished clone is the tree that was
\* listed. The partial unique indexes hold through deletes and restores, and the time
\* between CreateConfig's checks and its insert takes nothing from them.
THEOREM TreeStands == ResolverSpec => []TreeHolds
<1>1. ResolverInit => ResolverInv
  BY ResolverInitInv
<1>2. ResolverInv /\ [ResolverNext]_resolverVars => ResolverInv'
  BY ResolverStepInv
<1>3. ResolverInv => TreeHolds
  BY TheTree DEF ResolverInv
<1> QED
  BY <1>1, <1>2, <1>3, PTL DEF ResolverSpec

\* What ResolveKey shows belongs to environments its reader had a grant on at some time since
\* he asked, and every config read through a reference is one recordReveal records, however
\* the catalog and the grants change between two reads of the walk.
THEOREM RevealsAccounted == ResolverSpec => []RevealIsAccountedFor
<1>1. ResolverInit => ResolverInv
  BY ResolverInitInv
<1>2. ResolverInv /\ [ResolverNext]_resolverVars => ResolverInv'
  BY ResolverStepInv
<1>3. ResolverInv => RevealIsAccountedFor
  <2> SUFFICES ASSUME ResolverInv PROVE RevealIsAccountedFor
    OBVIOUS
  <2>1. ReadFits(read, granted, rows, created) /\ ReadShape(read) /\ granted \subseteq Ids
    BY ReaderFits
  <2>2. \A i \in DOMAIN read.stack : read.stack[i] \in Frames
    BY <2>1 DEF ReadShape
  <2>3. ASSUME NEW i \in DOMAIN read.chain, NEW j \in DOMAIN read.chain, read.chain[i].id = read.chain[j].id
        PROVE  i = j
    <3>1. read.chain \in Seq(Links) /\ read.chain[i] \in Links /\ read.chain[j] \in Links
      BY <2>1 DEF ReadShape
    <3>2. read.chain[i].id \in Ids /\ read.chain[j].id \in Ids
      BY <3>1 DEF Links
    <3>3. read.chain[i].id \in Nat /\ read.chain[j].id \in Nat
      BY <3>2, CatalogAssumption DEF Ids
    <3>4. i \in Nat /\ j \in Nat
      BY <3>1
    <3>5. /\ i < j => read.chain[j].id < read.chain[i].id
          /\ j < i => read.chain[i].id < read.chain[j].id
      BY <2>1 DEF ReadFits
    <3> QED
      BY <2>3, <3>3, <3>4, <3>5
  <2>4. ResolverTypeOK
    BY <2>1, <2>2, <2>3 DEF ResolverTypeOK, ReadShape
  <2>5. RevealStaysInScope /\ ProvenanceIsWhole
    BY <2>1 DEF ReadFits, RevealStaysInScope, ProvenanceIsWhole
  <2> QED
    BY <2>4, <2>5 DEF RevealIsAccountedFor
<1> QED
  BY <1>1, <1>2, <1>3, PTL DEF ResolverSpec
-----------------------------------------------------------------------------
(* Resolver: what a reading has found, while nothing changes.              *)

\* The frame a reference in a frame leads to.
Onward(f) ==
    LET v == Effective[f[1]][f[2]] IN IF v.kind = "local" THEN <<f[1], v.key>> ELSE <<Meant(v.coord), v.key>>
EndsAt(f) == Ends(f[1], f[2])

\* The stack is the way from the key that was asked for, without a repetition; where the last
\* frame leads is not known before its target is read.
Stacked(r) ==
    /\ r.stack # <<>> => r.stack[1] = <<r.root, r.first>>
                         /\ Readable(r.root) /\ Effective[r.root][r.first] # Absent
    /\ \A i \in 2 .. Len(r.stack) : EndsAt(r.stack[i - 1]) = "on" /\ r.stack[i] = Onward(r.stack[i - 1])
    /\ \A i, j \in 1 .. Len(r.stack) : r.stack[i] = r.stack[j] => i = j
\* ... and after it comes the frame that is being expanded.
Follows(r) ==
    IF r.stack = <<>> THEN r.at = r.root /\ r.key = r.first
    ELSE LET last == r.stack[Len(r.stack)] IN EndsAt(last) = "on" /\ <<r.at, r.key>> = Onward(last)

\* The chain read so far and the config to be read next make up what the frame's config holds.
Merging(r) ==
    /\ \A k \in Keys :
        \/ \E i \in DOMAIN r.chain : /\ r.chain[i].own[k] # Absent /\ Effective[r.at][k] = r.chain[i].own[k]
                                     /\ \A j \in 1 .. i - 1 : r.chain[j].own[k] = Absent
        \/ /\ \A i \in DOMAIN r.chain : r.chain[i].own[k] = Absent
           /\ Effective[r.at][k] = IF r.next = 0 THEN Absent ELSE Effective[r.next][k]
    /\ Readable(r.at) <=> (r.next = 0 \/ Readable(r.next))
    /\ IF r.chain = <<>> THEN r.next = r.at ELSE Visible(r.at)
\* The config that is read is the one asked for or a reference's target.
Targeted(r) ==
    IF r.stack = <<>> THEN r.at = r.root /\ r.key = r.first
    ELSE LET last == r.stack[Len(r.stack)]
             v == Effective[last[1]][last[2]]
         IN /\ v # Absent /\ v.kind = "absolute" /\ Found(v.coord) # {}
            /\ r.at = Meant(v.coord) /\ r.key = v.key
            /\ MayRead(rows[r.at].parent) /\ Visible(r.at)

Answers(r) ==
    LET n == Len(r.stack) IN
    IF n = 0 /\ ~Readable(r.root) THEN r.answer = IF Visible(r.root) THEN "broken" ELSE "missing"
    ELSE IF n = 0 /\ Effective[r.root][r.first] = Absent THEN r.answer = "unresolved"
    ELSE \/ n > 0 /\ EndsAt(r.stack[n]) # "on" /\ r.answer = EndsAt(r.stack[n])
         \/ /\ Follows(r)
            /\ IF n >= MaxDepth THEN r.answer = "depth"
               ELSE IF \E i \in 1 .. n : r.stack[i] = <<r.at, r.key>> THEN r.answer = "cycle"
               ELSE Ends(r.at, r.key) # "on" /\ r.answer = Ends(r.at, r.key)

Tells(r) ==
    r.quiet /\ r.pc # "idle" =>
        /\ r.root \in Ids /\ r.first \in Keys /\ Stacked(r)
        /\ r.pc = "chain" => Targeted(r) /\ Merging(r)
        /\ r.pc \in {"expand", "target"} => Readable(r.at) /\ r.merged = Effective[r.at]
        /\ r.pc = "expand" => Follows(r) /\ (r.stack = <<>> => Readable(r.root) /\ r.merged[r.key] # Absent)
        /\ r.pc = "target" => r.stack[Len(r.stack)] = <<r.at, r.key>>
        /\ r.pc = "done" => Answers(r)

AnswerInv == ResolverInv /\ Tells(read)

-----------------------------------------------------------------------------
(* Resolver: recursive functions.                                          *)

\* A recursion that descends has a solution: where b leads down, the value is made from the
\* value there.
Recurs(f, n, b, A, G) == \A c \in 1 .. n : f[c] = IF b[c] = 0 THEN A[c] ELSE G[<<c, f[b[c]]>>]
LEMMA RecursionHasASolution ==
    ASSUME NEW N \in Nat, NEW S, NEW b \in [1 .. N -> Nat], \A c \in 1 .. N : b[c] < c,
           NEW A \in [1 .. N -> S], NEW G \in [(1 .. N) \X S -> S]
    PROVE  \E f \in [1 .. N -> S] : Recurs(f, N, b, A, G)
<1> DEFINE Solves(f, n) == f \in [1 .. n -> S]
                           /\ \A c \in 1 .. n : f[c] = IF b[c] = 0 THEN A[c] ELSE G[<<c, f[b[c]]>>]
           B == {n \in 0 .. N : ~ \E f : Solves(f, n)}
<1>1. \A n \in 0 .. N : \A f : Solves(f, n) => f \in [1 .. n -> S] /\ Recurs(f, n, b, A, G)
  BY DEF Recurs
<1>2. CASE B = {}
  <2>1. N \in 0 .. N
    OBVIOUS
  <2>2. \E f : Solves(f, N)
    <3> HIDE DEF Solves
    <3> QED
      BY <1>2, <2>1
  <2> HIDE DEF Solves
  <2> QED
    BY <1>1, <2>1, <2>2
<1>3. CASE B # {}
  <2>1. PICK n \in B : \A m \in B : n <= m
    <3>1. B \subseteq Nat
      OBVIOUS
    <3> HIDE DEF B
    <3> QED
      BY <1>3, <3>1, SmallestOf
  <2>2. n # 0
    <3>1. Solves([c \in 1 .. 0 |-> A[c]], 0)
      OBVIOUS
    <3> HIDE DEF Solves
    <3> QED
      BY <3>1
  <2>3. n \in 1 .. N /\ n - 1 \in 0 .. N /\ n - 1 \notin B
    <3>1. n \in 0 .. N
      BY <2>1
    <3>2. ~ (n <= n - 1)
      BY <3>1
    <3> HIDE DEF B
    <3> QED
      BY <2>1, <2>2, <3>1, <3>2
  <2>4. PICK f : Solves(f, n - 1)
    <3> HIDE DEF Solves
    <3> QED
      BY <2>3
  <2> DEFINE x == IF b[n] = 0 THEN A[n] ELSE G[<<n, f[b[n]]>>]
             h == [c \in 1 .. n |-> IF c = n THEN x ELSE f[c]]
  <2>5. x \in S
    <3>1. CASE b[n] = 0
      BY <2>3, <3>1
    <3>2. CASE b[n] # 0
      <4>1. b[n] \in 1 .. n - 1
        BY <2>3, <3>2
      <4> QED
        BY <2>3, <2>4, <3>2, <4>1
    <3> QED
      BY <3>1, <3>2
  <2>6. \A c \in 1 .. n - 1 : h[c] = f[c] /\ f[c] \in S
    BY <2>3, <2>4
  <2>7. h[n] = x
    BY <2>3
  <2>8. h \in [1 .. n -> S]
    <3>1. ASSUME NEW c \in 1 .. n PROVE (IF c = n THEN x ELSE f[c]) \in S
      <4>1. c # n => c \in 1 .. n - 1
        BY <2>3
      <4> HIDE DEF x, h
      <4> QED
        BY <2>5, <2>6, <4>1
    <3> HIDE DEF x
    <3> QED
      BY <3>1
  <2>9. ASSUME NEW c \in 1 .. n PROVE h[c] = IF b[c] = 0 THEN A[c] ELSE G[<<c, h[b[c]]>>]
    <3>1. b[c] # 0 => b[c] \in 1 .. n - 1
      BY <2>3
    <3>2. CASE c = n
      <4> HIDE DEF h
      <4> QED
        BY <2>6, <2>7, <3>1, <3>2
    <3>3. CASE c # n
      <4>1. c \in 1 .. n - 1
        BY <2>3, <3>3
      <4> HIDE DEF h, x
      <4> QED
        BY <2>4, <2>6, <3>1, <4>1
    <3> QED
      BY <3>2, <3>3
  <2>10. Solves(h, n)
    <3> HIDE DEF h
    <3> QED
      BY <2>8, <2>9
  <2>11. \E k : Solves(k, n)
    <3> HIDE DEF Solves, h
    <3> QED
      BY <2>10
  <2> QED
    BY <2>1, <2>11
<1> QED
  BY <1>2, <1>3

\* Bases lead down, so that the values under inheritance are what their definition says.
LEMMA BasesLeadDown ==
    ASSUME CatalogInv
    PROVE  \A c \in Ids : rows[c].base \in Nat /\ rows[c].base < c /\ (rows[c].base # 0 => rows[c].base \in Ids)
BY RestFits, CatalogAssumption DEF Hangs, RowsFit, EntryFits, Ids

LEMMA EffectiveIs ==
    ASSUME CatalogInv
    PROVE  /\ Effective \in [Ids -> [Keys -> Values \cup {Absent}]]
           /\ \A c \in Ids, k \in Keys : Effective[c][k] =
                IF secrets[c][k] # Absent \/ rows[c].base = 0 THEN secrets[c][k] ELSE Effective[rows[c].base][k]
<1> DEFINE S == [Keys -> Values \cup {Absent}]
           Own(c, k) == secrets[c][k] # Absent
           b == [c \in 1 .. MaxRows |-> rows[c].base]
           G == [p \in (1 .. MaxRows) \X S |-> [k \in Keys |-> IF Own(p[1], k) THEN secrets[p[1]][k] ELSE p[2][k]]]
           eff(f) == [c \in Ids |-> [k \in Keys |-> IF secrets[c][k] # Absent \/ rows[c].base = 0 THEN secrets[c][k]
                                                    ELSE f[rows[c].base][k]]]
<1>1. MaxRows \in Nat /\ Ids = 1 .. MaxRows
  BY CatalogAssumption DEF Ids
<1>2. b \in [1 .. MaxRows -> Nat] /\ \A c \in 1 .. MaxRows : b[c] < c
  BY <1>1, BasesLeadDown
<1>3. secrets \in [1 .. MaxRows -> S]
  BY <1>1, RestFits
<1>4. G \in [(1 .. MaxRows) \X S -> S]
  <2> HIDE DEF b
  <2> SUFFICES ASSUME NEW p \in (1 .. MaxRows) \X S
               PROVE  [k \in Keys |-> IF Own(p[1], k) THEN secrets[p[1]][k] ELSE p[2][k]] \in S
    OBVIOUS
  <2>1. secrets[p[1]] \in S /\ p[2] \in S
    <3> HIDE DEF S
    <3> QED
      BY <1>3
  <2>2. \A k \in Keys : secrets[p[1]][k] \in Values \cup {Absent} /\ p[2][k] \in Values \cup {Absent}
    BY <2>1
  <2> HIDE DEF Own
  <2> QED
    BY <2>2
<1>5. PICK f \in [1 .. MaxRows -> S] : Recurs(f, MaxRows, b, secrets, G)
  <2>1. MaxRows \in Nat /\ (\A c \in 1 .. MaxRows : b[c] < c) /\ b \in [1 .. MaxRows -> Nat]
    BY <1>1, <1>2
  <2> HIDE DEF b, G, S
  <2> QED
    BY <1>3, <1>4, <2>1, RecursionHasASolution, Zenon
<1>6. \A c \in 1 .. MaxRows : f[c] = IF b[c] = 0 THEN secrets[c] ELSE G[<<c, f[b[c]]>>]
  BY <1>5 DEF Recurs
<1>7. ASSUME NEW c \in Ids
      PROVE  f[c] = [k \in Keys |-> IF secrets[c][k] # Absent \/ rows[c].base = 0 THEN secrets[c][k]
                                    ELSE f[rows[c].base][k]]
  <2>1. secrets[c] = [k \in Keys |-> secrets[c][k]]
    BY <1>1, <1>3
  <2>2. CASE rows[c].base = 0
    BY <1>1, <1>6, <2>1, <2>2
  <2>3. CASE rows[c].base # 0
    <3>1. rows[c].base \in Ids
      BY <2>3, BasesLeadDown
    <3>2. f[rows[c].base] \in S
      BY <1>1, <1>5, <3>1
    <3>3. f[c] = G[<<c, f[rows[c].base]>>]
      BY <1>1, <1>6, <2>3
    <3>4. f[c] = [k \in Keys |-> IF Own(c, k) THEN secrets[c][k] ELSE f[rows[c].base][k]]
      BY <1>1, <3>2, <3>3
    <3> QED
      BY <2>3, <3>4
  <2> QED
    BY <2>2, <2>3
<1>8. f = eff(f)
  <2>1. f = [c \in Ids |-> f[c]]
    BY <1>1, <1>5
  <2> QED
    BY <1>7, <2>1
<1>9. Effective = eff(Effective)
  <2>1. Effective = CHOOSE g : g = eff(g)
    BY DEF Effective
  <2> HIDE DEF eff
  <2> QED
    BY <1>8, <2>1
<1>10. Effective \in [Ids -> S]
  <2> SUFFICES ASSUME NEW c \in Ids PROVE Effective[c] \in S
    BY <1>9
  <2> DEFINE B == {x \in Ids : Effective[x] \notin S}
  <2>1. CASE B = {}
    BY <2>1
  <2>2. CASE B # {}
    <3>1. PICK n \in B : \A m \in B : n <= m
      <4>1. B \subseteq Nat
        BY <1>1
      <4> HIDE DEF B
      <4> QED
        BY <2>2, <4>1, SmallestOf
    <3>2. rows[n].base # 0 => rows[n].base \in Ids /\ rows[n].base < n
      BY BasesLeadDown
    <3>3. rows[n].base # 0 => Effective[rows[n].base] \in S
      BY <1>1, <3>1, <3>2
    <3>4. Effective[n] = [k \in Keys |-> IF secrets[n][k] # Absent \/ rows[n].base = 0 THEN secrets[n][k]
                                         ELSE Effective[rows[n].base][k]]
      BY <1>9
    <3>5. secrets[n] \in S
      BY <1>1, <1>3
    <3>6. Effective[n] \in S
      BY <3>3, <3>4, <3>5
    <3> QED
      BY <3>1, <3>6
  <2> QED
    BY <2>1, <2>2
<1> QED
  BY <1>9, <1>10

LEMMA AncestryIs ==
    ASSUME CatalogInv
    PROVE  \A c \in Ids : Ancestry[c] = {c} \cup IF rows[c].base = 0 THEN {} ELSE Ancestry[rows[c].base]
<1> DEFINE S == SUBSET Ids
           b == [c \in 1 .. MaxRows |-> rows[c].base]
           A == [c \in 1 .. MaxRows |-> {c}]
           G == [p \in (1 .. MaxRows) \X S |-> {p[1]} \cup p[2]]
           anc(f) == [c \in Ids |-> {c} \cup IF rows[c].base = 0 THEN {} ELSE f[rows[c].base]]
<1>1. MaxRows \in Nat /\ Ids = 1 .. MaxRows
  BY CatalogAssumption DEF Ids
<1>2. b \in [1 .. MaxRows -> Nat] /\ \A c \in 1 .. MaxRows : b[c] < c
  BY <1>1, BasesLeadDown
<1>3. A \in [1 .. MaxRows -> S] /\ G \in [(1 .. MaxRows) \X S -> S]
  BY <1>1
<1>4. PICK f \in [1 .. MaxRows -> S] : Recurs(f, MaxRows, b, A, G)
  <2>1. MaxRows \in Nat /\ (\A c \in 1 .. MaxRows : b[c] < c) /\ b \in [1 .. MaxRows -> Nat]
    BY <1>1, <1>2
  <2>2. A \in [1 .. MaxRows -> S] /\ G \in [(1 .. MaxRows) \X S -> S]
    BY <1>3
  <2> HIDE DEF b, A, G, S
  <2> QED
    BY <2>1, <2>2, RecursionHasASolution, Zenon
<1>5. \A c \in 1 .. MaxRows : f[c] = IF b[c] = 0 THEN A[c] ELSE G[<<c, f[b[c]]>>]
  BY <1>4 DEF Recurs
<1>6. ASSUME NEW c \in Ids PROVE f[c] = {c} \cup IF rows[c].base = 0 THEN {} ELSE f[rows[c].base]
  <2>1. CASE rows[c].base = 0
    BY <1>1, <1>5, <2>1
  <2>2. CASE rows[c].base # 0
    <3>1. rows[c].base \in Ids
      BY <2>2, BasesLeadDown
    <3>2. f[rows[c].base] \in S
      BY <1>1, <1>4, <3>1
    <3>3. f[c] = G[<<c, f[rows[c].base]>>]
      BY <1>1, <1>5, <2>2
    <3> QED
      BY <1>1, <2>2, <3>2, <3>3
  <2> QED
    BY <2>1, <2>2
<1>7. f = anc(f)
  <2>1. f = [c \in Ids |-> f[c]]
    BY <1>1, <1>4
  <2> QED
    BY <1>6, <2>1
<1>8. Ancestry = anc(Ancestry)
  <2>1. Ancestry = CHOOSE g : g = anc(g)
    BY DEF Ancestry
  <2> HIDE DEF anc
  <2> QED
    BY <1>7, <2>1
<1> QED
  BY <1>8

\* A config is readable if it is visible and its base, where it has one, is readable.
LEMMA ReadableIs ==
    ASSUME CatalogInv, NEW c \in Ids
    PROVE  Readable(c) <=> Visible(c) /\ (rows[c].base = 0 \/ Readable(rows[c].base))
<1>1. Ancestry[c] = {c} \cup IF rows[c].base = 0 THEN {} ELSE Ancestry[rows[c].base]
  BY AncestryIs
<1> QED
  BY <1>1 DEF Readable

\* Names lead to one config at most.
LEMMA FoundIsMeant ==
    ASSUME CatalogInv, NEW coord, NEW c \in Found(coord)
    PROVE  /\ c = Meant(coord) /\ c \in Ids /\ rows[c].kind = "config" /\ Visible(c)
<1>1. RowsFit(rows, created) /\ Hangs(rows) /\ Unique(rows)
  BY DEF CatalogInv
<1>2. ASSUME NEW x \in Found(coord)
      PROVE  LET e == rows[x].parent p == rows[e].parent IN
             /\ x \in Ids /\ rows[x].kind = "config" /\ rows[x].live /\ rows[x].slug = coord[2] /\ Visible(x)
             /\ e \in Ids /\ rows[e].kind = "environment" /\ rows[e].live /\ rows[e].slug = coord[1]
             /\ p \in Ids /\ rows[p].kind = "project" /\ rows[p].live /\ rows[p].slug = HomeSlug /\ rows[p].parent = 0
  <2>1. x \in Ids /\ rows[x].kind = "config" /\ Visible(x)
    BY <1>2 DEF Found, Kind
  <2>2. rows[x].parent \in Ids /\ rows[rows[x].parent].kind = "environment"
    BY <1>1, <2>1 DEF Hangs
  <2>3. rows[rows[x].parent].parent \in Ids /\ rows[rows[rows[x].parent].parent].kind = "project"
        /\ rows[rows[rows[x].parent].parent].parent = 0
    BY <1>1, <2>2 DEF Hangs
  <2>4. rows[x].live /\ rows[rows[x].parent].live /\ rows[rows[rows[x].parent].parent].live
    BY <2>1 DEF Visible, Live
  <2>5. rows[x].slug = coord[2] /\ rows[rows[x].parent].slug = coord[1]
        /\ rows[rows[rows[x].parent].parent].slug = HomeSlug
    BY <1>2 DEF Found
  <2> QED
    BY <2>1, <2>2, <2>3, <2>4, <2>5
<1>3. ASSUME NEW x \in Found(coord) PROVE x = c
  <2>1. rows[rows[x].parent].parent = rows[rows[c].parent].parent
    BY <1>1, <1>2 DEF Unique
  <2>2. rows[x].parent = rows[c].parent
    BY <1>1, <1>2, <2>1 DEF Unique
  <2> QED
    BY <1>1, <1>2, <2>2 DEF Unique
<1>4. Meant(coord) \in Found(coord)
  BY DEF Meant
<1> QED
  BY <1>2, <1>3, <1>4

\* Where a way goes on, it goes on to a frame.
LEMMA OnwardIsAFrame ==
    ASSUME CatalogInv, NEW f \in Frames, EndsAt(f) = "on"
    PROVE  Onward(f) \in Frames
<1> DEFINE v == Effective[f[1]][f[2]]
<1>1. f[1] \in Ids /\ f[2] \in Keys /\ v \in Values \cup {Absent}
  BY EffectiveIs DEF Frames
<1>2. EndsAt(f) = CASE v = Absent -> "unresolved"
      [] v.kind = "text" -> "value"
      [] v.kind = "local" -> "on"
      [] OTHER -> IF Found(v.coord) = {} THEN "unresolved"
                  ELSE IF ~MayRead(rows[Meant(v.coord)].parent) THEN "forbidden"
                  ELSE IF ~Readable(Meant(v.coord)) THEN "broken"
                  ELSE IF Effective[Meant(v.coord)][v.key] = Absent THEN "unresolved" ELSE "on"
  BY DEF EndsAt, Ends
<1>3. Onward(f) = IF v.kind = "local" THEN <<f[1], v.key>> ELSE <<Meant(v.coord), v.key>>
  BY DEF Onward
<1> HIDE DEF v
<1>4. v # Absent
  <2>1. Absent.kind = "absent"
    BY DEF Absent, Value
  <2> SUFFICES ASSUME v = Absent PROVE FALSE
    OBVIOUS
  <2>2. EndsAt(f) = "unresolved"
    BY <1>2, <2>1
  <2> QED
    BY <2>2
<1>5. v \in Values /\ v.kind # "text"
  <2>1. v.kind = "text" => EndsAt(f) = "value"
    BY <1>2, <1>4
  <2> QED
    BY <1>1, <1>4, <2>1
<1>6. v.key \in Keys /\ v.kind \in {"local", "absolute"}
  BY <1>5, ValueLeads
<1>7. CASE v.kind = "local"
  BY <1>1, <1>3, <1>6, <1>7 DEF Frames
<1>8. CASE v.kind = "absolute"
  <2>1. Found(v.coord) # {}
    <3> SUFFICES ASSUME Found(v.coord) = {} PROVE FALSE
      OBVIOUS
    <3>1. EndsAt(f) = "unresolved"
      BY <1>2, <1>4, <1>8
    <3> QED
      BY <3>1
  <2>2. PICK c : c \in Found(v.coord)
    BY <2>1
  <2>3. Meant(v.coord) \in Ids
    BY <2>2, FoundIsMeant
  <2> QED
    BY <1>3, <1>6, <1>8, <2>3 DEF Frames
<1> QED
  BY <1>6, <1>7, <1>8

\* The way from a key, frame by frame.
LEMMA WayIs ==
    ASSUME CatalogInv, NEW c \in Ids, NEW k \in Keys
    PROVE  /\ Way(c, k)[0] = <<c, k>>
           /\ \A n \in 1 .. MaxDepth :
                Way(c, k)[n] = IF EndsAt(Way(c, k)[n - 1]) # "on" THEN Way(c, k)[n - 1] ELSE Onward(Way(c, k)[n - 1])
<1> DEFINE N == MaxDepth + 1
           b == [n \in 1 .. N |-> n - 1]
           A == [n \in 1 .. N |-> <<c, k>>]
           To(f) == IF EndsAt(f) # "on" THEN f ELSE Onward(f)
           G == [p \in (1 .. N) \X Frames |-> To(p[2])]
           way(g) == [n \in 0 .. MaxDepth |-> IF n = 0 THEN <<c, k>> ELSE To(g[n - 1])]
<1>1. N \in Nat /\ MaxDepth \in Nat
  BY ResolverAssumption
<1>2. b \in [1 .. N -> Nat] /\ \A n \in 1 .. N : b[n] < n
  BY <1>1
<1>3. A \in [1 .. N -> Frames]
  BY DEF Frames
<1>4. G \in [(1 .. N) \X Frames -> Frames]
  <2>1. \A f \in Frames : To(f) \in Frames
    BY OnwardIsAFrame
  <2> HIDE DEF To, N
  <2> QED
    BY <2>1
<1>5. PICK g \in [1 .. N -> Frames] : Recurs(g, N, b, A, G)
  <2>1. \A n \in 1 .. N : b[n] < n
    BY <1>2
  <2>2. b \in [1 .. N -> Nat] /\ N \in Nat
    BY <1>1, <1>2
  <2> HIDE DEF N, b, A, G
  <2> QED
    BY <1>3, <1>4, <2>1, <2>2, RecursionHasASolution, Zenon
<1>6. \A n \in 1 .. N : g[n] = IF b[n] = 0 THEN A[n] ELSE G[<<n, g[b[n]]>>]
  BY <1>5 DEF Recurs
<1> DEFINE h == [n \in 0 .. MaxDepth |-> g[n + 1]]
<1>7. ASSUME NEW n \in 0 .. MaxDepth PROVE h[n] = IF n = 0 THEN <<c, k>> ELSE To(h[n - 1])
  <2>1. n \in Nat /\ n + 1 \in 1 .. N /\ b[n + 1] = n
    BY <1>1
  <2>2. CASE n = 0
    BY <1>6, <2>1, <2>2
  <2>3. CASE n # 0
    <3>1. n \in 1 .. N /\ n - 1 \in 0 .. MaxDepth /\ h[n - 1] = g[n]
      BY <1>1, <2>1, <2>3
    <3>2. g[n] \in Frames
      BY <1>5, <3>1
    <3>3. g[n + 1] = G[<<n + 1, g[n]>>]
      BY <1>6, <2>1, <2>3
    <3>4. G[<<n + 1, g[n]>>] = To(g[n])
      <4> HIDE DEF To, N
      <4> QED
        BY <2>1, <3>2
    <3> HIDE DEF To, G
    <3> QED
      BY <2>3, <3>1, <3>3, <3>4
  <2> QED
    BY <2>2, <2>3
<1>8. h = way(h)
  <2> HIDE DEF To
  <2> QED
    BY <1>7
<1>9. Way(c, k) = way(Way(c, k))
  <2>1. Way(c, k) = CHOOSE f : f = way(f)
    BY DEF Way, EndsAt, Onward
  <2> HIDE DEF way
  <2> QED
    BY <1>8, <2>1
<1>10. \A n \in 0 .. MaxDepth : Way(c, k)[n] = IF n = 0 THEN <<c, k>> ELSE To(Way(c, k)[n - 1])
  <2> HIDE DEF To
  <2> QED
    BY <1>9
<1>11. 0 \in 0 .. MaxDepth /\ \A n \in 1 .. MaxDepth : n \in 0 .. MaxDepth /\ n # 0
  BY <1>1
<1> HIDE DEF To
<1>12. \A n \in 1 .. MaxDepth : Way(c, k)[n] = To(Way(c, k)[n - 1])
  BY <1>10, <1>11
<1> QED
  BY <1>10, <1>11, <1>12 DEF To

\* What a finished reading tells is what the catalog means.
LEMMA AnswersTell ==
    ASSUME ResolverInv, Tells(read), read.pc = "done", read.quiet
    PROVE  read.answer = Truth(read.root, read.first)
<1> DEFINE n == Len(read.stack)
           W == Way(read.root, read.first)
           ended(m) == Ends(W[m][1], W[m][2]) # "on"
           again(m) == \E j \in 0 .. m - 1 : W[j] = W[m]
           stops == {m \in 0 .. MaxDepth : m = MaxDepth \/ ended(m) \/ again(m)}
           stop == CHOOSE m \in stops : \A j \in stops : m <= j
<1>1. /\ CatalogInv /\ read.stack \in Seq(Frames) /\ n \in Nat /\ n <= MaxDepth
      /\ read.root \in Ids /\ read.first \in Keys /\ Stacked(read) /\ Answers(read) /\ MaxDepth \in Nat
  BY ReaderFits, ResolverAssumption DEF ResolverInv, ReadShape, Tells
<1>2. CASE ~ (Readable(read.root) /\ Effective[read.root][read.first] # Absent)
  <2>1. read.stack = <<>> /\ n = 0
    BY <1>1, <1>2 DEF Stacked
  <2>2. CASE ~ Readable(read.root)
    <3>1. read.answer = IF Visible(read.root) THEN "broken" ELSE "missing"
      BY <1>1, <2>1, <2>2 DEF Answers
    <3> QED
      BY <2>2, <3>1 DEF Truth
  <2>3. CASE Readable(read.root) /\ Effective[read.root][read.first] = Absent
    <3>1. read.answer = "unresolved"
      BY <1>1, <2>1, <2>3 DEF Answers
    <3> QED
      BY <2>3, <3>1 DEF Truth
  <2> QED
    BY <1>2, <2>2, <2>3
<1>3. CASE Readable(read.root) /\ Effective[read.root][read.first] # Absent
  <2>1. Truth(read.root, read.first) = IF stop = MaxDepth THEN "depth" ELSE IF again(stop) THEN "cycle"
                                       ELSE Ends(W[stop][1], W[stop][2])
    BY <1>3 DEF Truth
  <2>2. /\ W[0] = <<read.root, read.first>>
        /\ \A m \in 1 .. MaxDepth : W[m] = IF EndsAt(W[m - 1]) # "on" THEN W[m - 1] ELSE Onward(W[m - 1])
    BY <1>1, WayIs
  <2>3. \A m \in Nat : Ends(W[m][1], W[m][2]) = EndsAt(W[m])
    BY DEF EndsAt
  <2> HIDE DEF W
  <2>4. /\ n > 0 => read.stack[1] = <<read.root, read.first>>
        /\ \A i \in 2 .. n : EndsAt(read.stack[i - 1]) = "on" /\ read.stack[i] = Onward(read.stack[i - 1])
        /\ \A i, j \in 1 .. n : read.stack[i] = read.stack[j] => i = j
    BY <1>1 DEF Stacked
  \* The stack is the beginning of the way.
  <2>5. \A i \in 1 .. n : W[i - 1] = read.stack[i]
    <3> DEFINE B == {i \in 1 .. n : W[i - 1] # read.stack[i]}
    <3>1. CASE B # {}
      <4>1. PICK i \in B : \A j \in B : i <= j
        <5>1. B \subseteq Nat
          OBVIOUS
        <5> HIDE DEF B
        <5> QED
          BY <3>1, <5>1, SmallestOf
      <4>2. i \in 1 .. n /\ i # 1
        <5>1. i \in 1 .. n /\ W[i - 1] # read.stack[i]
          BY <4>1
        <5>2. i = 1 => n > 0 /\ i - 1 = 0
          BY <1>1, <5>1
        <5> QED
          BY <2>2, <2>4, <5>1, <5>2
      <4>3. i - 1 \in 1 .. n /\ i - 1 \notin B
        <5>1. i \in Nat /\ i - 1 \in 1 .. n /\ ~ (i <= i - 1)
          BY <1>1, <4>2
        <5> HIDE DEF B
        <5> QED
          BY <4>1, <5>1
      <4>4. W[i - 2] = read.stack[i - 1]
        BY <1>1, <4>2, <4>3
      <4>5. i \in 2 .. n /\ i - 1 \in 1 .. MaxDepth /\ (i - 1) - 1 = i - 2
        BY <1>1, <4>2
      <4>6. W[i - 1] = Onward(read.stack[i - 1])
        BY <2>2, <2>4, <4>4, <4>5
      <4> QED
        BY <2>4, <4>1, <4>5, <4>6
    <3> QED
      BY <3>1
  <2>6. \A m \in 0 .. n - 1 : W[m] = read.stack[m + 1]
    <3>1. \A m \in 0 .. n - 1 : m + 1 \in 1 .. n /\ (m + 1) - 1 = m
      BY <1>1
    <3> QED
      BY <2>5, <3>1
  <2>7. \A m \in 0 .. n - 1 : ~ again(m)
    <3> SUFFICES ASSUME NEW m \in 0 .. n - 1, NEW j \in 0 .. m - 1, W[j] = W[m] PROVE FALSE
      OBVIOUS
    <3>1. j \in 0 .. n - 1 /\ j # m /\ m + 1 \in 1 .. n /\ j + 1 \in 1 .. n /\ j + 1 # m + 1
      BY <1>1
    <3>2. W[j] = read.stack[j + 1] /\ W[m] = read.stack[m + 1]
      BY <2>6, <3>1
    <3> QED
      BY <2>4, <3>1, <3>2
  <2>8. \A m \in 0 .. n - 2 : ~ ended(m)
    <3> SUFFICES ASSUME NEW m \in 0 .. n - 2 PROVE ~ ended(m)
      OBVIOUS
    <3>1. m \in 0 .. n - 1 /\ m + 2 \in 2 .. n /\ (m + 2) - 1 = m + 1 /\ m \in Nat
      BY <1>1
    <3>2. EndsAt(read.stack[m + 1]) = "on"
      BY <2>4, <3>1
    <3> QED
      BY <2>3, <2>6, <3>1, <3>2
  <2>9. ASSUME NEW s \in stops, \A m \in 0 .. s - 1 : m \notin stops PROVE stop = s
    <3>1. \A j \in stops : s <= j
      <4> SUFFICES ASSUME NEW j \in stops PROVE s <= j
        OBVIOUS
      <4>1. j \in 0 .. MaxDepth /\ s \in 0 .. MaxDepth
        OBVIOUS
      <4>2. ~ (j < s)
        <5>1. j < s => j \in 0 .. s - 1
          BY <1>1, <4>1
        <5> HIDE DEF stops
        <5> QED
          BY <2>9, <5>1
      <4> QED
        BY <1>1, <4>1, <4>2
    <3>2. stop \in stops /\ \A j \in stops : stop <= j
      <4> HIDE DEF stops
      <4> QED
        BY <3>1
    <3>3. stop \in Nat /\ s \in Nat
      <4>1. \A x \in stops : x \in Nat
        BY <1>1
      <4> HIDE DEF stops, stop
      <4> QED
        BY <3>2, <4>1
    <3>4. stop <= s /\ s <= stop
      <4> HIDE DEF stops, stop
      <4> QED
        BY <3>1, <3>2
    <3> HIDE DEF stop
    <3> QED
      BY <3>3, <3>4
  <2> HIDE DEF stop
  <2>10. CASE n > 0 /\ EndsAt(read.stack[n]) # "on" /\ read.answer = EndsAt(read.stack[n])
    <3>1. n - 1 \in 0 .. n - 1 /\ n - 1 \in 0 .. MaxDepth /\ n - 1 # MaxDepth /\ (n - 1) + 1 = n /\ n - 1 \in Nat
      BY <1>1, <2>10
    <3>2. W[n - 1] = read.stack[n]
      BY <2>6, <3>1
    <3>3. ended(n - 1) /\ ~ again(n - 1)
      BY <2>3, <2>7, <2>10, <3>1, <3>2
    <3>4. \A m \in 0 .. (n - 1) - 1 : m \in 0 .. n - 2 /\ m \in 0 .. n - 1 /\ m # MaxDepth
      BY <1>1
    <3>5. \A m \in 0 .. (n - 1) - 1 : m \notin stops
      <4> HIDE DEF ended, again
      <4> QED
        BY <2>7, <2>8, <3>4
    <3>6. n - 1 \in stops
      BY <3>1, <3>3
    <3>7. stop = n - 1
      <4> HIDE DEF stops
      <4> QED
        BY <2>9, <3>5, <3>6
    <3>8. Truth(read.root, read.first) = Ends(W[n - 1][1], W[n - 1][2])
      <4> HIDE DEF again
      <4> QED
        BY <2>1, <3>1, <3>3, <3>7
    <3> QED
      BY <2>3, <2>10, <3>1, <3>2, <3>8
  <2>11. CASE /\ Follows(read)
              /\ IF n >= MaxDepth THEN read.answer = "depth"
                 ELSE IF \E i \in 1 .. n : read.stack[i] = <<read.at, read.key>> THEN read.answer = "cycle"
                 ELSE Ends(read.at, read.key) # "on" /\ read.answer = Ends(read.at, read.key)
    <3>1. W[n] = <<read.at, read.key>> /\ (n > 0 => ~ ended(n - 1))
      <4>1. CASE read.stack = <<>>
        <5>1. n = 0 /\ read.at = read.root /\ read.key = read.first
          BY <2>11, <4>1 DEF Follows
        <5> QED
          BY <2>2, <5>1
      <4>2. CASE read.stack # <<>>
        <5>1. n > 0
          BY <1>1, <4>2
        <5>2. EndsAt(read.stack[n]) = "on" /\ <<read.at, read.key>> = Onward(read.stack[n])
          BY <2>11, <4>2 DEF Follows
        <5>3. n \in 1 .. MaxDepth /\ n - 1 \in 0 .. n - 1 /\ (n - 1) + 1 = n /\ n - 1 \in Nat
          BY <1>1, <5>1
        <5>4. W[n - 1] = read.stack[n]
          BY <2>6, <5>3
        <5>5. W[n] = Onward(read.stack[n])
          BY <2>2, <5>2, <5>3, <5>4
        <5> QED
          BY <2>3, <5>2, <5>3, <5>4, <5>5
      <4> QED
        BY <4>1, <4>2
    <3>2. \A m \in 0 .. n - 1 : m \notin stops
      <4>1. \A m \in 0 .. n - 1 : m # MaxDepth /\ (m \in 0 .. n - 2 \/ (m = n - 1 /\ n > 0))
        BY <1>1
      <4> HIDE DEF ended, again
      <4> QED
        BY <2>7, <2>8, <3>1, <4>1
    <3>3. again(n) <=> \E i \in 1 .. n : read.stack[i] = <<read.at, read.key>>
      <4>1. ASSUME NEW j \in 0 .. n - 1, W[j] = W[n]
            PROVE  \E i \in 1 .. n : read.stack[i] = <<read.at, read.key>>
        <5>1. j + 1 \in 1 .. n /\ W[j] = read.stack[j + 1]
          BY <1>1, <2>6
        <5> QED
          BY <3>1, <4>1, <5>1
      <4>2. ASSUME NEW i \in 1 .. n, read.stack[i] = <<read.at, read.key>> PROVE again(n)
        <5>1. i - 1 \in 0 .. n - 1 /\ W[i - 1] = W[n]
          BY <1>1, <2>5, <3>1, <4>2
        <5> QED
          BY <5>1
      <4> QED
        BY <4>1, <4>2
    <3>4. Ends(W[n][1], W[n][2]) = Ends(read.at, read.key)
      BY <3>1
    <3>5. n \in 0 .. MaxDepth
      BY <1>1
    <3>6. n \in stops => stop = n
      <4> HIDE DEF stops
      <4> QED
        BY <2>9, <3>2
    <3>7. CASE n >= MaxDepth
      <4>1. n = MaxDepth /\ read.answer = "depth"
        BY <1>1, <2>11, <3>7
      <4>2. n \in stops
        BY <3>5, <4>1
      <4> HIDE DEF again, stops
      <4> QED
        BY <2>1, <3>6, <4>1, <4>2
    <3>8. CASE ~ (n >= MaxDepth) /\ \E i \in 1 .. n : read.stack[i] = <<read.at, read.key>>
      <4>1. n # MaxDepth /\ read.answer = "cycle" /\ again(n)
        BY <1>1, <2>11, <3>3, <3>8
      <4>2. n \in stops
        BY <3>5, <4>1
      <4> HIDE DEF again, stops
      <4> QED
        BY <2>1, <3>6, <4>1, <4>2
    <3>9. CASE ~ (n >= MaxDepth) /\ ~ \E i \in 1 .. n : read.stack[i] = <<read.at, read.key>>
      <4>1. n # MaxDepth /\ ~ again(n)
        BY <1>1, <3>3, <3>9
      <4>2. Ends(read.at, read.key) # "on" /\ read.answer = Ends(read.at, read.key)
        BY <2>11, <3>9
      <4>3. n \in stops
        BY <3>4, <3>5, <4>2
      <4> HIDE DEF again, stops
      <4> QED
        BY <2>1, <3>4, <3>6, <4>1, <4>2, <4>3
    <3> QED
      BY <3>7, <3>8, <3>9
  <2>12. \/ n > 0 /\ EndsAt(read.stack[n]) # "on" /\ read.answer = EndsAt(read.stack[n])
         \/ /\ Follows(read)
            /\ IF n >= MaxDepth THEN read.answer = "depth"
               ELSE IF \E i \in 1 .. n : read.stack[i] = <<read.at, read.key>> THEN read.answer = "cycle"
               ELSE Ends(read.at, read.key) # "on" /\ read.answer = Ends(read.at, read.key)
    BY <1>1, <1>3 DEF Answers
  <2> QED
    BY <2>10, <2>11, <2>12
<1> QED
  BY <1>2, <1>3

-----------------------------------------------------------------------------
(* Resolver: what the steps of the reader find.                            *)

LEMMA AnswerIs ==
    ASSUME ReadShape(read), NEW a, Answer(a)
    PROVE  /\ read'.pc = "done" /\ read'.answer = a /\ read'.root = read.root /\ read'.first = read.first
           /\ read'.at = read.at /\ read'.key = read.key /\ read'.stack = read.stack /\ read'.quiet = read.quiet
<1>1. read' = [read EXCEPT !.pc = "done", !.answer = a]
  BY DEF Answer
<1>2. read' = [pc |-> "done", root |-> read.root, first |-> read.first, at |-> read.at, key |-> read.key,
               next |-> read.next, chain |-> read.chain, merged |-> read.merged, from |-> read.from,
               stack |-> read.stack, prov |-> read.prov, used |-> read.used, allowed |-> read.allowed,
               quiet |-> read.quiet, answer |-> a]
  BY <1>1, ReadIs
<1> QED
  BY <1>2

LEMMA AnswerTells ==
    ASSUME ReadShape(read), Tells(read), read.pc # "idle", NEW a, Answer(a), read.quiet => Answers(read')
    PROVE  Tells(read')
<1>1. Stacked(read') <=> Stacked(read)
  BY AnswerIs DEF Stacked
<1> QED
  BY <1>1, AnswerIs DEF Tells

LEMMA ResolveKeyTells ==
    ASSUME ResolverInv, NEW c \in Kind("config"), NEW k \in Keys, ResolveKey(c, k)
    PROVE  Tells(read')
<1>1. /\ read'.pc = "chain" /\ read'.root = c /\ read'.first = k /\ read'.at = c /\ read'.key = k /\ read'.next = c
      /\ read'.chain = <<>> /\ read'.stack = <<>>
  BY DEF ResolveKey, NoRead
<1>2. c \in Ids /\ c # 0
  BY CatalogAssumption DEF Kind, Ids
<1>3. Len(<<>>) = 0 /\ DOMAIN <<>> = {} /\ 2 .. Len(<<>>) = {} /\ 1 .. Len(<<>>) = {}
  OBVIOUS
<1>4. Stacked(read')
  BY <1>1, <1>3 DEF Stacked
<1>5. Targeted(read')
  BY <1>1 DEF Targeted
<1>6. Merging(read')
  BY <1>1, <1>2, <1>3 DEF Merging
<1> QED
  BY <1>1, <1>2, <1>4, <1>5, <1>6 DEF Tells

\* The config to be read is invisible: what was asked for is missing or has a broken base, or
\* the target of the last reference has.
LEMMA InvisibleTells ==
    ASSUME ResolverInv, Tells(read), ReadRawByID, ~ Visible(read.next)
    PROVE  Tells(read')
<1> DEFINE a == IF read.chain = <<>> THEN "missing" ELSE "broken"
           last == read.stack[Len(read.stack)]
<1>1. read.pc = "chain" /\ read.next # 0 /\ Answer(a) /\ ReadShape(read) /\ CatalogInv
  BY ReaderFits DEF ReadRawByID, ResolverInv
<1>2. ~ Readable(read.next)
  <2>1. read.next \in Ids
    BY <1>1, ReaderFits, CatalogAssumption DEF ReadFits, Nexts, IsOr, RowsFit, Ids
  <2> QED
    BY <1>1, <2>1, ReadableIs
<1>3. ASSUME read.quiet PROVE Answers(read')
  <2>1. Stacked(read) /\ Targeted(read) /\ Merging(read) /\ read.root \in Ids
    BY <1>1, <1>3 DEF Tells
  <2>2. ~ Readable(read.at)
    BY <1>1, <1>2, <2>1 DEF Merging
  <2>3. IF read.chain = <<>> THEN read.next = read.at ELSE Visible(read.at)
    BY <2>1 DEF Merging
  <2>4. read.stack \in Seq(Frames) /\ Len(read.stack) \in Nat
    BY <1>1 DEF ReadShape
  <2>5. CASE read.stack = <<>>
    <3>1. read.at = read.root /\ Len(read'.stack) = 0
      BY <1>1, <2>1, <2>5, AnswerIs DEF Targeted
    <3>2. read'.answer = IF Visible(read.root) THEN "broken" ELSE "missing"
      BY <1>1, <2>3, <3>1, AnswerIs
    <3> QED
      BY <1>1, <2>2, <3>1, <3>2, AnswerIs DEF Answers
  <2>6. CASE read.stack # <<>>
    <3> DEFINE v == Effective[last[1]][last[2]]
    <3>1. /\ v # Absent /\ v.kind = "absolute" /\ Found(v.coord) # {} /\ read.at = Meant(v.coord)
          /\ MayRead(rows[read.at].parent) /\ Visible(read.at)
      BY <2>1, <2>6 DEF Targeted
    <3>2. EndsAt(last) = "broken"
      BY <2>2, <3>1 DEF EndsAt, Ends
    <3>3. a = "broken"
      BY <2>3, <3>1, ~ Visible(read.next)
    <3>4. Len(read.stack) > 0
      BY <2>4, <2>6
    <3>5. Readable(read.root) /\ Effective[read.root][read.first] # Absent
      BY <2>1, <2>6 DEF Stacked
    <3> QED
      BY <1>1, <3>2, <3>3, <3>4, AnswerIs DEF Answers
  <2> QED
    BY <2>5, <2>6
<1> QED
  BY <1>1, <1>3, AnswerTells

LEMMA ReadRawByIDTells ==
    ASSUME ResolverInv, Tells(read), ReadRawByID, Visible(read.next)
    PROVE  Tells(read')
<1> DEFINE i == read.next
           link == [id |-> i, env |-> rows[i].parent, own |-> secrets[i]]
           n == Len(read.chain)
<1>1. read.pc = "chain" /\ read.next # 0 /\ ReadShape(read) /\ CatalogInv
  BY ReaderFits DEF ReadRawByID, ResolverInv
<1>2. /\ read'.pc = "chain" /\ read'.root = read.root /\ read'.first = read.first /\ read'.at = read.at
      /\ read'.key = read.key /\ read'.next = rows[i].base /\ read'.chain = Append(read.chain, link)
      /\ read'.stack = read.stack /\ read'.quiet = read.quiet
  <2>1. read' = [read EXCEPT !.next = rows[@].base, !.chain = Append(@, link)]
    BY DEF ReadRawByID
  <2> HIDE DEF link
  <2>2. read' = [pc |-> read.pc, root |-> read.root, first |-> read.first, at |-> read.at, key |-> read.key,
                 next |-> rows[i].base, chain |-> Append(read.chain, link), merged |-> read.merged,
                 from |-> read.from, stack |-> read.stack, prov |-> read.prov, used |-> read.used,
                 allowed |-> read.allowed, quiet |-> read.quiet, answer |-> read.answer]
    BY <1>1, <2>1, ReadIs
  <2> QED
    BY <1>1, <2>2
<1>3. CASE ~ read.quiet
  BY <1>2, <1>3 DEF Tells
<1>4. CASE read.quiet
  <2>1. Stacked(read) /\ Targeted(read) /\ Merging(read) /\ read.root \in Ids /\ read.first \in Keys
    BY <1>1, <1>4 DEF Tells
  <2>2. Stacked(read') /\ Targeted(read')
    BY <1>2, <2>1 DEF Stacked, Targeted
  <2>3. i \in Ids
    BY <1>1, ReaderFits, CatalogAssumption DEF ReadFits, Nexts, IsOr, RowsFit, Ids
  <2>4. n \in Nat /\ DOMAIN read.chain = 1 .. n /\ read.chain \in Seq(Links) /\ link \in Links
    <3>1. EntryFits(rows[i])
      BY <2>3, ReaderFits DEF RowsFit
    <3>2. rows[i].parent \in 0 .. MaxRows
      BY <3>1 DEF EntryFits
    <3> QED
      BY <1>1, <2>3, <3>2, ReaderFits DEF ReadShape, Links
  <2>5. link.own = secrets[i]
    OBVIOUS
  <2> HIDE DEF link
  <2>6. /\ DOMAIN read'.chain = 1 .. n + 1 /\ read'.chain[n + 1] = link /\ read'.chain # <<>>
        /\ \A j \in 1 .. n : read'.chain[j] = read.chain[j]
    BY <1>2, <2>4
  <2>7. Readable(i) <=> rows[i].base = 0 \/ Readable(rows[i].base)
    BY <1>1, <2>3, ReadableIs, Visible(read.next)
  <2>8. Readable(read.at) <=> rows[i].base = 0 \/ Readable(rows[i].base)
    BY <1>1, <2>1, <2>7 DEF Merging
  <2>9. Visible(read.at)
    BY <2>1, Visible(read.next) DEF Merging
  <2>10. ASSUME NEW k \in Keys
         PROVE  \/ \E j \in DOMAIN read'.chain :
                      /\ read'.chain[j].own[k] # Absent /\ Effective[read.at][k] = read'.chain[j].own[k]
                      /\ \A l \in 1 .. j - 1 : read'.chain[l].own[k] = Absent
                \/ /\ \A j \in DOMAIN read'.chain : read'.chain[j].own[k] = Absent
                   /\ Effective[read.at][k] = IF rows[i].base = 0 THEN Absent ELSE Effective[rows[i].base][k]
    <3>1. CASE \E j \in DOMAIN read.chain :
                 /\ read.chain[j].own[k] # Absent /\ Effective[read.at][k] = read.chain[j].own[k]
                 /\ \A l \in 1 .. j - 1 : read.chain[l].own[k] = Absent
      <4>1. PICK j \in DOMAIN read.chain :
                 /\ read.chain[j].own[k] # Absent /\ Effective[read.at][k] = read.chain[j].own[k]
                 /\ \A l \in 1 .. j - 1 : read.chain[l].own[k] = Absent
        BY <3>1
      <4>2. j \in 1 .. n /\ j \in 1 .. n + 1 /\ \A l \in 1 .. j - 1 : l \in 1 .. n
        BY <2>4
      <4> QED
        BY <2>6, <4>1, <4>2
    <3>2. CASE /\ \A j \in DOMAIN read.chain : read.chain[j].own[k] = Absent
               /\ Effective[read.at][k] = Effective[i][k]
      <4>1. Effective[i][k] = IF secrets[i][k] # Absent \/ rows[i].base = 0 THEN secrets[i][k]
                              ELSE Effective[rows[i].base][k]
        BY <1>1, <2>3, EffectiveIs
      <4>2. \A l \in 1 .. n : read'.chain[l].own[k] = Absent
        BY <2>4, <2>6, <3>2
      <4>3. n + 1 \in DOMAIN read'.chain /\ (n + 1) - 1 = n
            /\ \A j \in DOMAIN read'.chain : j \in 1 .. n \/ j = n + 1
        BY <2>4, <2>6
      <4>4. read'.chain[n + 1].own[k] = secrets[i][k]
        BY <2>5, <2>6
      <4>5. CASE secrets[i][k] # Absent
        BY <3>2, <4>1, <4>2, <4>3, <4>4, <4>5
      <4>6. CASE secrets[i][k] = Absent
        <5>1. \A j \in DOMAIN read'.chain : read'.chain[j].own[k] = Absent
          BY <4>2, <4>3, <4>4, <4>6
        <5> QED
          BY <3>2, <4>1, <4>6, <5>1
      <4> QED
        BY <4>5, <4>6
    <3> QED
      BY <1>1, <2>1, <3>1, <3>2 DEF Merging
  <2>11. Merging(read')
    BY <1>2, <2>6, <2>8, <2>9, <2>10 DEF Merging
  <2> QED
    BY <1>2, <2>1, <2>2, <2>11 DEF Tells
<1> QED
  BY <1>3, <1>4

LEMMA ResolveMergedTells ==
    ASSUME ResolverInv, Tells(read), ResolveMerged
    PROVE  Tells(read')
<1>1. read.pc = "chain" /\ read.next = 0 /\ ReadShape(read) /\ CatalogInv /\ read.chain \in Seq(Links)
  BY ReaderFits DEF ResolveMerged, ResolverInv, ReadShape
<1> DEFINE last == read.stack[Len(read.stack)]
           v == Effective[last[1]][last[2]]
\* The nearest value of a key is what the config means by it.
<1>2. ASSUME read.quiet, NEW k \in Keys
      PROVE  Effective[read.at][k] = IF Nearest(k) = 0 THEN Absent ELSE read.chain[Nearest(k)].own[k]
  <2>1. Merging(read)
    BY <1>1, <1>2 DEF Tells
  <2>2. CASE \E i \in DOMAIN read.chain :
               /\ read.chain[i].own[k] # Absent /\ Effective[read.at][k] = read.chain[i].own[k]
               /\ \A j \in 1 .. i - 1 : read.chain[j].own[k] = Absent
    <3>1. PICK i \in DOMAIN read.chain :
               /\ read.chain[i].own[k] # Absent /\ Effective[read.at][k] = read.chain[i].own[k]
               /\ \A j \in 1 .. i - 1 : read.chain[j].own[k] = Absent
      BY <2>2
    <3>2. /\ Nearest(k) # 0 /\ Nearest(k) \in DOMAIN read.chain /\ read.chain[Nearest(k)].own[k] # Absent
          /\ Nearest(k) <= i
      BY <1>1, <3>1, NearestIs
    <3>3. i \in Nat /\ Nearest(k) \in Nat /\ (Nearest(k) # i => Nearest(k) \in 1 .. i - 1)
      BY <1>1, <3>2
    <3>4. Nearest(k) = i
      BY <3>1, <3>2, <3>3
    <3> QED
      BY <3>1, <3>2, <3>4
  <2>3. CASE /\ \A i \in DOMAIN read.chain : read.chain[i].own[k] = Absent
             /\ Effective[read.at][k] = Absent
    <3>1. Nearest(k) = 0
      BY <1>1, <2>3, NearestIs
    <3> QED
      BY <2>3, <3>1
  <2> QED
    BY <1>1, <2>1, <2>2, <2>3 DEF Merging
<1>3. ASSUME read.quiet
      PROVE  /\ Stacked(read) /\ Targeted(read) /\ read.root \in Ids /\ read.first \in Keys /\ Readable(read.at)
             /\ read.at \in Ids /\ read.key \in Keys
  BY <1>1, <1>3 DEF Tells, Merging, ReadShape
<1>4. read.stack \in Seq(Frames) /\ Len(read.stack) \in Nat /\ (read.stack # <<>> => Len(read.stack) > 0)
  BY <1>1 DEF ReadShape
<1>5. ASSUME read.quiet, read.stack # <<>>
      PROVE  /\ EndsAt(last) = IF Effective[read.at][read.key] = Absent THEN "unresolved" ELSE "on"
             /\ Onward(last) = <<read.at, read.key>>
  <2>1. /\ v # Absent /\ v.kind = "absolute" /\ Found(v.coord) # {} /\ read.at = Meant(v.coord)
        /\ read.key = v.key /\ MayRead(rows[read.at].parent)
    BY <1>3, <1>5 DEF Targeted
  <2> QED
    BY <1>3, <1>5, <2>1 DEF EndsAt, Ends, Onward
<1>6. CASE Nearest(read.key) = 0
  <2>1. Answer("unresolved")
    BY <1>6 DEF ResolveMerged
  <2>2. ASSUME read.quiet PROVE Answers(read')
    <3>1. Effective[read.at][read.key] = Absent
      BY <1>2, <1>3, <1>6, <2>2
    <3>2. CASE read.stack = <<>>
      <4>1. read'.stack = <<>>
        BY <1>1, <2>1, <3>2, AnswerIs
      <4>2. read.at = read.root /\ read.key = read.first /\ Len(read'.stack) = 0
        BY <1>3, <2>2, <3>2, <4>1 DEF Targeted
      <4> QED
        BY <1>1, <1>3, <2>1, <2>2, <3>1, <4>2, AnswerIs DEF Answers
    <3>3. CASE read.stack # <<>>
      <4>1. EndsAt(last) = "unresolved"
        BY <1>5, <2>2, <3>1, <3>3
      <4>2. Readable(read.root) /\ Effective[read.root][read.first] # Absent
        BY <1>3, <2>2, <3>3 DEF Stacked
      <4> QED
        BY <1>1, <1>4, <2>1, <3>3, <4>1, <4>2, AnswerIs DEF Answers
    <3> QED
      BY <3>2, <3>3
  <2> QED
    BY <1>1, <2>1, <2>2, AnswerTells
<1>7. CASE Nearest(read.key) # 0
  <2> DEFINE merged == [k \in Keys |-> IF Nearest(k) = 0 THEN Absent ELSE read.chain[Nearest(k)].own[k]]
             from == [k \in Keys |-> IF Nearest(k) = 0 THEN 0 ELSE read.chain[Nearest(k)].env]
             prov == RecordProvenance
  <2>1. /\ read'.pc = "expand" /\ read'.root = read.root /\ read'.first = read.first /\ read'.at = read.at
        /\ read'.key = read.key /\ read'.stack = read.stack /\ read'.quiet = read.quiet /\ read'.merged = merged
    <3>1. read' = [read EXCEPT !.pc = "expand", !.chain = <<>>, !.prov = prov, !.merged = merged, !.from = from]
      BY <1>7 DEF ResolveMerged
    <3> HIDE DEF merged, from, prov
    <3>2. read' = [pc |-> "expand", root |-> read.root, first |-> read.first, at |-> read.at, key |-> read.key,
                   next |-> read.next, chain |-> <<>>, merged |-> merged, from |-> from,
                   stack |-> read.stack, prov |-> prov, used |-> read.used, allowed |-> read.allowed,
                   quiet |-> read.quiet, answer |-> read.answer]
      BY <1>1, <3>1, ReadIs
    <3> QED
      BY <3>2
  <2>2. CASE ~ read.quiet
    BY <2>1, <2>2 DEF Tells
  <2>3. CASE read.quiet
    <3>1. merged = Effective[read.at]
      <4>1. Effective[read.at] \in [Keys -> Values \cup {Absent}]
        BY <1>1, <1>3, <2>3, EffectiveIs
      <4> QED
        BY <1>2, <2>3, <4>1
    <3>2. merged[read.key] # Absent
      <4>1. read.chain[Nearest(read.key)].own[read.key] # Absent
        BY <1>1, <1>7, NearestIs
      <4> QED
        BY <1>3, <1>7, <2>3, <4>1
    <3> HIDE DEF merged
    <3>3. Follows(read')
      <4>1. CASE read.stack = <<>>
        BY <1>3, <2>1, <2>3, <4>1 DEF Follows, Targeted
      <4>2. CASE read.stack # <<>>
        BY <1>5, <2>1, <2>3, <3>1, <3>2, <4>2 DEF Follows
      <4> QED
        BY <4>1, <4>2
    <3>4. Stacked(read')
      BY <1>3, <2>1, <2>3 DEF Stacked
    <3>5. read.stack = <<>> => Readable(read.root)
      BY <1>3, <2>3 DEF Targeted
    <3> QED
      BY <1>3, <2>1, <2>3, <3>1, <3>2, <3>3, <3>4, <3>5 DEF Tells
  <2> QED
    BY <2>2, <2>3
<1> QED
  BY <1>6, <1>7

\* The frame that is expanded, put on the stack.
LEMMA PushedStands ==
    ASSUME ReadShape(read), Stacked(read), Follows(read), read.at \in Ids, read.key \in Keys, ~ Seen,
           read.stack = <<>> => Readable(read.root) /\ Effective[read.root][read.first] # Absent,
           read'.root = read.root, read'.first = read.first, read'.stack = Append(read.stack, <<read.at, read.key>>)
    PROVE  /\ Stacked(read') /\ read'.stack # <<>> /\ read'.stack[Len(read'.stack)] = <<read.at, read.key>>
<1> DEFINE n == Len(read.stack)
           f == <<read.at, read.key>>
<1>1. read.stack \in Seq(Frames) /\ f \in Frames /\ n \in Nat /\ (read.stack = <<>> <=> n = 0)
  BY DEF ReadShape, Frames
<1>2. ~ \E i \in 1 .. n : read.stack[i] = f
  BY <1>1 DEF Seen
<1> HIDE DEF f
<1>3. /\ read'.stack # <<>> /\ Len(read'.stack) = n + 1 /\ read'.stack[n + 1] = f
      /\ \A i \in 1 .. n : read'.stack[i] = read.stack[i]
  BY <1>1 DEF f
<1>4. n > 0 => EndsAt(read.stack[n]) = "on" /\ f = Onward(read.stack[n])
  BY <1>1 DEF Follows, f
<1>5. read'.stack[1] = <<read'.root, read'.first>> /\ Readable(read'.root)
      /\ Effective[read'.root][read'.first] # Absent
  <2>1. CASE n = 0
    BY <1>1, <1>3, <2>1 DEF Follows, f
  <2>2. CASE n # 0
    <3>1. 1 \in 1 .. n
      BY <1>1, <2>2
    <3> QED
      BY <1>1, <1>3, <2>2, <3>1 DEF Stacked
  <2> QED
    BY <2>1, <2>2
<1>6. ASSUME NEW i \in 2 .. Len(read'.stack)
      PROVE  EndsAt(read'.stack[i - 1]) = "on" /\ read'.stack[i] = Onward(read'.stack[i - 1])
  <2>1. CASE i = n + 1
    <3>1. n > 0 /\ n \in 1 .. n /\ i - 1 = n
      BY <1>1, <1>3, <2>1
    <3> QED
      BY <1>3, <1>4, <2>1, <3>1
  <2>2. CASE i # n + 1
    <3>1. i \in 2 .. n /\ i \in 1 .. n /\ i - 1 \in 1 .. n
      BY <1>1, <1>3, <2>2
    <3> QED
      BY <1>3, <3>1 DEF Stacked
  <2> QED
    BY <2>1, <2>2
<1>7. ASSUME NEW i \in 1 .. Len(read'.stack), NEW j \in 1 .. Len(read'.stack), read'.stack[i] = read'.stack[j]
      PROVE  i = j
  <2>1. (i \in 1 .. n \/ i = n + 1) /\ (j \in 1 .. n \/ j = n + 1)
    BY <1>1, <1>3
  <2>2. \A l, m \in 1 .. n : read.stack[l] = read.stack[m] => l = m
    BY DEF Stacked
  <2> QED
    BY <1>2, <1>3, <1>7, <2>1, <2>2
<1>8. Stacked(read')
  BY <1>5, <1>6, <1>7 DEF Stacked
<1> QED
  BY <1>3, <1>8 DEF f

\* What a value in a frame leads to.
LEMMA EndsIs ==
    ASSUME CatalogInv, NEW c \in Ids, NEW k \in Keys
    PROVE  LET v == Effective[c][k] IN
           /\ v \in Values \cup {Absent}
           /\ v = Absent => Ends(c, k) = "unresolved"
           /\ v # Absent => v.kind \in {"text", "local", "absolute"}
           /\ v # Absent /\ v.kind = "text" => Ends(c, k) = "value"
           /\ v # Absent /\ v.kind = "local" => Ends(c, k) = "on" /\ Onward(<<c, k>>) = <<c, v.key>>
           /\ v # Absent /\ v.kind = "absolute" =>
                Ends(c, k) = IF Found(v.coord) = {} THEN "unresolved"
                             ELSE IF ~MayRead(rows[Meant(v.coord)].parent) THEN "forbidden"
                             ELSE IF ~Readable(Meant(v.coord)) THEN "broken"
                             ELSE IF Effective[Meant(v.coord)][v.key] = Absent THEN "unresolved" ELSE "on"
<1> DEFINE v == Effective[c][k]
<1>1. v \in Values \cup {Absent}
  BY EffectiveIs
<1>2. v \in Values => v.kind \in {"text", "local", "absolute"}
  <2> HIDE DEF v
  <2> QED
    BY ValueLeads
<1>3. Ends(c, k) = CASE v = Absent -> "unresolved"
      [] v.kind = "text" -> "value"
      [] v.kind = "local" -> "on"
      [] OTHER -> IF Found(v.coord) = {} THEN "unresolved"
                  ELSE IF ~MayRead(rows[Meant(v.coord)].parent) THEN "forbidden"
                  ELSE IF ~Readable(Meant(v.coord)) THEN "broken"
                  ELSE IF Effective[Meant(v.coord)][v.key] = Absent THEN "unresolved" ELSE "on"
  BY DEF Ends
<1>4. v.kind = "local" => Onward(<<c, k>>) = <<c, v.key>>
  BY DEF Onward
<1>5. v = Absent => v.kind = "absent"
  BY DEF Absent, Value
<1> HIDE DEF v
<1>6. v = Absent => Ends(c, k) = "unresolved"
  BY <1>3, <1>5
<1>7. v # Absent /\ v.kind = "text" => Ends(c, k) = "value"
  BY <1>3
<1>8. v # Absent /\ v.kind = "local" => Ends(c, k) = "on"
  BY <1>3
<1>9. v # Absent /\ v.kind = "absolute" =>
        Ends(c, k) = IF Found(v.coord) = {} THEN "unresolved"
                     ELSE IF ~MayRead(rows[Meant(v.coord)].parent) THEN "forbidden"
                     ELSE IF ~Readable(Meant(v.coord)) THEN "broken"
                     ELSE IF Effective[Meant(v.coord)][v.key] = Absent THEN "unresolved" ELSE "on"
  BY <1>3
<1> QED
  BY <1>1, <1>2, <1>4, <1>6, <1>7, <1>8, <1>9 DEF v

\* An answer given where a frame is expanded.
LEMMA EndedTells ==
    ASSUME ResolverInv, Tells(read), read.pc = "expand", NEW a, NEW used,
           read' = [read EXCEPT !.pc = "done", !.answer = a, !.used = used],
           read.quiet =>
              IF Len(read.stack) >= MaxDepth THEN a = "depth"
              ELSE IF Seen THEN a = "cycle"
              ELSE Ends(read.at, read.key) # "on" /\ a = Ends(read.at, read.key)
    PROVE  Tells(read')
<1>1. ReadShape(read) /\ read.stack \in Seq(Frames)
  BY ReaderFits DEF ReadShape
<1>2. /\ read'.pc = "done" /\ read'.answer = a /\ read'.root = read.root /\ read'.first = read.first
      /\ read'.at = read.at /\ read'.key = read.key /\ read'.stack = read.stack /\ read'.quiet = read.quiet
  <2>1. read' = [pc |-> "done", root |-> read.root, first |-> read.first, at |-> read.at, key |-> read.key,
                 next |-> read.next, chain |-> read.chain, merged |-> read.merged, from |-> read.from,
                 stack |-> read.stack, prov |-> read.prov, used |-> used, allowed |-> read.allowed,
                 quiet |-> read.quiet, answer |-> a]
    BY <1>1, ReadIs
  <2> QED
    BY <2>1
<1>3. CASE ~ read.quiet
  BY <1>2, <1>3 DEF Tells
<1>4. CASE read.quiet
  <2>1. /\ read.root \in Ids /\ read.first \in Keys /\ Stacked(read) /\ Follows(read)
        /\ read.merged = Effective[read.at]
        /\ read.stack = <<>> => Readable(read.root) /\ read.merged[read.key] # Absent
    BY <1>4 DEF Tells
  <2>2. Readable(read.root) /\ Effective[read.root][read.first] # Absent
    BY <2>1 DEF Stacked, Follows
  <2>3. Stacked(read') /\ Follows(read')
    BY <1>2, <2>1 DEF Stacked, Follows
  <2>4. Seen <=> \E i \in 1 .. Len(read.stack) : read.stack[i] = <<read.at, read.key>>
    BY <1>1 DEF Seen
  <2>5. Answers(read')
    BY <1>2, <1>4, <2>2, <2>3, <2>4 DEF Answers
  <2> QED
    BY <1>2, <2>1, <2>3, <2>5 DEF Tells
<1> QED
  BY <1>3, <1>4

LEMMA ExpandTells ==
    ASSUME ResolverInv, Tells(read), Expand
    PROVE  Tells(read')
<1> DEFINE v == read.merged[read.key]
           pushed == Append(read.stack, <<read.at, read.key>>)
           used == read.used \cup {[under |-> read.at, env |-> read.from[read.key]]}
<1>1. /\ read.pc = "expand" /\ ReadShape(read) /\ CatalogInv /\ Len(read.stack) \in Nat /\ MaxDepth \in Nat
      /\ read.at \in Ids /\ read.key \in Keys /\ read.merged \in [Keys -> Values \cup {Absent}]
  BY ReaderFits, ResolverAssumption DEF Expand, ResolverInv, ReadShape
<1>2. v \in Values \cup {Absent} /\ (v # Absent => v.kind \in {"text", "local", "absolute"})
  <2>1. v \in Values \cup {Absent}
    BY <1>1
  <2> HIDE DEF v
  <2> QED
    BY <2>1, ValueLeads
<1>3. read.quiet => v = Effective[read.at][read.key] /\ Stacked(read) /\ Follows(read)
                    /\ read.root \in Ids /\ read.first \in Keys /\ read.merged = Effective[read.at]
                    /\ Readable(read.at)
                    /\ (read.stack = <<>> => Readable(read.root) /\ Effective[read.root][read.first] # Absent)
  BY <1>1 DEF Tells, Follows
<1>4. ASSUME NEW a, Answer(a) PROVE read' = [read EXCEPT !.pc = "done", !.answer = a, !.used = read.used]
  <2>1. read' = [read EXCEPT !.pc = "done", !.answer = a]
    BY <1>4 DEF Answer
  <2> QED
    BY <1>1, <2>1, ReadIs
<1>5. CASE Len(read.stack) >= MaxDepth
  <2>1. Answer("depth")
    BY <1>1, <1>5 DEF Expand
  <2> QED
    BY <1>1, <1>4, <1>5, <2>1, EndedTells
<1>6. CASE ~ (Len(read.stack) >= MaxDepth) /\ Seen
  <2>1. Answer("cycle")
    BY <1>1, <1>6 DEF Expand
  <2> QED
    BY <1>1, <1>4, <1>6, <2>1, EndedTells
<1>7. CASE ~ (Len(read.stack) >= MaxDepth) /\ ~ Seen
  <2>1. read' = CASE v = Absent -> [read EXCEPT !.pc = "done", !.answer = "unresolved"]
                  [] v.kind = "text" -> [read EXCEPT !.pc = "done", !.answer = "value", !.used = used]
                  [] v.kind = "local" -> [read EXCEPT !.key = v.key, !.stack = pushed, !.used = used]
                  [] OTHER -> [read EXCEPT !.pc = "target", !.stack = pushed, !.used = used]
    BY <1>1, <1>7 DEF Expand
  <2>2. read.quiet => /\ v = Absent => Ends(read.at, read.key) = "unresolved"
                      /\ v # Absent /\ v.kind = "text" => Ends(read.at, read.key) = "value"
    <3>1. LET w == Effective[read.at][read.key] IN
          /\ w = Absent => Ends(read.at, read.key) = "unresolved"
          /\ w # Absent /\ w.kind = "text" => Ends(read.at, read.key) = "value"
      BY <1>1, EndsIs
    <3>2. read.quiet => v = Effective[read.at][read.key]
      BY <1>3
    <3> HIDE DEF v
    <3> QED
      BY <3>1, <3>2
  <2>3. v = Absent => v.kind = "absent"
    BY DEF Absent, Value
  <2>4. CASE v = Absent
    <3>1. Answer("unresolved")
      <4> HIDE DEF v, pushed, used
      <4> QED
        BY <2>1, <2>3, <2>4 DEF Answer
    <3> QED
      BY <1>1, <1>4, <1>7, <2>2, <2>4, <3>1, EndedTells
  <2>5. CASE v # Absent /\ v.kind = "text"
    <3>1. read' = [read EXCEPT !.pc = "done", !.answer = "value", !.used = used]
      <4> HIDE DEF v, pushed, used
      <4> QED
        BY <2>1, <2>5
    <3>2. read.quiet => Ends(read.at, read.key) = "value"
      BY <2>2, <2>5
    <3> HIDE DEF used
    <3> QED
      BY <1>1, <1>7, <3>1, <3>2, EndedTells
  <2>6. CASE v # Absent /\ v.kind = "local"
    <3>1. read' = [read EXCEPT !.key = v.key, !.stack = pushed, !.used = used]
      <4> HIDE DEF v, pushed, used
      <4> QED
        BY <2>1, <2>6
    <3>2. /\ read'.pc = "expand" /\ read'.root = read.root /\ read'.first = read.first /\ read'.at = read.at
          /\ read'.key = v.key /\ read'.stack = pushed /\ read'.quiet = read.quiet /\ read'.merged = read.merged
      <4> HIDE DEF v, pushed, used
      <4>1. read' = [pc |-> "expand", root |-> read.root, first |-> read.first, at |-> read.at, key |-> v.key,
                     next |-> read.next, chain |-> read.chain, merged |-> read.merged, from |-> read.from,
                     stack |-> pushed, prov |-> read.prov, used |-> used, allowed |-> read.allowed,
                     quiet |-> read.quiet, answer |-> read.answer]
        BY <1>1, <3>1, ReadIs
      <4> QED
        BY <4>1
    <3>3. CASE ~ read.quiet
      BY <3>2, <3>3 DEF Tells
    <3>4. CASE read.quiet
      <4>1. Stacked(read') /\ read'.stack # <<>> /\ read'.stack[Len(read'.stack)] = <<read.at, read.key>>
        BY <1>1, <1>3, <1>7, <3>2, <3>4, PushedStands
      <4>2. EndsAt(<<read.at, read.key>>) = "on" /\ Onward(<<read.at, read.key>>) = <<read.at, v.key>>
        BY <1>1, <1>3, <2>6, <3>4, EndsIs DEF EndsAt
      <4> HIDE DEF v, pushed
      <4>3. Follows(read')
        BY <3>2, <4>1, <4>2 DEF Follows
      <4> QED
        BY <1>3, <3>2, <3>4, <4>1, <4>3 DEF Tells
    <3> QED
      BY <3>3, <3>4
  <2>7. CASE v # Absent /\ v.kind = "absolute"
    <3>1. read' = [read EXCEPT !.pc = "target", !.stack = pushed, !.used = used]
      <4> HIDE DEF v, pushed, used
      <4> QED
        BY <2>1, <2>7
    <3>2. /\ read'.pc = "target" /\ read'.root = read.root /\ read'.first = read.first /\ read'.at = read.at
          /\ read'.key = read.key /\ read'.stack = pushed /\ read'.quiet = read.quiet /\ read'.merged = read.merged
      <4> HIDE DEF v, pushed, used
      <4>1. read' = [pc |-> "target", root |-> read.root, first |-> read.first, at |-> read.at, key |-> read.key,
                     next |-> read.next, chain |-> read.chain, merged |-> read.merged, from |-> read.from,
                     stack |-> pushed, prov |-> read.prov, used |-> used, allowed |-> read.allowed,
                     quiet |-> read.quiet, answer |-> read.answer]
        BY <1>1, <3>1, ReadIs
      <4> QED
        BY <4>1
    <3>3. CASE ~ read.quiet
      BY <3>2, <3>3 DEF Tells
    <3>4. CASE read.quiet
      <4>1. Stacked(read') /\ read'.stack # <<>> /\ read'.stack[Len(read'.stack)] = <<read.at, read.key>>
        BY <1>1, <1>3, <1>7, <3>2, <3>4, PushedStands
      <4> HIDE DEF v, pushed
      <4> QED
        BY <1>3, <3>2, <3>4, <4>1 DEF Tells
    <3> QED
      BY <3>3, <3>4
  <2> QED
    BY <1>2, <2>4, <2>5, <2>6, <2>7
<1> QED
  BY <1>5, <1>6, <1>7

LEMMA ResolveRefTells ==
    ASSUME ResolverInv, Tells(read), ResolveRef
    PROVE  Tells(read')
<1> DEFINE v == read.merged[read.key]
           last == read.stack[Len(read.stack)]
<1>1. /\ read.pc = "target" /\ ReadShape(read) /\ CatalogInv /\ read.at \in Ids /\ read.key \in Keys
      /\ v # Absent /\ v.kind = "absolute" /\ read.chain = <<>> /\ read.stack # <<>>
      /\ read.stack \in Seq(Frames) /\ Len(read.stack) > 0
  <2>1. /\ read.pc = "target" /\ ReadShape(read) /\ CatalogInv /\ ReadFits(read, granted, rows, created)
    BY ReaderFits DEF ResolveRef, ResolverInv
  <2> QED
    BY <2>1 DEF ReadFits, ReadShape
<1>2. ASSUME read.quiet
      PROVE  /\ Stacked(read) /\ read.root \in Ids /\ read.first \in Keys /\ last = <<read.at, read.key>>
             /\ v = Effective[read.at][read.key] /\ Readable(read.root) /\ Effective[read.root][read.first] # Absent
  BY <1>1, <1>2 DEF Tells, Stacked
<1>3. ASSUME read.quiet
      PROVE  EndsAt(last) = IF Found(v.coord) = {} THEN "unresolved"
                            ELSE IF ~MayRead(rows[Meant(v.coord)].parent) THEN "forbidden"
                            ELSE IF ~Readable(Meant(v.coord)) THEN "broken"
                            ELSE IF Effective[Meant(v.coord)][v.key] = Absent THEN "unresolved" ELSE "on"
  <2>1. LET w == Effective[read.at][read.key] IN
        w # Absent /\ w.kind = "absolute" =>
          Ends(read.at, read.key) = IF Found(w.coord) = {} THEN "unresolved"
                                    ELSE IF ~MayRead(rows[Meant(w.coord)].parent) THEN "forbidden"
                                    ELSE IF ~Readable(Meant(w.coord)) THEN "broken"
                                    ELSE IF Effective[Meant(w.coord)][w.key] = Absent THEN "unresolved" ELSE "on"
    BY <1>1, EndsIs
  <2>2. v = Effective[read.at][read.key] /\ EndsAt(last) = Ends(read.at, read.key)
    BY <1>2, <1>3 DEF EndsAt
  <2> HIDE DEF v, last
  <2> QED
    BY <1>1, <2>1, <2>2
\* An answer that is where the last frame ends.
<1>4. ASSUME NEW a, Answer(a), a # "on", read.quiet => EndsAt(last) = a
      PROVE  Tells(read')
  <2>1. ASSUME read.quiet PROVE Answers(read')
    BY <1>1, <1>2, <1>4, <2>1, AnswerIs DEF Answers
  <2> QED
    BY <1>1, <1>4, <2>1, AnswerTells
<1>5. CASE Found(v.coord) = {}
  <2>1. Answer("unresolved")
    BY <1>5 DEF ResolveRef
  <2> QED
    BY <1>3, <1>4, <1>5, <2>1
<1>6. ASSUME NEW c \in Found(v.coord), ~ MayRead(rows[c].parent), Answer("forbidden")
      PROVE  Tells(read')
  <2>1. c = Meant(v.coord) /\ Found(v.coord) # {}
    BY <1>1, <1>6, FoundIsMeant
  <2> QED
    BY <1>3, <1>4, <1>6, <2>1
<1>7. ASSUME NEW c \in Found(v.coord), MayRead(rows[c].parent),
             read' = [read EXCEPT !.pc = "chain", !.at = c, !.key = v.key, !.next = c]
      PROVE  Tells(read')
  <2> DEFINE k == v.key
  <2>1. c = Meant(v.coord) /\ Found(v.coord) # {} /\ Visible(c) /\ c \in Ids /\ c # 0
    BY <1>1, <1>7, FoundIsMeant, CatalogAssumption DEF Ids
  <2>2. /\ read'.pc = "chain" /\ read'.root = read.root /\ read'.first = read.first /\ read'.at = c
        /\ read'.key = k /\ read'.next = c /\ read'.chain = <<>> /\ read'.stack = read.stack
        /\ read'.quiet = read.quiet
    <3>1. read' = [read EXCEPT !.pc = "chain", !.at = c, !.key = k, !.next = c]
      BY <1>7
    <3> HIDE DEF k, v
    <3>2. read' = [pc |-> "chain", root |-> read.root, first |-> read.first, at |-> c, key |-> k, next |-> c,
                   chain |-> read.chain, merged |-> read.merged, from |-> read.from, stack |-> read.stack,
                   prov |-> read.prov, used |-> read.used, allowed |-> read.allowed, quiet |-> read.quiet,
                   answer |-> read.answer]
      BY <1>1, <3>1, ReadIs
    <3> QED
      BY <1>1, <3>2
  <2>3. CASE ~ read.quiet
    BY <2>2, <2>3 DEF Tells
  <2>4. CASE read.quiet
    <3>1. Merging(read')
      <4>1. DOMAIN <<>> = {}
        OBVIOUS
      <4> QED
        BY <2>1, <2>2, <4>1 DEF Merging
    <3>2. Stacked(read')
      BY <1>2, <2>2, <2>4 DEF Stacked
    <3>3. Effective[last[1]][last[2]] = v
      BY <1>2, <2>4
    <3>4. Targeted(read')
      <4> HIDE DEF v
      <4> QED
        BY <1>1, <1>7, <2>1, <2>2, <3>3 DEF Targeted, k
    <3> QED
      BY <1>2, <2>2, <2>4, <3>1, <3>2, <3>4 DEF Tells
  <2> QED
    BY <2>3, <2>4
<1> QED
  BY <1>5, <1>6, <1>7 DEF ResolveRef

-----------------------------------------------------------------------------
(* Resolver: what the catalog means stands while nothing changes.          *)

\* The recursive definitions, as functions of what they are read from.
EffectiveIn(rs, ss) ==
    CHOOSE f : f = [c \in Ids |-> [k \in Keys |-> IF ss[c][k] # Absent \/ rs[c].base = 0 THEN ss[c][k]
                                                  ELSE f[rs[c].base][k]]]
AncestryIn(rs) == CHOOSE f : f = [c \in Ids |-> {c} \cup IF rs[c].base = 0 THEN {} ELSE f[rs[c].base]]

LEMMA MeaningStands ==
    ASSUME rows' = rows, secrets' = secrets, granted' = granted
    PROVE  /\ Effective' = Effective
           /\ \A c : (Visible(c)' <=> Visible(c)) /\ (Readable(c)' <=> Readable(c))
           /\ \A coord : Found(coord)' = Found(coord) /\ Meant(coord)' = Meant(coord)
           /\ \A e : MayRead(e)' <=> MayRead(e)
<1>1. Effective = EffectiveIn(rows, secrets) /\ Effective' = EffectiveIn(rows', secrets')
  BY DEF Effective, EffectiveIn
<1>2. Ancestry = AncestryIn(rows) /\ Ancestry' = AncestryIn(rows')
  BY DEF Ancestry, AncestryIn
<1>3. Effective' = Effective /\ Ancestry' = Ancestry
  BY <1>1, <1>2
<1>4. \A c : Visible(c)' <=> Visible(c)
  BY DEF Visible, Live, Exists
<1>5. \A c : Readable(c)' <=> Readable(c)
  BY <1>3, <1>4 DEF Readable
<1>6. \A coord : Found(coord)' = Found(coord)
  BY <1>4 DEF Found, Kind
<1>7. \A coord : Meant(coord)' = Meant(coord)
  BY <1>6 DEF Meant
<1>8. \A e : MayRead(e)' <=> MayRead(e)
  BY DEF MayRead
<1> QED
  BY <1>3, <1>4, <1>5, <1>6, <1>7, <1>8

LEMMA TellsStands ==
    ASSUME UNCHANGED <<catalogVars, granted>>, Tells(read')
    PROVE  Tells(read)'
<1>1. rows' = rows /\ secrets' = secrets /\ granted' = granted
  BY DEF catalogVars
<1>2. \A c, k : Ends(c, k)' = Ends(c, k)
  BY <1>1, MeaningStands DEF Ends
<1>3. \A f : Onward(f)' = Onward(f)
  BY <1>1, MeaningStands DEF Onward
<1>4. \A f : EndsAt(f)' = EndsAt(f)
  BY <1>2 DEF EndsAt
<1>5. Stacked(read)' <=> Stacked(read')
  BY <1>1, <1>3, <1>4, MeaningStands DEF Stacked
<1>6. Follows(read)' <=> Follows(read')
  BY <1>3, <1>4 DEF Follows
<1>7. Merging(read)' <=> Merging(read')
  BY <1>1, MeaningStands DEF Merging
<1>8. Targeted(read)' <=> Targeted(read')
  BY <1>1, MeaningStands DEF Targeted
<1>9. Answers(read)' <=> Answers(read')
  BY <1>1, <1>2, <1>4, <1>6, MeaningStands DEF Answers
<1> QED
  BY <1>1, <1>5, <1>6, <1>7, <1>8, <1>9, MeaningStands DEF Tells

LEMMA NoReadTells ==
    ASSUME read = NoRead
    PROVE  Tells(read)
BY DEF Tells, NoRead

\* When something changes, a reading under way is not quiet.
LEMMA ChangeTells ==
    ASSUME ResolverInv, Tells(read), read'.pc = read.pc, read.pc = "idle" \/ ~ read'.quiet
    PROVE  Tells(read)'
BY DEF Tells

LEMMA AnswerStepInv ==
    ASSUME AnswerInv, [ResolverNext]_resolverVars
    PROVE  AnswerInv'
<1>1. ResolverInv /\ Tells(read)
  BY DEF AnswerInv
<1>2. ResolverInv'
  BY <1>1, ResolverStepInv
<1>3. ASSUME UNCHANGED <<catalogVars, granted>>, Tells(read') PROVE AnswerInv'
  BY <1>2, <1>3, TellsStands DEF AnswerInv
<1>4. ASSUME NEW c \in Kind("config"), NEW k \in Keys, ResolveKey(c, k) PROVE AnswerInv'
  BY <1>1, <1>3, <1>4, ResolveKeyTells DEF ResolveKey
<1>5. CASE ReadRawByID
  BY <1>1, <1>3, <1>5, ReadRawByIDTells, InvisibleTells DEF ReadRawByID
<1>6. CASE ResolveMerged
  BY <1>1, <1>3, <1>6, ResolveMergedTells DEF ResolveMerged
<1>7. CASE Expand
  BY <1>1, <1>3, <1>7, ExpandTells DEF Expand
<1>8. CASE ResolveRef
  BY <1>1, <1>3, <1>8, ResolveRefTells DEF ResolveRef
<1>9. CASE Answered
  <2>1. Tells(read')
    BY <1>9 DEF Answered, Tells, NoRead
  <2> QED
    BY <1>3, <1>9, <2>1 DEF Answered
<1>10. ReadShape(read)
  BY <1>1, ReaderFits
<1>11. ASSUME NEW e \in Kind("environment"), Grant(e) PROVE AnswerInv'
  <2>1. read' = IF read.pc = "idle" THEN read ELSE [read EXCEPT !.quiet = FALSE, !.allowed = @ \cup granted']
    BY <1>11 DEF Grant
  <2>2. read'.pc = read.pc /\ (read.pc = "idle" \/ ~ read'.quiet)
    BY <1>10, <2>1, ReadIs
  <2> QED
    BY <1>1, <1>2, <2>2, ChangeTells DEF AnswerInv
<1>12. CASE CatalogMoves
  <2>1. read' = [read EXCEPT !.quiet = read.pc = "idle"]
    BY <1>12 DEF CatalogMoves
  <2>2. read'.pc = read.pc /\ (read.pc = "idle" \/ ~ read'.quiet)
    BY <1>10, <2>1, ReadIs
  <2> QED
    BY <1>1, <1>2, <2>2, ChangeTells DEF AnswerInv
<1>13. CASE UNCHANGED resolverVars
  BY <1>1, <1>3, <1>13 DEF resolverVars
<1> QED
  BY <1>4, <1>5, <1>6, <1>7, <1>8, <1>9, <1>11, <1>12, <1>13 DEF ResolverNext

\* While nothing changes, the walk of the chains and references computes what the catalog
\* means: resolveMerged finds the nearest value, resolveKey's seen-guard fires on a circle and
\* nowhere else, and a refusal, a broken base and the depth are answered exactly where the
\* references lead to one.
THEOREM AnswersAreTrue == ResolverSpec => []AnswerIsTheTruth
<1>1. ResolverInit => AnswerInv
  BY ResolverInitInv, NoReadTells DEF AnswerInv, ResolverInit
<1>2. AnswerInv /\ [ResolverNext]_resolverVars => AnswerInv'
  BY AnswerStepInv
<1>3. AnswerInv => AnswerIsTheTruth
  BY AnswersTell DEF AnswerInv, AnswerIsTheTruth
<1> QED
  BY <1>1, <1>2, <1>3, PTL DEF ResolverSpec

=============================================================================
