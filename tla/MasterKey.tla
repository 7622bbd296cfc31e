----------------------------- MODULE MasterKey -----------------------------
(***************************************************************************)
(* The root of the key hierarchy: the seal configuration in the database,  *)
(* the master key in the process's keyring, the unseal and rekey           *)
(* ceremonies, and the rotation that re-wraps every master-wrapped row.    *)
(*                                                                         *)
(* A master key is a number, in the order in which they are generated; 0   *)
(* is none. A share is a pair <<master, index>>; <<0, index>> is a         *)
(* well-formed share of no key. A row is the sequence of masters its       *)
(* ciphertexts are wrapped under: one per KEK version for a project, whose *)
(* superseded versions are rows of project_kek_versions, and a single one  *)
(* for everything else.                                                    *)
(***************************************************************************)
EXTENDS Naturals, Sequences, FiniteSets

CONSTANTS
    Requests,    \* request handlers of the one server process
    Projects,    \* projects that may be created
    Settings,    \* other rows wrapped by the master and upserted: OIDC client
                 \* secrets, TOTP secrets, notification channels
    AuthKey,     \* the token-HMAC key's row
    Shares,      \* share indices
    Mistyped,    \* share indices an operator may mistype
    Threshold,   \* shares needed to reconstruct
    MaxMaster,   \* bound on the masters ever generated
    MaxVersions  \* bound on a project's KEK versions

ASSUME MasterKeyAssumption ==
    /\ Threshold \in Nat \ {0} /\ MaxMaster \in Nat /\ MaxVersions \in Nat
    /\ Mistyped \subseteq Shares
    /\ AuthKey \notin Projects /\ AuthKey \notin Settings
    /\ Projects \cap Settings = {}

VARIABLES
    type,        \* seal_config.type
    seal,        \* the master the stored key check value verifies; 0 before init
    row,         \* row -> masters of its ciphertexts
    master,      \* Keyring.master; 0 while sealed
    minted,      \* masters generated so far
    submitted,   \* ShamirUnsealer.submitted
    ceremony,    \* rekeyState.active
    collected,   \* rekeyState.submitted
    locked,      \* rows locked and read by the rotation's transaction
    pc, cand, item, parts,   \* each handler: where it is, the master key, the row
                             \* and the shares it holds
    held,        \* masters whose shares reached the operators
    lost,        \* history: sealed masters whose shares reached nobody
    late,        \* history: rows written by a writer a rotation overtook
    stale        \* history: masters in the keyring that were no longer the seal's

database == <<type, seal, row, locked>>
ceremonies == <<submitted, ceremony, collected>>
handler == <<pc, cand, item, parts>>
history == <<held, lost, late, stale>>
vars == <<database, master, minted, ceremonies, handler, history>>

Masters == 1 .. MaxMaster
Rows == Projects \cup Settings \cup {AuthKey}
AllShares == (0 .. MaxMaster) \X Shares
NoRow == "no row"

Init ==
    /\ type \in {"shamir", "awskms"}
    /\ seal = 0 /\ row = [b \in Rows |-> << >>] /\ locked = {}
    /\ master = 0 /\ minted = 0
    /\ submitted = {} /\ ceremony = "closed" /\ collected = {}
    /\ pc = [r \in Requests |-> "idle"] /\ cand = [r \in Requests |-> 0]
    /\ item = [r \in Requests |-> NoRow] /\ parts = [r \in Requests |-> {}]
    /\ held = {} /\ lost = {} /\ late = {} /\ stale = {}

----------------------------------------------------------------------------
\* RotateMaster holds the keyring's write lock until the swap or the failure.
Rotating(r) == pc[r] \in {"select", "commit", "swap"}
KeyringFree == \A r \in Requests : ~Rotating(r)

\* A row is locked by the rotation's transaction or by RotateKEK's.
RowFree(b) == b \notin locked /\ \A r \in Requests : ~(pc[r] = "kek" /\ item[r] = b)

\* Combine takes every share; any of another key, or of none, spoils the result.
\* A single-share seal takes exactly one.
Combine(shares) ==
    IF /\ Cardinality(shares) >= Threshold
       /\ Threshold = 1 => Cardinality(shares) = 1
       /\ \E s \in shares : \A t \in shares : t[1] = s[1]
    THEN (CHOOSE s \in shares : TRUE)[1] ELSE 0

\* ... and the key check value rejects every key but the seal's.
Verified(shares) == seal # 0 /\ Combine(shares) = seal

\* Handlers whose response will carry the shares of a key that is already sealed.
Carriers == {"swap", "close", "deliver", "admin"}

Goto(r, to) == pc' = [pc EXCEPT ![r] = to]
Finish(r) ==
    /\ Goto(r, "idle") /\ cand' = [cand EXCEPT ![r] = 0]
    /\ item' = [item EXCEPT ![r] = NoRow] /\ parts' = [parts EXCEPT ![r] = {}]

\* The shares a handler was carrying are gone.
Drop(ms) == lost' = IF type = "shamir" THEN lost \cup ms ELSE lost

----------------------------------------------------------------------------
(* Initialization.                                                         *)

\* handleInit, serialized by initMu: the first one generates the master and
\* stores the seal configuration.
InitSeal(r) ==
    /\ pc[r] = "idle" /\ seal = 0 /\ minted < MaxMaster
    /\ minted' = minted + 1 /\ seal' = minted + 1
    /\ cand' = [cand EXCEPT ![r] = minted + 1] /\ Goto(r, "admin")
    /\ UNCHANGED <<type, row, locked, master, ceremonies, item, parts, history>>

\* bootstrapAdmin succeeds; a KMS seal is then unsealed at once.
BootstrapAdmin(r) ==
    /\ pc[r] = "admin"
    /\ Goto(r, IF type = "shamir" THEN "deliver" ELSE "combine")
    /\ cand' = IF type = "shamir" THEN cand ELSE [cand EXCEPT ![r] = 0]
    /\ UNCHANGED <<database, master, minted, ceremonies, item, parts, history>>

\* bootstrapAdmin fails: the handler answers 500 and the shares go nowhere.
BootstrapFails(r) ==
    /\ pc[r] = "admin"
    /\ Drop({cand[r]}) /\ Finish(r)
    /\ UNCHANGED <<database, master, minted, ceremonies, held, late, stale>>

\* The response with the shares arrives, or the connection is gone.
Deliver(r) ==
    /\ pc[r] = "deliver"
    /\ held' = held \cup {cand[r]} /\ Finish(r)
    /\ UNCHANGED <<database, master, minted, ceremonies, lost, late, stale>>
ResponseLost(r) ==
    /\ pc[r] = "deliver"
    /\ Drop({cand[r]}) /\ Finish(r)
    /\ UNCHANGED <<database, master, minted, ceremonies, held, late, stale>>

----------------------------------------------------------------------------
(* Unsealing.                                                              *)

\* handleUnseal with a share: nothing to do unless initialized and sealed.
UnsealWithShare(r, s) ==
    /\ pc[r] = "idle" /\ type = "shamir" /\ seal # 0 /\ master = 0
    /\ parts' = [parts EXCEPT ![r] = {s}] /\ Goto(r, "submit")
    /\ UNCHANGED <<database, master, minted, ceremonies, cand, item, history>>

\* handleUnseal of a KMS seal, and Boot's automatic unseal.
UnsealByKMS(r) ==
    /\ pc[r] = "idle" /\ type = "awskms" /\ seal # 0 /\ master = 0
    /\ Goto(r, "combine")
    /\ UNCHANGED <<database, master, minted, ceremonies, cand, item, parts, history>>

\* SubmitShare; a duplicate ends the request.
SubmitShare(r) ==
    /\ pc[r] = "submit"
    /\ submitted' = submitted \cup parts[r]
    /\ parts' = [parts EXCEPT ![r] = {}]
    /\ Goto(r, CASE parts[r] \subseteq submitted -> "idle"
                 [] Cardinality(submitted') >= Threshold -> "threshold"
                 [] OTHER -> "recheck")
    /\ UNCHANGED <<database, master, minted, ceremony, collected, cand, item, history>>

\* The handler looks at the keyring again: unsealed by now, the share just
\* deposited has to go; otherwise it goes on if the threshold was reached.
Recheck(r) ==
    /\ pc[r] \in {"recheck", "threshold"} /\ KeyringFree
    /\ submitted' = IF master # 0 THEN {} ELSE submitted
    /\ Goto(r, IF master = 0 /\ pc[r] = "threshold" THEN "combine" ELSE "idle")
    /\ UNCHANGED <<database, master, minted, ceremony, collected, cand, item, parts, history>>

\* Unsealer.Unseal recovers a verified master. Shamir consumes the shares ...
UnsealOK(r) ==
    /\ pc[r] = "combine"
    /\ type = "shamir" => Verified(submitted)
    /\ submitted' = {}
    /\ cand' = [cand EXCEPT ![r] = seal] /\ Goto(r, "install")
    /\ UNCHANGED <<database, master, minted, ceremony, collected, item, parts, history>>
\* ... or keeps them: too few, spoilt, or the KMS does not answer. The handler
\* clears them only if somebody else has unsealed in the meantime.
UnsealFails(r) ==
    /\ pc[r] = "combine" /\ KeyringFree
    /\ type = "shamir" => ~Verified(submitted)
    /\ submitted' = IF type = "shamir" /\ master # 0 THEN {} ELSE submitted
    /\ Goto(r, "idle")
    /\ UNCHANGED <<database, master, minted, ceremony, collected, cand, item, parts, history>>

\* Keyring.Unseal: installs the key unless there is one already.
Install(r) ==
    /\ pc[r] = "install" /\ KeyringFree
    /\ master' = IF master = 0 THEN cand[r] ELSE master
    /\ stale' = IF master = 0 /\ cand[r] # seal THEN stale \cup {cand[r]} ELSE stale
    /\ Goto(r, "hmac") /\ cand' = [cand EXCEPT ![r] = 0]
    /\ UNCHANGED <<database, minted, ceremonies, item, parts, held, lost, late>>

\* handleUnsealReset and handleSeal.
UnsealReset ==
    /\ seal # 0 /\ type = "shamir" /\ submitted # {}
    /\ submitted' = {}
    /\ UNCHANGED <<database, master, minted, ceremony, collected, handler, history>>
Seal ==
    /\ KeyringFree /\ master # 0
    /\ master' = 0
    /\ UNCHANGED <<database, minted, ceremonies, handler, history>>

----------------------------------------------------------------------------
(* Writers of master-wrapped rows: a wrap under the keyring's read lock and *)
(* then, in its own statement, the row.                                     *)

WrapRow(r, b) ==
    /\ KeyringFree
    /\ cand' = [cand EXCEPT ![r] = master] /\ item' = [item EXCEPT ![r] = b]
    /\ Goto(r, "store")

\* CreateProject (the id is fresh), EnrollTOTP, SetOIDCProvider, CreateChannel.
BeginPut(r, b) ==
    /\ pc[r] = "idle" /\ master # 0
    /\ b \in Projects => row[b] = << >> /\ \A q \in Requests : item[q] # b
    /\ WrapRow(r, b)
    /\ UNCHANGED <<database, master, minted, ceremonies, parts, history>>

\* EnsureHMACKey, the last thing an unseal does.
EnsureHMACKey(r) ==
    /\ pc[r] = "hmac"
    /\ \/ row[AuthKey] = << >> /\ master # 0 /\ WrapRow(r, AuthKey) /\ UNCHANGED parts
       \/ (row[AuthKey] # << >> \/ master = 0) /\ Finish(r)
    /\ UNCHANGED <<database, master, minted, ceremonies, history>>

\* The INSERT or upsert. The auth key's does nothing if there is one already.
StoreRow(r) ==
    LET b == item[r]
        writes == b \in Settings \/ row[b] = << >>
    IN  /\ pc[r] = "store" /\ RowFree(b)
        /\ row' = IF writes THEN [row EXCEPT ![b] = <<cand[r]>>] ELSE row
        /\ late' = IF writes /\ cand[r] # seal THEN late \cup {b} ELSE late
        /\ Finish(r)
        /\ UNCHANGED <<type, seal, locked, master, minted, ceremonies, held, lost, stale>>

\* The statement fails, or its client is gone.
StoreFails(r) ==
    /\ pc[r] = "store" /\ Finish(r)
    /\ UNCHANGED <<database, master, minted, ceremonies, history>>

\* RotateKEK: the project's row is locked first ...
LockProject(r, p) ==
    /\ pc[r] = "idle" /\ row[p] # << >> /\ Len(row[p]) < MaxVersions /\ RowFree(p)
    /\ item' = [item EXCEPT ![r] = p] /\ Goto(r, "kek")
    /\ UNCHANGED <<database, master, minted, ceremonies, cand, parts, history>>

\* Mutant of RotateKEK: the wrap does not look whether the keyring is sealed.
RotateKEKSealed(r) ==
    /\ pc[r] = "kek" /\ KeyringFree
    /\ row' = [row EXCEPT ![item[r]] = Append(@, master)]
    /\ Finish(r)
    /\ UNCHANGED <<type, seal, locked, master, minted, ceremonies, history>>

\* ... and the new KEK wrapped, with the row's lock held, and committed.
RotateKEK(r) ==
    /\ pc[r] = "kek" /\ KeyringFree
    /\ row' = IF master = 0 THEN row ELSE [row EXCEPT ![item[r]] = Append(@, master)]
    /\ Finish(r)
    /\ UNCHANGED <<type, seal, locked, master, minted, ceremonies, history>>

----------------------------------------------------------------------------
(* Rotation of the master.                                                 *)

\* handleMasterKeyRekeyInit.
RekeyInit ==
    /\ KeyringFree /\ master # 0 /\ type = "shamir" /\ ceremony = "closed"
    /\ ceremony' = "open" /\ collected' = {}
    /\ UNCHANGED <<database, master, minted, submitted, handler, history>>

\* handleMasterKeyRekeyCancel.
RekeyCancel ==
    /\ ceremony = "open"
    /\ ceremony' = "closed" /\ collected' = {}
    /\ UNCHANGED <<database, master, minted, submitted, handler, history>>

\* handleMasterKeyRekeySubmit with the open ceremony's nonce. The share that
\* reaches the threshold closes the ceremony, so that no other one rotates.
RekeySubmit(r, s) ==
    /\ pc[r] = "idle" /\ ceremony = "open"
    /\ collected' = collected \cup {s}
    /\ IF Cardinality(collected') < Threshold
       THEN UNCHANGED <<ceremony, handler>>
       ELSE /\ ceremony' = "closed"
            /\ parts' = [parts EXCEPT ![r] = collected'] /\ Goto(r, "prove")
            /\ UNCHANGED <<cand, item>>
    /\ UNCHANGED <<database, master, minted, submitted, history>>

\* Proof of possession against the stored key check value.
Prove(r) ==
    /\ pc[r] = "prove"
    /\ parts' = [parts EXCEPT ![r] = {}]
    /\ Goto(r, IF Verified(parts[r]) THEN "rotate" ELSE "failed")
    /\ UNCHANGED <<database, master, minted, ceremonies, cand, item, history>>

\* handleMasterKeyRotate of a KMS seal.
RotateByKMS(r) ==
    /\ pc[r] = "idle" /\ type = "awskms" /\ seal # 0 /\ master # 0 /\ minted < MaxMaster
    /\ Goto(r, "rotate")
    /\ UNCHANGED <<database, master, minted, ceremonies, cand, item, parts, history>>

\* performRotation: a fresh master, and the keyring's write lock.
RotateMaster(r) ==
    /\ pc[r] = "rotate" /\ KeyringFree /\ minted < MaxMaster
    /\ IF master = 0
       THEN Goto(r, "failed") /\ UNCHANGED <<minted, cand>>
       ELSE /\ minted' = minted + 1
            /\ cand' = [cand EXCEPT ![r] = minted + 1] /\ Goto(r, "select")
    /\ UNCHANGED <<database, master, ceremonies, item, parts, history>>

\* RewrapAllUnderNewMaster reads and locks every row; each must open under the
\* keyring's master.
SelectRows(r) ==
    /\ pc[r] = "select"
    /\ \A b \in Rows : row[b] # << >> => RowFree(b)
    /\ \A b \in Rows : \A i \in DOMAIN row[b] : row[b][i] = master
    /\ locked' = {b \in Rows : row[b] # << >>}
    /\ Goto(r, "commit")
    /\ UNCHANGED <<type, seal, row, master, minted, ceremonies, cand, item, parts, history>>

\* Mutant of Rewrapped: only a project's current KEK is re-wrapped.
RewrappedLatest(m) ==
    [b \in Rows |-> IF b \in locked THEN [row[b] EXCEPT ![Len(row[b])] = m] ELSE row[b]]

\* The rows as the transaction leaves them.
Rewrapped(m) ==
    [b \in Rows |-> IF b \in locked THEN [i \in DOMAIN row[b] |-> m] ELSE row[b]]

\* The transaction commits: rows, key check value and wrapped master together.
\* Rows inserted since they were read have been missed.
CommitRotation(r) ==
    /\ row' = Rewrapped(cand[r]) /\ seal' = cand[r] /\ locked' = {}
    /\ late' = late \cup {b \in Rows : row[b] # << >> /\ b \notin locked}
    /\ UNCHANGED type

CommitOK(r) ==
    /\ pc[r] = "commit" /\ CommitRotation(r)
    /\ Goto(r, "swap")
    /\ UNCHANGED <<master, minted, ceremonies, cand, item, parts, held, lost, stale>>

\* It commits but the answer does not arrive: RotateMaster keeps the old key and
\* performRotation discards the new shares.
CommitUnanswered(r) ==
    /\ pc[r] = "commit" /\ CommitRotation(r)
    /\ Goto(r, "failed") /\ Drop({cand[r]}) /\ stale' = stale \cup {master}
    /\ UNCHANGED <<master, minted, ceremonies, cand, item, parts, held>>

\* A row that does not open, a database or KMS error, a client that went away.
RotationFails(r) ==
    /\ pc[r] \in {"select", "commit"}
    /\ locked' = {} /\ Goto(r, "failed")
    /\ UNCHANGED <<type, seal, row, master, minted, ceremonies, cand, item, parts, history>>

\* Mutant of Swap: a failed read of the new version's number drops the shares.
SwapForgetting(r) ==
    /\ pc[r] = "swap"
    /\ master' = cand[r] /\ Finish(r)
    /\ UNCHANGED <<database, minted, ceremonies, history>>

\* Mutant of Swap: the old master stays in the keyring.
SwapOmitted(r) ==
    /\ pc[r] = "swap"
    /\ Goto(r, "close")
    /\ UNCHANGED <<database, master, minted, ceremonies, cand, item, parts, history>>

\* The keyring takes the new master and its lock is released.
Swap(r) ==
    /\ pc[r] = "swap"
    /\ master' = cand[r]
    /\ Goto(r, IF type = "shamir" THEN "close" ELSE "idle")
    /\ cand' = IF type = "shamir" THEN cand ELSE [cand EXCEPT ![r] = 0]
    /\ UNCHANGED <<database, minted, ceremonies, item, parts, history>>

\* closeRekey, whatever ceremony is open by now, and the answer. (A KMS seal has
\* no ceremony to close.)
CloseRekey(r) ==
    /\ pc[r] \in {"close", "failed"}
    /\ ceremony' = "closed" /\ collected' = {}
    /\ Goto(r, IF pc[r] = "close" THEN "deliver" ELSE "idle")
    /\ cand' = IF pc[r] = "close" THEN cand ELSE [cand EXCEPT ![r] = 0]
    /\ UNCHANGED <<database, master, minted, submitted, item, parts, history>>

\* The process dies and another one boots, sealed.
Crash ==
    /\ seal # 0
    /\ master' = 0 /\ submitted' = {} /\ ceremony' = "closed" /\ collected' = {}
    /\ locked' = {}
    /\ Drop({cand[r] : r \in {q \in Requests : pc[q] \in Carriers}})
    /\ pc' = [r \in Requests |-> "idle"] /\ cand' = [r \in Requests |-> 0]
    /\ item' = [r \in Requests |-> NoRow] /\ parts' = [r \in Requests |-> {}]
    /\ UNCHANGED <<type, seal, row, minted, held, late, stale>>

----------------------------------------------------------------------------
\* Operators hold the shares they were given, and may mistype one.
KnownShares == (held \X Shares) \cup ({0} \X Mistyped)

InitStep(r) == InitSeal(r) \/ BootstrapAdmin(r) \/ BootstrapFails(r)
                \/ Deliver(r) \/ ResponseLost(r)
UnsealStep(r) == \/ UnsealByKMS(r) \/ SubmitShare(r) \/ Recheck(r)
                 \/ UnsealOK(r) \/ UnsealFails(r) \/ Install(r) \/ EnsureHMACKey(r)
                 \/ \E s \in KnownShares : UnsealWithShare(r, s)
WriteStep(r) == \/ \E b \in Projects \cup Settings : BeginPut(r, b)
                \/ StoreRow(r) \/ StoreFails(r) \/ RotateKEK(r)
                \/ \E p \in Projects : LockProject(r, p)
RotateStep(r) == \/ \E s \in KnownShares : RekeySubmit(r, s)
                 \/ Prove(r) \/ RotateByKMS(r) \/ RotateMaster(r) \/ SelectRows(r)
                 \/ CommitOK(r) \/ CommitUnanswered(r) \/ RotationFails(r)
                 \/ Swap(r) \/ CloseRekey(r)

Next ==
    \/ \E r \in Requests : InitStep(r) \/ UnsealStep(r) \/ WriteStep(r) \/ RotateStep(r)
    \/ UnsealReset \/ Seal \/ RekeyInit \/ RekeyCancel \/ Crash

Spec == Init /\ [][Next]_vars

----------------------------------------------------------------------------
(* Properties.                                                             *)

\* Every variable has its type.
TypeOK ==
    /\ type \in {"shamir", "awskms"} /\ seal \in 0 .. MaxMaster
    /\ row \in [Rows -> Seq(Masters)] /\ locked \subseteq Rows
    /\ master \in 0 .. MaxMaster /\ minted \in 0 .. MaxMaster
    /\ submitted \subseteq AllShares /\ collected \subseteq AllShares
    /\ ceremony \in {"closed", "open"}
    /\ pc \in [Requests -> {"idle", "submit", "recheck", "threshold", "combine",
                            "install", "hmac", "store", "kek", "prove", "rotate", "select",
                            "commit", "failed"} \cup Carriers]
    /\ cand \in [Requests -> 0 .. MaxMaster]
    /\ item \in [Requests -> Rows \cup {NoRow}]
    /\ parts \in [Requests -> SUBSET AllShares]
    /\ held \subseteq Masters /\ lost \subseteq Masters
    /\ late \subseteq Rows /\ stale \subseteq Masters

\* A ciphertext the sealed master does not open was written by somebody a
\* rotation overtook between the wrap and the row, or under a keyring that no
\* longer held the seal's key. RewrapAllUnderNewMaster itself leaves none behind.
UnopenableOnlyIfOvertaken ==
    \A b \in Rows : \A i \in DOMAIN row[b] :
        row[b][i] # seal => b \in late \/ row[b][i] \in stale

\* An unsealed keyring holds the seal's master, except between a rotation's
\* commit and its swap, after a commit whose answer was lost, and when an unseal
\* installs a key verified before a rotation and a seal overtook it.
KeyringIsTheSeals ==
    master \notin {0, seal} => master \in stale \/ \E r \in Requests : pc[r] = "swap"

\* The shares of the sealed master have reached the operators, or some handler
\* still carries them, or they were dropped by a crash, a lost response, a lost
\* commit answer or a failed admin bootstrap.
SharesAreAccountedFor ==
    type = "shamir" /\ seal # 0 =>
        \/ seal \in held \cup lost
        \/ \E r \in Requests : pc[r] \in Carriers /\ cand[r] = seal

\* A rotation that reports failure was rolled back: the seal is not the key whose
\* shares are about to be discarded.
FailedMeansRolledBack ==
    \A r \in Requests : pc[r] = "failed" /\ cand[r] # 0 => seal # cand[r]

=============================================================================
