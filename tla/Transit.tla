------------------------------ MODULE Transit -------------------------------
(***************************************************************************)
(* One transit key name: the key rows that come and go under it, their     *)
(* versions, and the requests that manage and use them. Every operation    *)
(* reads the key first and acts on what it read, with nothing locked in    *)
(* between; the row and its versions are two reads.                        *)
(*                                                                         *)
(* An envelope (janus:vN:...) stands for a ciphertext or a signature: the  *)
(* key and version it names and the material it was made with.             *)
(***************************************************************************)
EXTENDS Naturals, FiniteSets

CONSTANTS
    TransitCalls,   \* concurrent requests
    MaxKeys,        \* bound on keys created under the name
    MaxKeyVersion,  \* bound on versions of a key
    MaxMaterial     \* bound on materials generated

ASSUME TransitAssumption == MaxKeys \in Nat /\ MaxKeyVersion \in Nat \ {0} /\ MaxMaterial \in Nat

VARIABLES
    key,       \* the transit_keys row of the name
    versions,  \* its transit_key_versions: version -> material, 0 where there is none
    keys,      \* keys created so far
    materials, \* materials generated so far
    issued,    \* the envelopes handed out
    call,      \* the local state of each request
    highest,   \* history: the highest min_decryption_version the key has had
    slipped    \* history: a rotation that read the key before its number was trimmed
               \* has inserted that number again and moved latest_version back to it

transitVars == <<key, versions, keys, materials, issued, call, highest, slipped>>

Versions == 1 .. MaxKeyVersion
NoKey == [id |-> 0, type |-> "none", latest |-> 0, min |-> 0, deletable |-> FALSE]
NoVersions == [v \in Versions |-> 0]
IdleCall == [pc |-> "idle", op |-> "none", key |-> NoKey, versions |-> NoVersions, arg |-> 0]
Envelopes == [id : 1 .. MaxKeys, ver : Versions, mat : 1 .. MaxMaterial]
Types == {"aes256-gcm", "ed25519"}
Ops == {"rotate", "config", "trim", "delete", "encrypt", "sign", "decrypt", "verify", "rewrap"}

TransitTypeOK ==
    /\ key.id \in 0 .. MaxKeys /\ key.type \in Types \cup {"none"} /\ key.deletable \in BOOLEAN
    /\ key.id # 0 => key.latest \in Versions /\ key.min \in Versions
    /\ versions \in [Versions -> 0 .. MaxMaterial]
    /\ keys \in 0 .. MaxKeys /\ materials \in 0 .. MaxMaterial /\ issued \subseteq Envelopes
    /\ \A c \in TransitCalls : call[c].pc \in {"idle", "row", "versions", "act", "opened"}

TransitInit ==
    /\ key = NoKey /\ versions = NoVersions /\ keys = 0 /\ materials = 0 /\ issued = {}
    /\ call = [c \in TransitCalls |-> IdleCall] /\ highest = 0 /\ slipped = FALSE

TransitGoto(c, fields) == call' = [call EXCEPT ![c] = fields]
TransitDone(c) == TransitGoto(c, IdleCall)

-----------------------------------------------------------------------------
(* Management.                                                             *)

\* CreateKey: the row and version 1 in one transaction; a taken name conflicts.
CreateKey(t) ==
    /\ key.id = 0 /\ keys < MaxKeys /\ materials < MaxMaterial
    /\ keys' = keys + 1 /\ materials' = materials + 1
    /\ key' = [id |-> keys + 1, type |-> t, latest |-> 1, min |-> 1, deletable |-> FALSE]
    /\ versions' = [NoVersions EXCEPT ![1] = materials + 1]
    /\ highest' = 1
    /\ UNCHANGED <<issued, call, slipped>>

\* GetByName: the key row, and then the versions of that key id, which are gone if the
\* key is. A management request makes no use of the versions.
Manages == {"rotate", "config", "trim", "delete"}
ReadRow(c, op, arg) ==
    /\ call[c].pc = "idle" /\ key.id # 0
    /\ TransitGoto(c, [IdleCall EXCEPT !.pc = IF op \in Manages THEN "act" ELSE "row", !.op = op, !.arg = arg,
          !.key = [key EXCEPT !.min = IF op \in {"rotate", "config", "delete"} THEN 1 ELSE @,
                              !.latest = IF op \in {"trim", "delete"} THEN 1 ELSE @,
                              !.deletable = op = "delete" /\ @]])
    /\ UNCHANGED <<key, versions, keys, materials, issued, highest, slipped>>
ReadVersions(c) ==
    /\ call[c].pc = "row"
    /\ TransitGoto(c, [call[c] EXCEPT !.pc = "act",
                         !.versions = IF key.id = call[c].key.id THEN versions ELSE NoVersions])
    /\ UNCHANGED <<key, versions, keys, materials, issued, highest, slipped>>

Acting(c, op) == call[c].pc = "act" /\ call[c].op = op
Still(c) == key.id = call[c].key.id

\* Mutant of AppendVersion: a version that is there is overwritten.
AppendVersionUpserts(v, mat) ==
    /\ versions' = [versions EXCEPT ![v] = mat]
    /\ key' = [key EXCEPT !.latest = v]
\* newVersion wraps fresh material for the version after the latest one read;
\* AppendVersion inserts it, once per number, and moves latest_version to it.
AppendVersion(v, mat) ==
    IF versions[v] = 0
    THEN versions' = [versions EXCEPT ![v] = mat] /\ key' = [key EXCEPT !.latest = v]
    ELSE UNCHANGED <<key, versions>>
Rotate(c) ==
    LET v == call[c].key.latest + 1 IN
    /\ Acting(c, "rotate") /\ v \in Versions /\ materials < MaxMaterial
    /\ materials' = materials + 1
    /\ IF Still(c) THEN AppendVersion(v, materials + 1) ELSE UNCHANGED <<key, versions>>
    /\ slipped' = (slipped \/ (Still(c) /\ versions[v] = 0 /\ v <= key.latest))
    /\ TransitDone(c)
    /\ UNCHANGED <<keys, issued, highest>>

\* The new floor lies between 1 and the latest version read.
UpdateConfig(c) ==
    /\ Acting(c, "config") /\ Still(c) /\ call[c].arg \in 1 .. call[c].key.latest
    /\ key' = [key EXCEPT !.min = call[c].arg]
    /\ highest' = IF call[c].arg > highest THEN call[c].arg ELSE highest
    /\ TransitDone(c)
    /\ UNCHANGED <<versions, keys, materials, issued, slipped>>
AllowDeletion(c) ==
    /\ Acting(c, "config") /\ Still(c)
    /\ key' = [key EXCEPT !.deletable = ~@]
    /\ TransitDone(c)
    /\ UNCHANGED <<versions, keys, materials, issued, highest, slipped>>

\* At most up to the floor read; the floor may have been lowered since.
TrimBelow(v) == versions' = [w \in Versions |-> IF w < v THEN 0 ELSE versions[w]]
Trim(c) ==
    /\ Acting(c, "trim") /\ call[c].arg \in 1 .. call[c].key.min
    /\ IF Still(c) THEN TrimBelow(call[c].arg) ELSE UNCHANGED versions
    /\ TransitDone(c)
    /\ UNCHANGED <<key, keys, materials, issued, highest, slipped>>

\* The versions cascade.
DeleteKey(c) ==
    /\ Acting(c, "delete") /\ Still(c) /\ call[c].key.deletable
    /\ key' = NoKey /\ versions' = NoVersions /\ highest' = 0 /\ slipped' = FALSE
    /\ issued' = {} \* no envelope of a deleted key opens again
    /\ TransitDone(c)
    /\ UNCHANGED <<keys, materials>>

-----------------------------------------------------------------------------
(* Use.                                                                    *)

\* Encrypt, Sign, DataKey and the second half of Rewrap, under the latest version
\* read; without its material the request fails.
Makes == [encrypt |-> "aes256-gcm", sign |-> "ed25519"]
Make(c, op) ==
    LET k == call[c].key
        mat == call[c].versions[k.latest]
    IN /\ Acting(c, op) /\ k.type = Makes[op] /\ mat # 0
       /\ issued' = IF Still(c) THEN issued \cup {[id |-> k.id, ver |-> k.latest, mat |-> mat]} ELSE issued
       /\ TransitDone(c)
       /\ UNCHANGED <<key, versions, keys, materials, highest, slipped>>

\* Decrypt and Verify of an envelope: not below the floor read, and with the material
\* of its version, which must be the one it was made with.
Opens(c, e) ==
    /\ e.id = call[c].key.id /\ e.ver >= call[c].key.min /\ call[c].versions[e.ver] = e.mat
Open(c, op, e) ==
    /\ Acting(c, op) /\ Opens(c, e) /\ (op = "decrypt") = (call[c].key.type = "aes256-gcm")
    /\ TransitDone(c)
    /\ UNCHANGED <<key, versions, keys, materials, issued, highest, slipped>>
\* Rewrap opens and then encrypts from a second read of the name.
RewrapOpens(c, e) ==
    /\ Acting(c, "rewrap") /\ Opens(c, e) /\ call[c].key.type = "aes256-gcm"
    /\ TransitGoto(c, [IdleCall EXCEPT !.pc = "opened"])
    /\ UNCHANGED <<key, versions, keys, materials, issued, highest, slipped>>
RewrapReads(c) ==
    /\ call[c].pc = "opened" /\ key.id # 0
    /\ TransitGoto(c, [IdleCall EXCEPT !.pc = "row", !.op = "encrypt", !.key = key])
    /\ UNCHANGED <<key, versions, keys, materials, issued, highest, slipped>>

\* A request ends without effect: sealed, refused, conflicting, gone or broken off.
GiveUp(c) ==
    /\ call[c].pc # "idle" /\ TransitDone(c)
    /\ UNCHANGED <<key, versions, keys, materials, issued, highest, slipped>>

TransitNext ==
    \/ \E t \in Types : CreateKey(t)
    \/ \E c \in TransitCalls :
          \/ \E op \in Ops, v \in Versions : (op \notin {"config", "trim"} => v = 1) /\ ReadRow(c, op, v)
          \/ ReadVersions(c) \/ Rotate(c) \/ UpdateConfig(c) \/ AllowDeletion(c) \/ Trim(c) \/ DeleteKey(c)
          \/ \E op \in DOMAIN Makes : Make(c, op)
          \/ \E e \in issued : RewrapOpens(c, e) \/ \E op \in {"decrypt", "verify"} : Open(c, op, e)
          \/ RewrapReads(c) \/ GiveUp(c)
TransitSpec == TransitInit /\ [][TransitNext]_transitVars

-----------------------------------------------------------------------------
(* Properties.                                                             *)

\* Whatever rotations, floors and trims overlap, the latest version is there to encrypt
\* and sign with and the floor does not exclude what it makes, unless latest_version
\* slipped back.
LatestIsUsable ==
    key.id # 0 /\ ~slipped => versions[key.latest] # 0 /\ key.min <= key.latest

\* A version number means one material for the life of its key: two rotations at once
\* never leave an envelope naming a version that was made anew, unless a trim came
\* between them and freed the number.
VersionsKeepTheirMaterial ==
    ~slipped => \A e \in issued : e.id = key.id => versions[e.ver] \in {0, e.mat}

\* Trimming takes no version that was never below the floor, so that such an envelope
\* still opens.
TrimStaysBelowTheFloor ==
    \A e \in issued : e.id = key.id /\ e.ver >= highest => versions[e.ver] # 0

\* A key stays usable and what it made stays openable down to its floor.
EnvelopesStayOpenable ==
    TransitTypeOK /\ LatestIsUsable /\ VersionsKeepTheirMaterial /\ TrimStaysBelowTheFloor

=============================================================================
