------------------------------ MODULE Passkeys ------------------------------
(***************************************************************************)
(* WebAuthn passkeys: the ceremonies that register one and the two that    *)
(* sign in with one, with an e-mail address (identified) and without       *)
(* (discoverable). A ceremony is two requests joined by a challenge row;   *)
(* each finish is a sequence of separate statements.                       *)
(*                                                                         *)
(* The authenticator is outside the system: it signs any challenge with    *)
(* its next counter value, a clone or a replay signs with one already      *)
(* used, and a counterless one always with 0. The signature covers the     *)
(* challenge and the counter but not the user handle, which a client may   *)
(* set to anything.                                                        *)
(***************************************************************************)
EXTENDS Naturals, FiniteSets, FiniteSetsExt

CONSTANTS
    Members,         \* user accounts
    Authenticators,  \* credentials an authenticator can create
    Counterless,     \* those that implement no signature counter
    PasskeyCalls,    \* concurrent finish requests
    MaxCredentials,  \* webauthnMaxCredentials
    MaxChallenges,   \* bound on challenges issued
    MaxCount,        \* bound on signature counters
    PasskeyFaults    \* bound on deletions, disablings, lockouts and requests cut short

ASSUME PasskeyAssumption ==
    /\ "nobody" \notin Members /\ Counterless \subseteq Authenticators
    /\ MaxCredentials \in Nat /\ MaxChallenges \in Nat \ {0}
    /\ MaxCount \in Nat /\ PasskeyFaults \in Nat

VARIABLES
    member,         \* per account: disabled, locked
    challenges,     \* the unexpired webauthn_challenges rows
    issued,         \* how many challenges have been issued
    credentials,    \* the webauthn_credentials rows, by credential id
    device,         \* the counter inside each authenticator; and whose it is
    ceremony,       \* the local state of each finish request
    passkeyFaults,
    opened,         \* history: the assertions that opened a session, and whose
    reopened        \* history: an assertion opened a second session

passkeyVars == <<member, challenges, issued, credentials, device, ceremony,
                 passkeyFaults, opened, reopened>>

Nobody == "nobody"
NoCredential == [owner |-> Nobody, count |-> 0, name |-> 0, discoverable |-> FALSE]
IdleCeremony == [pc |-> "idle", kind |-> "none", user |-> Nobody, handle |-> Nobody,
                 key |-> Nobody, n |-> 0, challenge |-> 0, name |-> 0, locked |-> FALSE]

PasskeyInit ==
    /\ member = [u \in Members |-> [disabled |-> FALSE, locked |-> FALSE]]
    /\ challenges = {} /\ issued = 0
    /\ credentials = [k \in Authenticators |-> NoCredential]
    /\ device = [k \in Authenticators |-> [holder |-> Nobody, count |-> 0]]
    /\ ceremony = [c \in PasskeyCalls |-> IdleCeremony]
    /\ passkeyFaults = 0 /\ opened = {} /\ reopened = FALSE

Step(c, pc) == ceremony' = [ceremony EXCEPT ![c].pc = pc]
Over(c) == ceremony' = [ceremony EXCEPT ![c] = IdleCeremony]
Mishap == passkeyFaults < PasskeyFaults /\ passkeyFaults' = passkeyFaults + 1

----------------------------------------------------------------------------
(* The statements of store/webauthn.go.                                    *)

ListCredentials(u) == {k \in Authenticators : credentials[k].owner = u}

InsertChallenge(purpose, u) ==
    /\ issued < MaxChallenges /\ issued' = issued + 1
    /\ challenges' = challenges \cup {[id |-> issued + 1, purpose |-> purpose, user |-> u]}

\* DELETE ... RETURNING: whoever deletes the row has the challenge.
ClaimChallenge(ch) == challenges' = challenges \ {ch}

\* UNIQUE (credential_id), UNIQUE (user_id, lower(nickname)).
InsertCredential(c) ==
    /\ credentials[ceremony[c].key] = NoCredential
    /\ \A k \in ListCredentials(ceremony[c].user) : credentials[k].name # ceremony[c].name

\* Mutant of RecordAssertion: the counter is not compared.
RecordAssertionUnchecked(c) == credentials[ceremony[c].key].owner # Nobody
\* UPDATE ... WHERE the row is still there and the counter moves forward.
RecordAssertion(c) ==
    LET row == credentials[ceremony[c].key]
    IN  row.owner # Nobody /\ (ceremony[c].n > row.count \/ (ceremony[c].n = 0 /\ row.count = 0))

----------------------------------------------------------------------------
(* Registration.                                                           *)

\* BeginWebAuthnRegistration: the cap is checked here and nowhere else.
BeginRegistration(u) ==
    /\ Cardinality(ListCredentials(u)) < MaxCredentials /\ ~member[u].disabled
    /\ InsertChallenge("register", u)
    /\ UNCHANGED <<member, credentials, device, ceremony, passkeyFaults, opened, reopened>>

\* FinishWebAuthnRegistration: the challenge is spent before it is compared with the
\* session's user. The authenticator makes a credential of its own for the account.
FinishRegistration(c, u, ch, k) ==
    /\ ceremony[c].pc = "idle" /\ ch.purpose = "register" /\ device[k].holder = Nobody
    /\ ClaimChallenge(ch)
    /\ IF ch.user = u
         THEN /\ ceremony' = [ceremony EXCEPT ![c] = [IdleCeremony EXCEPT !.pc = "load",
                                 !.kind = "register", !.user = u, !.key = k, !.challenge = ch.id]]
              /\ device' = [device EXCEPT ![k].holder = u]
         ELSE UNCHANGED <<ceremony, device>>
    /\ UNCHANGED <<member, issued, credentials, passkeyFaults, opened, reopened>>

\* uniqueNickname: the first label the rows it was given leave free.
UniqueNickname(taken) == Min((1..(Cardinality(taken) + 1)) \ taken)
LoadRegistration(c) ==
    /\ ceremony[c].pc = "load" /\ ceremony[c].kind = "register"
    /\ ceremony' = [ceremony EXCEPT ![c].pc = "insert",
           ![c].name = UniqueNickname({credentials[k].name : k \in ListCredentials(ceremony[c].user)})]
    /\ UNCHANGED <<member, challenges, issued, credentials, device, passkeyFaults, opened, reopened>>

\* A label taken in between is reported as an authenticator already registered.
SaveCredential(c) ==
    /\ ceremony[c].pc = "insert"
    /\ credentials' = IF InsertCredential(c)
           THEN [credentials EXCEPT ![ceremony[c].key] =
                   [NoCredential EXCEPT !.owner = ceremony[c].user, !.name = ceremony[c].name]]
           ELSE credentials
    /\ Over(c)
    /\ UNCHANGED <<member, challenges, issued, device, passkeyFaults, opened, reopened>>

\* A label of the caller's own key, if no other key of the caller has it.
RenameCredential(u, k, name) ==
    /\ k \in ListCredentials(u) /\ credentials[k].name # name
    /\ \A j \in ListCredentials(u) : credentials[j].name # name
    /\ credentials' = [credentials EXCEPT ![k].name = name]
    /\ UNCHANGED <<member, challenges, issued, device, ceremony, passkeyFaults, opened, reopened>>
DeleteCredential(u, k) ==
    /\ k \in ListCredentials(u) /\ Mishap
    /\ credentials' = [credentials EXCEPT ![k] = NoCredential]
    /\ UNCHANGED <<member, challenges, issued, device, ceremony, opened, reopened>>

----------------------------------------------------------------------------
(* Sign-in.                                                                *)

\* BeginWebAuthnLogin: an account that is disabled or has no passkey, like one that
\* does not exist, gets a decoy challenge of no account.
BeginLogin(u) ==
    /\ InsertChallenge("login",
           IF ~member[u].disabled /\ ListCredentials(u) # {} THEN u ELSE Nobody)
    /\ UNCHANGED <<member, credentials, device, ceremony, passkeyFaults, opened, reopened>>
BeginDiscoverableLogin ==
    /\ InsertChallenge("login_discoverable", Nobody)
    /\ UNCHANGED <<member, credentials, device, ceremony, passkeyFaults, opened, reopened>>

\* What an authenticator puts into an assertion: the next count, the last one again
\* (a clone, or the same assertion sent twice), or 0.
Counts(k) == IF k \in Counterless THEN {0} ELSE {device[k].count, device[k].count + 1} \ {0}

\* claimChallenge, and the test of what kind of challenge it was.
ClaimLogin(c, ch, k, n, handle) ==
    /\ ceremony[c].pc = "idle" /\ ch.purpose \in {"login", "login_discoverable"}
    /\ device[k].holder # Nobody /\ n <= MaxCount
    /\ device' = [device EXCEPT ![k].count = n]
    /\ ClaimChallenge(ch)
    /\ IF (ch.purpose = "login") = (ch.user # Nobody)
         THEN ceremony' = [ceremony EXCEPT ![c] = [IdleCeremony EXCEPT !.pc = "load",
                  !.kind = ch.purpose, !.user = ch.user, !.handle = handle, !.key = k, !.n = n,
                  !.challenge = ch.id]]
         ELSE UNCHANGED ceremony
    /\ UNCHANGED <<member, issued, credentials, passkeyFaults, opened, reopened>>

\* The account: the challenge's, or the stored owner of the credential; never what
\* the client says.
Account(c) == IF ceremony[c].kind = "login" THEN ceremony[c].user ELSE credentials[ceremony[c].key].owner

\* ValidateLogin and ValidateDiscoverableLogin, with the library's clone warning.
ValidateLogin(c, u) ==
    LET row == credentials[ceremony[c].key]
    IN  /\ row.owner = u
        /\ ceremony[c].kind = "login_discoverable" => ceremony[c].handle = u
        /\ ceremony[c].n > row.count \/ (ceremony[c].n = 0 /\ row.count = 0)

\* The account and its credentials are read; the lock is honoured from this row.
LoadLogin(c) ==
    /\ ceremony[c].pc = "load" /\ ceremony[c].kind # "register"
    /\ LET u == Account(c)
       IN  IF u \in Members /\ ~member[u].disabled /\ ValidateLogin(c, u)
             THEN ceremony' = [ceremony EXCEPT ![c].pc = "record", ![c].user = u,
                                               ![c].locked = member[u].locked]
             ELSE Over(c)
    /\ UNCHANGED <<member, challenges, issued, credentials, device, passkeyFaults, opened, reopened>>

\* RecordAssertion, and for a discoverable login MarkDiscoverable.
RecordLogin(c) ==
    /\ ceremony[c].pc = "record"
    /\ IF RecordAssertion(c)
         THEN /\ credentials' = [credentials EXCEPT ![ceremony[c].key].count = ceremony[c].n,
                     ![ceremony[c].key].discoverable = @ \/ ceremony[c].kind = "login_discoverable"]
              /\ IF ceremony[c].locked THEN Over(c) ELSE Step(c, "reset")
         ELSE credentials' = credentials /\ Over(c)
    /\ UNCHANGED <<member, challenges, issued, device, passkeyFaults, opened, reopened>>

\* ResetLoginFailures, which also lifts a lock set since the row was read.
ResetLogin(c) ==
    /\ ceremony[c].pc = "reset"
    /\ member' = [member EXCEPT ![ceremony[c].user].locked = FALSE]
    /\ Step(c, "mint")
    /\ UNCHANGED <<challenges, issued, credentials, device, passkeyFaults, opened, reopened>>

\* createSession.
MintSession(c) ==
    LET pass == [user |-> ceremony[c].user, key |-> ceremony[c].key, n |-> ceremony[c].n,
                 challenge |-> ceremony[c].challenge]
    IN  /\ ceremony[c].pc = "mint"
        /\ opened' = opened \cup {pass}
        /\ reopened' = (reopened \/ \E p \in opened :
               p.challenge = pass.challenge \/ (p.key = pass.key /\ p.n = pass.n /\ p.n # 0))
        /\ Over(c)
        /\ UNCHANGED <<member, challenges, issued, credentials, device, passkeyFaults>>

----------------------------------------------------------------------------
(* Around them.                                                            *)

ExpireChallenge(ch) ==
    /\ challenges' = challenges \ {ch}
    /\ UNCHANGED <<member, issued, credentials, device, ceremony, passkeyFaults, opened, reopened>>
DisableMember(u) ==
    /\ ~member[u].disabled /\ Mishap
    /\ member' = [member EXCEPT ![u].disabled = TRUE]
    /\ UNCHANGED <<challenges, issued, credentials, device, ceremony, opened, reopened>>
LockMember(u) ==
    /\ ~member[u].locked /\ Mishap
    /\ member' = [member EXCEPT ![u].locked = TRUE]
    /\ UNCHANGED <<challenges, issued, credentials, device, ceremony, opened, reopened>>
CeremonyDies(c) ==
    /\ ceremony[c].pc # "idle" /\ Mishap
    /\ Over(c)
    /\ UNCHANGED <<member, challenges, issued, credentials, device, opened, reopened>>

PasskeyNext ==
    \/ \E u \in Members : \/ BeginRegistration(u) \/ BeginLogin(u)
                          \/ DisableMember(u) \/ LockMember(u)
                          \/ \E k \in Authenticators :
                                DeleteCredential(u, k) \/ RenameCredential(u, k, MaxCredentials)
    \/ BeginDiscoverableLogin
    \/ \E ch \in challenges :
        \/ ExpireChallenge(ch)
        \/ \E c \in PasskeyCalls, k \in Authenticators, u \in Members :
            FinishRegistration(c, u, ch, k) \/ \E n \in Counts(k) : ClaimLogin(c, ch, k, n, u)
    \/ \E c \in PasskeyCalls : \/ LoadRegistration(c) \/ SaveCredential(c)
                               \/ LoadLogin(c) \/ RecordLogin(c) \/ ResetLogin(c)
                               \/ MintSession(c) \/ CeremonyDies(c)

PasskeySpec == PasskeyInit /\ [][PasskeyNext]_passkeyVars

----------------------------------------------------------------------------
(* Properties.                                                             *)

\* An assertion opens one session: no challenge completes two logins, and no counter
\* value of a key is accepted twice, whether the same request is sent again, a clone
\* signs, or both finishes run at once (store/webauthn.go: ClaimChallenge and
\* RecordAssertion).
AssertionOpensOneSession == ~reopened

\* A passkey opens the account it was registered for and no other, whatever account
\* the client names beside it and whichever ceremony the challenge came from
\* (auth/webauthn.go: the account is never taken from the client).
PasskeyOpensItsOwner == \A p \in opened : p.user = device[p.key].holder

\* A ceremony opens one session, and its owner's.
CeremonyOpensItsOwner == AssertionOpensOneSession /\ PasskeyOpensItsOwner

=============================================================================
