----------------------------- MODULE OIDCLogin ------------------------------
(***************************************************************************)
(* Signing in through an OIDC provider: the provider row and the verifier  *)
(* cached for it, the single-use login states, the link between a subject  *)
(* of the provider and an account, and the group membership that each      *)
(* login replaces with what the verified token says.                       *)
(*                                                                         *)
(* The provider is outside the system: it may move an e-mail address from  *)
(* one subject to another and change a subject's groups at any time, and   *)
(* a token carries what held when it was issued.                           *)
(***************************************************************************)
EXTENDS Naturals, FiniteSets

CONSTANTS
    Subjects,       \* subjects of the provider
    OIDCUsers,      \* accounts, each with its e-mail address
    OIDCGroups,     \* groups of kind oidc
    Callbacks,      \* concurrent callback requests
    MaxStates,      \* bound on logins started
    MaxProvider,    \* bound on versions of the provider row
    MaxMoves        \* bound on changes at the provider and of accounts

ASSUME OIDCAssumption ==
    MaxStates \in Nat \ {0} /\ MaxProvider \in Nat \ {0} /\ MaxMoves \in Nat

VARIABLES
    provider,     \* oidc_providers: version of the row, whether it is there and enabled,
                  \* and whether a groups claim is set
    oidcCache,    \* the provider version the cached verifier was built from, 0 none
    unflushed,    \* a change of the row whose invalidation is still to come
    loginStates,  \* oidc_auth_requests
    started,      \* logins started
    link,         \* oidc_identities
    disabled,     \* disabled accounts
    idp,          \* what the provider says of each subject now
    membership,   \* group_members of kind oidc, by account
    callback,     \* the local state of each callback
    moves,
    oidcSessions, \* history: sessions opened: state, subject, account
    overlapped    \* history: accounts with two membership replacements in flight at once

oidcVars == <<provider, oidcCache, unflushed, loginStates, started, link, disabled, idp,
              membership, callback, moves, oidcSessions, overlapped>>

Unlinked == "unlinked"
NoClaims == [email |-> Unlinked, groups |-> {}, known |-> FALSE]
IdleCallback == [pc |-> "idle", state |-> 0, subject |-> Unlinked, claims |-> NoClaims,
                 row |-> 0, user |-> Unlinked, removes |-> {}]

OIDCInit ==
    /\ provider = [version |-> 0, enabled |-> FALSE, groupsClaim |-> FALSE]
    /\ oidcCache = 0 /\ unflushed = FALSE
    /\ loginStates = {} /\ started = 0
    /\ link = [s \in Subjects |-> Unlinked] /\ disabled = {}
    /\ idp \in [Subjects -> [email : OIDCUsers, groups : {OIDCGroups}, known : {TRUE}]]
    /\ \A s, t \in Subjects : s # t => idp[s].email # idp[t].email
    /\ membership = [u \in OIDCUsers |-> {}]
    /\ callback = [c \in Callbacks |-> IdleCallback]
    /\ moves = 0 /\ oidcSessions = {} /\ overlapped = {}

At(c, pc) == callback[c].pc = pc
Done(c) == callback' = [callback EXCEPT ![c] = IdleCallback]
Move == moves < MaxMoves /\ moves' = moves + 1

----------------------------------------------------------------------------
(* The provider row.                                                       *)

SetOIDCProvider(groupsClaim) ==
    /\ provider.version < MaxProvider
    /\ provider' = [version |-> provider.version + 1, enabled |-> TRUE, groupsClaim |-> groupsClaim]
    /\ unflushed' = TRUE
    /\ UNCHANGED <<oidcCache, loginStates, started, link, disabled, idp, membership, callback,
                   moves, oidcSessions, overlapped>>
DeleteOIDCProvider ==
    /\ provider.enabled
    /\ provider' = [provider EXCEPT !.enabled = FALSE]
    /\ unflushed' = TRUE
    /\ UNCHANGED <<oidcCache, loginStates, started, link, disabled, idp, membership, callback,
                   moves, oidcSessions, overlapped>>
InvalidateOIDCVerifier ==
    /\ unflushed /\ unflushed' = FALSE
    /\ oidcCache' = 0
    /\ UNCHANGED <<provider, loginStates, started, link, disabled, idp, membership, callback,
                   moves, oidcSessions, overlapped>>

----------------------------------------------------------------------------
(* A login.                                                                *)

\* StartOIDCLogin: a login state, which the browser keeps as a cookie.
StartOIDCLogin ==
    /\ provider.enabled /\ started < MaxStates
    /\ started' = started + 1 /\ loginStates' = loginStates \cup {started + 1}
    /\ UNCHANGED <<provider, oidcCache, unflushed, link, disabled, idp, membership, callback,
                   moves, oidcSessions, overlapped>>

\* Mutant of Consume: the state row stays.
ConsumeKeeps(state) == loginStates' = loginStates
\* Consume: DELETE ... RETURNING of an unexpired state.
Consume(state) == loginStates' = loginStates \ {state}

\* handleOIDCCallback, once the cookie matches the state: the code stands for what the
\* provider says of the subject.
OIDCCallback(c, state, s) ==
    /\ At(c, "idle")
    /\ Consume(state)
    /\ callback' = [callback EXCEPT ![c] = [IdleCallback EXCEPT !.pc = "provider", !.state = state,
                                               !.subject = s, !.claims = idp[s]]]
    /\ UNCHANGED <<provider, oidcCache, unflushed, started, link, disabled, idp, membership,
                   moves, oidcSessions, overlapped>>
StateExpires(state) ==
    /\ loginStates' = loginStates \ {state}
    /\ UNCHANGED <<provider, oidcCache, unflushed, started, link, disabled, idp, membership,
                   callback, moves, oidcSessions, overlapped>>

\* oidcVerifierFor: the row is read, and then, under the lock, the cached verifier is
\* taken or one is built from that row. The cache is compared by issuer and client id
\* alone, which every version here shares.
ReadProvider(c) ==
    /\ At(c, "provider")
    /\ callback' = [callback EXCEPT ![c] =
           IF provider.enabled THEN [@ EXCEPT !.pc = "exchange", !.row = provider.version]
                               ELSE IdleCallback]
    /\ UNCHANGED <<provider, oidcCache, unflushed, loginStates, started, link, disabled, idp,
                   membership, moves, oidcSessions, overlapped>>

\* Exchange and Verify, which fail with a client secret that is no longer the one set;
\* then the groups claim of the row as it is now: absent, known or deferred.
VerifyOIDCCallback(c) ==
    LET used == IF oidcCache # 0 THEN oidcCache ELSE callback[c].row
    IN  /\ At(c, "exchange")
        /\ oidcCache' = used
        /\ callback' = [callback EXCEPT ![c] =
               IF used = provider.version /\ provider.enabled
                 THEN [@ EXCEPT !.pc = "resolve",
                                !.claims.known = callback[c].claims.known /\ provider.groupsClaim]
                 ELSE IdleCallback]
        /\ UNCHANGED <<provider, unflushed, loginStates, started, link, disabled, idp, membership,
                       moves, oidcSessions, overlapped>>

\* resolveOIDCLogin: by the link of the subject, and only without one by the e-mail,
\* if it is verified and an account has it.
Resolve(c) == IF link[callback[c].subject] # Unlinked THEN link[callback[c].subject]
                                                      ELSE callback[c].claims.email
ResolveOIDCLogin(c) ==
    LET u == Resolve(c)
    IN  /\ At(c, "resolve")
        /\ callback' = [callback EXCEPT ![c] =
               IF u \in disabled \cup {Unlinked} THEN IdleCallback
               ELSE [@ EXCEPT !.user = u,
                        !.pc = IF link[callback[c].subject] = Unlinked THEN "link" ELSE "sync"]]
        /\ UNCHANGED <<provider, oidcCache, unflushed, loginStates, started, link, disabled, idp,
                       membership, moves, oidcSessions, overlapped>>

\* oidcIdentities.Create: UNIQUE (issuer, subject); the second of two first logins fails.
CreateLink(c) ==
    /\ At(c, "link")
    /\ IF link[callback[c].subject] = Unlinked
         THEN /\ link' = [link EXCEPT ![callback[c].subject] = callback[c].user]
              /\ callback' = [callback EXCEPT ![c].pc = "sync"]
         ELSE Done(c) /\ UNCHANGED link
    /\ UNCHANGED <<provider, oidcCache, unflushed, loginStates, started, disabled, idp,
                   membership, moves, oidcSessions, overlapped>>

\* SyncOIDCMembership is one READ COMMITTED transaction: the DELETE takes the rows it
\* sees, and what another transaction inserts before both commit is not among them.
Removes(c) == membership[callback[c].user] \ callback[c].claims.groups
SyncDelete(c) ==
    /\ At(c, "sync")
    /\ callback' = [callback EXCEPT ![c].pc = IF callback[c].claims.known THEN "commit" ELSE "mint",
                                    ![c].removes = Removes(c)]
    /\ overlapped' = IF callback[c].claims.known
                        /\ \E d \in Callbacks : At(d, "commit") /\ callback[d].user = callback[c].user
                       THEN overlapped \cup {callback[c].user} ELSE overlapped
    /\ UNCHANGED <<provider, oidcCache, unflushed, loginStates, started, link, disabled, idp,
                   membership, moves, oidcSessions>>
\* Mutant of Committed: the memberships of before stay.
CommittedAddsOnly(c) == membership[callback[c].user] \cup callback[c].claims.groups
Committed(c) == (membership[callback[c].user] \ callback[c].removes) \cup callback[c].claims.groups
SyncCommit(c) ==
    /\ At(c, "commit")
    /\ membership' = [membership EXCEPT ![callback[c].user] = Committed(c)]
    /\ callback' = [callback EXCEPT ![c].pc = "mint"]
    /\ UNCHANGED <<provider, oidcCache, unflushed, loginStates, started, link, disabled, idp,
                   moves, oidcSessions, overlapped>>

OIDCMint(c) ==
    /\ At(c, "mint")
    /\ oidcSessions' = oidcSessions \cup
           {[state |-> callback[c].state, call |-> c, subject |-> callback[c].subject,
             user |-> callback[c].user]}
    /\ Done(c)
    /\ UNCHANGED <<provider, oidcCache, unflushed, loginStates, started, link, disabled, idp,
                   membership, moves, overlapped>>

----------------------------------------------------------------------------
(* Around it.                                                              *)

\* The provider moves an address to another subject, withdraws one, or changes a subject's groups;
\* beyond some number it defers the claim.
IdPMovesEmail(s, t) ==
    /\ s # t /\ Move
    /\ idp' = [idp EXCEPT ![s].email = idp[t].email, ![t].email = idp[s].email]
    /\ UNCHANGED <<provider, oidcCache, unflushed, loginStates, started, link, disabled,
                   membership, callback, oidcSessions, overlapped>>
IdPDropsEmail(s) ==
    /\ idp[s].email # Unlinked /\ Move
    /\ idp' = [idp EXCEPT ![s].email = Unlinked]
    /\ UNCHANGED <<provider, oidcCache, unflushed, loginStates, started, link, disabled,
                   membership, callback, oidcSessions, overlapped>>
IdPChangesGroups(s, groups, known) ==
    /\ Move /\ (groups # idp[s].groups \/ known # idp[s].known)
    /\ idp' = [idp EXCEPT ![s].groups = groups, ![s].known = known]
    /\ UNCHANGED <<provider, oidcCache, unflushed, loginStates, started, link, disabled,
                   membership, callback, oidcSessions, overlapped>>
DisableAccount(u) ==
    /\ u \notin disabled /\ Move
    /\ disabled' = disabled \cup {u}
    /\ UNCHANGED <<provider, oidcCache, unflushed, loginStates, started, link, idp,
                   membership, callback, oidcSessions, overlapped>>

OIDCNext ==
    \/ \E groupsClaim \in BOOLEAN : SetOIDCProvider(groupsClaim)
    \/ DeleteOIDCProvider \/ InvalidateOIDCVerifier \/ StartOIDCLogin
    \/ \E state \in loginStates :
        \/ StateExpires(state)
        \/ \E c \in Callbacks, s \in Subjects : OIDCCallback(c, state, s)
    \/ \E c \in Callbacks : \/ ReadProvider(c) \/ VerifyOIDCCallback(c) \/ ResolveOIDCLogin(c)
                            \/ CreateLink(c) \/ SyncDelete(c) \/ SyncCommit(c) \/ OIDCMint(c)
    \/ \E s, t \in Subjects : IdPMovesEmail(s, t)
    \/ \E s \in Subjects : IdPDropsEmail(s)
    \/ \E s \in Subjects, groups \in SUBSET OIDCGroups, known \in BOOLEAN : IdPChangesGroups(s, groups, known)
    \/ \E u \in OIDCUsers : DisableAccount(u)

OIDCSpec == OIDCInit /\ [][OIDCNext]_oidcVars

----------------------------------------------------------------------------
(* Properties.                                                             *)

\* One login state opens at most one session, even if its callback arrives twice
\* (store/oidc.go: Consume).
StateOpensOneSession ==
    \A p, q \in oidcSessions : p.state = q.state => p = q

\* A subject of the provider opens one account for good: the one its first login was
\* linked to, though the provider later gives its address to someone else and though
\* first logins overlap (auth/oidc.go: resolveOIDCLogin).
SubjectOpensOneAccount ==
    \A p, q \in oidcSessions : p.subject = q.subject => p.user = q.user

\* The same for every account whose replacements never overlapped: a stale group goes
\* with the next login, and a deferred claim takes none.
MembershipFollowsTheClaim ==
    [][\A c \in Callbacks : At(c, "commit") /\ callback'[c].pc = "mint" =>
           \/ callback[c].user \in overlapped
           \/ membership'[callback[c].user] = callback[c].claims.groups]_oidcVars

\* A login state opens one session and a subject leads to one account.
LoginOpensOnce == StateOpensOneSession /\ SubjectOpensOneAccount

=============================================================================
