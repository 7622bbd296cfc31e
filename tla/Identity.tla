------------------------------ MODULE Identity ------------------------------
(***************************************************************************)
(* One account: its password, lockout counters, TOTP factor, recovery      *)
(* codes and sessions, and the requests that read and change them. Every   *)
(* request is a sequence of separate statements on a connection pool, so   *)
(* any other request runs between two of them; only the row it has already *)
(* read stays with it.                                                     *)
(*                                                                         *)
(* A password is the number of the change that set it. A TOTP code is the  *)
(* secret and the 30-second step it belongs to; a recovery code is the     *)
(* number of the set it was issued in, each set being one code.            *)
(***************************************************************************)
EXTENDS Naturals, FiniteSets

CONSTANTS
    AuthCalls,        \* concurrent requests
    Cookies,          \* enough session cookies
    LockoutThreshold, \* LockoutPolicy.Threshold
    MaxFailures,      \* bound on the failures recorded since a reset
    MaxPasswords,     \* bound on passwords set
    MaxSecrets,       \* bound on TOTP secrets, and on recovery-code sets
    MaxStep,          \* bound on 30-second steps
    IdentityFaults    \* bound on crashes, disablings and console resets

ASSUME IdentityAssumption ==
    /\ LockoutThreshold \in Nat \ {0}
    /\ MaxFailures \in Nat /\ MaxPasswords \in Nat \ {0} /\ MaxSecrets \in Nat \ {0}
    /\ MaxStep \in Nat \ {0} /\ IdentityFaults \in Nat
    /\ "none" \notin Cookies

VARIABLES
    account,        \* the users row
    totp,           \* the user_totp row: secret 0 when there is none
    recovery,       \* the unused rows of user_recovery_codes
    sessions,       \* the sessions rows, by cookie
    step,           \* the current 30-second step
    authCall,           \* the local state of each request
    fresh,          \* the numbers of the next password, TOTP secret and code set
    identityFaults,
    spent,          \* history: codes a second-factor check has accepted
    replayed,       \* history: a code was accepted again by the factor it belongs to
    recorded,       \* history: failures recorded since the counters were last reset
    excusedSessions \* history: sessions a password change could not reach

identityVars == <<account, totp, recovery, sessions, step, authCall, fresh,
                  identityFaults, spent, replayed, recorded, excusedSessions>>
factorVars == <<totp, recovery, spent, replayed>>
lockoutVars == <<account, recorded>>
sessionVars == <<sessions, excusedSessions>>
worldVars == <<step, fresh, identityFaults>>

NoTOTP == [secret |-> 0, active |-> FALSE, last |-> 0]
NoCode == [secret |-> 0, n |-> 0]
NoCookie == "none"
IdleCall == [kind |-> "none", pc |-> "idle", password |-> 0, level |-> 0, code |-> NoCode,
             weak |-> FALSE, read |-> 0, cookie |-> NoCookie, keep |-> NoCookie]

\* The password's hash was made with weaker parameters than this build's.
IdentityInit ==
    /\ account = [password |-> 1, weak |-> TRUE, disabled |-> FALSE, failed |-> 0, level |-> 0, locked |-> 0]
    /\ totp = NoTOTP /\ recovery = {} /\ sessions = {} /\ step = 1
    /\ authCall = [c \in AuthCalls |-> IdleCall]
    /\ fresh = [password |-> 2, secret |-> 1, set |-> 1] /\ identityFaults = 0
    /\ spent = {} /\ replayed = FALSE /\ recorded = 0 /\ excusedSessions = {}

Live == {s.cookie : s \in sessions}
InFlight(c, kinds, pc) == authCall[c].kind \in kinds /\ authCall[c].pc = pc
Goto(c, pc) == authCall' = [authCall EXCEPT ![c].pc = pc]
Return(c) == authCall' = [authCall EXCEPT ![c] = IdleCall]
Misfortune == identityFaults < IdentityFaults /\ identityFaults' = identityFaults + 1

----------------------------------------------------------------------------
(* The statements of store/users.go, sessions.go and totp.go.              *)

ResetFailures == [account EXCEPT !.failed = 0, !.level = 0, !.locked = 0]

\* LockoutPolicy.window: the lock of a level, in units of the base window, capped.
LockWindow(level) == IF level <= 1 THEN 1 ELSE IF level = 2 THEN 5 ELSE 25

\* RecordFailedLogin: one UPDATE over the row's own columns; only the window comes
\* from the row the request had read.
RecordFailedLogin(c) ==
    IF account.failed + 1 >= LockoutThreshold
      THEN [account EXCEPT !.failed = 0, !.level = @ + 1, !.locked = LockWindow(authCall[c].level + 1)]
      ELSE [account EXCEPT !.failed = @ + 1]

\* Mutant of ConsumeTOTPStep: the step is not compared with the last one used.
ConsumeTOTPStepUnchecked(code) == totp.active
\* ConsumeTOTPStep: a compare-and-swap on last_step, of an activated row only.
ConsumeTOTPStep(code) == totp.active /\ totp.last < code.n

\* ConsumeRecoveryCode: the code is among the unused rows.
ConsumeRecoveryCode(code) == code.secret = 0 /\ code.n \in recovery

\* Activate: WHERE activated_at IS NULL.
ActivateTOTP == totp.secret # 0 /\ ~totp.active

\* Mutant of DeleteOthersForUser: no session is kept out, and none is deleted.
DeleteOthersForUserNull(keep) == IF keep = NoCookie THEN sessions ELSE {s \in sessions : s.cookie = keep}
\* DeleteOthersForUser. With no session to keep it deletes every one.
DeleteOthersForUser(keep) == {s \in sessions : s.cookie = keep}

\* VerifyTOTPStep: the code of this secret for a step within one of the current step.
VerifyTOTP(secret, code) ==
    /\ code.secret = secret /\ secret # 0
    /\ code.n + 1 >= step /\ code.n <= step + 1

\* The codes a holder can type: the app's code of the current or the previous step, a
\* recovery code, nothing.
Typed == {NoCode} \cup [secret : {totp.secret} \ {0}, n : {step, step - 1} \ {0}]
                  \cup [secret : {0}, n : recovery]

----------------------------------------------------------------------------
(* Login.                                                                  *)

\* GetByEmail and what Login decides from that row alone. A disabled account, and a
\* locked one, end the request without a trace.
LoginRead(c, password, code) ==
    /\ authCall[c].pc = "idle" /\ ~account.disabled /\ account.locked = 0
    /\ authCall' = [authCall EXCEPT ![c] = [IdleCall EXCEPT !.kind = "login", !.level = account.level,
                    !.password = account.password, !.read = account.failed, !.code = code,
                    !.pc = IF password # account.password THEN "failed"
                           ELSE IF account.weak THEN "rehash" ELSE "status"]]
    /\ UNCHANGED <<lockoutVars, factorVars, sessionVars, worldVars>>

\* A hash of weaker parameters is replaced, best effort, by one of the password that
\* was checked; which puts that password back when it has been changed meanwhile.
LoginRehash(c) ==
    /\ InFlight(c, {"login"}, "rehash")
    /\ \/ /\ account' = [account EXCEPT !.password = authCall[c].password, !.weak = FALSE]
          /\ excusedSessions' = IF account.password = authCall[c].password
                                   THEN excusedSessions ELSE Live
       \/ UNCHANGED <<account, excusedSessions>>
    /\ Goto(c, "status")
    /\ UNCHANGED <<recorded, sessions, factorVars, worldVars>>

\* recordFailure, after a wrong password or a wrong second factor. Best effort.
RecordFailure(c) ==
    /\ InFlight(c, {"login"}, "failed") /\ recorded < MaxFailures
    /\ account' = RecordFailedLogin(c) /\ recorded' = recorded + 1
    /\ Return(c)
    /\ UNCHANGED <<factorVars, sessionVars, worldVars>>

\* TOTPStatus: an activated factor wants a code; without one the answer is
\* totp_required, which counts nothing.
LoginStatus(c) ==
    /\ InFlight(c, {"login"}, "status")
    /\ IF ~totp.active THEN Goto(c, "reset")
       ELSE IF authCall[c].code = NoCode THEN Return(c) ELSE Goto(c, "factor")
    /\ UNCHANGED <<lockoutVars, factorVars, sessionVars, worldVars>>

\* ResetLoginFailures, on full success.
LoginReset(c) ==
    /\ InFlight(c, {"login"}, "reset")
    /\ account' = ResetFailures /\ recorded' = 0
    /\ Goto(c, "mint")
    /\ UNCHANGED <<factorVars, sessionVars, worldVars>>

\* createSession: a random cookie. The session remembers the password that earned it;
\* a login that straddled a change earned it with the old one.
CreateSession(c, cookie) ==
    /\ cookie \notin Live
    /\ sessions' = sessions \cup {[cookie |-> cookie, password |-> authCall[c].password]}
    /\ excusedSessions' = IF authCall[c].password = account.password
                            THEN excusedSessions \ {cookie} ELSE excusedSessions \cup {cookie}
LoginMint(c, cookie) ==
    /\ InFlight(c, {"login"}, "mint")
    /\ CreateSession(c, cookie)
    /\ Return(c)
    /\ UNCHANGED <<lockoutVars, factorVars, worldVars>>

----------------------------------------------------------------------------
(* The second factor: of a login, of disabling it, of new recovery codes.  *)

\* DisableTOTP and RegenerateRecoveryCodes start with verifySecondFactor.
FactorBegin(c, kind, code) ==
    /\ authCall[c].pc = "idle" /\ sessions # {} /\ code # NoCode
    /\ kind \in {"disable", "regenerate"}
    /\ authCall' = [authCall EXCEPT ![c] = [IdleCall EXCEPT !.kind = kind, !.pc = "factor", !.code = code]]
    /\ UNCHANGED <<lockoutVars, factorVars, sessionVars, worldVars>>

\* verifySecondFactor up to the check of the digits: GetTOTP, unwrap, VerifyTOTPStep.
VerifySecondFactor(c) ==
    /\ InFlight(c, {"login", "disable", "regenerate"}, "factor")
    /\ IF ~totp.active THEN Return(c)
       ELSE Goto(c, IF VerifyTOTP(totp.secret, authCall[c].code) THEN "consume" ELSE "recover")
    /\ UNCHANGED <<lockoutVars, factorVars, sessionVars, worldVars>>

\* What follows an accepted and a refused code.
Accepted(kind) == CASE kind = "login" -> "reset" [] kind = "disable" -> "delete"
                    [] kind = "regenerate" -> "codes"
Honour(c, belongs) ==
    /\ spent' = spent \cup {authCall[c].code}
    /\ replayed' = (replayed \/ (authCall[c].code \in spent /\ belongs))
    /\ Goto(c, Accepted(authCall[c].kind))
Refuse(c) ==
    /\ IF authCall[c].kind = "login" THEN Goto(c, "failed") ELSE Return(c)
    /\ UNCHANGED <<spent, replayed>>

ConsumeStep(c) ==
    /\ InFlight(c, {"login", "disable", "regenerate"}, "consume")
    /\ IF ConsumeTOTPStep(authCall[c].code)
         THEN totp' = [totp EXCEPT !.last = authCall[c].code.n]
              /\ Honour(c, authCall[c].code.secret = totp.secret)
         ELSE totp' = totp /\ Refuse(c)
    /\ UNCHANGED <<recovery, lockoutVars, sessionVars, worldVars>>

ConsumeRecovery(c) ==
    /\ InFlight(c, {"login", "disable", "regenerate"}, "recover")
    /\ IF ConsumeRecoveryCode(authCall[c].code)
         THEN recovery' = recovery \ {authCall[c].code.n} /\ Honour(c, TRUE)
         ELSE recovery' = recovery /\ Refuse(c)
    /\ UNCHANGED <<totp, lockoutVars, sessionVars, worldVars>>

\* DeleteTOTP: the factor and its codes, in one transaction.
DeleteTOTP == totp' = NoTOTP /\ recovery' = {}
DisableTOTP(c) ==
    /\ InFlight(c, {"disable"}, "delete")
    /\ DeleteTOTP
    /\ Return(c)
    /\ UNCHANGED <<spent, replayed, lockoutVars, sessionVars, worldVars>>

\* ReplaceRecoveryCodes, for a confirmation and for a regeneration.
ReplaceRecoveryCodes(c) ==
    /\ InFlight(c, {"regenerate", "confirm"}, "codes") /\ fresh.set <= MaxSecrets
    /\ recovery' = {fresh.set} /\ fresh' = [fresh EXCEPT !.set = @ + 1]
    /\ Return(c)
    /\ UNCHANGED <<totp, spent, replayed, lockoutVars, sessionVars, step, identityFaults>>

\* EnrollTOTP: refused by the row it reads, then an unconditional Upsert.
EnrollRead(c) ==
    /\ authCall[c].pc = "idle" /\ sessions # {} /\ ~totp.active /\ fresh.secret <= MaxSecrets
    /\ authCall' = [authCall EXCEPT ![c] = [IdleCall EXCEPT !.kind = "enroll", !.pc = "upsert"]]
    /\ UNCHANGED <<lockoutVars, factorVars, sessionVars, worldVars>>
EnrollUpsert(c) ==
    /\ InFlight(c, {"enroll"}, "upsert") /\ fresh.secret <= MaxSecrets
    /\ totp' = [totp EXCEPT !.secret = fresh.secret, !.active = FALSE]
    /\ fresh' = [fresh EXCEPT !.secret = @ + 1]
    /\ Return(c)
    /\ UNCHANGED <<recovery, spent, replayed, lockoutVars, sessionVars, step, identityFaults>>

\* ConfirmTOTP: the code is checked against the secret it read; Activate confirms
\* whatever secret the row holds by then, and the step is not consumed.
ConfirmRead(c, code) ==
    /\ authCall[c].pc = "idle" /\ sessions # {}
    /\ VerifyTOTP(totp.secret, code)
    /\ authCall' = [authCall EXCEPT ![c] = [IdleCall EXCEPT !.kind = "confirm", !.pc = "activate"]]
    /\ UNCHANGED <<lockoutVars, factorVars, sessionVars, worldVars>>
ConfirmActivate(c) ==
    /\ InFlight(c, {"confirm"}, "activate")
    /\ IF ActivateTOTP THEN totp' = [totp EXCEPT !.active = TRUE] /\ Goto(c, "codes")
                   ELSE totp' = totp /\ Return(c)
    /\ UNCHANGED <<recovery, spent, replayed, lockoutVars, sessionVars, worldVars>>

----------------------------------------------------------------------------
(* Passwords and sessions.                                                 *)

\* ChangePassword: the old password is checked against the row it reads.
ChangeRead(c, password) ==
    /\ authCall[c].pc = "idle" /\ sessions # {} /\ password = account.password
    /\ fresh.password <= MaxPasswords
    /\ authCall' = [authCall EXCEPT ![c] = [IdleCall EXCEPT !.kind = "change", !.pc = "update",
                                                   !.password = fresh.password]]
    /\ fresh' = [fresh EXCEPT !.password = @ + 1]
    /\ UNCHANGED <<lockoutVars, factorVars, sessionVars, step, identityFaults>>
ChangeUpdate(c) ==
    /\ InFlight(c, {"change"}, "update")
    /\ account' = [account EXCEPT !.password = authCall[c].password, !.weak = FALSE]
    /\ Goto(c, "mint")
    /\ UNCHANGED <<recorded, factorVars, sessionVars, worldVars>>
\* A fresh session first, so that the caller is not logged out.
ChangeMint(c, cookie) ==
    /\ InFlight(c, {"change"}, "mint")
    /\ CreateSession(c, cookie)
    /\ authCall' = [authCall EXCEPT ![c].pc = "lookup", ![c].cookie = cookie]
    /\ UNCHANGED <<lockoutVars, factorVars, worldVars>>

\* RevokeOtherSessions, the last step of a change and a request of its own: the
\* session to keep is looked up, and then all others are deleted.
OthersBegin(c, cookie) ==
    /\ authCall[c].pc = "idle" /\ cookie \in Live
    /\ authCall' = [authCall EXCEPT ![c] = [IdleCall EXCEPT !.kind = "others", !.pc = "lookup",
                                                   !.cookie = cookie]]
    /\ UNCHANGED <<lockoutVars, factorVars, sessionVars, worldVars>>
OthersLookup(c) ==
    /\ InFlight(c, {"change", "others"}, "lookup")
    /\ authCall' = [authCall EXCEPT ![c].pc = "revoke",
                    ![c].keep = IF authCall[c].cookie \in Live THEN authCall[c].cookie ELSE NoCookie]
    /\ UNCHANGED <<lockoutVars, factorVars, sessionVars, worldVars>>
OthersRevoke(c) ==
    /\ InFlight(c, {"change", "others"}, "revoke")
    /\ sessions' = DeleteOthersForUser(authCall[c].keep)
    /\ excusedSessions' = excusedSessions \cap {s.cookie : s \in sessions'}
    /\ Return(c)
    /\ UNCHANGED <<lockoutVars, factorVars, worldVars>>

\* A session ends: logout, revocation by its owner, expiry or idleness met by
\* VerifySession, the sweep at boot.
SessionEnds(cookie) ==
    /\ sessions' = {s \in sessions : s.cookie # cookie} /\ sessions' # sessions
    /\ excusedSessions' = excusedSessions \ {cookie}
    /\ UNCHANGED <<authCall, lockoutVars, factorVars, worldVars>>

\* ResetPasswordByEmail at the console: every session is deleted, then the password
\* replaced. A session made in between was earned with the old one.
ResetRevoke(c) ==
    /\ authCall[c].pc = "idle" /\ fresh.password <= MaxPasswords /\ Misfortune
    /\ authCall' = [authCall EXCEPT ![c] = [IdleCall EXCEPT !.kind = "reset", !.pc = "update",
                                !.password = fresh.password, !.read = account.password, !.weak = account.weak]]
    /\ fresh' = [fresh EXCEPT !.password = @ + 1]
    /\ sessions' = DeleteOthersForUser(NoCookie) /\ excusedSessions' = {}
    /\ UNCHANGED <<lockoutVars, factorVars, step>>
ResetUpdate(c) ==
    /\ InFlight(c, {"reset"}, "update")
    /\ account' = [account EXCEPT !.password = authCall[c].password, !.weak = FALSE]
    /\ excusedSessions' = Live
    /\ Goto(c, "audit")
    /\ UNCHANGED <<recorded, sessions, factorVars, worldVars>>
\* The mandatory audit append: when it fails, Undo puts the prior hash back.
ResetAudited(c, clearMFA) ==
    /\ InFlight(c, {"reset"}, "audit")
    /\ IF clearMFA THEN DeleteTOTP ELSE UNCHANGED <<totp, recovery>>
    /\ Return(c)
    /\ UNCHANGED <<spent, replayed, lockoutVars, sessionVars, worldVars>>
ResetUndo(c) ==
    /\ InFlight(c, {"reset"}, "audit")
    /\ account' = [account EXCEPT !.password = authCall[c].read, !.weak = authCall[c].weak]
    /\ excusedSessions' = Live
    /\ Return(c)
    /\ UNCHANGED <<recorded, sessions, factorVars, worldVars>>

----------------------------------------------------------------------------
(* Administration, time and failure.                                       *)

DisableUser ==
    /\ ~account.disabled /\ Misfortune
    /\ account' = [account EXCEPT !.disabled = TRUE]
    /\ UNCHANGED <<authCall, recorded, factorVars, sessionVars, step, fresh>>
AdminUnlock ==
    /\ account' = ResetFailures /\ account' # account /\ recorded' = 0
    /\ UNCHANGED <<authCall, factorVars, sessionVars, worldVars>>
LockExpires ==
    /\ account.locked # 0
    /\ account' = [account EXCEPT !.locked = 0]
    /\ UNCHANGED <<authCall, recorded, factorVars, sessionVars, worldVars>>
NextStep ==
    /\ step < MaxStep /\ step' = step + 1
    /\ UNCHANGED <<authCall, lockoutVars, factorVars, sessionVars, fresh, identityFaults>>

\* A request stops between two statements: the client went away and cancelled its
\* context, a statement failed, the keyring was sealed, the process died. A change
\* that stops after its update leaves the earlier sessions alone.
CallDies(c) ==
    /\ authCall[c].pc # "idle" /\ Misfortune
    /\ excusedSessions' = IF authCall[c].kind = "change" /\ authCall[c].pc # "update"
                             THEN Live ELSE excusedSessions
    /\ Return(c)
    /\ UNCHANGED <<sessions, lockoutVars, factorVars, step, fresh>>

IdentityNext ==
    \/ \E c \in AuthCalls :
        \/ \E code \in Typed : LoginRead(c, account.password, code)
        \/ LoginRead(c, 0, NoCode)
        \/ LoginRehash(c) \/ RecordFailure(c) \/ LoginStatus(c) \/ LoginReset(c)
        \/ \E cookie \in Cookies : LoginMint(c, cookie) \/ ChangeMint(c, cookie)
        \/ \E code \in Typed : \/ \E kind \in {"disable", "regenerate"} : FactorBegin(c, kind, code)
                               \/ ConfirmRead(c, code)
        \/ VerifySecondFactor(c) \/ ConsumeStep(c) \/ ConsumeRecovery(c)
        \/ DisableTOTP(c) \/ ReplaceRecoveryCodes(c)
        \/ EnrollRead(c) \/ EnrollUpsert(c) \/ ConfirmActivate(c)
        \/ ChangeRead(c, account.password) \/ ChangeUpdate(c)
        \/ \E cookie \in Live : OthersBegin(c, cookie)
        \/ OthersLookup(c) \/ OthersRevoke(c)
        \/ ResetRevoke(c) \/ ResetUpdate(c) \/ ResetUndo(c)
        \/ \E clearMFA \in BOOLEAN : ResetAudited(c, clearMFA)
        \/ CallDies(c)
    \/ \E cookie \in Cookies : SessionEnds(cookie)
    \/ DisableUser \/ AdminUnlock \/ LockExpires \/ NextStep

IdentitySpec == IdentityInit /\ [][IdentityNext]_identityVars

----------------------------------------------------------------------------
(* Properties.                                                             *)

\* Every row has a shape the schema admits, and the failure counter stays below the
\* threshold: RecordFailedLogin resets it when it locks (store/users.go).
IdentityTypeOK ==
    /\ account.password \in 1..MaxPasswords /\ {account.weak, account.disabled} \subseteq BOOLEAN
    /\ account.failed < LockoutThreshold /\ account.locked \in {0, 1, 5, 25}
    /\ totp \in [secret : 0..MaxSecrets, active : BOOLEAN, last : 0..MaxStep]
    /\ totp.secret = 0 => totp = NoTOTP
    /\ recovery \subseteq 1..MaxSecrets
    /\ sessions \subseteq [cookie : Cookies, password : 1..MaxPasswords]
    /\ Cardinality(Live) = Cardinality(sessions)

\* A TOTP code is good for one check of the factor it belongs to, and a recovery code
\* for one check at all, however logins, disabling and regeneration overlap: what
\* ConsumeTOTPStep and ConsumeRecoveryCode are compare-and-swaps for.
CodesAreSpentOnce == ~replayed

\* No failed login is lost and none counts twice: the counter and the levels add up
\* to the failures recorded since the last reset, whichever requests recorded them.
NoFailureIsLost == recorded = account.level * LockoutThreshold + account.failed

\* Once a password change has ended, every session left was earned with the password
\* now set; except where a login straddled the change (and may have put the old
\* password back), the change was cut short, or the console replaced the password.
SessionsFollowThePassword ==
    \A s \in sessions :
        \/ s.password = account.password \/ s.cookie \in excusedSessions
        \/ \E c \in AuthCalls : authCall[c].kind = "change" /\ authCall[c].pc \in {"mint", "lookup", "revoke"}

\* Attempts are counted whatever overlaps: a one-time code opens one session, and no failed
\* login goes missing from the count that locks the account.
AttemptsAreCounted == IdentityTypeOK /\ CodesAreSpentOnce /\ NoFailureIsLost

=============================================================================
