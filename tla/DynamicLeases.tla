--------------------------- MODULE DynamicLeases ---------------------------
(***************************************************************************)
(* Dynamic Postgres credentials of one role: the dynamic_leases rows, the  *)
(* database roles they stand for in the target database, and the calls     *)
(* that act on both: IssueCreds, RenewLease, RevokeLease, DeleteRole and   *)
(* the lease manager's RunDue (the scheduler's tick, and the sweep started *)
(* by every unseal).                                                       *)
(*                                                                         *)
(* A row and a database role live in two systems, so every call is several *)
(* steps and any of them can be the last one (a cancelled request, a       *)
(* database error, a crash). The rows' id is the database role's name.     *)
(***************************************************************************)
EXTENDS Naturals, FiniteSets

CONSTANTS
    Leases,        \* lease ids that may be issued
    Requests,      \* concurrent API requests
    Passes,        \* concurrent passes of the lease manager: the scheduler's
                   \* goroutine, and the detached sweep after an unseal
    TTLs,          \* the TTLs a role may be given, as default or as maximum
    Grace,         \* creatingGrace
    BatchLimit,    \* defaultBatch, leases claimed per pass
    Broken,        \* leases whose revocation statements always fail
    MaxTime,       \* bound on the clock
    MaxFaults      \* bound on seals, crashes and deletions from outside

ASSUME LeaseAssumption ==
    /\ TTLs \subseteq Nat \ {0} /\ TTLs # {}
    /\ Requests \cap Passes = {}
    /\ Grace \in Nat /\ BatchLimit \in Nat \ {0}
    /\ Broken \subseteq Leases
    /\ MaxTime \in Nat /\ MaxFaults \in Nat

Calls == Requests \cup Passes

VARIABLES
    now,           \* the clock
    ttl, maxTTL,   \* the role's default_ttl_seconds and max_ttl_seconds
    roleLive,      \* the dynamic_roles row exists
    projLive,      \* the project is not soft-deleted
    sealed,        \* the keyring is sealed
    faults,        \* faults so far
    lease,         \* dynamic_leases: lease -> [st, exp, max, created]
    dbRole,        \* target database: lease -> VALID UNTIL, 0 when no such role
    call,          \* the local state of each call
    overtaken,     \* history: leases whose DROP ROLE ran in another call while
                   \* their IssueCreds had yet to run CREATE ROLE
    cascaded       \* history: unfinished leases deleted with their role row

vars == <<now, ttl, maxTTL, roleLive, projLive, sealed, faults, lease, dbRole, call,
          overtaken, cascaded>>

NoLease == "none"
Idle == [op |-> "idle", pc |-> "idle", cur |-> NoLease, todo |-> {}, exp |-> 0]

Terminal == {"revoked", "expired"}
Open == {"creating", "active", "revoke_failed"}
Statuses == {"absent", "deleted"} \cup Open \cup Terminal

\* A role has just been created; nothing is issued.
Init ==
    /\ now = 1
    /\ ttl \in TTLs /\ maxTTL \in TTLs /\ ttl <= maxTTL
    /\ roleLive = TRUE /\ projLive = TRUE /\ sealed = FALSE /\ faults = 0
    /\ lease = [l \in Leases |-> [st |-> "absent", exp |-> 0, max |-> 0, created |-> 0]]
    /\ dbRole = [l \in Leases |-> 0]
    /\ call = [c \in Calls |-> Idle]
    /\ overtaken = {} /\ cascaded = {}

----------------------------------------------------------------------------
(* The statements on dynamic_leases.                                       *)

\* Leases whose IssueCreds has reserved the row and not yet run CREATE ROLE.
Applying == {l \in Leases : \E c \in Calls : call[c].pc = "apply" /\ call[c].cur = l}

\* DynamicLeaseRepo.Create: a row in status creating.
CreateLease(l) ==
    lease' = [lease EXCEPT ![l] = [st |-> "creating", exp |-> now + ttl,
                                   max |-> now + maxTTL, created |-> now]]

\* MarkRevoked: unguarded on the current status; no effect on a deleted row.
MarkRevoked(l, terminal) ==
    lease' = IF lease[l].st = "deleted" THEN lease
             ELSE [lease EXCEPT ![l].st = terminal]

\* Mutant of MarkRevokeFailed: the failed revocation finishes the lease.
MarkRevokeFailedFinishes(l) ==
    lease' = IF lease[l].st = "deleted" THEN lease
             ELSE [lease EXCEPT ![l].st = "revoked"]

\* MarkRevokeFailed: unguarded as well.
MarkRevokeFailed(l) ==
    lease' = IF lease[l].st = "deleted" THEN lease
             ELSE [lease EXCEPT ![l].st = "revoke_failed"]

\* ClaimDue: what the lease manager must act on, soonest expiry first, at most
\* BatchLimit of them (ties are broken either way).
Due == {l \in Leases :
          \/ lease[l].st = "active" /\ lease[l].exp <= now
          \/ lease[l].st = "revoke_failed"
          \/ lease[l].st = "creating" /\ lease[l].created + Grace <= now}
ClaimDue == {B \in SUBSET Due :
               /\ Cardinality(B) = IF Cardinality(Due) <= BatchLimit
                                   THEN Cardinality(Due) ELSE BatchLimit
               /\ \A l \in B, m \in Due \ B : lease[l].exp <= lease[m].exp}

\* Deleting the role row deletes its leases with it (ON DELETE CASCADE).
CascadeDelete ==
    /\ roleLive' = FALSE
    /\ lease' = [l \in Leases |-> IF lease[l].st = "absent" THEN lease[l]
                                  ELSE [lease[l] EXCEPT !.st = "deleted"]]
    /\ cascaded' = cascaded \cup {l \in Leases : lease[l].st \in Open}

----------------------------------------------------------------------------
(* IssueCreds: reserve, apply, commit.                                     *)

\* The reads, then the reservation; the insert needs the role row (foreign key).
BeginIssue(c) ==
    /\ call[c].op = "idle"
    /\ ~sealed /\ roleLive /\ projLive
    /\ \E l \in Leases :
         /\ lease[l].st = "absent"
         /\ CreateLease(l)
         /\ call' = [call EXCEPT ![c] = [op |-> "issue", pc |-> "apply", cur |-> l,
                                         todo |-> {}, exp |-> now + ttl]]
    /\ UNCHANGED <<now, ttl, maxTTL, roleLive, projLive, sealed, faults, dbRole, overtaken, cascaded>>

\* CREATE ROLE succeeds.
ApplyOK(c) ==
    /\ call[c].op = "issue" /\ call[c].pc = "apply"
    /\ dbRole' = [dbRole EXCEPT ![call[c].cur] = call[c].exp]
    /\ call' = [call EXCEPT ![c].pc = "activate"]
    /\ UNCHANGED <<now, ttl, maxTTL, roleLive, projLive, sealed, faults, lease, overtaken, cascaded>>

\* CREATE ROLE returns an error: the role may exist nevertheless (a later
\* statement failed, or the answer was lost). The cleanup revoke follows.
ApplyError(c) ==
    /\ call[c].op = "issue" /\ call[c].pc = "apply"
    /\ dbRole' \in {dbRole, [dbRole EXCEPT ![call[c].cur] = call[c].exp]}
    /\ call' = [call EXCEPT ![c].pc = "load"]
    /\ UNCHANGED <<now, ttl, maxTTL, roleLive, projLive, sealed, faults, lease, overtaken, cascaded>>

\* Mutant of Activate: the flip is not conditional on status = 'creating'.
ActivateUnguarded(c) ==
    /\ call[c].op = "issue" /\ call[c].pc = "activate"
    /\ lease' = IF lease[call[c].cur].st # "deleted"
                THEN [lease EXCEPT ![call[c].cur].st = "active"] ELSE lease
    /\ call' = [call EXCEPT ![c] = Idle]
    /\ UNCHANGED <<now, ttl, maxTTL, roleLive, projLive, sealed, faults, dbRole, overtaken, cascaded>>

\* Activate flips a row that is still creating; otherwise the call fails.
Activate(c) ==
    /\ call[c].op = "issue" /\ call[c].pc = "activate"
    /\ lease' = IF lease[call[c].cur].st = "creating"
                THEN [lease EXCEPT ![call[c].cur].st = "active"] ELSE lease
    /\ call' = [call EXCEPT ![c] = Idle]
    /\ UNCHANGED <<now, ttl, maxTTL, roleLive, projLive, sealed, faults, dbRole, overtaken, cascaded>>

----------------------------------------------------------------------------
(* revoke(lease, terminal), shared by four operations.                     *)

\* A pass ends a lease as expired, everybody else as revoked.
TerminalFor(op) == IF op = "rundue" THEN "expired" ELSE "revoked"

\* What the caller of revoke does with its result: a pass goes on whatever
\* happened, DeleteRole stops at the first error, the others return.
AfterRevoke(c, ok) ==
    call' = [call EXCEPT ![c] =
        IF call[c].op = "rundue" \/ (call[c].op = "delete" /\ ok)
        THEN [call[c] EXCEPT !.pc = "next", !.cur = NoLease] ELSE Idle]

\* Role, project and decrypted config; any of them missing ends the revocation
\* without a trace on the row.
LoadConfig(c) ==
    /\ call[c].pc = "load"
    /\ IF roleLive /\ projLive /\ ~sealed
       THEN call' = [call EXCEPT ![c].pc = "drop"]
       ELSE AfterRevoke(c, FALSE)
    /\ UNCHANGED <<now, ttl, maxTTL, roleLive, projLive, sealed, faults, lease, dbRole,
                   overtaken, cascaded>>

\* DROP ROLE IF EXISTS.
DropOK(c) ==
    /\ call[c].pc = "drop" /\ call[c].cur \notin Broken
    /\ dbRole' = [dbRole EXCEPT ![call[c].cur] = 0]
    /\ overtaken' = overtaken \cup (Applying \cap {call[c].cur})
    /\ call' = [call EXCEPT ![c].pc = "mark"]
    /\ UNCHANGED <<now, ttl, maxTTL, roleLive, projLive, sealed, faults, lease, cascaded>>

\* The statement fails, or its answer is lost: revoke_failed, retried by the
\* lease manager.
DropError(c) ==
    /\ call[c].pc = "drop"
    /\ dbRole' \in {dbRole} \cup (IF call[c].cur \in Broken THEN {}
                                  ELSE {[dbRole EXCEPT ![call[c].cur] = 0]})
    /\ MarkRevokeFailed(call[c].cur)
    /\ AfterRevoke(c, FALSE)
    /\ UNCHANGED <<now, ttl, maxTTL, roleLive, projLive, sealed, faults, overtaken, cascaded>>

Mark(c) ==
    /\ call[c].pc = "mark"
    /\ MarkRevoked(call[c].cur, TerminalFor(call[c].op))
    /\ AfterRevoke(c, lease[call[c].cur].st # "deleted")
    /\ UNCHANGED <<now, ttl, maxTTL, roleLive, projLive, sealed, faults, dbRole,
                   overtaken, cascaded>>

\* RevokeLease: nothing to do for a finished lease.
BeginRevoke(c) ==
    /\ call[c].op = "idle" /\ ~sealed
    /\ \E l \in Leases :
         /\ lease[l].st \in Open
         /\ call' = [call EXCEPT ![c] = [op |-> "revoke", pc |-> "load", cur |-> l,
                                         todo |-> {}, exp |-> 0]]
    /\ UNCHANGED <<now, ttl, maxTTL, roleLive, projLive, sealed, faults, lease, dbRole,
                   overtaken, cascaded>>

\* RunDue: one claim, then one revocation after the other. The claimed rows are
\* not looked at again.
RunDue(c) ==
    /\ call[c].op = "idle" /\ ~sealed
    /\ Due # {}
    /\ \E B \in ClaimDue :
         call' = [call EXCEPT ![c] = [op |-> "rundue", pc |-> "next", cur |-> NoLease,
                                      todo |-> B, exp |-> 0]]
    /\ UNCHANGED <<now, ttl, maxTTL, roleLive, projLive, sealed, faults, lease, dbRole,
                   overtaken, cascaded>>

\* DeleteRole lists the role's leases once and revokes the open ones.
BeginDeleteRole(c) ==
    /\ call[c].op = "idle" /\ ~sealed /\ roleLive
    /\ call' = [call EXCEPT ![c] = [op |-> "delete", pc |-> "next", cur |-> NoLease,
                                    todo |-> {l \in Leases : lease[l].st \in Open},
                                    exp |-> 0]]
    /\ UNCHANGED <<now, ttl, maxTTL, roleLive, projLive, sealed, faults, lease, dbRole,
                   overtaken, cascaded>>

\* The loop of RunDue and DeleteRole.
NextLease(c) ==
    /\ call[c].pc = "next" /\ call[c].todo # {}
    /\ \E l \in call[c].todo :
         call' = [call EXCEPT ![c].cur = l, ![c].todo = @ \ {l}, ![c].pc = "load"]
    /\ UNCHANGED <<now, ttl, maxTTL, roleLive, projLive, sealed, faults, lease, dbRole,
                   overtaken, cascaded>>

EndOfPass(c) ==
    /\ call[c].op = "rundue" /\ call[c].pc = "next" /\ call[c].todo = {}
    /\ call' = [call EXCEPT ![c] = Idle]
    /\ UNCHANGED <<now, ttl, maxTTL, roleLive, projLive, sealed, faults, lease, dbRole,
                   overtaken, cascaded>>

DeleteRoleRow(c) ==
    /\ call[c].op = "delete" /\ call[c].pc = "next" /\ call[c].todo = {}
    /\ IF roleLive THEN CascadeDelete ELSE UNCHANGED <<roleLive, lease, cascaded>>
    /\ call' = [call EXCEPT ![c] = Idle]
    /\ UNCHANGED <<now, ttl, maxTTL, projLive, sealed, faults, dbRole, overtaken>>

----------------------------------------------------------------------------
(* RenewLease.                                                             *)

\* Mutant of NewExpiry: the ceiling set at issue time is forgotten.
NewExpiryUncapped(l) == IF now + ttl < lease[l].exp THEN lease[l].exp ELSE now + ttl

\* Never before the expiry that was read, never past the ceiling.
NewExpiry(l) ==
    LET extended == IF now + ttl < lease[l].exp THEN lease[l].exp ELSE now + ttl
    IN  IF extended > lease[l].max THEN lease[l].max ELSE extended

\* The reads and the new expiry. An expired lease may be renewed until the
\* lease manager has finished it.
BeginRenew(c) ==
    /\ call[c].op = "idle" /\ ~sealed /\ roleLive /\ projLive
    /\ \E l \in Leases :
         /\ lease[l].st = "active"
         /\ call' = [call EXCEPT ![c] = [op |-> "renew", pc |-> "alter", cur |-> l,
                                         todo |-> {}, exp |-> NewExpiry(l)]]
    /\ UNCHANGED <<now, ttl, maxTTL, roleLive, projLive, sealed, faults, lease, dbRole,
                   overtaken, cascaded>>

\* ALTER ROLE ... VALID UNTIL, an error when the role is gone.
AlterRole(c) ==
    /\ call[c].op = "renew" /\ call[c].pc = "alter"
    /\ IF dbRole[call[c].cur] # 0
       THEN /\ dbRole' = [dbRole EXCEPT ![call[c].cur] = call[c].exp]
            /\ call' = [call EXCEPT ![c].pc = "renew"]
       ELSE /\ call' = [call EXCEPT ![c] = Idle]
            /\ UNCHANGED dbRole
    /\ UNCHANGED <<now, ttl, maxTTL, roleLive, projLive, sealed, faults, lease, overtaken, cascaded>>

\* DynamicLeaseRepo.Renew: only an active row takes the new expiry.
CommitRenew(c) ==
    /\ call[c].op = "renew" /\ call[c].pc = "renew"
    /\ lease' = IF lease[call[c].cur].st = "active"
                THEN [lease EXCEPT ![call[c].cur].exp = call[c].exp] ELSE lease
    /\ call' = [call EXCEPT ![c] = Idle]
    /\ UNCHANGED <<now, ttl, maxTTL, roleLive, projLive, sealed, faults, dbRole, overtaken, cascaded>>

----------------------------------------------------------------------------
(* What happens around the calls.                                          *)

\* UpdateRole may change the TTLs; the table's CHECKs keep 0 < default <= max.
UpdateRole(t, m) ==
    /\ roleLive /\ t <= m /\ <<t, m>> # <<ttl, maxTTL>>
    /\ ttl' = t /\ maxTTL' = m
    /\ UNCHANGED <<now, roleLive, projLive, sealed, faults, lease, dbRole, call,
                   overtaken, cascaded>>

\* Destroying the config or the project takes the role and its leases along.
DestroyConfig ==
    /\ roleLive /\ faults < MaxFaults
    /\ CascadeDelete
    /\ faults' = faults + 1
    /\ UNCHANGED <<now, ttl, maxTTL, projLive, sealed, dbRole, call, overtaken>>

\* A call's context is cancelled, or a statement on Janus's own database fails:
\* the call ends where it is.
Abandon(c) ==
    /\ call[c].op # "idle" /\ faults < MaxFaults
    /\ call' = [call EXCEPT ![c] = Idle]
    /\ faults' = faults + 1
    /\ UNCHANGED <<now, ttl, maxTTL, roleLive, projLive, sealed, lease, dbRole, overtaken, cascaded>>

\* The process dies; it comes back sealed.
Crash ==
    /\ faults < MaxFaults
    /\ call' = [c \in Calls |-> Idle]
    /\ sealed' = TRUE
    /\ faults' = faults + 1
    /\ UNCHANGED <<now, ttl, maxTTL, roleLive, projLive, lease, dbRole, overtaken, cascaded>>

Seal ==
    /\ ~sealed /\ faults < MaxFaults
    /\ sealed' = TRUE
    /\ faults' = faults + 1
    /\ UNCHANGED <<now, ttl, maxTTL, roleLive, projLive, lease, dbRole, call, overtaken, cascaded>>

\* Unsealing also starts SweepOrphanedLeases; RunDue is always possible then.
Unseal ==
    /\ sealed
    /\ sealed' = FALSE
    /\ UNCHANGED <<now, ttl, maxTTL, roleLive, projLive, faults, lease, dbRole, call,
                   overtaken, cascaded>>

SoftDeleteProject ==
    /\ projLive /\ faults < MaxFaults
    /\ projLive' = FALSE
    /\ faults' = faults + 1
    /\ UNCHANGED <<now, ttl, maxTTL, roleLive, sealed, lease, dbRole, call, overtaken, cascaded>>

RestoreProject ==
    /\ ~projLive
    /\ projLive' = TRUE
    /\ UNCHANGED <<now, ttl, maxTTL, roleLive, sealed, faults, lease, dbRole, call,
                   overtaken, cascaded>>

Tick ==
    /\ now < MaxTime
    /\ now' = now + 1
    /\ UNCHANGED <<ttl, maxTTL, roleLive, projLive, sealed, faults, lease, dbRole, call,
                   overtaken, cascaded>>

----------------------------------------------------------------------------
IssueStep(c) == ApplyOK(c) \/ ApplyError(c) \/ Activate(c)
RevokeStep(c) == \/ LoadConfig(c) \/ DropOK(c) \/ DropError(c) \/ Mark(c)
                 \/ NextLease(c) \/ EndOfPass(c) \/ DeleteRoleRow(c)
RenewStep(c) == AlterRole(c) \/ CommitRenew(c)
BeginCall(c) == BeginIssue(c) \/ BeginRevoke(c) \/ BeginDeleteRole(c) \/ BeginRenew(c)

Next ==
    \/ \E c \in Requests : BeginCall(c)
    \/ \E p \in Passes : RunDue(p)
    \/ \E c \in Calls : IssueStep(c) \/ RevokeStep(c) \/ RenewStep(c) \/ Abandon(c)
    \/ \E t, m \in TTLs : UpdateRole(t, m)
    \/ DestroyConfig \/ Crash \/ Seal \/ Unseal
    \/ SoftDeleteProject \/ RestoreProject \/ Tick

Spec == Init /\ [][Next]_vars

\* Mutant of PassFairness: the scheduler is disabled (JANUS_DYNAMIC_TICK=0).
PassFairnessDisabled(p) == WF_vars(RevokeStep(p))

\* The scheduler ticks, and its pass runs to its end.
PassFairness(p) == WF_vars(RunDue(p)) /\ WF_vars(RevokeStep(p))

\* Time passes, somebody unseals, a running request makes progress, and a
\* revocation tried again and again succeeds at last, unless it is broken for
\* good. Nobody has to renew, to restore a project or to call anything.
Fairness ==
    /\ WF_vars(Tick) /\ WF_vars(Unseal)
    /\ \A p \in Passes : PassFairness(p)
    /\ \A c \in Requests : WF_vars(IssueStep(c) \/ RevokeStep(c) \/ RenewStep(c))
    /\ \A p \in Passes, l \in Leases : SF_vars(call[p].cur = l /\ DropOK(p))

FairSpec == Spec /\ Fairness

----------------------------------------------------------------------------
(* Properties.                                                             *)

LeaseState == [st : Statuses, exp : Nat, max : Nat, created : Nat]
CallState == [op : {"idle", "issue", "revoke", "rundue", "delete", "renew"},
              pc : {"idle", "apply", "activate", "load", "drop", "mark", "next",
                    "alter", "renew"},
              cur : Leases \cup {NoLease}, todo : SUBSET Leases, exp : Nat]

\* Every variable has its type; a row's status is one the table's CHECK allows.
TypeOK ==
    /\ now \in Nat
    /\ ttl \in TTLs /\ maxTTL \in TTLs /\ ttl <= maxTTL
    /\ {roleLive, projLive, sealed} \subseteq BOOLEAN
    /\ faults \in 0 .. MaxFaults
    /\ lease \in [Leases -> LeaseState]
    /\ dbRole \in [Leases -> Nat]
    /\ call \in [Calls -> CallState]
    /\ overtaken \subseteq Leases /\ cascaded \subseteq Leases

\* A live database role is always one the lease manager can still find: its row
\* is creating, active or revoke_failed. The only exceptions are the two races
\* the history variables record: a revocation that ran its DROP ROLE before the
\* lease's own IssueCreds ran CREATE ROLE, and an open row deleted with its role.
LiveRoleIsTracked ==
    \A l \in Leases : dbRole[l] # 0 =>
        lease[l].st \in Open \/ l \in overtaken \/ l \in cascaded

\* A finished lease is never revived: no late Activate, no late Renew.
FinishedStaysFinished ==
    [][\A l \in Leases : lease[l].st \in Terminal =>
          /\ lease'[l].st \notin {"creating", "active"}
          /\ lease'[l].exp = lease[l].exp]_vars

\* However renewals, role updates and the clock interleave, neither the row nor
\* the VALID UNTIL of the database role goes past the ceiling fixed at issue.
NeverPastCeiling ==
    \A l \in Leases : lease[l].st # "absent" =>
        lease[l].exp <= lease[l].max /\ dbRole[l] <= lease[l].max

\* The lease is due and unfinished; it is off the manager's hands.
Overdue(l) == lease[l].st \in {"active", "revoke_failed"} /\ lease[l].exp <= now
Settled(l) == lease[l].st \notin {"active", "revoke_failed"} \/ lease[l].exp > now

\* Every lease that has run out is finished or deleted in the end, or it is
\* renewed, or its project is soft-deleted: crashes, seals, abandoned calls and
\* failed revocations only delay it, and so does a lease that can never be
\* revoked, as long as a batch has room for both.
DueIsRevoked == \A l \in Leases \ Broken : Overdue(l) ~> (Settled(l) \/ ~projLive)

=============================================================================
